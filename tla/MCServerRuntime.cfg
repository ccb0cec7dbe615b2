SPECIFICATION Spec
CONSTANTS
    Absent = Absent
    Torn = Torn
    Backup = Backup
    Idle = Idle
    Free = Free
    Stale = Stale
    Operator = Operator
    Servers = {s1, s2}
    Budgets <- MCBudgets
INVARIANTS DatabaseServedAlone RestoreKeepsOriginal ClientsKeepTrust
PROPERTIES StartsAndStopsEnd
CHECK_DEADLOCK FALSE
