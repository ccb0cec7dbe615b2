-------------------------- MODULE MCServerRuntime --------------------------
(***************************************************************************)
(* Two server processes on one database.  The first budget follows the     *)
(* data (a request, a commit and a restore), the others the TLS files   *)
(* (a rotation; expiries over three starts), each with one or two faults.  *)
(***************************************************************************)
EXTENDS ServerRuntime

NoEvents == [e \in {"starts", "requests", "commits", "restores", "rotations",
                    "expiries", "faults"} |-> 0]
MCBudgets ==
    {[NoEvents EXCEPT !.starts = 2, !.requests = 1, !.commits = 1, !.restores = 1,
                      !.faults = 2],
     [NoEvents EXCEPT !.starts = 2, !.rotations = 1, !.faults = 1],
     [NoEvents EXCEPT !.starts = 3, !.expiries = 2, !.faults = 2]}
=============================================================================
