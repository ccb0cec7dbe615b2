--------------------------- MODULE MCBuildService ---------------------------
(* Builds that fail and leave nothing, and builds that leave a product.       *)
EXTENDS BuildService

MCOutcomes ==
    {[status |-> "failed", product |-> FALSE, size |-> 0],
     [status |-> "success", product |-> TRUE, size |-> 2]}
=============================================================================
