---------------------------- MODULE JobRefinement ----------------------------
(* The job lifecycle implements the contract. *)
EXTENDS JobLifecycle

(* What the stored job and its ledger rows say of the deal.  A combination *)
(* the contract has no word for is "broken", which no contract step leads  *)
(* to.                                                                     *)
DealOf(j) ==
    CASE job[j].status = "NONE" /\ job[j].hold = "none"          -> "none"
      [] Live(j) /\ job[j].hold = "open"                         -> "open"
      [] job[j].status = "SUCCEEDED" /\ job[j].hold = "captured" -> "billed"
      [] Ended(j) /\ job[j].status # "SUCCEEDED"
                  /\ job[j].hold = "released"                    -> "returned"
      [] job[j].code = "ADMIN_TERMINATED" /\ job[j].hold = "open" -> "kept"
      [] OTHER                                                   -> "broken"

Contract == INSTANCE JobContract WITH deal <- [j \in Jobs |-> DealOf(j)]

(* However requests, workers, poller ticks and sweepers interleave, crash  *)
(* and retry, the status and the money of a job move in one step, once,    *)
(* and a job that ended stays as it ended ("a terminal job can never be    *)
(* reopened by a late provider callback").                                 *)
ImplementsContract == Contract!Spec
=============================================================================
