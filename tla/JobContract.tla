----------------------------- MODULE JobContract -----------------------------
(***************************************************************************)
(* What a submitter may rely on: the credits reserved for a job are settled *)
(* once, in the step that ends the job.  They are billed if it succeeded   *)
(* and given back otherwise, unless an operator ends the job and keeps     *)
(* them; kept credits may still be given back, never billed.               *)
(***************************************************************************)
CONSTANT Jobs
VARIABLE deal
vars == deal

Becomes(j, from, to) == deal[j] \in from /\ deal' = [deal EXCEPT ![j] = to]

Init == deal = [j \in Jobs |-> "none"]

Reserve(j) == Becomes(j, {"none"}, "open")
Bill(j)    == Becomes(j, {"open"}, "billed")
Return(j)  == Becomes(j, {"open", "kept"}, "returned")
Keep(j)    == Becomes(j, {"open"}, "kept")

Next == \E j \in Jobs : Reserve(j) \/ Bill(j) \/ Return(j) \/ Keep(j)

Spec == Init /\ [][Next]_vars
=============================================================================
