---------------------------- MODULE Reservations ----------------------------
(***************************************************************************)
(* What the credit ledger promises its callers, as if every operation were *)
(* atomic (the header of app/domain/credits/service): a job's reservation  *)
(* is taken out of the available balance once and ends in exactly one      *)
(* capture of at most what was held, the rest coming back, or one release  *)
(* of all of it; and no balance goes negative.                             *)
(***************************************************************************)
EXTENDS Integers

CONSTANTS Users, Jobs, Owner

VARIABLES
    funds,   \* available balance of each user
    hold     \* reservation of each job
vars == <<funds, hold>>

Hold == [state: {"none", "open", "captured", "released"}, amount: Nat]

Init ==
    /\ funds = [u \in Users |-> 0]
    /\ hold = [j \in Jobs |-> [state |-> "none", amount |-> 0]]

(* Grants, purchases, corrections and transfers between users. *)
Move ==
    /\ funds' \in [Users -> Nat]
    /\ UNCHANGED hold

Reserve(j) ==
    /\ hold[j].state = "none"
    /\ \E a \in 1..funds[Owner[j]] :
          /\ hold' = [hold EXCEPT ![j] = [state |-> "open", amount |-> a]]
          /\ funds' = [funds EXCEPT ![Owner[j]] = @ - a]

Capture(j) ==
    /\ hold[j].state = "open"
    /\ \E billed \in 0..hold[j].amount :
          /\ hold' = [hold EXCEPT ![j] = [state |-> "captured", amount |-> billed]]
          /\ funds' = [funds EXCEPT ![Owner[j]] = @ + hold[j].amount - billed]

Release(j) ==
    /\ hold[j].state = "open"
    /\ hold' = [hold EXCEPT ![j].state = "released"]
    /\ funds' = [funds EXCEPT ![Owner[j]] = @ + hold[j].amount]

Next == Move \/ \E j \in Jobs : Reserve(j) \/ Capture(j) \/ Release(j)

Spec == Init /\ [][Next]_vars
=============================================================================
