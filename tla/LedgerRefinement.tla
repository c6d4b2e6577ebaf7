-------------------------- MODULE LedgerRefinement --------------------------
(***************************************************************************)
(* The racing sessions of CreditLedger implement the atomic Reservations:  *)
(* a job's hold is read off its ledger rows, and every step of a session   *)
(* is one atomic operation or changes nothing.                             *)
(***************************************************************************)
EXTENDS CreditLedger

Booked(j, type) == Find(Owner[j], j, type)

Settled(j, state, type) ==
    LET row == CHOOSE e \in Booked(j, type) : TRUE
    IN  [state |-> state, amount |-> IF row.amount < 0 THEN -row.amount ELSE row.amount]

HoldOf(j) ==
    IF Booked(j, "CAPTURE") # {} THEN Settled(j, "captured", "CAPTURE")
    ELSE IF Booked(j, "RELEASE") # {} THEN Settled(j, "released", "RELEASE")
    ELSE IF Booked(j, "RESERVE") # {} THEN Settled(j, "open", "RESERVE")
    ELSE [state |-> "none", amount |-> 0]

Atomic == INSTANCE Reservations WITH
    funds <- [u \in Users |-> account[u].available],
    hold  <- [j \in Jobs |-> HoldOf(j)]

(* Whatever races, a job's credits leave the balance once and come back    *)
(* exactly once, in one capture or one release, as if operations were      *)
(* serial: the promise in the header of credits/service.                   *)
ImplementsReservations == Atomic!Spec
=============================================================================
