--------------------------- MODULE MCCreditLedger ---------------------------
(* CreditLedger for TLC. *)
EXTENDS LedgerAudit, LedgerRefinement, CreditLedgerInv, TLC

CONSTANTS u1, u2, j1, j2, s1, s2, r1

(* One account, two jobs: the settlement races and the monthly cap. *)
OneOwner == (j1 :> u1) @@ (j2 :> u1)

(* Two accounts, one job on the first: transfers against a reservation. *)
FirstOwner == j1 :> u1

ThreeWritesOne == (u1 :> 3) @@ (u2 :> 1)
SixWrites      == u1 :> 6

SessionSymmetry == Permutations(Sessions)
=============================================================================
