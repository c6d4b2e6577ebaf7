----------------------------- MODULE LedgerAudit -----------------------------
(***************************************************************************)
(* What the ledger adds up to: derive_totals of credits/reconciliation and *)
(* the sums the account columns stand for.                                 *)
(***************************************************************************)
EXTENDS CreditLedger, Functions

AmountsOf(u) == [i \in Idx(u) |-> ledger[u][i].amount]

TotalOf(u, types) ==
    SumFunctionOnSet(AmountsOf(u), {i \in Idx(u) : ledger[u][i].type \in types})

Inflow(u)   == TotalOf(u, External)
Captured(u) == TotalOf(u, {"CAPTURE"})

DerivedTotal(u) == Inflow(u) + Captured(u)

SettlementsOf(u, j) == {i \in Idx(u) : ledger[u][i].job = j /\ ledger[u][i].type \in Settlements}

(* The reserves nothing has settled. *)
OpenHolds(u) ==
    {i \in Idx(u) : ledger[u][i].type = "RESERVE" /\ SettlementsOf(u, ledger[u][i].job) = {}}

CapturesOf(u, j) == {i \in SettlementsOf(u, j) : ledger[u][i].type = "CAPTURE"}

(* What a reserve still counts toward its month's spend: all of it while   *)
(* open, what was billed once captured, nothing once released.             *)
NetSpend(u, i) ==
    IF i \in OpenHolds(u) THEN -ledger[u][i].amount
    ELSE -SumFunctionOnSet(AmountsOf(u), CapturesOf(u, ledger[u][i].job))

ReservesIn(u, p) == {i \in Idx(u) : ledger[u][i].type = "RESERVE" /\ ledger[u][i].period = p}

MonthSpend(u, p) == SumFunctionOnSet([i \in ReservesIn(u, p) |-> NetSpend(u, i)], ReservesIn(u, p))

-----------------------------------------------------------------------------
(* find_mismatches finds nothing on a consistent read: everything in,      *)
(* minus everything captured, is what the account holds.                   *)
Reconciles ==
    \A u \in Users : DerivedTotal(u) = account[u].available + account[u].reserved

(* reserved_balance is exactly the sum of the reservations still open, so  *)
(* an account with no open job has nothing locked.                         *)
ReservedIsOpenHolds ==
    \A u \in Users :
        account[u].reserved = -SumFunctionOnSet(AmountsOf(u), OpenHolds(u))

(* period_spent is the net spend of the reserves stamped with the month    *)
(* the account is in, whatever was refunded for earlier months since.      *)
PeriodSpentIsNetSpend ==
    \A u \in Users :
        account[u].period_spent = MonthSpend(u, account[u].spend_period)

(* The monthly cap, stated of the ledger instead of the counter: no step   *)
(* books a reserve that takes the month's net spend above the user's cap,  *)
(* whatever refunds, month rollovers and cap changes came before.          *)
BooksWithinCap(u) ==
    LET n == Len(ledger'[u])
        e == ledger'[u][n]
    IN  n > Len(ledger[u]) /\ e.type = "RESERVE" /\ account[u].limit # 0
        => MonthSpend(u, e.period) - e.amount <= account[u].limit

CapHonoured == [][\A u \in Users : BooksWithinCap(u)]_vars

AllRows == UNION {Rows(u) : u \in Users}

LegsMatch(out, in) ==
    /\ <<out.type, in.type>> \in {<<"ROYALTY_OUT", "ROYALTY_IN">>,
                                 <<"ACCESS_OUT", "ACCESS_IN">>}
    /\ out.ref[2] = in.ref[2]
    /\ in.amount \in (IF out.type = "ROYALTY_OUT" THEN -out.amount ELSE 0)..(-out.amount)

Transfers == {"ROYALTY_OUT", "ROYALTY_IN", "ACCESS_OUT", "ACCESS_IN"}

HasOtherLeg(e) == \E f \in AllRows : LegsMatch(e, f) \/ LegsMatch(f, e)

(* No credit reaches an account that another did not pay, the two amounts  *)
(* differing by no more than a fee withheld from the seller; and who pays  *)
(* for access always pays the seller.  A royalty alone may leave its payer *)
(* and reach nobody: the Conflict of its second leg may be swallowed.      *)
TransfersAreBacked ==
    \A e \in AllRows : e.type \in Transfers \ {"ROYALTY_OUT"} => HasOtherLeg(e)
=============================================================================
