-------------------------- MODULE CreditLedgerInv --------------------------
(***************************************************************************)
(* The inductive invariant of CreditLedger: what a session may have read   *)
(* and prepared between its steps, which is why a settlement that still    *)
(* matches the account's version is still the first one.                   *)
(***************************************************************************)
EXTENDS LedgerAudit

(* A job's rows and movements are on its owner's account only; what is     *)
(* ready to be written is a ledger row, what caps is a cap.                *)
GoodMove(pc, u, m) ==
    /\ m.job # NoJob => u = Owner[m.job]
    /\ pc = "ready" => m.type \in EntryTypes
    /\ pc = "capping" => m.amount \in Limits \cup {0}
    /\ m.type \in Settlements => m.job # NoJob
    /\ pc = "settling" => m.type \in Settlements

MovesAreGood ==
    \A s \in Sessions : \A u \in DOMAIN tx[s].legs :
        GoodMove(tx[s].pc, u, tx[s].legs[u].move)

RowsAreAtOwner ==
    \A u \in Users : \A i \in Idx(u) :
        /\ ledger[u][i].job # NoJob => u = Owner[ledger[u][i].job]
        /\ ledger[u][i].type \in Settlements => ledger[u][i].job # NoJob

(* The look-ups of capture and release go stale only together with the     *)
(* version: as long as the copy is current, no settlement has been booked. *)
StillUnsettled ==
    \A s \in Sessions : \A u \in DOMAIN tx[s].legs :
        LET leg == tx[s].legs[u] IN
        /\ tx[s].pc = "ready"
        /\ leg.move.type \in Settlements
        /\ leg.acc.version = account[u].version
        => \A i \in Idx(u) : ledger[u][i].type \in Settlements =>
                                ledger[u][i].job # leg.move.job

(* The strengthening of SettledOnce that every step preserves: sessions    *)
(* hold well-formed movements and current copies, and a checked settlement *)
(* whose version still matches is still the only one of its job.           *)
SettlementInv ==
    /\ TypeOK
    /\ CopyIsCurrent
    /\ MovesAreGood
    /\ RowsAreAtOwner
    /\ StillUnsettled
    /\ SettledOnce

-----------------------------------------------------------------------------
(* What the ledger's history adds to it: what each prepared movement books *)
(* is what it moves, and a settlement moves what one reserve locked.       *)

(* What a row or a movement adds to available and reserved together.       *)
Booking(x) == IF x.type \in {"RESERVE", "RELEASE"} THEN 0 ELSE x.amount

(* A settlement of what the reserve in row i of the account holds.         *)
Settles(u, i, x) ==
    /\ ledger[u][i].type = "RESERVE"
    /\ ledger[u][i].job = x.job
    /\ IF x.type = "RELEASE" THEN x.amount = -ledger[u][i].amount
                             ELSE x.amount \in ledger[u][i].amount..0

(* What a session is ready to write, against the rows it was read from.    *)
MoveAddsUp(u, m) ==
    /\ m.available + m.reserved = Booking(m)
    /\ m.type = "RESERVE" => m.job # NoJob /\ m.amount < 0 /\ m.reserved = -m.amount
    /\ m.type \in External => m.job = NoJob /\ m.reserved = 0
    /\ m.type \in Settlements =>
          \E i \in Idx(u) : Settles(u, i, m) /\ m.reserved = ledger[u][i].amount

(* A job's movement is alone in its transaction, and a settlement not yet  *)
(* checked carries what the provider reported.                             *)
MovesAddUp ==
    \A s \in Sessions : \A u \in DOMAIN tx[s].legs :
        LET m == tx[s].legs[u].move IN
        /\ tx[s].pc = "ready" => MoveAddsUp(u, m)
        /\ tx[s].pc = "settling" => m.amount >= 0
        /\ m.job # NoJob => DOMAIN tx[s].legs = {u}

RowsAddUp ==
    \A u \in Users : \A i \in Idx(u) :
        ledger[u][i].type = "RESERVE" => ledger[u][i].job # NoJob /\ ledger[u][i].amount < 0

(* UNIQUE(job_id, type), as far as the rows written so far go.             *)
ReservedOnce ==
    \A u, v \in Users : \A i \in Idx(u), k \in Idx(v) :
        /\ ledger[u][i].type = "RESERVE" /\ ledger[v][k].type = "RESERVE"
        /\ ledger[u][i].job = ledger[v][k].job
        => u = v /\ i = k

(* The strengthening of LedgerReplays and SettlementFollowsReserve that    *)
(* every step preserves: prepared movements balance, a checked settlement  *)
(* rests on a reserve that stays in the ledger, and a job has one reserve. *)
BooksInv ==
    /\ SettlementInv
    /\ MovesAddUp
    /\ RowsAddUp
    /\ ReservedOnce
    /\ SettlementFollowsReserve
    /\ LedgerReplays

(* The strengthening of TransfersAreBacked: a session that is about to     *)
(* book one leg of a transfer holds the other too.                         *)
MovesArePaired ==
    \A s \in Sessions : \A u \in DOMAIN tx[s].legs :
        tx[s].legs[u].move.type \in Transfers =>
            \E v \in DOMAIN tx[s].legs :
                LET m == tx[s].legs[u].move
                    n == tx[s].legs[v].move
                IN  LegsMatch(m, n) \/ LegsMatch(n, m)

-----------------------------------------------------------------------------
(* The monthly spend: a reserve counts for the month it was prepared in,   *)
(* which no copy that is still current has rolled past, and a settlement   *)
(* refunds the month of its reserve.                                       *)
MovesSpend ==
    \A s \in Sessions : \A u \in DOMAIN tx[s].legs :
        LET leg == tx[s].legs[u]
            m   == leg.move
        IN  tx[s].pc = "ready" =>
              /\ m.type \in External => m.spend = 0
              /\ m.type = "RESERVE" => /\ m.spend = -m.amount
                                       /\ leg.acc.spend_period <= m.period
                                       /\ m.period <= month
              /\ m.type \in Settlements =>
                    /\ m.spend = -m.available
                    /\ \E i \in Idx(u) : Settles(u, i, m) /\ m.period = ledger[u][i].period

MonthsInOrder ==
    \A u \in Users :
        /\ account[u].spend_period <= month
        /\ \A i \in Idx(u) : ledger[u][i].type = "RESERVE" =>
                                ledger[u][i].period <= account[u].spend_period

(* The strengthening of PeriodSpentIsNetSpend that every step preserves:   *)
(* no reserve is stamped with a month the account has yet to reach, so the *)
(* counter may restart from nothing when a new month's reserve comes.      *)
SpendInv ==
    /\ BooksInv
    /\ MovesSpend
    /\ MonthsInOrder
    /\ PeriodSpentIsNetSpend

=============================================================================
