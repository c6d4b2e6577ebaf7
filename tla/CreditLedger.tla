---------------------------- MODULE CreditLedger ----------------------------
(***************************************************************************)
(* Credit accounts and the append-only ledger: app/domain/credits/service  *)
(* and app/models/credits, as concurrent database sessions run them.       *)
(*                                                                         *)
(* The database is READ COMMITTED: a session SELECTs the account row (its  *)
(* copy, version included, stays in the session's identity map), SELECTs   *)
(* the ledger rows an operation asks about, then runs the conditional      *)
(* UPDATE and the INSERT of _apply and commits.  Each of those is a step;  *)
(* a session that raises, loses the race or dies rolls back, unless its    *)
(* caller swallows the error and commits what it has written so far.  The  *)
(* UPDATE, the INSERT and the commit are one step: the UPDATE takes the    *)
(* row lock, so nothing is seen of the transaction, and no other writer    *)
(* passes it, until it commits.                                            *)
(***************************************************************************)
EXTENDS Integers, Sequences

CONSTANTS
    Users,      \* account owners
    Jobs,       \* generation jobs
    Owner,      \* the user a job bills
    Refs,       \* payment references and idempotency keys
    Sessions,   \* database sessions (API requests, workers, beat tasks)
    Amounts,    \* credits granted, bought, adjusted or transferred
    Quotes,     \* credits a job reserves
    Actuals,    \* what a provider reports as consumed
    Fees,       \* what the platform may withhold from a sale
    Limits,     \* monthly caps a user may choose
    NoJob, NoRef,
    MaxWrites,  \* bound: writes to each account
    MaxMonth    \* bound: calendar months that pass

ASSUME LedgerAssumption ==
    /\ Owner \in [Jobs -> Users]
    /\ Amounts \subseteq Nat \ {0} /\ Quotes \subseteq Nat \ {0}
    /\ Actuals \subseteq Nat /\ Fees \subseteq Nat
    /\ Limits \subseteq Nat \ {0}
    /\ NoJob \notin Jobs
    /\ NoRef \notin Refs
    /\ MaxWrites \in [Users -> Nat] /\ MaxMonth \in Nat \ {0}

VARIABLES
    account,    \* credit_accounts, one row per user
    ledger,     \* credit_ledger_entries, per account in commit order
    tx,         \* what each session has read and is about to write
    month       \* the current UTC calendar month
vars == <<account, ledger, tx, month>>

External    == {"GRANT", "PURCHASE", "ADJUSTMENT",
                "ROYALTY_OUT", "ROYALTY_IN", "ACCESS_OUT", "ACCESS_IN"}
Settlements == {"CAPTURE", "RELEASE"}
EntryTypes  == External \cup Settlements \cup {"RESERVE"}

(* payment_reference and idempotency_key are separate unique columns, and  *)
(* the two legs of a transfer suffix one key with :out and :in.            *)
RefKinds == {"payment", "key", "out", "in"}
Keys     == (RefKinds \X Refs) \cup {NoRef}

(* monthly_spend_limit and spend_period are 0 where the column is NULL.    *)
Account == [available: Nat, reserved: Nat, version: Nat,
            limit: Limits \cup {0}, spend_period: Nat, period_spent: Nat]

Entry == [type: EntryTypes, amount: Int, balance_after: Nat,
          reserved_after: Nat, job: Jobs \cup {NoJob}, ref: Keys, period: Nat]

(* The arguments of one call of _apply.  "LIMIT" marks the write of        *)
(* set_monthly_spend_limit, which moves nothing: amount is the new cap.    *)
Movement == [available: Int, reserved: Int, type: EntryTypes \cup {"LIMIT"},
             amount: Int, job: Jobs \cup {NoJob}, ref: Keys,
             period: Nat, spend: Int]

(* One account as a session read it, and what the session will do to it.   *)
Leg == [acc: Account, move: Movement]

Idle == [pc |-> "idle", legs |-> [u \in {} |-> u]]

-----------------------------------------------------------------------------
(* Movements *)

Credit(type, a, ref) ==
    [type |-> type, amount |-> a, available |-> a, reserved |-> 0,
     job |-> NoJob, ref |-> ref, spend |-> 0, period |-> 0]

Reservation(j, a) ==
    [type |-> "RESERVE", amount |-> -a, available |-> -a, reserved |-> a,
     job |-> j, ref |-> NoRef, spend |-> a, period |-> month]

(* What a settlement is called with, before the ledger has been consulted. *)
Draft(type, j, actual) ==
    [type |-> type, amount |-> actual, available |-> 0, reserved |-> 0,
     job |-> j, ref |-> NoRef, spend |-> 0, period |-> 0]

Lesser(a, b)  == IF a <= b THEN a ELSE b
Greater(a, b) == IF a >= b THEN a ELSE b

(* As it would be without the clamp, and without the refund of the rest.   *)
CaptureUnclamped(reserve, actual) ==
    LET held == -reserve.amount
    IN  [type |-> "CAPTURE", amount |-> -actual, available |-> 0,
         reserved |-> -held, job |-> reserve.job, ref |-> NoRef,
         spend |-> held - actual, period |-> reserve.period]

CaptureUnrefunded(reserve, actual) ==
    LET held    == -reserve.amount
        settled == Lesser(actual, held)
    IN  [type |-> "CAPTURE", amount |-> -settled, available |-> 0,
         reserved |-> -held, job |-> reserve.job, ref |-> NoRef,
         spend |-> settled - held, period |-> reserve.period]

(* The provider is never paid above what was locked, and what it did not   *)
(* use goes back to available.                                             *)
CaptureOf(reserve, actual) ==
    LET held    == -reserve.amount
        settled == Lesser(actual, held)
        refund  == held - settled
    IN  [type |-> "CAPTURE", amount |-> -settled, available |-> refund,
         reserved |-> -held, job |-> reserve.job, ref |-> NoRef,
         spend |-> -refund, period |-> reserve.period]

(* As it would be if a release forgot to unlock what it gave back.         *)
ReleaseStillHeld(reserve) ==
    LET held == -reserve.amount
    IN  [type |-> "RELEASE", amount |-> held, available |-> held,
         reserved |-> 0, job |-> reserve.job, ref |-> NoRef,
         spend |-> -held, period |-> reserve.period]

(* A release gives all of it back.                                         *)
ReleaseOf(reserve) ==
    LET held == -reserve.amount
    IN  [type |-> "RELEASE", amount |-> held, available |-> held,
         reserved |-> -held, job |-> reserve.job, ref |-> NoRef,
         spend |-> -held, period |-> reserve.period]

SettlementOf(type, reserve, actual) ==
    IF type = "CAPTURE" THEN CaptureOf(reserve, actual) ELSE ReleaseOf(reserve)

-----------------------------------------------------------------------------
(* _apply: one balance movement, checked against the session's copy of the *)
(* row and then against the row itself.                                    *)

(* A refund for a month the account has rolled past has nothing to undo.   *)
SpendDelta(acc, m) ==
    IF m.spend < 0 /\ acc.spend_period # m.period THEN 0 ELSE m.spend

(* As it would be if a new month went on from what the last one spent.     *)
SpentEver(row, m) == row.period_spent

SpentNow(row, m) == IF row.spend_period = m.period THEN row.period_spent ELSE 0

(* As it would be if only what was spent before counted against the cap.   *)
WithinCapBefore(row, m) ==
    m.spend > 0 /\ row.limit # 0 => SpentNow(row, m) <= row.limit

(* What is about to be spent counts too; no cap is stored as 0.            *)
WithinCap(row, m) ==
    m.spend > 0 /\ row.limit # 0 => SpentNow(row, m) + m.spend <= row.limit

Admissible(acc, m) ==
    /\ acc.available + m.available >= 0
    /\ acc.reserved + m.reserved >= 0
    /\ WithinCap(acc, m)

(* As it would be without the version in the WHERE, and without a WHERE.   *)
MatchesAnyVersion(row, acc, m) ==
    /\ row.available + m.available >= 0
    /\ row.reserved + m.reserved >= 0
    /\ WithinCap(row, m)
    /\ SpendDelta(acc, m) < 0 => row.spend_period = m.period

MatchesAnything(row, acc, m) == acc.version \in Nat

(* The WHERE of the conditional UPDATE. *)
Matches(row, acc, m) ==
    /\ row.version = acc.version
    /\ row.available + m.available >= 0
    /\ row.reserved + m.reserved >= 0
    /\ WithinCap(row, m)
    /\ SpendDelta(acc, m) < 0 => row.spend_period = m.period

(* Its SET clause. *)
Written(row, acc, m) ==
    LET spend == SpendDelta(acc, m)
    IN  [row EXCEPT
            !.available = @ + m.available,
            !.reserved  = @ + m.reserved,
            !.version   = acc.version + 1,
            !.spend_period = IF spend # 0 THEN m.period ELSE @,
            !.period_spent = IF spend # 0
                             THEN Greater(SpentNow(row, m) + spend, 0) ELSE @]

(* The ledger row is computed from the session's copy, not from the row.   *)
EntryFor(acc, m) ==
    [type |-> m.type, amount |-> m.amount,
     balance_after  |-> acc.available + m.available,
     reserved_after |-> acc.reserved + m.reserved,
     job |-> m.job, ref |-> m.ref,
     period |-> IF m.type = "RESERVE" THEN m.period ELSE 0]

Rows(u) == {ledger[u][i] : i \in 1..Len(ledger[u])}

(* UNIQUE(job_id, type), UNIQUE(payment_reference), UNIQUE(idempotency_key)*)
NoDuplicate(m) ==
    \A u \in Users : \A e \in Rows(u) :
        /\ m.job # NoJob => ~(e.job = m.job /\ e.type = m.type)
        /\ m.ref # NoRef => e.ref # m.ref

Find(u, j, type) == {e \in Rows(u) : e.job = j /\ e.type = type}

-----------------------------------------------------------------------------
(* Sessions *)

Begin(s, pc, moves) ==
    /\ tx[s] = Idle
    /\ tx' = [tx EXCEPT ![s] =
                [pc |-> pc,
                 legs |-> [u \in DOMAIN moves |->
                              [acc |-> account[u], move |-> moves[u]]]]]
    /\ UNCHANGED <<account, ledger, month>>

Only(u, m) == [v \in {u} |-> m]

Grant(s, u, a, r) ==
    /\ a > 0
    /\ Begin(s, "ready", Only(u, Credit("GRANT", a, <<"key", r>>)))

Purchase(s, u, a, r) ==
    /\ a > 0
    /\ Begin(s, "ready", Only(u, Credit("PURCHASE", a, <<"payment", r>>)))

(* A back-office correction may be negative. *)
Adjust(s, u, a, r) ==
    /\ a # 0
    /\ Begin(s, "ready", Only(u, Credit("ADJUSTMENT", a, <<"key", r>>)))

Reserve(s, j, a) ==
    /\ a > 0
    /\ account[Owner[j]].available >= a
    /\ Begin(s, "ready", Only(Owner[j], Reservation(j, a)))

Settle(s, j, type, actual) ==
    /\ actual >= 0
    /\ Begin(s, "settling", Only(Owner[j], Draft(type, j, actual)))

(* The ledger is consulted after the account was read: a reserve must      *)
(* exist, and neither settlement may.                                      *)
CheckLedger(s, u) ==
    /\ tx[s].pc = "settling"
    /\ u \in DOMAIN tx[s].legs
    /\ LET draft == tx[s].legs[u].move IN
        /\ Find(u, draft.job, "CAPTURE") = {}
        /\ Find(u, draft.job, "RELEASE") = {}
        /\ \E reserve \in Find(u, draft.job, "RESERVE") :
              tx' = [tx EXCEPT ![s] =
                       [pc |-> "ready",
                        legs |-> [v \in {u} |->
                           [acc |-> tx[s].legs[u].acc,
                            move |-> SettlementOf(draft.type, reserve,
                                                  draft.amount)]]]]
    /\ UNCHANGED <<account, ledger, month>>

(* A royalty is a bonus: no transfer when the payer is short of it.        *)
RoyaltyTransfer(s, from, to, a, r) ==
    /\ a > 0 /\ from # to
    /\ account[from].available >= a
    /\ Begin(s, "ready",
             [u \in {from, to} |->
                IF u = from THEN Credit("ROYALTY_OUT", -a, <<"out", r>>)
                            ELSE Credit("ROYALTY_IN", a, <<"in", r>>)])

(* An unlock charges the price and books it less the platform's fee.       *)
AccessTransfer(s, from, to, price, fee, r) ==
    /\ price > 0 /\ from # to
    /\ fee <= price
    /\ Begin(s, "ready",
             [u \in {from, to} |->
                IF u = from THEN Credit("ACCESS_OUT", -price, <<"out", r>>)
                            ELSE Credit("ACCESS_IN", price - fee, <<"in", r>>)])

(* The UPDATE and the ledger row of the legs done, and the commit.         *)
WriteLegs(s, done) ==
    LET legs == tx[s].legs IN
    /\ tx[s].pc = "ready"
    /\ \A u \in done :
          /\ Admissible(legs[u].acc, legs[u].move)
          /\ Matches(account[u], legs[u].acc, legs[u].move)
          /\ NoDuplicate(legs[u].move)
          /\ account[u].version < MaxWrites[u]
    /\ account' = [u \in Users |->
          IF u \in done
          THEN Written(account[u], legs[u].acc, legs[u].move) ELSE account[u]]
    /\ ledger' = [u \in Users |->
          IF u \in done
          THEN Append(ledger[u], EntryFor(legs[u].acc, legs[u].move))
          ELSE ledger[u]]
    /\ tx' = [tx EXCEPT ![s] = Idle]
    /\ UNCHANGED month

(* As it would be if a leg that cannot be applied were skipped.            *)
CommitWhatMatches(s) ==
    LET legs == tx[s].legs IN
    WriteLegs(s, {u \in DOMAIN legs :
                    /\ Admissible(legs[u].acc, legs[u].move)
                    /\ Matches(account[u], legs[u].acc, legs[u].move)
                    /\ NoDuplicate(legs[u].move)
                    /\ account[u].version < MaxWrites[u]})

Commit(s) == WriteLegs(s, DOMAIN tx[s].legs)

(* The payee's row moved after it was read, so its UPDATE finds nothing    *)
(* and raises Conflict, which rolls nothing back.  finalize_draft_publish  *)
(* swallows it when another delivery has published the draft meanwhile,    *)
(* and session_scope commits what the payer's leg has written.             *)
CommitPayerAlone(s) ==
    \E u, v \in DOMAIN tx[s].legs :
        /\ tx[s].legs[u].move.type = "ROYALTY_OUT"
        /\ tx[s].legs[v].move.type = "ROYALTY_IN"
        /\ account[v].version # tx[s].legs[v].acc.version
        /\ WriteLegs(s, {u})

(* Every raise of an operation, a lost race and a dead process end here.   *)
Rollback(s) ==
    /\ tx[s] # Idle
    /\ tx' = [tx EXCEPT ![s] = Idle]
    /\ UNCHANGED <<account, ledger, month>>

(* The user's cap: read, then a versioned UPDATE without a ledger row.     *)
SetLimit(s, u, l) ==
    /\ l >= 0
    /\ Begin(s, "capping", Only(u, Draft("LIMIT", NoJob, l)))

(* As it would be if saving the cap did not count as a write of the row.   *)
CommitLimitUnversioned(s, u) ==
    /\ tx[s].pc = "capping"
    /\ u \in DOMAIN tx[s].legs
    /\ LET leg == tx[s].legs[u] IN
        /\ account[u].version = leg.acc.version
        /\ account' = [account EXCEPT ![u].limit = leg.move.amount]
    /\ tx' = [tx EXCEPT ![s] = Idle]
    /\ UNCHANGED <<ledger, month>>

CommitLimit(s, u) ==
    /\ tx[s].pc = "capping"
    /\ u \in DOMAIN tx[s].legs
    /\ LET leg == tx[s].legs[u] IN
        /\ account[u].version = leg.acc.version
        /\ account[u].version < MaxWrites[u]
        /\ account' = [account EXCEPT ![u].limit = leg.move.amount,
                                      ![u].version = leg.acc.version + 1]
    /\ tx' = [tx EXCEPT ![s] = Idle]
    /\ UNCHANGED <<ledger, month>>

NextMonth ==
    /\ month < MaxMonth
    /\ month' = month + 1
    /\ UNCHANGED <<account, ledger, tx>>

-----------------------------------------------------------------------------
NewAccount == [available |-> 0, reserved |-> 0, version |-> 0,
               limit |-> 0, spend_period |-> 0, period_spent |-> 0]

Init ==
    /\ account = [u \in Users |-> NewAccount]
    /\ ledger = [u \in Users |-> <<>>]
    /\ tx = [s \in Sessions |-> Idle]
    /\ month = 1

Step(s) ==
    \/ \E u \in Users, a \in Amounts, r \in Refs :
          Grant(s, u, a, r) \/ Purchase(s, u, a, r)
    \/ \E u \in Users, a \in Amounts, r \in Refs :
          Adjust(s, u, a, r) \/ Adjust(s, u, -a, r)
    \/ \E j \in Jobs, a \in Quotes : Reserve(s, j, a)
    \/ \E j \in Jobs, actual \in Actuals : Settle(s, j, "CAPTURE", actual)
    \/ \E j \in Jobs : Settle(s, j, "RELEASE", 0)
    \/ \E u \in Users : CheckLedger(s, u)
    \/ \E u, v \in Users, a \in Amounts, r \in Refs : RoyaltyTransfer(s, u, v, a, r)
    \/ \E u, v \in Users, a \in Amounts, fee \in Fees, r \in Refs :
          AccessTransfer(s, u, v, a, fee, r)
    \/ Commit(s)
    \/ CommitPayerAlone(s)
    \/ Rollback(s)
    \/ \E u \in Users, l \in Limits \cup {0} : SetLimit(s, u, l)
    \/ \E u \in Users : CommitLimit(s, u)

Next == NextMonth \/ \E s \in Sessions : Step(s)

Spec == Init /\ [][Next]_vars

-----------------------------------------------------------------------------
(* What holds of every reachable state *)

Idx(u) == 1..Len(ledger[u])

(* Every variable stays in its type; in particular no balance and no       *)
(* balance recorded in the ledger is ever negative, whatever sessions race *)
(* ("Balances never go negative").                                         *)
TypeOK ==
    /\ account \in [Users -> Account]
    /\ ledger \in [Users -> Seq(Entry)]
    /\ tx = [s \in Sessions |-> tx[s]]
    /\ \A s \in Sessions : \E S \in SUBSET Users :
          tx[s] \in [pc: {"idle", "settling", "ready", "capping"},
                    legs: [S -> Leg]]
    /\ month \in Nat

(* Optimistic locking: a session whose copy carries the version the row    *)
(* still has holds the row as it is.  Every write must bump the version.   *)
CopyIsCurrent ==
    \A s \in Sessions : \A u \in DOMAIN tx[s].legs :
        LET acc == tx[s].legs[u].acc IN
        /\ acc.version <= account[u].version
        /\ acc.version = account[u].version => acc = account[u]

(* A job is reserved once and settled once: never two rows of the same     *)
(* type, and never both a capture and a release, although the unique       *)
(* constraint on (job_id, type) does not exclude the pair.                 *)
SettledOnce ==
    \A u, v \in Users : \A i \in Idx(u), k \in Idx(v) :
        LET e == ledger[u][i]
            f == ledger[v][k]
        IN  /\ e.job = f.job
            /\ e.type \in Settlements /\ f.type \in Settlements
            => u = v /\ i = k

(* A settlement follows the reserve of its job on the same account, gives  *)
(* back exactly what was held on a release, and bills nothing above it on  *)
(* a capture.                                                              *)
SettlementFollowsReserve ==
    \A u \in Users : \A i \in Idx(u) :
        ledger[u][i].type \in Settlements =>
            \E k \in 1..(i - 1) :
                /\ ledger[u][k].type = "RESERVE"
                /\ ledger[u][k].job = ledger[u][i].job
                /\ IF ledger[u][i].type = "RELEASE"
                   THEN ledger[u][i].amount = -ledger[u][k].amount
                   ELSE ledger[u][i].amount \in ledger[u][k].amount..0

(* What a row did to reserved_balance: models/credits says it is derived.  *)
HeldBy(u, i) ==
    LET e == ledger[u][i] IN
    IF e.type = "RESERVE" THEN {-e.amount}
    ELSE IF e.type \in Settlements
         THEN {ledger[u][k].amount : k \in
                 {k \in 1..(i - 1) : /\ ledger[u][k].type = "RESERVE"
                                     /\ ledger[u][k].job = e.job}}
         ELSE {0}

BalanceBefore(u, i)  == IF i = 1 THEN 0 ELSE ledger[u][i - 1].balance_after
ReservedBefore(u, i) == IF i = 1 THEN 0 ELSE ledger[u][i - 1].reserved_after

(* Replaying the ledger from an empty account gives every recorded balance *)
(* and ends at the stored row: each row continues the one before it, the   *)
(* reserved movement of a settlement undoes its reserve, and what a row    *)
(* adds to available and reserved together is the amount it books (the     *)
(* reserve and the release move credits without booking any).              *)
LedgerReplays ==
    \A u \in Users :
        /\ account[u].available = BalanceBefore(u, Len(ledger[u]) + 1)
        /\ account[u].reserved = ReservedBefore(u, Len(ledger[u]) + 1)
        /\ \A i \in Idx(u) :
              LET e == ledger[u][i]
                  booked == IF e.type \in {"RESERVE", "RELEASE"} THEN 0 ELSE e.amount
              IN  /\ HeldBy(u, i) = {e.reserved_after - ReservedBefore(u, i)}
                  /\ e.balance_after + e.reserved_after
                       = BalanceBefore(u, i) + ReservedBefore(u, i) + booked
=============================================================================
