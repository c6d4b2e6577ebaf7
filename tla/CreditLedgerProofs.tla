------------------------- MODULE CreditLedgerProofs -------------------------
(***************************************************************************)
(* Proofs about CreditLedger, for any set of users, jobs, sessions and     *)
(* amounts: its types, the optimistic lock and settlement at most once;    *)
(* then about its history: it replays to the stored balances, settlements  *)
(* follow their reserves, transfers mint nothing, and the racing sessions  *)
(* implement the atomic Reservations.                                      *)
(***************************************************************************)
EXTENDS CreditLedgerInv, LedgerRefinement, TLAPS

USE LedgerAssumption

PCs == {"idle", "settling", "ready", "capping"}

(* A session's state in its type, and every leg with a well-formed move. *)
GoodTx(t) ==
    \E S \in SUBSET Users :
        /\ t \in [pc: PCs, legs: [S -> Leg]]
        /\ \A u \in S : GoodMove(t.pc, u, t.legs[u].move)

(* The invariant without what relates sessions to the ledger's history. *)
Base == TypeOK /\ MovesAreGood /\ RowsAreAtOwner

LEMMA IdleIsGood == GoodTx(Idle)
<1>1. [u \in {} |-> u] \in [{} -> Leg]
  OBVIOUS
<1>2. Idle \in [pc: PCs, legs: [{} -> Leg]]
  BY <1>1 DEF Idle, PCs
<1> QED BY <1>2, {} \in SUBSET Users DEF GoodTx

(* TypeOK and MovesAreGood speak of one session at a time. *)
LEMMA TxIsGood ==
    ASSUME TypeOK, MovesAreGood, NEW s \in Sessions
    PROVE  GoodTx(tx[s])
<1>1. PICK S \in SUBSET Users : tx[s] \in [pc: PCs, legs: [S -> Leg]]
  BY DEF TypeOK, PCs
<1>2. DOMAIN tx[s].legs = S
  BY <1>1
<1> QED BY <1>1, <1>2 DEF MovesAreGood, GoodTx

LEMMA TypesNext ==
    ASSUME account' \in [Users -> Account], ledger' \in [Users -> Seq(Entry)],
           month' \in Nat, tx' = [s \in Sessions |-> tx'[s]],
           \A s \in Sessions : GoodTx(tx'[s])
    PROVE  (TypeOK /\ MovesAreGood)'
<1>1. ASSUME NEW s \in Sessions
      PROVE  /\ \E S \in SUBSET Users : tx'[s] \in [pc: PCs, legs: [S -> Leg]]
             /\ \A u \in DOMAIN tx'[s].legs : GoodMove(tx'[s].pc, u, tx'[s].legs[u].move)
  <2>1. PICK S \in SUBSET Users :
            /\ tx'[s] \in [pc: PCs, legs: [S -> Leg]]
            /\ \A u \in S : GoodMove(tx'[s].pc, u, tx'[s].legs[u].move)
    BY DEF GoodTx
  <2>2. DOMAIN tx'[s].legs = S
    BY <2>1
  <2> QED BY <2>1, <2>2
<1>2. TypeOK'
  BY <1>1 DEF TypeOK, PCs
<1>3. MovesAreGood'
  BY <1>1 DEF MovesAreGood
<1> QED BY <1>2, <1>3

(* One session changes its state, and nothing else changes. *)
LEMMA SessionStep ==
    ASSUME TypeOK, MovesAreGood, NEW s \in Sessions, NEW t, GoodTx(t),
           tx' = [tx EXCEPT ![s] = t], UNCHANGED <<account, ledger, month>>
    PROVE  (TypeOK /\ MovesAreGood)'
<1>1. \A r \in Sessions : GoodTx(tx'[r])
  BY TxIsGood DEF TypeOK
<1> QED BY <1>1, TypesNext DEF TypeOK

(* The movements the operations build are movements. *)
LEMMA CreditType ==
    ASSUME NEW type \in EntryTypes, NEW a \in Int, NEW ref \in Keys
    PROVE  Credit(type, a, ref) \in Movement
BY DEF Credit, Movement

LEMMA ReservationType ==
    ASSUME NEW j \in Jobs, NEW a \in Int, month \in Nat
    PROVE  Reservation(j, a) \in Movement
BY DEF Reservation, Movement, Keys, EntryTypes

LEMMA DraftType ==
    ASSUME NEW type \in EntryTypes \cup {"LIMIT"}, NEW j \in Jobs \cup {NoJob},
           NEW a \in Int
    PROVE  Draft(type, j, a) \in Movement
BY DEF Draft, Movement, Keys

LEMMA SettlementType ==
    ASSUME NEW type \in Settlements, NEW reserve \in Entry, NEW actual \in Int
    PROVE  SettlementOf(type, reserve, actual) \in Movement
<1>1. CaptureOf(reserve, actual) \in Movement
  BY DEF CaptureOf, Entry, Movement, Keys, EntryTypes, Settlements, Lesser
<1>2. ReleaseOf(reserve) \in Movement
  BY DEF ReleaseOf, Entry, Movement, Keys, EntryTypes, Settlements
<1> QED BY <1>1, <1>2 DEF SettlementOf

(* An admissible movement writes an account and books an entry. *)
LEMMA WriteType ==
    ASSUME NEW row \in Account, NEW leg \in Leg,
           leg.move.type \in EntryTypes,
           Admissible(leg.acc, leg.move), Matches(row, leg.acc, leg.move)
    PROVE  /\ Written(row, leg.acc, leg.move) \in Account
           /\ EntryFor(leg.acc, leg.move) \in Entry
<1> DEFINE acc == leg.acc
           m == leg.move
<1>1. acc \in Account /\ m \in Movement
  BY DEF Leg
<1>2. EntryFor(acc, m) \in Entry
  BY <1>1 DEF EntryFor, Entry, Account, Movement, Admissible
<1>3. SpendDelta(acc, m) \in Int /\ SpentNow(row, m) \in Nat
  BY <1>1 DEF SpendDelta, SpentNow, Account, Movement
<1>4. Greater(SpentNow(row, m) + SpendDelta(acc, m), 0) \in Nat
  BY <1>3 DEF Greater
<1>5. /\ row.available + m.available \in Nat
      /\ row.reserved + m.reserved \in Nat
      /\ acc.version + 1 \in Nat
      /\ m.period \in Nat
  BY <1>1 DEF Matches, Account, Movement
<1>6. Written(row, acc, m) \in Account
  BY <1>1, <1>4, <1>5 DEF Written, Account
<1> QED BY <1>2, <1>6

(* Appending a row: the old rows stay where they were. *)
LEMMA Appended ==
    ASSUME NEW q \in Seq(Entry), NEW e \in Entry
    PROVE  /\ Append(q, e) \in Seq(Entry)
           /\ Len(Append(q, e)) = Len(q) + 1
           /\ Len(q) \in Nat
           /\ \A i \in 1..Len(q) : Append(q, e)[i] = q[i] /\ q[i] \in Entry
           /\ Append(q, e)[Len(q) + 1] = e
OBVIOUS

-----------------------------------------------------------------------------
(* Every operation starts the same way: it reads the accounts it is about  *)
(* and prepares well-formed movements, none of them a checked settlement.  *)
OpensMove(pc, u, m) ==
    /\ GoodMove(pc, u, m)
    /\ pc = "settling" => m.amount >= 0
    /\ pc = "ready" => /\ m.type \notin Settlements
                       /\ m.available + m.reserved = Booking(m)
    /\ pc = "ready" /\ m.type = "RESERVE" =>
          /\ m.job # NoJob /\ m.amount < 0 /\ m.reserved = -m.amount
          /\ m.spend = -m.amount /\ m.period = month
    /\ pc = "ready" /\ m.type \in External => m.job = NoJob /\ m.reserved = 0 /\ m.spend = 0

OpensWith(pc, S, moves) ==
    \A u \in S :
        /\ OpensMove(pc, u, moves[u])
        /\ moves[u].job # NoJob => S = {u}
        /\ moves[u].type \in Transfers =>
              \E v \in S : LegsMatch(moves[u], moves[v]) \/ LegsMatch(moves[v], moves[u])

Opens(s) ==
    \E pc \in PCs, S \in SUBSET Users : \E moves \in [S -> Movement] :
        OpensWith(pc, S, moves) /\ Begin(s, pc, moves)

LEMMA OpensOne ==
    ASSUME NEW s \in Sessions, NEW pc \in PCs, NEW u \in Users, NEW m \in Movement,
           OpensMove(pc, u, m), m.type \notin Transfers,
           Begin(s, pc, Only(u, m))
    PROVE  Opens(s)
<1>1. Only(u, m) \in [{u} -> Movement] /\ {u} \in SUBSET Users
  BY DEF Only
<1>2. \A v \in {u} : Only(u, m)[v] = m
  BY DEF Only
<1>3. OpensWith(pc, {u}, Only(u, m))
  BY <1>2 DEF OpensWith
<1> QED BY <1>1, <1>3 DEF Opens

(* The movements of a transfer, named so that OpensTwo can be instantiated. *)
Legs(from, to, out, a, in, b, r) ==
    [u \in {from, to} |-> IF u = from THEN Credit(out, a, <<"out", r>>)
                                      ELSE Credit(in, b, <<"in", r>>)]

LEMMA OpensTwo ==
    ASSUME NEW s \in Sessions, NEW from \in Users, NEW to \in Users, from # to,
           NEW out, NEW in,
           <<out, in>> \in {<<"ROYALTY_OUT", "ROYALTY_IN">>, <<"ACCESS_OUT", "ACCESS_IN">>},
           NEW a \in Int, NEW b \in Int, NEW r \in Refs,
           b \in (IF out = "ROYALTY_OUT" THEN -a ELSE 0)..(-a),
           Begin(s, "ready", Legs(from, to, out, a, in, b, r))
    PROVE  Opens(s)
<1> DEFINE moves == Legs(from, to, out, a, in, b, r)
<1>1. <<"out", r>> \in Keys /\ <<"in", r>> \in Keys
  BY DEF Keys, RefKinds
<1>2. out \in External /\ in \in External /\ External \subseteq EntryTypes
  BY DEF External, EntryTypes
<1>3. /\ moves[from] = Credit(out, a, <<"out", r>>)
      /\ moves[to] = Credit(in, b, <<"in", r>>)
  BY DEF Legs
<1>4. moves[from] \in Movement /\ moves[to] \in Movement
  BY <1>1, <1>2, <1>3, CreditType
<1>5. ASSUME NEW type \in External, NEW x \in Int, NEW ref \in Keys, NEW u \in Users
      PROVE  OpensMove("ready", u, Credit(type, x, ref))
  BY <1>2 DEF OpensMove, GoodMove, Credit, Booking, External, Settlements
<1>6. LegsMatch(moves[from], moves[to])
  BY <1>3 DEF LegsMatch, Credit
<1>7. moves[from].job = NoJob /\ moves[to].job = NoJob
  BY <1>3 DEF Credit
<1>8. moves \in [{from, to} -> Movement] /\ {from, to} \in SUBSET Users
  <2>1. moves = [u \in {from, to} |-> moves[u]]
    BY DEF Legs
  <2> HIDE DEF moves
  <2> QED BY <1>4, <2>1
<1>9. OpensMove("ready", from, moves[from]) /\ OpensMove("ready", to, moves[to])
  BY <1>1, <1>2, <1>3, <1>5
<1>10. "ready" \in PCs
  BY DEF PCs
<1> HIDE DEF moves
<1>11. OpensWith("ready", {from, to}, moves)
  BY <1>6, <1>7, <1>9 DEF OpensWith
<1> QED BY <1>8, <1>10, <1>11 DEF Opens, moves

(* Session s writes and commits: every leg, or that of a royalty's payer.  *)
Writes(s) ==
    \E done \in SUBSET DOMAIN tx[s].legs :
        /\ WriteLegs(s, done)
        /\ \/ done = DOMAIN tx[s].legs
           \/ \A u \in done : tx[s].legs[u].move.type = "ROYALTY_OUT"

(* The five ways a session takes a step. *)
LEMMA StepCases ==
    ASSUME TypeOK, NEW s \in Sessions, Step(s)
    PROVE  \/ Opens(s)
           \/ \E u \in Users : CheckLedger(s, u)
           \/ Writes(s)
           \/ Rollback(s)
           \/ \E u \in Users : CommitLimit(s, u)
<1>1. ASSUME NEW u \in Users, NEW a \in Int, NEW type \in {"GRANT", "PURCHASE", "ADJUSTMENT"},
             NEW kind \in RefKinds, NEW r \in Refs,
             Begin(s, "ready", Only(u, Credit(type, a, <<kind, r>>)))
      PROVE  Opens(s)
  <2> DEFINE m == Credit(type, a, <<kind, r>>)
  <2>1. type \in External /\ type \notin Settlements /\ type \in EntryTypes /\ type \notin Transfers
    BY DEF External, Settlements, EntryTypes, Transfers
  <2>2. m \in Movement
    BY <2>1, CreditType DEF Keys
  <2>3. m.type = type /\ m.job = NoJob /\ m.available = a /\ m.amount = a /\ m.reserved = 0 /\ m.spend = 0
    BY DEF Credit
  <2> HIDE DEF m
  <2>4. OpensMove("ready", u, m)
    BY <2>1, <2>3 DEF OpensMove, GoodMove, Booking
  <2> QED BY <1>1, <2>1, <2>2, <2>3, <2>4, OpensOne DEF PCs, m
<1>2. ASSUME NEW u \in Users, NEW a \in Amounts, NEW r \in Refs,
             Grant(s, u, a, r) \/ Purchase(s, u, a, r)
      PROVE  Opens(s)
  BY <1>1, <1>2 DEF Grant, Purchase, RefKinds
<1>3. ASSUME NEW u \in Users, NEW a \in Amounts, NEW r \in Refs,
             Adjust(s, u, a, r) \/ Adjust(s, u, -a, r)
      PROVE  Opens(s)
  BY <1>1, <1>3 DEF Adjust, RefKinds
<1>4. ASSUME NEW j \in Jobs, NEW a \in Quotes, Reserve(s, j, a)
      PROVE  Opens(s)
  <2> DEFINE m == Reservation(j, a)
  <2>1. m \in Movement
    BY ReservationType DEF TypeOK
  <2>2. /\ m.type = "RESERVE" /\ m.job = j /\ m.amount = -a /\ m.available = -a
        /\ m.reserved = a /\ m.spend = a /\ m.period = month /\ a > 0
    BY DEF Reservation
  <2> HIDE DEF m
  <2>3. OpensMove("ready", Owner[j], m)
    BY <2>2 DEF OpensMove, GoodMove, Booking, EntryTypes, External, Settlements
  <2> QED BY <1>4, <2>1, <2>2, <2>3, OpensOne DEF Reserve, PCs, Transfers, m
<1>5. ASSUME NEW j \in Jobs, NEW type \in Settlements, NEW a \in Int,
             Settle(s, j, type, a)
      PROVE  Opens(s)
  <2> DEFINE m == Draft(type, j, a)
  <2>1. m \in Movement
    BY DraftType DEF EntryTypes
  <2>2. m.type = type /\ m.job = j /\ m.amount = a /\ a >= 0
    BY <1>5 DEF Draft, Settle
  <2> HIDE DEF m
  <2>3. OpensMove("settling", Owner[j], m)
    BY <2>2 DEF OpensMove, GoodMove
  <2> QED BY <1>5, <2>1, <2>2, <2>3, OpensOne DEF Settle, PCs, Transfers, Settlements, m
<1>6. ASSUME NEW u \in Users, NEW v \in Users, NEW a \in Amounts, NEW r \in Refs,
             RoyaltyTransfer(s, u, v, a, r)
      PROVE  Opens(s)
  <2>1. u # v
    BY <1>6 DEF RoyaltyTransfer
  <2>3. a \in Int /\ -a \in Int /\ a = -(-a)
    OBVIOUS
  <2>4. a \in a..a
    BY <2>3
  <2>5. a \in -(-a)..-(-a)
    BY <2>3, <2>4
  <2>2. Begin(s, "ready", Legs(u, v, "ROYALTY_OUT", -a, "ROYALTY_IN", a, r))
    BY <1>6 DEF RoyaltyTransfer, Legs
  <2> QED BY <2>1, <2>2, <2>3, <2>5, OpensTwo
<1>7. ASSUME NEW u \in Users, NEW v \in Users, NEW a \in Amounts, NEW fee \in Fees,
             NEW r \in Refs, AccessTransfer(s, u, v, a, fee, r)
      PROVE  Opens(s)
  <2>1. a - fee \in Int /\ -a \in Int /\ a - fee \in 0..-(-a) /\ u # v
    BY <1>7 DEF AccessTransfer
  <2>2. Begin(s, "ready", Legs(u, v, "ACCESS_OUT", -a, "ACCESS_IN", a - fee, r))
    BY <1>7 DEF AccessTransfer, Legs
  <2>3. "ACCESS_OUT" # "ROYALTY_OUT"
    OBVIOUS
  <2> QED BY <2>1, <2>2, <2>3, OpensTwo
<1>8. ASSUME NEW u \in Users, NEW l \in Limits \cup {0}, SetLimit(s, u, l)
      PROVE  Opens(s)
  <2> DEFINE m == Draft("LIMIT", NoJob, l)
  <2>1. m \in Movement
    BY DraftType
  <2>2. m.type = "LIMIT" /\ m.job = NoJob /\ m.amount = l
    BY DEF Draft
  <2> HIDE DEF m
  <2>3. OpensMove("capping", u, m)
    BY <2>2 DEF OpensMove, GoodMove, Settlements
  <2> QED BY <1>8, <2>1, <2>2, <2>3, OpensOne DEF SetLimit, PCs, Transfers, m
<1>9. "CAPTURE" \in Settlements /\ "RELEASE" \in Settlements /\ Actuals \subseteq Int
  BY DEF Settlements
<1>10. CASE Commit(s)
  BY <1>10 DEF Commit, Writes
<1>11. CASE CommitPayerAlone(s)
  <2>1. PICK u \in DOMAIN tx[s].legs :
            tx[s].legs[u].move.type = "ROYALTY_OUT" /\ WriteLegs(s, {u})
    BY <1>11 DEF CommitPayerAlone
  <2>2. {u} \in SUBSET DOMAIN tx[s].legs
    BY <2>1
  <2>3. \A v \in {u} : tx[s].legs[v].move.type = "ROYALTY_OUT"
    BY <2>1
  <2> QED BY <2>1, <2>2, <2>3 DEF Writes
<1> QED BY <1>2, <1>3, <1>4, <1>5, <1>6, <1>7, <1>8, <1>9, <1>10, <1>11
       DEF Step

(* Starting an operation keeps the types: only the session's state moves.  *)
LEMMA BeginBase ==
    ASSUME Base, NEW s \in Sessions, NEW pc \in PCs, NEW S \in SUBSET Users,
           NEW moves \in [S -> Movement],
           \A u \in S : GoodMove(pc, u, moves[u]),
           Begin(s, pc, moves)
    PROVE  Base'
<1> DEFINE t == [pc |-> pc,
                 legs |-> [u \in S |-> [acc |-> account[u], move |-> moves[u]]]]
<1>1. GoodTx(t)
  <2>1. t \in [pc: PCs, legs: [S -> Leg]]
    BY DEF Base, TypeOK, Leg
  <2>2. \A u \in S : GoodMove(t.pc, u, t.legs[u].move)
    OBVIOUS
  <2> QED BY <2>1, <2>2 DEF GoodTx
<1>2. tx' = [tx EXCEPT ![s] = t] /\ UNCHANGED <<account, ledger, month>>
  BY DEF Begin
<1>3. (TypeOK /\ MovesAreGood)'
  BY <1>1, <1>2, SessionStep DEF Base
<1> QED BY <1>2, <1>3 DEF Base, RowsAreAtOwner, Idx

LEMMA OpensBase ==
    ASSUME Base, NEW s \in Sessions, Opens(s)
    PROVE  Base'
<1>1. PICK pc \in PCs, S \in SUBSET Users : \E moves \in [S -> Movement] :
          /\ \A u \in S : GoodMove(pc, u, moves[u])
          /\ Begin(s, pc, moves)
  BY DEF Opens, OpensWith, OpensMove
<1>2. PICK moves \in [S -> Movement] :
          /\ \A u \in S : GoodMove(pc, u, moves[u])
          /\ Begin(s, pc, moves)
  BY <1>1
<1> QED BY <1>2, BeginBase

(* The state CheckLedger leaves a session in: a settlement of a reserve    *)
(* found on the account, as old as the copy it was started with.           *)
LEMMA CheckFacts ==
    ASSUME Base, NEW s \in Sessions, NEW u \in Users, CheckLedger(s, u)
    PROVE  \E leg \in Leg :
              /\ u \in DOMAIN tx[s].legs
              /\ tx' = [tx EXCEPT ![s] = [pc |-> "ready", legs |-> [v \in {u} |-> leg]]]
              /\ leg.acc = tx[s].legs[u].acc
              /\ leg.move.type \in Settlements
              /\ GoodMove("ready", u, leg.move)
              /\ \A i \in Idx(u) : ledger[u][i].type \in Settlements =>
                                      ledger[u][i].job # leg.move.job
<1> DEFINE draft == tx[s].legs[u].move
<1>1. PICK S \in SUBSET Users : /\ tx[s] \in [pc: PCs, legs: [S -> Leg]]
                               /\ \A v \in S : GoodMove(tx[s].pc, v, tx[s].legs[v].move)
  BY TxIsGood DEF Base, GoodTx
<1>2. u \in S /\ u \in DOMAIN tx[s].legs /\ tx[s].legs[u] \in Leg /\ draft \in Movement
  BY <1>1 DEF CheckLedger, Leg
<1>3. draft.type \in Settlements /\ draft.job # NoJob /\ u = Owner[draft.job]
  BY <1>1, <1>2 DEF CheckLedger, GoodMove
<1>4. PICK reserve \in Find(u, draft.job, "RESERVE") :
          tx' = [tx EXCEPT ![s] =
                   [pc |-> "ready",
                    legs |-> [v \in {u} |->
                       [acc |-> tx[s].legs[u].acc,
                        move |-> SettlementOf(draft.type, reserve, draft.amount)]]]]
  BY DEF CheckLedger
<1> DEFINE m == SettlementOf(draft.type, reserve, draft.amount)
           leg == [acc |-> tx[s].legs[u].acc, move |-> m]
<1>5. reserve \in Entry /\ reserve.job = draft.job
  BY <1>4 DEF Find, Rows, Base, TypeOK
<1>6. m \in Movement
  BY <1>2, <1>3, <1>5, SettlementType DEF Movement
<1>7. m.type = draft.type /\ m.job = draft.job
  BY <1>3, <1>5 DEF SettlementOf, CaptureOf, ReleaseOf, Settlements
<1>8. leg \in Leg
  BY <1>2, <1>6 DEF Leg
<1>9. GoodMove("ready", u, m)
  BY <1>3, <1>7 DEF GoodMove, EntryTypes
<1>10. \A i \in Idx(u) : ledger[u][i].type \in Settlements => ledger[u][i].job # m.job
  <2>1. Find(u, draft.job, "CAPTURE") = {} /\ Find(u, draft.job, "RELEASE") = {}
    BY DEF CheckLedger
  <2> QED BY <2>1, <1>7 DEF Find, Rows, Idx, Settlements
<1>11. tx' = [tx EXCEPT ![s] = [pc |-> "ready", legs |-> [v \in {u} |-> leg]]]
  BY <1>4
<1>12. leg.acc = tx[s].legs[u].acc /\ leg.move = m
  OBVIOUS
<1> HIDE DEF m, leg
<1>13. WITNESS leg \in Leg
<1> QED BY <1>2, <1>3, <1>7, <1>9, <1>10, <1>11, <1>12

LEMMA CheckBase ==
    ASSUME Base, NEW s \in Sessions, NEW u \in Users, CheckLedger(s, u)
    PROVE  Base'
<1>1. PICK leg \in Leg :
        /\ tx' = [tx EXCEPT ![s] = [pc |-> "ready", legs |-> [v \in {u} |-> leg]]]
        /\ GoodMove("ready", u, leg.move)
  BY CheckFacts
<1> DEFINE t == [pc |-> "ready", legs |-> [v \in {u} |-> leg]]
<1>2. GoodTx(t)
  <2>1. t \in [pc: PCs, legs: [{u} -> Leg]] /\ {u} \in SUBSET Users
    BY DEF PCs
  <2>2. \A v \in {u} : GoodMove(t.pc, v, t.legs[v].move)
    BY <1>1
  <2> QED BY <2>1, <2>2 DEF GoodTx
<1>3. UNCHANGED <<account, ledger, month>>
  BY DEF CheckLedger
<1>4. (TypeOK /\ MovesAreGood)'
  BY <1>1, <1>2, <1>3, SessionStep DEF Base
<1> QED BY <1>3, <1>4 DEF Base, RowsAreAtOwner, Idx

(* What a commit does to each account: a written row one version on, and   *)
(* one more ledger row, or nothing.                                        *)
LEMMA CommitFacts ==
    ASSUME Base, NEW s \in Sessions,
           NEW done \in SUBSET DOMAIN tx[s].legs, WriteLegs(s, done)
    PROVE  /\ \A u \in Users \ done :
                 account'[u] = account[u] /\ ledger'[u] = ledger[u]
           /\ \A u \in done :
                 LET leg == tx[s].legs[u] IN
                 /\ u \in Users /\ leg \in Leg
                 /\ GoodMove("ready", u, leg.move)
                 /\ leg.acc.version = account[u].version
                 /\ account'[u] \in Account
                 /\ account'[u].version = account[u].version + 1
                 /\ EntryFor(leg.acc, leg.move) \in Entry
                 /\ ledger'[u] = Append(ledger[u], EntryFor(leg.acc, leg.move))
<1>1. PICK S \in SUBSET Users : /\ tx[s] \in [pc: PCs, legs: [S -> Leg]]
                               /\ \A v \in S : GoodMove(tx[s].pc, v, tx[s].legs[v].move)
  BY TxIsGood DEF Base, GoodTx
<1>2. S = DOMAIN tx[s].legs
  BY <1>1
<1>3. ASSUME NEW u \in done
      PROVE  LET leg == tx[s].legs[u] IN
                 /\ u \in Users /\ leg \in Leg
                 /\ GoodMove("ready", u, leg.move)
                 /\ leg.acc.version = account[u].version
                 /\ account'[u] \in Account
                 /\ account'[u].version = account[u].version + 1
                 /\ EntryFor(leg.acc, leg.move) \in Entry
                 /\ ledger'[u] = Append(ledger[u], EntryFor(leg.acc, leg.move))
  <2> DEFINE leg == tx[s].legs[u]
  <2>1. u \in Users /\ leg \in Leg /\ GoodMove("ready", u, leg.move)
    BY <1>1, <1>2 DEF WriteLegs
  <2>2. Admissible(leg.acc, leg.move) /\ Matches(account[u], leg.acc, leg.move)
    BY <1>2 DEF WriteLegs
  <2>3. account'[u] = Written(account[u], leg.acc, leg.move)
    BY <1>2, <2>1 DEF WriteLegs
  <2>4. ledger'[u] = Append(ledger[u], EntryFor(leg.acc, leg.move))
    BY <1>2, <2>1 DEF WriteLegs
  <2>5. account[u] \in Account
    BY <2>1 DEF Base, TypeOK
  <2>6. account'[u] \in Account /\ EntryFor(leg.acc, leg.move) \in Entry
    BY <2>1, <2>2, <2>3, <2>5, WriteType DEF GoodMove
  <2>7. leg.acc.version = account[u].version
    BY <2>2 DEF Matches
  <2>8. account'[u].version = account[u].version + 1
    BY <2>3, <2>5, <2>7 DEF Written, Account
  <2> HIDE DEF leg
  <2> QED BY <2>1, <2>4, <2>6, <2>7, <2>8 DEF leg
<1>4. \A u \in Users \ done : account'[u] = account[u] /\ ledger'[u] = ledger[u]
  BY DEF WriteLegs
<1> QED BY <1>3, <1>4

LEMMA CommitBase ==
    ASSUME Base, NEW s \in Sessions,
           NEW done \in SUBSET DOMAIN tx[s].legs, WriteLegs(s, done)
    PROVE  Base'
<1>1. tx' = [tx EXCEPT ![s] = Idle] /\ month' = month
  BY DEF WriteLegs
<1>2. \A r \in Sessions : GoodTx(tx'[r])
  BY <1>1, TxIsGood, IdleIsGood DEF Base, TypeOK
<1>3. account' \in [Users -> Account]
  <2>1. \A u \in Users : account'[u] \in Account
    BY CommitFacts DEF Base, TypeOK
  <2> QED BY <2>1 DEF WriteLegs
<1>4. ledger' \in [Users -> Seq(Entry)]
  <2>1. ASSUME NEW u \in Users PROVE ledger'[u] \in Seq(Entry)
    <3>1. ledger[u] \in Seq(Entry)
      BY DEF Base, TypeOK
    <3>2. CASE u \in done
      <4> DEFINE e == EntryFor(tx[s].legs[u].acc, tx[s].legs[u].move)
      <4>1. e \in Entry /\ ledger'[u] = Append(ledger[u], e)
        BY <3>2, CommitFacts
      <4> HIDE DEF e
      <4> QED BY <3>1, <4>1, Appended
    <3>3. CASE u \notin done
      BY <3>1, <3>3, CommitFacts
    <3> QED BY <3>2, <3>3
  <2> QED BY <2>1 DEF WriteLegs
<1>5. (TypeOK /\ MovesAreGood)'
  BY <1>1, <1>2, <1>3, <1>4, TypesNext DEF Base, TypeOK
<1>6. RowsAreAtOwner'
  <2> SUFFICES ASSUME NEW u \in Users, NEW i \in Idx(u)'
               PROVE  /\ ledger'[u][i].job # NoJob => u = Owner[ledger'[u][i].job]
                      /\ ledger'[u][i].type \in Settlements => ledger'[u][i].job # NoJob
    BY DEF RowsAreAtOwner
  <2>1. CASE u \notin done
    BY <2>1, CommitFacts DEF Base, RowsAreAtOwner, Idx
  <2>2. CASE u \in done
    <3> DEFINE leg == tx[s].legs[u]
               e == EntryFor(leg.acc, leg.move)
    <3>1. GoodMove("ready", u, leg.move) /\ e \in Entry /\ ledger'[u] = Append(ledger[u], e)
      BY <2>2, CommitFacts
    <3>2. e.job = leg.move.job /\ e.type = leg.move.type
      BY DEF EntryFor
    <3> HIDE DEF e
    <3>3. ledger[u] \in Seq(Entry)
      BY DEF Base, TypeOK
    <3>4. i \in 1..Len(ledger[u]) \/ i = Len(ledger[u]) + 1
      BY <3>1, <3>3, Appended DEF Idx
    <3>5. CASE i \in 1..Len(ledger[u])
      BY <3>1, <3>3, <3>5, Appended DEF Base, RowsAreAtOwner, Idx
    <3>6. CASE i = Len(ledger[u]) + 1
      BY <3>1, <3>2, <3>3, <3>6, Appended DEF GoodMove
    <3> QED BY <3>4, <3>5, <3>6
  <2> QED BY <2>1, <2>2
<1> QED BY <1>5, <1>6 DEF Base

LEMMA RollbackBase ==
    ASSUME Base, NEW s \in Sessions, Rollback(s)
    PROVE  Base'
<1>1. (TypeOK /\ MovesAreGood)'
  BY IdleIsGood, SessionStep DEF Base, Rollback
<1> QED BY <1>1 DEF Base, Rollback, RowsAreAtOwner, Idx

LEMMA CapWriteType ==
    ASSUME NEW row \in Account, NEW l \in Limits \cup {0}
    PROVE  LET new == [row EXCEPT !.limit = l, !.version = row.version + 1]
           IN  new \in Account /\ new.version = row.version + 1
<1>1. row.version + 1 \in Nat
  BY DEF Account
<1> QED BY <1>1 DEF Account

(* Changing the cap writes the cap and the version of one account only.    *)
LEMMA LimitFacts ==
    ASSUME Base, NEW s \in Sessions, NEW u \in Users, CommitLimit(s, u)
    PROVE  /\ account'[u] \in Account
           /\ account'[u].version = account[u].version + 1
           /\ \A v \in Users \ {u} : account'[v] = account[v]
           /\ account' \in [Users -> Account]
<1> DEFINE leg == tx[s].legs[u]
<1>1. leg \in Leg /\ GoodMove("capping", u, leg.move)
  BY TxIsGood DEF Base, GoodTx, CommitLimit
<1>2. leg.move.amount \in Limits \cup {0} /\ leg.acc.version = account[u].version
  BY <1>1 DEF GoodMove, CommitLimit
<1>3. account' = [account EXCEPT ![u] = [account[u] EXCEPT
                     !.limit = leg.move.amount, !.version = leg.acc.version + 1]]
  BY DEF CommitLimit, Base, TypeOK, Account
<1>4. account[u] \in Account /\ account \in [Users -> Account]
  BY DEF Base, TypeOK
<1> DEFINE row == [account[u] EXCEPT !.limit = leg.move.amount,
                                   !.version = leg.acc.version + 1]
<1>5. row \in Account /\ row.version = account[u].version + 1
  <2> HIDE DEF leg
  <2>1. row = [account[u] EXCEPT !.limit = leg.move.amount,
                                 !.version = account[u].version + 1]
    BY <1>2
  <2> QED BY <1>2, <1>4, <2>1, CapWriteType
<1>6. account' = [account EXCEPT ![u] = row]
  BY <1>3
<1> HIDE DEF row
<1> QED BY <1>4, <1>5, <1>6

LEMMA LimitBase ==
    ASSUME Base, NEW s \in Sessions, NEW u \in Users, CommitLimit(s, u)
    PROVE  Base'
<1>1. tx' = [tx EXCEPT ![s] = Idle] /\ UNCHANGED <<ledger, month>>
  BY DEF CommitLimit
<1>2. \A r \in Sessions : GoodTx(tx'[r])
  BY <1>1, TxIsGood, IdleIsGood DEF Base, TypeOK
<1>3. (TypeOK /\ MovesAreGood)'
  BY <1>1, <1>2, LimitFacts, TypesNext DEF Base, TypeOK
<1> QED BY <1>1, <1>3 DEF Base, RowsAreAtOwner, Idx

LEMMA InitBase == Init => Base
<1> SUFFICES ASSUME Init PROVE Base
  OBVIOUS
<1>1. NewAccount \in Account
  BY DEF NewAccount, Account
<1>2. PICK S \in SUBSET Users : /\ Idle \in [pc: PCs, legs: [S -> Leg]]
                               /\ \A u \in S : GoodMove(Idle.pc, u, Idle.legs[u].move)
  BY IdleIsGood DEF GoodTx
<1>3. TypeOK
  BY <1>1, <1>2 DEF Init, TypeOK, PCs
<1>4. MovesAreGood /\ RowsAreAtOwner
  BY DEF Init, MovesAreGood, RowsAreAtOwner, Idle, Idx
<1> QED BY <1>3, <1>4 DEF Base

LEMMA NextBase == Base /\ [Next]_vars => Base'
<1> SUFFICES ASSUME Base, [Next]_vars PROVE Base'
  OBVIOUS
<1>1. CASE NextMonth
  BY <1>1 DEF Base, NextMonth, TypeOK, MovesAreGood, RowsAreAtOwner, Idx
<1>2. ASSUME NEW s \in Sessions, Step(s) PROVE Base'
  BY <1>2, StepCases, OpensBase, CheckBase, CommitBase, RollbackBase, LimitBase
     DEF Base, Writes
<1>3. CASE UNCHANGED vars
  BY <1>3 DEF Base, vars, TypeOK, MovesAreGood, RowsAreAtOwner, Idx
<1> QED BY <1>1, <1>2, <1>3 DEF Next

(* Every reachable state is well typed: above all, no account and no row   *)
(* of the ledger ever shows a negative balance.                            *)
THEOREM TypeCorrect == Spec => []TypeOK
<1>1. Spec => []Base
  BY InitBase, NextBase, PTL DEF Spec
<1>2. Base => TypeOK
  BY DEF Base
<1> QED BY <1>1, <1>2, PTL

-----------------------------------------------------------------------------
(* The optimistic lock.  A write ends its session and moves the version of *)
(* every account it touches, so no copy read before is current after.      *)
LEMMA WriteMovesVersion ==
    ASSUME Base, NEW s \in Sessions,
           Writes(s) \/ \E u \in Users : CommitLimit(s, u)
    PROVE  /\ tx' = [tx EXCEPT ![s] = Idle]
           /\ \A u \in Users : \/ account'[u] = account[u] /\ ledger'[u] = ledger[u]
                               \/ account'[u].version = account[u].version + 1
<1>1. CASE Writes(s)
  BY <1>1, CommitFacts DEF Writes, WriteLegs
<1>2. ASSUME NEW u \in Users, CommitLimit(s, u)
      PROVE  /\ tx' = [tx EXCEPT ![s] = Idle]
             /\ \A v \in Users : \/ account'[v] = account[v] /\ ledger'[v] = ledger[v]
                                 \/ account'[v].version = account[v].version + 1
  BY <1>2, LimitFacts DEF CommitLimit
<1> QED BY <1>1, <1>2

LEMMA LegFacts ==
    ASSUME Base, NEW s \in Sessions, NEW u \in DOMAIN tx[s].legs
    PROVE  u \in Users /\ tx[s].legs[u] \in Leg
           /\ tx[s].legs[u].acc.version \in Nat /\ account[u].version \in Nat
<1>1. u \in Users /\ tx[s].legs[u] \in Leg
  BY TxIsGood DEF Base, GoodTx
<1> QED BY <1>1 DEF Base, TypeOK, Leg, Account

(* Sessions that hold still keep a current copy or lose it for good, and   *)
(* with it what they had read of the ledger.                               *)
LEMMA OthersKeep ==
    ASSUME Base, CopyIsCurrent, StillUnsettled, NEW s \in Sessions,
           Writes(s) \/ \E u \in Users : CommitLimit(s, u)
    PROVE  (CopyIsCurrent /\ StillUnsettled)'
<1>1. /\ tx' = [tx EXCEPT ![s] = Idle]
      /\ \A u \in Users : \/ account'[u] = account[u] /\ ledger'[u] = ledger[u]
                          \/ account'[u].version = account[u].version + 1
  BY WriteMovesVersion
<1>2. ASSUME NEW r \in Sessions, NEW u \in DOMAIN tx'[r].legs
      PROVE  /\ tx'[r] = tx[r] /\ u \in DOMAIN tx[r].legs /\ u \in Users
             /\ tx[r].legs[u].acc.version <= account[u].version
             /\ tx[r].legs[u].acc.version \in Nat /\ account[u].version \in Nat
             /\ tx[r].legs[u].acc.version = account[u].version
                   => tx[r].legs[u].acc = account[u]
  <2>1. r # s
    BY <1>1 DEF Idle, Base, TypeOK
  <2>2. tx'[r] = tx[r]
    BY <1>1, <2>1 DEF Base, TypeOK
  <2> QED BY <2>2, LegFacts DEF CopyIsCurrent
<1>3. CopyIsCurrent'
  BY <1>1, <1>2 DEF CopyIsCurrent
<1>4. StillUnsettled'
  <2> SUFFICES ASSUME NEW r \in Sessions, NEW u \in DOMAIN tx'[r].legs,
                      tx'[r].pc = "ready",
                      tx'[r].legs[u].move.type \in Settlements,
                      tx'[r].legs[u].acc.version = account'[u].version
               PROVE  \A i \in Idx(u)' : ledger'[u][i].type \in Settlements =>
                                           ledger'[u][i].job # tx'[r].legs[u].move.job
    BY DEF StillUnsettled
  <2>1. account'[u] = account[u] /\ ledger'[u] = ledger[u] /\ tx'[r] = tx[r]
    BY <1>1, <1>2
  <2> QED BY <1>2, <2>1 DEF StillUnsettled, Idx
<1> QED BY <1>3, <1>4

LEMMA OpensKeeps ==
    ASSUME Base, CopyIsCurrent, StillUnsettled, NEW s \in Sessions, Opens(s)
    PROVE  (CopyIsCurrent /\ StillUnsettled)'
<1>1. PICK pc \in PCs, S \in SUBSET Users : \E moves \in [S -> Movement] :
          /\ \A u \in S : pc = "ready" => moves[u].type \notin Settlements
          /\ Begin(s, pc, moves)
  BY DEF Opens, OpensWith, OpensMove
<1>2. PICK moves \in [S -> Movement] :
          /\ \A u \in S : pc = "ready" => moves[u].type \notin Settlements
          /\ Begin(s, pc, moves)
  BY <1>1
<1>3. /\ UNCHANGED <<account, ledger>>
      /\ \A r \in Sessions \ {s} : tx'[r] = tx[r]
      /\ tx'[s] = [pc |-> pc, legs |-> [u \in S |-> [acc |-> account[u], move |-> moves[u]]]]
  BY <1>2 DEF Begin, Base, TypeOK
<1>4. CopyIsCurrent'
  <2> SUFFICES ASSUME NEW r \in Sessions, NEW u \in DOMAIN tx'[r].legs
               PROVE  /\ tx'[r].legs[u].acc.version <= account[u].version
                      /\ tx'[r].legs[u].acc.version = account[u].version
                            => tx'[r].legs[u].acc = account[u]
    BY <1>3 DEF CopyIsCurrent
  <2>1. CASE r = s
    <3>1. u \in Users /\ tx'[r].legs[u].acc = account[u]
      BY <1>3, <2>1
    <3> QED BY <3>1 DEF Base, TypeOK, Account
  <2>2. CASE r # s
    BY <1>3, <2>2 DEF CopyIsCurrent
  <2> QED BY <2>1, <2>2
<1>5. StillUnsettled'
  <2> SUFFICES ASSUME NEW r \in Sessions, NEW v \in DOMAIN tx'[r].legs,
                      tx'[r].pc = "ready",
                      tx'[r].legs[v].move.type \in Settlements,
                      tx'[r].legs[v].acc.version = account[v].version
               PROVE  \A i \in Idx(v) : ledger[v][i].type \in Settlements =>
                                        ledger[v][i].job # tx'[r].legs[v].move.job
    BY <1>3 DEF StillUnsettled, Idx
  <2>1. r # s
    BY <1>2, <1>3
  <2> QED BY <1>3, <2>1 DEF StillUnsettled
<1> QED BY <1>4, <1>5

LEMMA CheckKeeps ==
    ASSUME Base, CopyIsCurrent, StillUnsettled, NEW s \in Sessions, NEW u \in Users,
           CheckLedger(s, u)
    PROVE  (CopyIsCurrent /\ StillUnsettled)'
<1>1. PICK leg \in Leg :
         /\ u \in DOMAIN tx[s].legs
         /\ tx' = [tx EXCEPT ![s] = [pc |-> "ready", legs |-> [v \in {u} |-> leg]]]
         /\ leg.acc = tx[s].legs[u].acc
         /\ \A i \in Idx(u) : ledger[u][i].type \in Settlements =>
                                 ledger[u][i].job # leg.move.job
  BY CheckFacts
<1>2. UNCHANGED <<account, ledger>>
  BY DEF CheckLedger
<1>3. /\ \A r \in Sessions \ {s} : tx'[r] = tx[r]
      /\ tx'[s] = [pc |-> "ready", legs |-> [v \in {u} |-> leg]]
  BY <1>1 DEF Base, TypeOK
<1>4. CopyIsCurrent'
  BY <1>1, <1>2, <1>3 DEF CopyIsCurrent
<1>5. StillUnsettled'
  <2> SUFFICES ASSUME NEW r \in Sessions, NEW v \in DOMAIN tx'[r].legs,
                      tx'[r].pc = "ready",
                      tx'[r].legs[v].move.type \in Settlements,
                      tx'[r].legs[v].acc.version = account[v].version
               PROVE  \A i \in Idx(v) : ledger[v][i].type \in Settlements =>
                                        ledger[v][i].job # tx'[r].legs[v].move.job
    BY <1>2 DEF StillUnsettled, Idx
  <2>1. CASE r = s
    <3>1. v = u /\ tx'[r].legs[v] = leg
      BY <1>3, <2>1
    <3> QED BY <1>1, <3>1
  <2>2. CASE r # s
    BY <1>3, <2>2 DEF StillUnsettled
  <2> QED BY <2>1, <2>2
<1> QED BY <1>4, <1>5

(* Every session's copy is current or carries an older version.            *)
LEMMA NextKeeps ==
    Base /\ CopyIsCurrent /\ StillUnsettled /\ [Next]_vars
        => (CopyIsCurrent /\ StillUnsettled)'
<1> SUFFICES ASSUME Base, CopyIsCurrent, StillUnsettled, [Next]_vars
             PROVE  (CopyIsCurrent /\ StillUnsettled)'
  OBVIOUS
<1>1. CASE NextMonth
  BY <1>1 DEF NextMonth, CopyIsCurrent, StillUnsettled, Idx
<1>2. ASSUME NEW s \in Sessions, Step(s)
      PROVE  (CopyIsCurrent /\ StillUnsettled)'
  <2>1. CASE Rollback(s)
    <3>1. /\ UNCHANGED <<account, ledger>>
          /\ \A r \in Sessions \ {s} : tx'[r] = tx[r]
          /\ DOMAIN tx'[s].legs = {}
      BY <2>1 DEF Rollback, Idle, Base, TypeOK
    <3> QED BY <3>1 DEF CopyIsCurrent, StillUnsettled, Idx
  <2> QED BY <1>2, <2>1, StepCases, OpensKeeps, CheckKeeps, OthersKeep DEF Base
<1>3. CASE UNCHANGED vars
  BY <1>3 DEF vars, CopyIsCurrent, StillUnsettled, Idx
<1> QED BY <1>1, <1>2, <1>3 DEF Next

-----------------------------------------------------------------------------
(* One settlement per job.  Two new rows of one commit are on different    *)
(* accounts, hence of different jobs; a new settlement whose version       *)
(* matched finds none of its job on the account; and the job's rows are    *)
(* nowhere else.                                                           *)
LEMMA CommitSettlesOnce ==
    ASSUME SettlementInv, NEW s \in Sessions,
           NEW done \in SUBSET DOMAIN tx[s].legs, WriteLegs(s, done), Base'
    PROVE  SettledOnce'
<1> DEFINE legs == tx[s].legs
           New(u, i) == u \in done /\ i = Len(ledger[u]) + 1
<1>0. Base
  BY DEF SettlementInv, Base
<1>1. ASSUME NEW u \in Users, NEW i \in Idx(u)'
      PROVE  \/ i \in Idx(u) /\ ledger'[u][i] = ledger[u][i]
             \/ /\ New(u, i)
                /\ ledger'[u][i].job = legs[u].move.job
                /\ ledger'[u][i].type = legs[u].move.type
  <2>1. ledger[u] \in Seq(Entry)
    BY <1>0 DEF Base, TypeOK
  <2>2. CASE u \notin done
    BY <1>0, <2>2, CommitFacts DEF Idx
  <2>3. CASE u \in done
    <3> DEFINE e == EntryFor(legs[u].acc, legs[u].move)
    <3>1. e \in Entry /\ ledger'[u] = Append(ledger[u], e)
      BY <1>0, <2>3, CommitFacts
    <3>2. e.job = legs[u].move.job /\ e.type = legs[u].move.type
      BY DEF EntryFor
    <3> HIDE DEF e
    <3> QED BY <2>1, <2>3, <3>1, <3>2, Appended DEF Idx
  <2> QED BY <2>2, <2>3
<1>2. ASSUME NEW u \in Users, NEW i \in Idx(u)', NEW v \in Users, NEW k \in Idx(v)',
             ledger'[u][i].job = ledger'[v][k].job,
             ledger'[u][i].type \in Settlements, ledger'[v][k].type \in Settlements
      PROVE  u = v
  BY <1>2 DEF Base, RowsAreAtOwner
<1>3. ASSUME NEW u \in Users, NEW i \in Idx(u)', NEW k \in Idx(u),
             New(u, i), ledger'[u][i].job = legs[u].move.job,
             ledger'[u][i].type = legs[u].move.type,
             ledger'[u][i].type \in Settlements, ledger[u][k].type \in Settlements
      PROVE  ledger'[u][i].job # ledger[u][k].job
  <2>1. tx[s].pc = "ready" /\ legs[u].acc.version = account[u].version
    BY <1>0, <1>3, CommitFacts DEF WriteLegs
  <2> QED BY <1>3, <2>1 DEF SettlementInv, StillUnsettled
<1> SUFFICES ASSUME NEW u \in Users, NEW i \in Idx(u)', NEW v \in Users, NEW k \in Idx(v)',
                    ledger'[u][i].job = ledger'[v][k].job,
                    ledger'[u][i].type \in Settlements, ledger'[v][k].type \in Settlements
             PROVE  u = v /\ i = k
  BY DEF SettledOnce
<1>4. u = v
  BY <1>2
<1>5. CASE i \in Idx(u) /\ ledger'[u][i] = ledger[u][i]
  <2>1. CASE k \in Idx(u) /\ ledger'[u][k] = ledger[u][k]
    BY <1>4, <1>5, <2>1 DEF SettlementInv, SettledOnce
  <2>2. CASE /\ New(u, k)
             /\ ledger'[u][k].job = legs[u].move.job
             /\ ledger'[u][k].type = legs[u].move.type
    BY <1>3, <1>4, <1>5, <2>2
  <2> QED BY <1>1, <1>4, <2>1, <2>2
<1>6. CASE /\ New(u, i)
           /\ ledger'[u][i].job = legs[u].move.job
           /\ ledger'[u][i].type = legs[u].move.type
  <2>1. CASE k \in Idx(u) /\ ledger'[u][k] = ledger[u][k]
    BY <1>3, <1>4, <1>6, <2>1
  <2>2. CASE New(u, k)
    BY <1>4, <1>6, <2>2
  <2> QED BY <1>1, <1>4, <2>1, <2>2
<1> QED BY <1>1, <1>5, <1>6

LEMMA InitInv == Init => SettlementInv
<1> SUFFICES ASSUME Init PROVE SettlementInv
  OBVIOUS
<1>1. Base
  BY InitBase
<1>2. CopyIsCurrent /\ StillUnsettled
  BY DEF Init, Idle, CopyIsCurrent, StillUnsettled
<1>3. SettledOnce
  BY DEF Init, SettledOnce, Idx
<1> QED BY <1>1, <1>2, <1>3 DEF SettlementInv, Base

LEMMA NextInv == SettlementInv /\ [Next]_vars => SettlementInv'
<1> SUFFICES ASSUME SettlementInv, [Next]_vars PROVE SettlementInv'
  OBVIOUS
<1>1. Base /\ CopyIsCurrent /\ StillUnsettled /\ SettledOnce
  BY DEF SettlementInv, Base
<1>2. Base' /\ (CopyIsCurrent /\ StillUnsettled)'
  BY <1>1, NextBase, NextKeeps
<1>3. SettledOnce'
  <2>1. CASE UNCHANGED ledger
    BY <1>1, <2>1 DEF SettledOnce, Idx
  <2>2. ASSUME NEW s \in Sessions,
           NEW done \in SUBSET DOMAIN tx[s].legs, WriteLegs(s, done) PROVE SettledOnce'
    BY <1>2, <2>2, CommitSettlesOnce
  <2>3. ASSUME NEW s \in Sessions, Step(s) PROVE UNCHANGED ledger \/ Writes(s)
    <3>1. ASSUME Opens(s) PROVE UNCHANGED ledger
      BY <3>1 DEF Opens, Begin
    <3> QED BY <1>1, <2>3, <3>1, StepCases DEF Base, CheckLedger, Rollback, CommitLimit
  <2>4. CASE NextMonth \/ UNCHANGED vars
    BY <2>1, <2>4 DEF NextMonth, vars
  <2> QED BY <2>1, <2>2, <2>3, <2>4 DEF Next, Writes
<1> QED BY <1>2, <1>3 DEF SettlementInv, Base

(* Every reachable state satisfies the strengthening: what a session has   *)
(* read and prepared is current, or its version can no longer match.       *)
THEOREM SettlementInvariant == Spec => []SettlementInv
BY InitInv, NextInv, PTL DEF Spec

(* No interleaving of sessions settles a job twice: the version check      *)
(* closes the gap the unique constraint leaves between a capture and a     *)
(* release ("A reserve always ends in exactly one capture or one release").*)
THEOREM SettledAtMostOnce == Spec => []SettledOnce
<1>1. SettlementInv => SettledOnce
  BY DEF SettlementInv
<1> QED BY <1>1, SettlementInvariant, PTL

(* A copy that still has the row's version is the row: what _apply checks  *)
(* in Python against the copy is what the UPDATE finds.                    *)
THEOREM OptimisticLock == Spec => []CopyIsCurrent
<1>1. SettlementInv => CopyIsCurrent
  BY DEF SettlementInv
<1> QED BY <1>1, SettlementInvariant, PTL

-----------------------------------------------------------------------------
HIDE LedgerAssumption

(* What a step does to the ledger *)

MoveOf(s, u) == tx[s].legs[u].move

(* The rows written so far stay as they are.                               *)
LedgerGrows ==
    \A u \in Users : \A i \in Idx(u) : i \in Idx(u)' /\ ledger'[u][i] = ledger[u][i]

(* One account's part of a commit: row e is appended for movement m, and   *)
(* the stored balances are those the row records.                          *)
Books(u, m, e) ==
    /\ m \in Movement /\ m.type \in EntryTypes
    /\ e \in Entry /\ ledger'[u] = Append(ledger[u], e)
    /\ e.type = m.type /\ e.job = m.job /\ e.amount = m.amount /\ e.ref = m.ref
    /\ e.period = IF m.type = "RESERVE" THEN m.period ELSE 0
    /\ account[u] \in Account /\ account'[u] \in Account
    /\ account'[u].available = account[u].available + m.available
    /\ account'[u].reserved = account[u].reserved + m.reserved
    /\ e.balance_after = account'[u].available
    /\ e.reserved_after = account'[u].reserved

(* A commit checks the copy it read, which its version shows to be the     *)
(* row, so the ledger row continues the stored balances.                   *)
LEMMA CommitBooks ==
    ASSUME SettlementInv, NEW s \in Sessions,
           NEW done \in SUBSET DOMAIN tx[s].legs, WriteLegs(s, done), NEW u \in done
    PROVE  /\ u \in Users
           /\ Books(u, MoveOf(s, u), EntryFor(tx[s].legs[u].acc, MoveOf(s, u)))
           /\ tx[s].legs[u].acc = account[u]
           /\ account'[u] = Written(account[u], account[u], MoveOf(s, u))
           /\ Matches(account[u], account[u], MoveOf(s, u))
           /\ NoDuplicate(MoveOf(s, u))
<1> DEFINE leg == tx[s].legs[u]
           m == MoveOf(s, u)
           e == EntryFor(leg.acc, m)
<1>1. Base /\ CopyIsCurrent
  BY DEF SettlementInv, Base
<1>2. /\ u \in Users /\ leg \in Leg /\ leg.acc.version = account[u].version
      /\ GoodMove("ready", u, m)
      /\ account'[u] \in Account /\ e \in Entry /\ ledger'[u] = Append(ledger[u], e)
  BY <1>1, CommitFacts DEF MoveOf
<1>3. leg.acc = account[u]
  BY <1>1, <1>2 DEF CopyIsCurrent
<1>4. Matches(account[u], leg.acc, m) /\ NoDuplicate(m)
  BY DEF WriteLegs, MoveOf
<1>5. account'[u] = Written(account[u], leg.acc, m)
  BY <1>2 DEF WriteLegs, MoveOf
<1>6. m \in Movement /\ m.type \in EntryTypes
  BY <1>2 DEF MoveOf, Leg, GoodMove
<1>7. account[u] \in Account
  BY <1>1, <1>2 DEF Base, TypeOK
<1>8. /\ account'[u].available = account[u].available + m.available
      /\ account'[u].reserved = account[u].reserved + m.reserved
  BY <1>5, <1>7 DEF Written, Account
<1>9. /\ e.type = m.type /\ e.job = m.job /\ e.amount = m.amount /\ e.ref = m.ref
      /\ e.period = IF m.type = "RESERVE" THEN m.period ELSE 0
      /\ e.balance_after = account[u].available + m.available
      /\ e.reserved_after = account[u].reserved + m.reserved
  BY <1>3 DEF EntryFor
<1> HIDE DEF leg, m, e
<1>10. Books(u, m, e)
  BY <1>2, <1>6, <1>7, <1>8, <1>9 DEF Books
<1> QED BY <1>2, <1>3, <1>4, <1>5, <1>10 DEF leg, m, e

LEMMA BooksGrows ==
    ASSUME NEW u \in Users, NEW m, NEW e, ledger[u] \in Seq(Entry), Books(u, m, e)
    PROVE  /\ Len(ledger[u]) \in Nat
           /\ Len(ledger'[u]) = Len(ledger[u]) + 1
           /\ ledger'[u][Len(ledger[u]) + 1] = e
           /\ \A i \in Idx(u) : ledger'[u][i] = ledger[u][i] /\ ledger[u][i] \in Entry
           /\ Idx(u)' = Idx(u) \cup {Len(ledger[u]) + 1}
<1>1. e \in Entry /\ ledger'[u] = Append(ledger[u], e)
  BY DEF Books
<1>2. /\ Len(ledger[u]) \in Nat
      /\ Len(ledger'[u]) = Len(ledger[u]) + 1
      /\ ledger'[u][Len(ledger[u]) + 1] = e
      /\ \A i \in 1..Len(ledger[u]) : ledger'[u][i] = ledger[u][i] /\ ledger[u][i] \in Entry
  BY <1>1, Appended
<1>3. Idx(u)' = Idx(u) \cup {Len(ledger[u]) + 1}
  BY <1>2 DEF Idx
<1> QED BY <1>2, <1>3 DEF Idx

(* Per account, a commit books one row or leaves the account alone.        *)
LEMMA CommitCases ==
    ASSUME SettlementInv, NEW s \in Sessions,
           NEW done \in SUBSET DOMAIN tx[s].legs, WriteLegs(s, done), NEW u \in Users
    PROVE  \/ /\ u \in done
              /\ \E e \in Entry : Books(u, MoveOf(s, u), e)
           \/ /\ u \notin done
              /\ account'[u] = account[u] /\ ledger'[u] = ledger[u]
<1>1. CASE u \in done
  BY <1>1, CommitBooks DEF Books
<1>2. CASE u \notin done
  BY <1>2, CommitFacts DEF SettlementInv, Base
<1> QED BY <1>1, <1>2

(* A step that is not a commit writes no row and moves no balance.         *)
LEMMA OtherSteps ==
    ASSUME Base, [Next]_vars, \A s \in Sessions : ~Writes(s)
    PROVE  /\ UNCHANGED ledger
           /\ \A u \in Users : /\ account'[u].available = account[u].available
                               /\ account'[u].reserved = account[u].reserved
<1>1. CASE NextMonth \/ UNCHANGED vars
  BY <1>1 DEF NextMonth, vars
<1>2. ASSUME NEW s \in Sessions, Step(s)
      PROVE  /\ UNCHANGED ledger
             /\ \A u \in Users : /\ account'[u].available = account[u].available
                                 /\ account'[u].reserved = account[u].reserved
  <2>1. ASSUME Opens(s) PROVE UNCHANGED <<account, ledger>>
    BY <2>1 DEF Opens, Begin
  <2>2. ASSUME NEW u \in Users, CommitLimit(s, u)
        PROVE  /\ UNCHANGED ledger
               /\ \A v \in Users : /\ account'[v].available = account[v].available
                                   /\ account'[v].reserved = account[v].reserved
    BY <2>2 DEF CommitLimit, Base, TypeOK, Account
  <2> QED BY <1>2, <2>1, <2>2, StepCases DEF Base, CheckLedger, Rollback
<1> QED BY <1>1, <1>2 DEF Next

LEMMA CommitGrows ==
    ASSUME SettlementInv, NEW s \in Sessions,
           NEW done \in SUBSET DOMAIN tx[s].legs, WriteLegs(s, done)
    PROVE  LedgerGrows
<1> SUFFICES ASSUME NEW u \in Users, NEW i \in Idx(u)
             PROVE  i \in Idx(u)' /\ ledger'[u][i] = ledger[u][i]
  BY DEF LedgerGrows
<1>1. ledger[u] \in Seq(Entry)
  BY DEF SettlementInv, TypeOK
<1> QED BY <1>1, CommitCases, BooksGrows DEF Idx

LEMMA StepGrows ==
    ASSUME SettlementInv, [Next]_vars
    PROVE  LedgerGrows
<1>1. Base
  BY DEF SettlementInv, Base
<1>2. CASE UNCHANGED ledger
  BY <1>2 DEF LedgerGrows, Idx
<1> QED BY <1>1, <1>2, CommitGrows, OtherSteps DEF Writes

-----------------------------------------------------------------------------
(* What sessions prepare *)

(* The settlement a session is left with once it has consulted the ledger. *)
LEMMA CheckFinds ==
    ASSUME Base, NEW s \in Sessions, NEW u \in Users, CheckLedger(s, u)
    PROVE  LET draft == MoveOf(s, u) IN
           /\ u \in DOMAIN tx[s].legs /\ tx[s].pc = "settling"
           /\ draft \in Movement /\ draft.type \in Settlements /\ draft.job # NoJob
           /\ \E i \in Idx(u) :
                 /\ ledger[u][i] \in Entry
                 /\ ledger[u][i].type = "RESERVE" /\ ledger[u][i].job = draft.job
                 /\ tx' = [tx EXCEPT ![s] =
                      [pc |-> "ready",
                       legs |-> [v \in {u} |->
                          [acc |-> tx[s].legs[u].acc,
                           move |-> SettlementOf(draft.type, ledger[u][i], draft.amount)]]]]
<1> DEFINE draft == MoveOf(s, u)
<1>1. PICK S \in SUBSET Users : /\ tx[s] \in [pc: PCs, legs: [S -> Leg]]
                               /\ \A v \in S : GoodMove(tx[s].pc, v, tx[s].legs[v].move)
  BY TxIsGood DEF Base, GoodTx
<1>2. u \in DOMAIN tx[s].legs /\ tx[s].pc = "settling" /\ u \in S
  BY <1>1 DEF CheckLedger
<1>3. draft \in Movement /\ draft.type \in Settlements /\ draft.job # NoJob
  BY <1>1, <1>2 DEF GoodMove, MoveOf, Leg
<1>4. PICK reserve \in Find(u, draft.job, "RESERVE") :
          tx' = [tx EXCEPT ![s] =
                   [pc |-> "ready",
                    legs |-> [v \in {u} |->
                       [acc |-> tx[s].legs[u].acc,
                        move |-> SettlementOf(draft.type, reserve, draft.amount)]]]]
  BY DEF CheckLedger, MoveOf
<1>5. PICK i \in Idx(u) : reserve = ledger[u][i]
  BY <1>4 DEF Find, Rows, Idx
<1>6. reserve.type = "RESERVE" /\ reserve.job = draft.job
  BY <1>4 DEF Find
<1>7. ledger[u][i] \in Entry
  BY <1>5 DEF Base, TypeOK, Idx
<1> HIDE DEF draft
<1> QED BY <1>2, <1>3, <1>4, <1>5, <1>6, <1>7 DEF draft

(* A capture bills at most what was held and gives back the rest; a        *)
(* release gives back all of it.                                           *)
LEMMA SettlementFacts ==
    ASSUME NEW type \in Settlements, NEW reserve \in Entry, NEW actual \in Int,
           actual >= 0, reserve.amount < 0
    PROVE  LET m == SettlementOf(type, reserve, actual) IN
           /\ m.type = type /\ m.job = reserve.job
           /\ m.available + m.reserved = Booking(m)
           /\ m.reserved = reserve.amount
           /\ IF m.type = "RELEASE" THEN m.amount = -reserve.amount
                                    ELSE m.amount \in reserve.amount..0
           /\ m.spend = -m.available /\ m.period = reserve.period
<1>1. reserve.amount \in Int
  BY DEF Entry
<1>2. CASE type = "CAPTURE"
  <2> DEFINE m == CaptureOf(reserve, actual)
             settled == Lesser(actual, -reserve.amount)
  <2>1. settled \in Int /\ settled >= 0 /\ settled <= -reserve.amount
    BY <1>1 DEF Lesser
  <2>2. /\ m.type = "CAPTURE" /\ m.job = reserve.job /\ m.period = reserve.period
        /\ m.amount = -settled /\ m.available = (-reserve.amount) - settled
        /\ m.reserved = -(-reserve.amount)
        /\ m.spend = -((-reserve.amount) - settled)
    BY DEF CaptureOf
  <2> HIDE DEF m, settled
  <2>3. m = SettlementOf(type, reserve, actual)
    BY <1>2 DEF m, SettlementOf
  <2>4. m.amount \in reserve.amount..0 /\ m.reserved = reserve.amount
    BY <1>1, <2>1, <2>2
  <2>5. m.available + m.reserved = Booking(m) /\ m.spend = -m.available
    BY <1>1, <2>1, <2>2 DEF Booking
  <2> QED BY <1>2, <2>2, <2>3, <2>4, <2>5
<1>3. CASE type = "RELEASE"
  <2> DEFINE m == ReleaseOf(reserve)
  <2>1. /\ m.type = "RELEASE" /\ m.job = reserve.job /\ m.period = reserve.period
        /\ m.amount = -reserve.amount /\ m.available = -reserve.amount
        /\ m.reserved = -(-reserve.amount)
        /\ m.spend = -(-reserve.amount)
    BY DEF ReleaseOf
  <2> HIDE DEF m
  <2>2. m = SettlementOf(type, reserve, actual)
    BY <1>3 DEF m, SettlementOf
  <2>3. m.available + m.reserved = Booking(m) /\ m.spend = -m.available
    BY <1>1, <2>1 DEF Booking
  <2>4. m.reserved = reserve.amount
    BY <1>1, <2>1
  <2> QED BY <1>3, <2>1, <2>2, <2>3, <2>4
<1> QED BY <1>2, <1>3 DEF Settlements

SessionAddsUp(r) ==
    \A u \in DOMAIN tx[r].legs :
        /\ tx[r].pc = "ready" => MoveAddsUp(u, MoveOf(r, u))
        /\ tx[r].pc = "settling" => MoveOf(r, u).amount >= 0
        /\ MoveOf(r, u).job # NoJob => DOMAIN tx[r].legs = {u}

LEMMA SessionsAddUp == MovesAddUp <=> \A r \in Sessions : SessionAddsUp(r)
BY DEF MovesAddUp, SessionAddsUp, MoveOf

LEMMA SessionsAddUpNext == MovesAddUp' <=> \A r \in Sessions : SessionAddsUp(r)'
BY DEF MovesAddUp, SessionAddsUp, MoveOf

(* A session that holds still: what it found in the ledger is still there. *)
LEMMA KeepsAddingUp ==
    ASSUME Base, LedgerGrows, NEW r \in Sessions, SessionAddsUp(r), tx'[r] = tx[r]
    PROVE  SessionAddsUp(r)'
<1> SUFFICES ASSUME NEW u \in DOMAIN tx[r].legs, tx[r].pc = "ready"
             PROVE  MoveAddsUp(u, MoveOf(r, u))'
  BY DEF SessionAddsUp, MoveOf
<1>1. u \in Users
  BY LegFacts
<1>2. MoveAddsUp(u, MoveOf(r, u)) /\ MoveOf(r, u)' = MoveOf(r, u)
  BY DEF SessionAddsUp, MoveOf
<1> QED BY <1>1, <1>2 DEF LedgerGrows, MoveAddsUp, Settles

LEMMA OpensAddsUp ==
    ASSUME Base, NEW s \in Sessions, Opens(s)
    PROVE  SessionAddsUp(s)' /\ \A r \in Sessions \ {s} : tx'[r] = tx[r]
<1>1. PICK pc \in PCs, S \in SUBSET Users : \E moves \in [S -> Movement] :
          OpensWith(pc, S, moves) /\ Begin(s, pc, moves)
  BY DEF Opens
<1>2. PICK moves \in [S -> Movement] : OpensWith(pc, S, moves) /\ Begin(s, pc, moves)
  BY <1>1
<1>3. /\ \A r \in Sessions \ {s} : tx'[r] = tx[r]
      /\ tx'[s] = [pc |-> pc, legs |-> [u \in S |-> [acc |-> account[u], move |-> moves[u]]]]
  BY <1>2 DEF Begin, Base, TypeOK
<1>4. DOMAIN tx'[s].legs = S /\ tx'[s].pc = pc /\ \A u \in S : MoveOf(s, u)' = moves[u]
  BY <1>3 DEF MoveOf
<1>5. ASSUME NEW u \in S
      PROVE  /\ pc = "ready" => MoveAddsUp(u, moves[u])'
             /\ pc = "settling" => moves[u].amount >= 0
             /\ moves[u].job # NoJob => S = {u}
  BY <1>2 DEF OpensWith, OpensMove, MoveAddsUp
<1>6. SessionAddsUp(s)'
  <2> SUFFICES ASSUME NEW u \in S
               PROVE  /\ pc = "ready" => MoveAddsUp(u, MoveOf(s, u))'
                      /\ pc = "settling" => MoveOf(s, u)'.amount >= 0
                      /\ MoveOf(s, u)'.job # NoJob => S = {u}
    BY <1>4 DEF SessionAddsUp
  <2>1. MoveOf(s, u)' = moves[u]
    BY <1>4
  <2> QED BY <1>5, <2>1 DEF MoveAddsUp, Booking, Settles
<1> QED BY <1>3, <1>6

LEMMA CheckAddsUp ==
    ASSUME Base, RowsAddUp, NEW s \in Sessions, SessionAddsUp(s), NEW u \in Users, CheckLedger(s, u)
    PROVE  SessionAddsUp(s)' /\ \A r \in Sessions \ {s} : tx'[r] = tx[r]
<1> DEFINE draft == MoveOf(s, u)
<1>1. /\ u \in DOMAIN tx[s].legs /\ tx[s].pc = "settling"
      /\ draft \in Movement /\ draft.type \in Settlements /\ draft.job # NoJob
  BY CheckFinds
<1>2. PICK i \in Idx(u) :
         /\ ledger[u][i] \in Entry
         /\ ledger[u][i].type = "RESERVE" /\ ledger[u][i].job = draft.job
         /\ tx' = [tx EXCEPT ![s] =
              [pc |-> "ready",
               legs |-> [v \in {u} |->
                  [acc |-> tx[s].legs[u].acc,
                   move |-> SettlementOf(draft.type, ledger[u][i], draft.amount)]]]]
  BY CheckFinds
<1>3. draft.amount >= 0 /\ draft.amount \in Int
  BY <1>1 DEF SessionAddsUp, Movement
<1>4. ledger[u][i].amount < 0
  BY <1>2 DEF RowsAddUp
<1> DEFINE m == SettlementOf(draft.type, ledger[u][i], draft.amount)
<1>5. /\ m.type = draft.type /\ m.job = ledger[u][i].job
      /\ m.available + m.reserved = Booking(m)
      /\ m.reserved = ledger[u][i].amount
      /\ IF m.type = "RELEASE" THEN m.amount = -ledger[u][i].amount
                               ELSE m.amount \in ledger[u][i].amount..0
  BY <1>1, <1>2, <1>3, <1>4, SettlementFacts
<1>6. /\ \A r \in Sessions \ {s} : tx'[r] = tx[r]
      /\ DOMAIN tx'[s].legs = {u} /\ tx'[s].pc = "ready" /\ MoveOf(s, u)' = m
  <2> HIDE DEF m
  <2>1. tx' = [tx EXCEPT ![s] = [pc |-> "ready",
               legs |-> [v \in {u} |-> [acc |-> tx[s].legs[u].acc, move |-> m]]]]
    BY <1>2 DEF m
  <2>2. tx'[s] = [pc |-> "ready",
               legs |-> [v \in {u} |-> [acc |-> tx[s].legs[u].acc, move |-> m]]]
    BY <2>1 DEF Base, TypeOK
  <2> QED BY <2>1, <2>2 DEF Base, TypeOK, MoveOf
<1> HIDE DEF m, draft
<1>7. UNCHANGED ledger
  BY DEF CheckLedger
<1>8. MoveAddsUp(u, MoveOf(s, u))'
  BY <1>1, <1>2, <1>5, <1>6, <1>7
     DEF MoveAddsUp, Booking, Settles, Idx, Settlements, External
<1> QED BY <1>6, <1>8 DEF SessionAddsUp

LEMMA NextMovesAddUp ==
    ASSUME SettlementInv, MovesAddUp, RowsAddUp, [Next]_vars
    PROVE  MovesAddUp'
<1>1. Base /\ LedgerGrows /\ \A r \in Sessions : SessionAddsUp(r)
  BY StepGrows, SessionsAddUp DEF SettlementInv, Base
<1>2. CASE NextMonth \/ UNCHANGED vars
  BY <1>1, <1>2, KeepsAddingUp, SessionsAddUpNext DEF NextMonth, vars
<1>3. ASSUME NEW s \in Sessions, Step(s)
      PROVE  SessionAddsUp(s)' /\ \A r \in Sessions \ {s} : tx'[r] = tx[r]
  <2>1. ASSUME tx' = [tx EXCEPT ![s] = Idle]
        PROVE  SessionAddsUp(s)' /\ \A r \in Sessions \ {s} : tx'[r] = tx[r]
    <3>1. DOMAIN tx'[s].legs = {}
      BY <1>1, <2>1 DEF Idle, Base, TypeOK
    <3> QED BY <1>1, <2>1, <3>1 DEF SessionAddsUp, Base, TypeOK
  <2> QED BY <1>1, <1>3, <2>1, StepCases, OpensAddsUp, CheckAddsUp
          DEF Base, Writes, WriteLegs, Rollback, CommitLimit
<1>4. ASSUME NEW s \in Sessions, Step(s) PROVE MovesAddUp'
  BY <1>1, <1>3, <1>4, KeepsAddingUp, SessionsAddUpNext
<1> QED BY <1>2, <1>4 DEF Next

-----------------------------------------------------------------------------
(* What a commit adds to the ledger *)

LEMMA RowCases ==
    ASSUME SettlementInv, NEW s \in Sessions,
           NEW done \in SUBSET DOMAIN tx[s].legs, WriteLegs(s, done), NEW u \in Users, NEW i \in Idx(u)'
    PROVE  \/ i \in Idx(u) /\ ledger'[u][i] = ledger[u][i]
           \/ /\ i = Len(ledger[u]) + 1 /\ Len(ledger[u]) \in Nat
              /\ u \in done
              /\ Books(u, MoveOf(s, u), ledger'[u][i])
              /\ NoDuplicate(MoveOf(s, u))
<1>1. ledger[u] \in Seq(Entry)
  BY DEF SettlementInv, TypeOK
<1>2. CASE u \notin done
  BY <1>2, CommitCases DEF Idx
<1>3. CASE u \in done
  <2>1. PICK e \in Entry : Books(u, MoveOf(s, u), e)
    BY <1>3, CommitCases
  <2>2. NoDuplicate(MoveOf(s, u))
    BY <1>3, CommitBooks
  <2> QED BY <1>1, <1>3, <2>1, <2>2, BooksGrows
<1> QED BY <1>2, <1>3

(* The movement behind a new row, and the reserve behind its settlement.   *)
LEMMA NewRowAddsUp ==
    ASSUME MovesAddUp, NEW s \in Sessions,
           NEW done \in SUBSET DOMAIN tx[s].legs, WriteLegs(s, done), NEW u \in done
    PROVE  MoveAddsUp(u, MoveOf(s, u))
BY DEF MovesAddUp, WriteLegs, MoveOf

LEMMA CommitRowsAddUp ==
    ASSUME BooksInv, NEW s \in Sessions,
           NEW done \in SUBSET DOMAIN tx[s].legs, WriteLegs(s, done)
    PROVE  RowsAddUp'
<1> SUFFICES ASSUME NEW u \in Users, NEW i \in Idx(u)', ledger'[u][i].type = "RESERVE"
             PROVE  ledger'[u][i].job # NoJob /\ ledger'[u][i].amount < 0
  BY DEF RowsAddUp
<1>1. CASE i \in Idx(u) /\ ledger'[u][i] = ledger[u][i]
  BY <1>1 DEF BooksInv, RowsAddUp
<1>2. CASE u \in done /\ Books(u, MoveOf(s, u), ledger'[u][i])
  BY <1>2, NewRowAddsUp DEF BooksInv, MoveAddsUp, Books
<1> QED BY <1>1, <1>2, RowCases DEF BooksInv

LEMMA CommitReservesOnce ==
    ASSUME BooksInv, NEW s \in Sessions,
           NEW done \in SUBSET DOMAIN tx[s].legs, WriteLegs(s, done), RowsAddUp', RowsAreAtOwner'
    PROVE  ReservedOnce'
<1> SUFFICES ASSUME NEW u \in Users, NEW i \in Idx(u)', NEW v \in Users, NEW k \in Idx(v)',
                    ledger'[u][i].type = "RESERVE", ledger'[v][k].type = "RESERVE",
                    ledger'[u][i].job = ledger'[v][k].job
             PROVE  u = v /\ i = k
  BY DEF ReservedOnce
<1>1. u = v
  BY DEF RowsAddUp, RowsAreAtOwner
<1>2. SettlementInv
  BY DEF BooksInv
<1>3. ASSUME NEW a \in Idx(u), NEW b \in Idx(u)', u \in DOMAIN tx[s].legs,
             Books(u, MoveOf(s, u), ledger'[u][b]), NoDuplicate(MoveOf(s, u)),
             ledger'[u][b].type = "RESERVE", ledger[u][a].type = "RESERVE"
      PROVE  ledger'[u][b].job # ledger[u][a].job
  <2>1. ledger[u][a] \in Rows(u)
    BY DEF Rows, Idx
  <2>2. MoveOf(s, u).job # NoJob
    BY <1>3 DEF Books, RowsAddUp
  <2> QED BY <1>3, <2>1, <2>2 DEF NoDuplicate, Books
<1>4. CASE i \in Idx(u) /\ ledger'[u][i] = ledger[u][i]
  <2>1. CASE k \in Idx(u) /\ ledger'[u][k] = ledger[u][k]
    BY <1>1, <1>4, <2>1 DEF BooksInv, ReservedOnce
  <2> QED BY <1>1, <1>2, <1>3, <1>4, <2>1, RowCases
<1>5. CASE ~(i \in Idx(u) /\ ledger'[u][i] = ledger[u][i])
  <2>1. CASE k \in Idx(u) /\ ledger'[u][k] = ledger[u][k]
    BY <1>1, <1>2, <1>3, <1>5, <2>1, RowCases
  <2>2. CASE k = Len(ledger[u]) + 1
    BY <1>1, <1>2, <1>5, <2>2, RowCases
  <2> QED BY <1>1, <1>2, <2>1, <2>2, RowCases
<1> QED BY <1>4, <1>5

LEMMA CommitFollowsReserve ==
    ASSUME BooksInv, NEW s \in Sessions,
           NEW done \in SUBSET DOMAIN tx[s].legs, WriteLegs(s, done)
    PROVE  SettlementFollowsReserve'
<1>1. SettlementInv /\ LedgerGrows
  BY CommitGrows DEF BooksInv
<1> SUFFICES ASSUME NEW u \in Users, NEW i \in Idx(u)', ledger'[u][i].type \in Settlements
             PROVE  \E k \in 1..(i - 1) :
                       /\ ledger'[u][k].type = "RESERVE"
                       /\ ledger'[u][k].job = ledger'[u][i].job
                       /\ IF ledger'[u][i].type = "RELEASE"
                          THEN ledger'[u][i].amount = -ledger'[u][k].amount
                          ELSE ledger'[u][i].amount \in ledger'[u][k].amount..0
  BY DEF SettlementFollowsReserve
<1>2. CASE i \in Idx(u) /\ ledger'[u][i] = ledger[u][i]
  <2>1. PICK k \in 1..(i - 1) :
                /\ ledger[u][k].type = "RESERVE"
                /\ ledger[u][k].job = ledger[u][i].job
                /\ IF ledger[u][i].type = "RELEASE"
                   THEN ledger[u][i].amount = -ledger[u][k].amount
                   ELSE ledger[u][i].amount \in ledger[u][k].amount..0
    BY <1>2 DEF BooksInv, SettlementFollowsReserve
  <2>2. k \in Idx(u)
    BY <1>1, <1>2 DEF Idx, SettlementInv, TypeOK
  <2> QED BY <1>1, <1>2, <2>1, <2>2 DEF LedgerGrows
<1>3. CASE /\ i = Len(ledger[u]) + 1 /\ Len(ledger[u]) \in Nat
           /\ u \in done
           /\ Books(u, MoveOf(s, u), ledger'[u][i])
  <2>1. PICK k \in Idx(u) : Settles(u, k, MoveOf(s, u))
    BY <1>3, NewRowAddsUp DEF BooksInv, MoveAddsUp, Books
  <2>2. k \in 1..(i - 1) /\ ledger'[u][k] = ledger[u][k]
    BY <1>1, <1>3 DEF Idx, LedgerGrows
  <2> QED BY <1>3, <2>1, <2>2 DEF Settles, Books
<1> QED BY <1>1, <1>2, <1>3, RowCases

(* One account's part of LedgerReplays. *)
Continues(u, i) ==
    LET e == ledger[u][i]
    IN  /\ HeldBy(u, i) = {e.reserved_after - ReservedBefore(u, i)}
        /\ e.balance_after + e.reserved_after
             = BalanceBefore(u, i) + ReservedBefore(u, i) + Booking(e)

Replays(u) ==
    /\ account[u].available = BalanceBefore(u, Len(ledger[u]) + 1)
    /\ account[u].reserved = ReservedBefore(u, Len(ledger[u]) + 1)
    /\ \A i \in Idx(u) : Continues(u, i)

LEMMA ReplaysEach == LedgerReplays <=> \A u \in Users : Replays(u)
BY DEF LedgerReplays, Replays, Continues, Booking

LEMMA ReplaysEachNext == LedgerReplays' <=> \A u \in Users : Replays(u)'
BY DEF LedgerReplays, Replays, Continues, Booking

(* What a new row moves is what its movement moved, and what it moved of   *)
(* the reserved balance is what the ledger says it must.                   *)
LEMMA NewRowContinues ==
    ASSUME BooksInv, NEW u \in Users, NEW m, NEW e, Books(u, m, e), MoveAddsUp(u, m),
           Replays(u)
    PROVE  Replays(u)'
<1>0. Len(ledger[u]) \in Nat
  BY BooksGrows DEF BooksInv, SettlementInv, TypeOK
<1>n. PICK n \in Nat : n = Len(ledger[u])
  BY <1>0
<1>1. /\ Len(ledger'[u]) = n + 1 /\ ledger'[u][n + 1] = e
      /\ \A i \in Idx(u) : ledger'[u][i] = ledger[u][i] /\ ledger[u][i] \in Entry
      /\ Idx(u)' = Idx(u) \cup {n + 1}
  BY <1>n, BooksGrows DEF BooksInv, SettlementInv, TypeOK
<1>2. Idx(u) = 1..n
  BY <1>n DEF Idx
<1>3. ASSUME NEW i \in 1..(n + 1)
      PROVE  /\ BalanceBefore(u, i)' = BalanceBefore(u, i)
             /\ ReservedBefore(u, i)' = ReservedBefore(u, i)
  <2>1. i = 1 \/ i - 1 \in Idx(u)
    BY <1>1, <1>2
  <2> QED BY <1>1, <2>1 DEF BalanceBefore, ReservedBefore
<1>4. ASSUME NEW i \in Idx(u) PROVE Continues(u, i)'
  <2>1. HeldBy(u, i)' = HeldBy(u, i)
    <3>1. \A k \in 1..(i - 1) : ledger'[u][k] = ledger[u][k]
      BY <1>1, <1>2
    <3>2. ledger'[u][i] = ledger[u][i]
      BY <1>1
    <3>3. {k \in 1..(i - 1) : ledger'[u][k].type = "RESERVE" /\ ledger'[u][k].job = ledger'[u][i].job}
          = {k \in 1..(i - 1) : ledger[u][k].type = "RESERVE" /\ ledger[u][k].job = ledger[u][i].job}
      BY <3>1, <3>2
    <3>4. {ledger'[u][k].amount : k \in {k \in 1..(i - 1) :
                ledger'[u][k].type = "RESERVE" /\ ledger'[u][k].job = ledger'[u][i].job}}
          = {ledger[u][k].amount : k \in {k \in 1..(i - 1) :
                ledger[u][k].type = "RESERVE" /\ ledger[u][k].job = ledger[u][i].job}}
      BY <3>1, <3>3
    <3> QED BY <3>2, <3>4 DEF HeldBy
  <2>2. Continues(u, i) /\ i \in 1..(n + 1)
    BY <1>1, <1>2 DEF Replays
  <2>3. /\ BalanceBefore(u, i)' = BalanceBefore(u, i)
        /\ ReservedBefore(u, i)' = ReservedBefore(u, i)
    BY <1>3, <2>2
  <2>4. ledger'[u][i] = ledger[u][i]
    BY <1>1
  <2> QED BY <2>1, <2>2, <2>3, <2>4 DEF Continues, Booking
<1>5. /\ BalanceBefore(u, n + 1)' = account[u].available
      /\ ReservedBefore(u, n + 1)' = account[u].reserved
  <2>1. n + 1 \in 1..(n + 1)
    OBVIOUS
  <2> QED BY <1>n, <1>3, <2>1 DEF Replays
<1>6. HeldBy(u, n + 1)' = {m.reserved}
  <2>0. e.type = m.type /\ e.job = m.job /\ e.amount = m.amount /\ m.type \in EntryTypes
    BY DEF Books
  <2>1. CASE m.type = "RESERVE"
    <3>1. m.reserved = -m.amount
      BY <2>1 DEF MoveAddsUp
    <3> QED BY <1>1, <2>0, <2>1, <3>1 DEF HeldBy
  <2>2. CASE m.type \in External
    BY <1>1, <2>0, <2>2 DEF HeldBy, MoveAddsUp, External, Settlements
  <2>3. CASE m.type \in Settlements
    <3>1. PICK k \in Idx(u) : Settles(u, k, m) /\ m.reserved = ledger[u][k].amount
      BY <2>3 DEF MoveAddsUp
    <3>2. k \in 1..((n + 1) - 1) /\ ledger'[u][k].amount = m.reserved
      BY <1>1, <1>2, <3>1
    <3>3. ledger'[u][k].type = "RESERVE" /\ ledger'[u][k].job = m.job
      BY <1>1, <3>1 DEF Settles
    <3>4. ASSUME NEW q \in 1..((n + 1) - 1), ledger'[u][q].type = "RESERVE", ledger'[u][q].job = m.job
          PROVE  q = k
      <4>1. q \in Idx(u)
        BY <1>1, <1>2
      <4>2. ledger[u][q].type = "RESERVE" /\ ledger[u][q].job = ledger[u][k].job
            /\ ledger[u][k].type = "RESERVE"
        BY <1>1, <3>1, <3>4, <4>1 DEF Settles
      <4> QED BY <4>1, <4>2 DEF BooksInv, ReservedOnce
    <3>5. {q \in 1..((n + 1) - 1) : ledger'[u][q].type = "RESERVE" /\ ledger'[u][q].job = m.job} = {k}
      BY <3>2, <3>3, <3>4
    <3>6. HeldBy(u, n + 1)' = {ledger'[u][q].amount : q \in
             {q \in 1..((n + 1) - 1) : ledger'[u][q].type = "RESERVE" /\ ledger'[u][q].job = m.job}}
      BY <1>1, <2>0, <2>3 DEF HeldBy, Settlements
    <3> QED BY <3>2, <3>5, <3>6
  <2> QED BY <2>0, <2>1, <2>2, <2>3 DEF EntryTypes
<1>7. /\ e.balance_after = account[u].available + m.available
      /\ e.reserved_after = account[u].reserved + m.reserved
      /\ account'[u].available = e.balance_after /\ account'[u].reserved = e.reserved_after
      /\ account[u].available \in Int /\ account[u].reserved \in Int
      /\ m.available \in Int /\ m.reserved \in Int
      /\ Booking(e) = Booking(m)
  BY DEF Books, Account, Movement, Booking
<1>8. Continues(u, n + 1)'
  <2>1. m.available + m.reserved = Booking(m)
    BY DEF MoveAddsUp
  <2>2. Booking(m) \in Int
    BY <1>7, <2>1
  <2>3. e.reserved_after - account[u].reserved = m.reserved
    BY <1>7
  <2>4. e.balance_after + e.reserved_after
           = account[u].available + account[u].reserved + Booking(e)
    BY <1>7, <2>1, <2>2
  <2>5. Booking(ledger[u][n + 1])' = Booking(e)
    BY <1>1 DEF Booking
  <2> QED BY <1>1, <1>5, <1>6, <2>3, <2>4 DEF Continues, Booking
<1>9. /\ account'[u].available = BalanceBefore(u, Len(ledger[u]) + 1)'
      /\ account'[u].reserved = ReservedBefore(u, Len(ledger[u]) + 1)'
  <2>1. Len(ledger'[u]) + 1 # 1 /\ Len(ledger'[u]) = n + 1 /\ (Len(ledger'[u]) + 1) - 1 = n + 1
    BY <1>1
  <2> QED BY <1>1, <1>7, <2>1 DEF BalanceBefore, ReservedBefore
<1> QED BY <1>1, <1>4, <1>8, <1>9 DEF Replays

LEMMA ReplaysOnWith ==
    ASSUME NEW u \in Users, Replays(u), ledger'[u] = ledger[u],
           account'[u].available = account[u].available,
           account'[u].reserved = account[u].reserved
    PROVE  Replays(u)'
<1>1. \A i : HeldBy(u, i)' = HeldBy(u, i)
  BY DEF HeldBy
<1>2. \A i : /\ BalanceBefore(u, i)' = BalanceBefore(u, i)
             /\ ReservedBefore(u, i)' = ReservedBefore(u, i)
  BY DEF BalanceBefore, ReservedBefore
<1>3. BalanceBefore(u, Len(ledger[u]) + 1)' = BalanceBefore(u, Len(ledger[u]) + 1)
  BY DEF BalanceBefore
<1>4. ReservedBefore(u, Len(ledger[u]) + 1)' = ReservedBefore(u, Len(ledger[u]) + 1)
  BY DEF ReservedBefore
<1>5. ASSUME NEW i \in Idx(u) PROVE Continues(u, i)'
  <2>1. Continues(u, i)
    BY DEF Replays
  <2> QED BY <1>1, <1>2, <2>1 DEF Continues, Booking
<1>6. Idx(u)' = Idx(u)
  BY DEF Idx
<1> QED BY <1>3, <1>4, <1>5, <1>6 DEF Replays

LEMMA CommitReplays ==
    ASSUME BooksInv, NEW s \in Sessions,
           NEW done \in SUBSET DOMAIN tx[s].legs, WriteLegs(s, done)
    PROVE  LedgerReplays'
<1>1. ASSUME NEW u \in Users PROVE Replays(u)'
  <2>1. Replays(u)
    BY ReplaysEach DEF BooksInv
  <2>2. CASE u \in done
    <3>1. PICK e \in Entry : Books(u, MoveOf(s, u), e)
      BY <2>2, CommitCases DEF BooksInv
    <3>2. MoveAddsUp(u, MoveOf(s, u))
      BY <2>2, NewRowAddsUp DEF BooksInv
    <3> QED BY <2>1, <3>1, <3>2, NewRowContinues
  <2>3. CASE u \notin done
    <3>1. account'[u] = account[u] /\ ledger'[u] = ledger[u]
      BY <2>3, CommitCases DEF BooksInv
    <3> QED BY <2>1, <3>1, ReplaysOnWith
  <2> QED BY <2>2, <2>3
<1> QED BY <1>1, ReplaysEachNext

LEMMA InitBooks == Init => BooksInv
<1> SUFFICES ASSUME Init PROVE BooksInv
  OBVIOUS
<1>1. SettlementInv
  BY InitInv
<1>2. ASSUME NEW u \in Users PROVE Idx(u) = {} /\ Len(ledger[u]) = 0
  <2>1. ledger[u] = <<>>
    BY DEF Init
  <2> QED BY <2>1 DEF Idx
<1>3. MovesAddUp
  BY DEF Init, MovesAddUp, Idle
<1>4. RowsAddUp /\ ReservedOnce /\ SettlementFollowsReserve
  BY <1>2 DEF RowsAddUp, ReservedOnce, SettlementFollowsReserve
<1>5. LedgerReplays
  <2>1. ASSUME NEW u \in Users PROVE Replays(u)
    <3>1. account[u].available = 0 /\ account[u].reserved = 0
      BY DEF Init, NewAccount
    <3> QED BY <1>2, <3>1 DEF Replays, BalanceBefore, ReservedBefore
  <2> QED BY <2>1, ReplaysEach
<1> QED BY <1>1, <1>3, <1>4, <1>5 DEF BooksInv

LEMMA NextBooks == BooksInv /\ [Next]_vars => BooksInv'
<1> SUFFICES ASSUME BooksInv, [Next]_vars PROVE BooksInv'
  OBVIOUS
<1>1. SettlementInv'
  BY NextInv DEF BooksInv
<1>2. MovesAddUp'
  BY NextMovesAddUp DEF BooksInv
<1>3. ASSUME NEW s \in Sessions,
           NEW done \in SUBSET DOMAIN tx[s].legs, WriteLegs(s, done)
      PROVE  (RowsAddUp /\ ReservedOnce /\ SettlementFollowsReserve /\ LedgerReplays)'
  <2>1. RowsAddUp' /\ SettlementFollowsReserve' /\ LedgerReplays'
    BY <1>3, CommitRowsAddUp, CommitFollowsReserve, CommitReplays
  <2>2. RowsAreAtOwner'
    BY <1>1 DEF SettlementInv
  <2> QED BY <1>3, <2>1, <2>2, CommitReservesOnce
<1>4. ASSUME \A s \in Sessions : ~Writes(s)
      PROVE  (RowsAddUp /\ ReservedOnce /\ SettlementFollowsReserve /\ LedgerReplays)'
  <2>1. Base
    BY DEF BooksInv, SettlementInv, Base
  <2>2. /\ UNCHANGED ledger
        /\ \A u \in Users : /\ account'[u].available = account[u].available
                            /\ account'[u].reserved = account[u].reserved
    BY <1>4, <2>1, OtherSteps
  <2>3. (RowsAddUp /\ ReservedOnce /\ SettlementFollowsReserve)'
    BY <2>2 DEF BooksInv, RowsAddUp, ReservedOnce, SettlementFollowsReserve, Idx
  <2>4. LedgerReplays'
    BY <2>2, ReplaysOnWith, ReplaysEach, ReplaysEachNext DEF BooksInv
  <2> QED BY <2>3, <2>4
<1> QED BY <1>1, <1>2, <1>3, <1>4 DEF BooksInv, Writes

(* In every reachable state prepared movements balance, a job has one      *)
(* reserve, its settlement follows it, and the ledger replays.             *)
THEOREM BooksInvariant == Spec => []BooksInv
BY InitBooks, NextBooks, PTL DEF Spec

(* models/credits says the balances are derived from the ledger: replaying *)
(* it from an empty account gives every recorded balance and the stored    *)
(* row, whatever sessions raced to write it.                               *)
THEOREM BalancesAreDerived == Spec => []LedgerReplays
<1>1. BooksInv => LedgerReplays
  BY DEF BooksInv
<1> QED BY <1>1, BooksInvariant, PTL

(* Nothing is captured or released that was not reserved, a release gives  *)
(* back all that was held and a capture bills no more than that.           *)
THEOREM SettlesWhatWasReserved == Spec => []SettlementFollowsReserve
<1>1. BooksInv => SettlementFollowsReserve
  BY DEF BooksInv
<1> QED BY <1>1, BooksInvariant, PTL

-----------------------------------------------------------------------------
(* Both legs of a transfer or neither *)

Paired(m, n) == LegsMatch(m, n) \/ LegsMatch(n, m)

LEMMA NextMovesPaired ==
    ASSUME Base, MovesArePaired, [Next]_vars
    PROVE  MovesArePaired'
<1> DEFINE P(r) == \A u \in DOMAIN tx[r].legs :
                      MoveOf(r, u).type \in Transfers =>
                         \E v \in DOMAIN tx[r].legs : Paired(MoveOf(r, u), MoveOf(r, v))
<1>1. /\ MovesArePaired <=> \A r \in Sessions : P(r)
      /\ MovesArePaired' <=> \A r \in Sessions : P(r)'
  BY DEF MovesArePaired, Paired, MoveOf
<1>2. ASSUME NEW r \in Sessions, tx'[r] = tx[r] PROVE P(r)'
  BY <1>1, <1>2 DEF MoveOf, Paired
<1>3. ASSUME NEW s \in Sessions, Step(s)
      PROVE  P(s)' /\ \A r \in Sessions \ {s} : tx'[r] = tx[r]
  <2>1. CASE tx' = [tx EXCEPT ![s] = Idle]
    <3>1. DOMAIN tx'[s].legs = {}
      BY <2>1 DEF Idle, Base, TypeOK
    <3> QED BY <2>1, <3>1 DEF Base, TypeOK
  <2>2. ASSUME NEW u \in Users, CheckLedger(s, u)
        PROVE  P(s)' /\ \A r \in Sessions \ {s} : tx'[r] = tx[r]
    <3>1. PICK leg \in Leg :
             /\ tx' = [tx EXCEPT ![s] = [pc |-> "ready", legs |-> [v \in {u} |-> leg]]]
             /\ leg.move.type \in Settlements
      BY <2>2, CheckFacts
    <3>2. tx'[s] = [pc |-> "ready", legs |-> [v \in {u} |-> leg]]
      BY <3>1 DEF Base, TypeOK
    <3>3. DOMAIN tx'[s].legs = {u} /\ MoveOf(s, u)' = leg.move
      BY <3>2 DEF MoveOf
    <3>4. leg.move.type \notin Transfers
      BY <3>1 DEF Settlements, Transfers
    <3> QED BY <3>1, <3>3, <3>4 DEF Base, TypeOK
  <2>3. CASE Opens(s)
    <3>1. PICK pc \in PCs, S \in SUBSET Users : \E moves \in [S -> Movement] :
              OpensWith(pc, S, moves) /\ Begin(s, pc, moves)
      BY <2>3 DEF Opens
    <3>2. PICK moves \in [S -> Movement] : OpensWith(pc, S, moves) /\ Begin(s, pc, moves)
      BY <3>1
    <3>3. /\ \A r \in Sessions \ {s} : tx'[r] = tx[r]
          /\ tx'[s] = [pc |-> pc, legs |-> [u \in S |-> [acc |-> account[u], move |-> moves[u]]]]
      BY <3>2 DEF Begin, Base, TypeOK
    <3>4. DOMAIN tx'[s].legs = S /\ \A u \in S : MoveOf(s, u)' = moves[u]
      BY <3>3 DEF MoveOf
    <3>5. \A u \in S : moves[u].type \in Transfers => \E v \in S : Paired(moves[u], moves[v])
      BY <3>2 DEF OpensWith, Paired
    <3>6. \A u, v \in S : Paired(MoveOf(s, u), MoveOf(s, v))' = Paired(moves[u], moves[v])
      BY <3>4 DEF Paired, LegsMatch
    <3> QED BY <3>3, <3>4, <3>5, <3>6
  <2> HIDE DEF P
  <2> QED BY <1>3, <2>1, <2>2, <2>3, StepCases DEF Base, Writes, WriteLegs, Rollback, CommitLimit
<1>4. CASE NextMonth \/ UNCHANGED vars
  BY <1>1, <1>2, <1>4 DEF NextMonth, vars
<1>5. ASSUME NEW s \in Sessions, Step(s) PROVE MovesArePaired'
  <2> HIDE DEF P
  <2> QED BY <1>1, <1>2, <1>3, <1>5
<1> QED BY <1>4, <1>5 DEF Next

(* Rows match as the movements they book match. *)
LEMMA RowsMatch ==
    ASSUME NEW m, NEW n, NEW e, NEW f, Paired(m, n),
           e.type = m.type, e.ref = m.ref, e.amount = m.amount,
           f.type = n.type, f.ref = n.ref, f.amount = n.amount
    PROVE  Paired(e, f)
BY DEF Paired, LegsMatch

LEMMA RowsStay ==
    ASSUME LedgerGrows
    PROVE  \A e \in AllRows : e \in AllRows'
<1> SUFFICES ASSUME NEW e \in AllRows PROVE e \in AllRows'
  OBVIOUS
<1>1. PICK u \in Users : e \in Rows(u)
  BY DEF AllRows
<1>2. PICK i \in Idx(u) : e = ledger[u][i]
  BY <1>1 DEF Rows, Idx
<1>3. i \in Idx(u)' /\ e = ledger'[u][i]
  BY <1>2 DEF LedgerGrows
<1>4. e \in Rows(u)'
  BY <1>3 DEF Rows, Idx
<1> QED BY <1>4 DEF AllRows

LEMMA CommitPairs ==
    ASSUME SettlementInv, MovesArePaired, TransfersAreBacked, NEW s \in Sessions,
           NEW done \in SUBSET DOMAIN tx[s].legs, WriteLegs(s, done),
           \/ done = DOMAIN tx[s].legs
           \/ \A u \in done : tx[s].legs[u].move.type = "ROYALTY_OUT"
    PROVE  TransfersAreBacked'
<1>1. LedgerGrows
  BY CommitGrows
<1>2. TransfersAreBacked <=>
         \A e \in AllRows : e.type \in Transfers \ {"ROYALTY_OUT"} => \E f \in AllRows : Paired(e, f)
  BY DEF TransfersAreBacked, HasOtherLeg, Paired
<1>3. TransfersAreBacked' <=>
         \A e \in AllRows' : e.type \in Transfers \ {"ROYALTY_OUT"} => \E f \in AllRows' : Paired(e, f)
  BY DEF TransfersAreBacked, HasOtherLeg, Paired
<1> SUFFICES ASSUME NEW e \in AllRows', e.type \in Transfers, e.type # "ROYALTY_OUT"
             PROVE  \E f \in AllRows' : Paired(e, f)
  BY <1>3
<1>4. PICK u \in Users : e \in Rows(u)'
  BY DEF AllRows
<1>5. PICK i \in Idx(u)' : e = ledger'[u][i]
  BY <1>4 DEF Rows, Idx
<1>6. CASE i \in Idx(u) /\ ledger'[u][i] = ledger[u][i]
  <2>1. e \in AllRows
    BY <1>5, <1>6 DEF AllRows, Rows, Idx
  <2> QED BY <1>1, <1>2, <2>1, RowsStay
<1>7. CASE u \in done /\ Books(u, MoveOf(s, u), ledger'[u][i])
  <2>1. e.type = MoveOf(s, u).type /\ e.ref = MoveOf(s, u).ref /\ e.amount = MoveOf(s, u).amount
    BY <1>5, <1>7 DEF Books
  <2>0. done = DOMAIN tx[s].legs
    BY <1>7, <2>1 DEF MoveOf
  <2>2. PICK v \in DOMAIN tx[s].legs : Paired(MoveOf(s, u), MoveOf(s, v))
    BY <1>7, <2>1 DEF MovesArePaired, MoveOf, Paired
  <2>3. v \in Users
    BY LegFacts DEF SettlementInv, Base
  <2>4. PICK f \in Entry : Books(v, MoveOf(s, v), f)
    BY <2>0, <2>2, CommitBooks DEF Books
  <2>5. f.type = MoveOf(s, v).type /\ f.ref = MoveOf(s, v).ref /\ f.amount = MoveOf(s, v).amount
    BY <2>4 DEF Books
  <2>6. ledger[v] \in Seq(Entry)
    BY <2>3 DEF SettlementInv, TypeOK
  <2>7. f = ledger'[v][Len(ledger[v]) + 1] /\ Len(ledger[v]) + 1 \in Idx(v)'
    BY <2>3, <2>4, <2>6, BooksGrows
  <2>8. f \in AllRows'
    BY <2>3, <2>7 DEF AllRows, Rows, Idx
  <2> QED BY <2>1, <2>2, <2>5, <2>8, RowsMatch
<1> QED BY <1>5, <1>6, <1>7, RowCases

(* Whatever sessions race, and although a royalty's payer may be charged   *)
(* alone: no credit arrives that another account was not charged for, and  *)
(* no buyer is charged for access the seller is not paid for.              *)
THEOREM TransfersMintNothing == Spec => []TransfersAreBacked
<1> DEFINE Inv == SettlementInv /\ MovesArePaired /\ TransfersAreBacked
<1>1. Init => Inv
  <2> SUFFICES ASSUME Init PROVE Inv
    OBVIOUS
  <2>1. MovesArePaired
    BY DEF Init, Idle, MovesArePaired
  <2>2. ASSUME NEW u \in Users PROVE Rows(u) = {}
    <3>1. ledger[u] = <<>>
      BY DEF Init
    <3> QED BY <3>1 DEF Rows
  <2>3. TransfersAreBacked
    BY <2>2 DEF TransfersAreBacked, AllRows
  <2> QED BY <2>1, <2>3, InitInv
<1>2. Inv /\ [Next]_vars => Inv'
  <2> SUFFICES ASSUME Inv, [Next]_vars PROVE Inv'
    OBVIOUS
  <2>1. Base
    BY DEF SettlementInv, Base
  <2>2. SettlementInv' /\ MovesArePaired'
    BY <2>1, NextInv, NextMovesPaired
  <2>3. ASSUME UNCHANGED ledger PROVE TransfersAreBacked'
    <3>1. \A u \in Users : Rows(u)' = Rows(u)
      BY <2>3 DEF Rows
    <3>2. AllRows' = AllRows
      BY <3>1 DEF AllRows
    <3> QED BY <3>2 DEF TransfersAreBacked, HasOtherLeg
  <2>4. ASSUME NEW s \in Sessions, Writes(s) PROVE TransfersAreBacked'
    BY <2>4, CommitPairs DEF Writes
  <2>5. ASSUME \A s \in Sessions : ~Writes(s) PROVE UNCHANGED ledger
    BY <2>1, <2>5, OtherSteps
  <2> QED BY <2>2, <2>3, <2>4, <2>5
<1>3. Inv => TransfersAreBacked
  OBVIOUS
<1> HIDE DEF Inv
<1> QED BY <1>1, <1>2, <1>3, PTL DEF Spec

-----------------------------------------------------------------------------
(* The refinement: a job's hold is read off its rows, which are all on its *)
(* owner's account, one of each type.                                      *)
Unsettled(j) == Booked(j, "CAPTURE") = {} /\ Booked(j, "RELEASE") = {}

LEMMA RowOf ==
    ASSUME NEW j \in Jobs, NEW type, NEW e \in Booked(j, type)
    PROVE  \E i \in Idx(Owner[j]) : /\ e = ledger[Owner[j]][i]
                                    /\ e.job = j /\ e.type = type
BY DEF Booked, Find, Rows, Idx

LEMMA OneOfEach ==
    BooksInv => \A j \in Jobs : \A type \in Settlements \cup {"RESERVE"} :
                   \A e, f \in Booked(j, type) : e = f
<1> SUFFICES ASSUME BooksInv, NEW j \in Jobs, NEW type \in Settlements \cup {"RESERVE"},
                    NEW e \in Booked(j, type), NEW f \in Booked(j, type)
             PROVE  e = f
  OBVIOUS
<1> DEFINE u == Owner[j]
<1>1. PICK i \in Idx(u) : e = ledger[u][i] /\ e.job = j /\ e.type = type
  BY RowOf
<1>2. PICK k \in Idx(u) : f = ledger[u][k] /\ f.job = j /\ f.type = type
  BY RowOf
<1>3. u \in Users
  BY LedgerAssumption
<1>4. i = k
  <2>1. CASE type = "RESERVE"
    BY <1>1, <1>2, <1>3, <2>1 DEF BooksInv, ReservedOnce
  <2>2. CASE type \in Settlements
    BY <1>1, <1>2, <1>3, <2>2 DEF BooksInv, SettlementInv, SettledOnce
  <2> QED BY <2>1, <2>2
<1> QED BY <1>1, <1>2, <1>4

(* A settled job was reserved. *)
LEMMA SettledWasReserved ==
    BooksInv => \A j \in Jobs : Booked(j, "RESERVE") = {} => Unsettled(j)
<1> SUFFICES ASSUME BooksInv, NEW j \in Jobs, NEW type \in Settlements, NEW e \in Booked(j, type)
             PROVE  Booked(j, "RESERVE") # {}
  BY DEF Unsettled, Settlements
<1> DEFINE u == Owner[j]
<1>1. PICK i \in Idx(u) : e = ledger[u][i] /\ e.job = j /\ e.type = type
  BY RowOf
<1>2. PICK k \in 1..(i - 1) : ledger[u][k].type = "RESERVE" /\ ledger[u][k].job = j
  BY <1>1, LedgerAssumption DEF BooksInv, SettlementFollowsReserve
<1>3. k \in Idx(u)
  BY <1>1, <1>2 DEF Idx, BooksInv, SettlementInv, TypeOK
<1>4. ledger[u][k] \in Booked(j, "RESERVE")
  BY <1>2, <1>3 DEF Booked, Find, Rows, Idx
<1> QED BY <1>4

HoldShape(j) ==
    /\ Booked(j, "RESERVE") = {} /\ Unsettled(j)
          => HoldOf(j) = [state |-> "none", amount |-> 0]
    /\ \A e \in Booked(j, "RESERVE") : Unsettled(j) /\ e.amount \in Int /\ e.amount < 0
          => HoldOf(j) = [state |-> "open", amount |-> -e.amount]
    /\ \A e \in Booked(j, "CAPTURE") : e.amount \in Int /\ e.amount <= 0
          => HoldOf(j) = [state |-> "captured", amount |-> -e.amount]
    /\ \A e \in Booked(j, "RELEASE") :
          Booked(j, "CAPTURE") = {} /\ e.amount \in Int /\ e.amount > 0
          => HoldOf(j) = [state |-> "released", amount |-> e.amount]

LEMMA HoldIsRead ==
    ASSUME NEW j \in Jobs,
           \A type \in Settlements \cup {"RESERVE"} : \A e, f \in Booked(j, type) : e = f
    PROVE  HoldShape(j)
<1>1. ASSUME NEW type \in Settlements \cup {"RESERVE"}, NEW e \in Booked(j, type)
      PROVE  (CHOOSE x \in Booked(j, type) : TRUE) = e
  <2>1. (CHOOSE x \in Booked(j, type) : TRUE) \in Booked(j, type)
    OBVIOUS
  <2> QED BY <2>1
<1>2. ASSUME NEW type \in Settlements \cup {"RESERVE"}, NEW e \in Booked(j, type), NEW state
      PROVE  Settled(j, state, type)
                = [state |-> state, amount |-> IF e.amount < 0 THEN -e.amount ELSE e.amount]
  BY <1>1 DEF Settled
<1>3. Booked(j, "RESERVE") = {} /\ Unsettled(j) => HoldOf(j) = [state |-> "none", amount |-> 0]
  BY DEF HoldOf, Unsettled
<1>4. ASSUME NEW e \in Booked(j, "RESERVE"), Unsettled(j), e.amount \in Int, e.amount < 0
      PROVE  HoldOf(j) = [state |-> "open", amount |-> -e.amount]
  <2>1. HoldOf(j) = Settled(j, "open", "RESERVE")
    BY <1>4 DEF HoldOf, Unsettled
  <2> QED BY <1>2, <1>4, <2>1
<1>5. ASSUME NEW e \in Booked(j, "CAPTURE"), e.amount \in Int, e.amount <= 0
      PROVE  HoldOf(j) = [state |-> "captured", amount |-> -e.amount]
  <2>1. HoldOf(j) = Settled(j, "captured", "CAPTURE")
    BY <1>5 DEF HoldOf
  <2>2. (IF e.amount < 0 THEN -e.amount ELSE e.amount) = -e.amount
    BY <1>5
  <2>3. "CAPTURE" \in Settlements \cup {"RESERVE"}
    BY DEF Settlements
  <2> QED BY <1>2, <2>1, <2>2, <2>3
<1>6. ASSUME NEW e \in Booked(j, "RELEASE"), Booked(j, "CAPTURE") = {}, e.amount \in Int, e.amount > 0
      PROVE  HoldOf(j) = [state |-> "released", amount |-> e.amount]
  <2>1. HoldOf(j) = Settled(j, "released", "RELEASE")
    BY <1>6 DEF HoldOf
  <2>2. (IF e.amount < 0 THEN -e.amount ELSE e.amount) = e.amount
    BY <1>6
  <2>3. "RELEASE" \in Settlements \cup {"RESERVE"}
    BY DEF Settlements
  <2> QED BY <1>2, <2>1, <2>2, <2>3
<1> QED BY <1>3, <1>4, <1>5, <1>6 DEF HoldShape

LEMMA Holds == BooksInv => \A j \in Jobs : HoldShape(j)
BY OneOfEach, HoldIsRead

LEMMA HoldsNext == (BooksInv => \A j \in Jobs : HoldShape(j))'
BY Holds, PTL

(* What a new row does to the jobs' rows of its account.                   *)
LEMMA BooksFind ==
    ASSUME NEW u \in Users, NEW m, NEW e, ledger[u] \in Seq(Entry), Books(u, m, e)
    PROVE  \A j \in Jobs : \A type \in Settlements \cup {"RESERVE"} :
              Find(u, j, type)' = Find(u, j, type) \cup
                                     (IF m.job = j /\ m.type = type THEN {e} ELSE {})
<1> SUFFICES ASSUME NEW j \in Jobs, NEW type \in Settlements \cup {"RESERVE"}
             PROVE  Find(u, j, type)' = Find(u, j, type) \cup
                                     (IF m.job = j /\ m.type = type THEN {e} ELSE {})
  OBVIOUS
<1>1. Rows(u)' = Rows(u) \cup {e}
  BY BooksGrows DEF Rows, Idx
<1>2. e.job = m.job /\ e.type = m.type
  BY DEF Books
<1> QED BY <1>1, <1>2 DEF Find

(* The session about to commit a job's movement commits nothing else.      *)
LEMMA JobCommit ==
    ASSUME BooksInv, NEW s \in Sessions,
           NEW done \in SUBSET DOMAIN tx[s].legs, WriteLegs(s, done), NEW u \in done,
           MoveOf(s, u).job # NoJob
    PROVE  LET m == MoveOf(s, u) IN
           /\ u \in Users /\ m.job \in Jobs /\ u = Owner[m.job]
           /\ m.type \in Settlements \cup {"RESERVE"}
           /\ MoveAddsUp(u, m)
           /\ \E e \in Entry : Books(u, m, e)
           /\ NoDuplicate(m)
           /\ m.type \in Settlements => Unsettled(m.job)
           /\ \A v \in Users \ {u} : account'[v] = account[v] /\ ledger'[v] = ledger[v]
<1> DEFINE m == MoveOf(s, u)
<1>1. Base
  BY DEF BooksInv, SettlementInv, Base
<1>2. /\ u \in Users /\ NoDuplicate(m) /\ \E e \in Entry : Books(u, m, e)
      /\ tx[s].legs[u].acc = account[u]
  BY CommitBooks DEF BooksInv, Books
<1>3. m \in Movement /\ m.type \in EntryTypes
  BY <1>2 DEF Books
<1>4. m.job \in Jobs
  BY <1>3 DEF Movement
<1>5. GoodMove("ready", u, m)
  BY <1>1, CommitFacts DEF MoveOf
<1>6. MoveAddsUp(u, m)
  BY NewRowAddsUp DEF BooksInv
<1>7. u = Owner[m.job] /\ m.type \in Settlements \cup {"RESERVE"}
  BY <1>3, <1>5, <1>6 DEF GoodMove, MoveAddsUp, EntryTypes
<1>8. DOMAIN tx[s].legs = {u}
  BY DEF BooksInv, MovesAddUp, MoveOf
<1>9. \A v \in Users \ {u} : account'[v] = account[v] /\ ledger'[v] = ledger[v]
  BY <1>1, <1>8, CommitFacts
<1>10. ASSUME m.type \in Settlements PROVE Unsettled(m.job)
  <2>1. \A i \in Idx(u) : ledger[u][i].type \in Settlements => ledger[u][i].job # m.job
    BY <1>2, <1>10 DEF BooksInv, SettlementInv, StillUnsettled, MoveOf, WriteLegs
  <2> HIDE DEF m
  <2> QED BY <1>7, <2>1 DEF Unsettled, Booked, Find, Rows, Idx, Settlements
<1> HIDE DEF m
<1> QED BY <1>2, <1>4, <1>6, <1>7, <1>9, <1>10 DEF m

Funds == [u \in Users |-> account[u].available]
Hold  == [j \in Jobs |-> HoldOf(j)]

LEMMA HoldKept ==
    ASSUME BooksInv, NEW j \in Jobs,
           \A type \in Settlements \cup {"RESERVE"} : Booked(j, type)' = Booked(j, type)
    PROVE  HoldOf(j)' = HoldOf(j)
<1>1. /\ Booked(j, "CAPTURE")' = Booked(j, "CAPTURE")
      /\ Booked(j, "RELEASE")' = Booked(j, "RELEASE")
      /\ Booked(j, "RESERVE")' = Booked(j, "RESERVE")
  BY DEF Settlements
<1>2. ASSUME NEW state, NEW type \in Settlements \cup {"RESERVE"}, Booked(j, type) # {}
      PROVE  Settled(j, state, type)' = Settled(j, state, type)
  <2> DEFINE row == CHOOSE e \in Booked(j, type) : TRUE
  <2>1. Booked(j, type)' = Booked(j, type)
    OBVIOUS
  <2>2. row \in Booked(j, type)
    BY <1>2
  <2>3. row' \in Booked(j, type)
    BY <1>2, <2>1
  <2>4. row' = row
    BY <2>2, <2>3, OneOfEach
  <2>5. /\ Settled(j, state, type) = [state |-> state, amount |-> IF row.amount < 0 THEN -row.amount ELSE row.amount]
        /\ Settled(j, state, type)' = [state |-> state, amount |-> IF row'.amount < 0 THEN -row'.amount ELSE row'.amount]
    BY DEF Settled
  <2> HIDE DEF row
  <2> QED BY <2>4, <2>5
<1>3. /\ Booked(j, "CAPTURE") # {} => Settled(j, "captured", "CAPTURE")' = Settled(j, "captured", "CAPTURE")
      /\ Booked(j, "RELEASE") # {} => Settled(j, "released", "RELEASE")' = Settled(j, "released", "RELEASE")
      /\ Booked(j, "RESERVE") # {} => Settled(j, "open", "RESERVE")' = Settled(j, "open", "RESERVE")
  BY <1>2 DEF Settlements
<1> QED BY <1>1, <1>3 DEF HoldOf

(* A job's commit moves its own hold and its owner's balance.              *)
LEMMA JobCommitMoves ==
    ASSUME BooksInv, NEW s \in Sessions,
           NEW done \in SUBSET DOMAIN tx[s].legs, WriteLegs(s, done), NEW u \in done,
           NEW j, j = MoveOf(s, u).job, j # NoJob
    PROVE  /\ j \in Jobs /\ u = Owner[j]
           /\ Funds' = [Funds EXCEPT ![u] = @ + MoveOf(s, u).available]
           /\ Hold' = [Hold EXCEPT ![j] = HoldOf(j)']
<1> DEFINE m == MoveOf(s, u)
<1>1. /\ u \in Users /\ j \in Jobs /\ u = Owner[j]
      /\ \A v \in Users \ {u} : account'[v] = account[v] /\ ledger'[v] = ledger[v]
  BY JobCommit
<1>2. PICK e \in Entry : Books(u, m, e)
  BY JobCommit
<1>3. Funds' = [Funds EXCEPT ![u] = @ + m.available]
  BY <1>1, <1>2 DEF Funds, Books
<1>4. ledger[u] \in Seq(Entry)
  BY <1>1 DEF BooksInv, SettlementInv, TypeOK
<1>5. ASSUME NEW k \in Jobs \ {j} PROVE HoldOf(k)' = HoldOf(k)
  <2>1. CASE Owner[k] = u
    <3>0. m.job # k
      OBVIOUS
    <3> HIDE DEF m
    <3>1. \A type \in Settlements \cup {"RESERVE"} : Find(u, k, type)' = Find(u, k, type)
      <4>1. \A type \in Settlements \cup {"RESERVE"} :
              Find(u, k, type)' = Find(u, k, type) \cup
                                     (IF m.job = k /\ m.type = type THEN {e} ELSE {})
        BY <1>1, <1>2, <1>4, BooksFind
      <4> QED BY <3>0, <4>1
    <3> QED BY <2>1, <3>1, HoldKept DEF Booked
  <2>2. CASE Owner[k] # u
    <3>1. Owner[k] \in Users
      BY LedgerAssumption
    <3>2. \A type \in Settlements \cup {"RESERVE"} : Find(Owner[k], k, type)' = Find(Owner[k], k, type)
      BY <1>1, <2>2, <3>1 DEF Find, Rows
    <3> QED BY <3>2, HoldKept DEF Booked
  <2> QED BY <2>1, <2>2
<1>6. Hold' = [Hold EXCEPT ![j] = HoldOf(j)']
  BY <1>1, <1>5 DEF Hold
<1> QED BY <1>1, <1>3, <1>6

LEMMA ReserveIsAtomic ==
    ASSUME BooksInv, BooksInv', NEW s \in Sessions,
           NEW done \in SUBSET DOMAIN tx[s].legs, WriteLegs(s, done), NEW u \in done,
           NEW j, j = MoveOf(s, u).job, j # NoJob, MoveOf(s, u).type = "RESERVE"
    PROVE  Atomic!Reserve(j)
<1> DEFINE m == MoveOf(s, u)
<1>1. /\ j \in Jobs /\ u = Owner[j] /\ u \in Users
      /\ Funds' = [Funds EXCEPT ![u] = @ + m.available]
      /\ Hold' = [Hold EXCEPT ![j] = HoldOf(j)']
  BY JobCommitMoves, JobCommit
<1>2. PICK e \in Entry : Books(u, m, e)
  BY JobCommit
<1>3. ledger[u] \in Seq(Entry)
  BY <1>1 DEF BooksInv, SettlementInv, TypeOK
<1>4. /\ m.available + m.reserved = 0 /\ m.amount < 0 /\ m.reserved = -m.amount
      /\ m.available \in Int /\ m.amount \in Int
  BY <1>2, JobCommit DEF MoveAddsUp, Booking, Books, Movement
<1>5. Booked(j, "RESERVE") = {} /\ Unsettled(j)
  <2>1. Booked(j, "RESERVE") = {}
    BY <1>1, JobCommit DEF NoDuplicate, Booked, Find
  <2> QED BY <1>1, <2>1, SettledWasReserved
<1>6. HoldOf(j) = [state |-> "none", amount |-> 0]
  BY <1>1, <1>5, Holds DEF HoldShape
<1>7. Booked(j, "RESERVE")' = {e} /\ Unsettled(j)'
  BY <1>1, <1>2, <1>3, <1>5, BooksFind DEF Booked, Unsettled, Settlements
<1>8. HoldOf(j)' = [state |-> "open", amount |-> -m.amount]
  <2>1. e.amount = m.amount
    BY <1>2 DEF Books
  <2> QED BY <1>1, <1>4, <1>7, <2>1, HoldsNext DEF HoldShape
<1> DEFINE a == -m.amount
<1>9. a \in 1..Funds[u] /\ Funds' = [Funds EXCEPT ![u] = @ - a]
  <2>1. account[u].available \in Nat /\ account'[u].available \in Nat
        /\ account'[u].available = account[u].available + m.available
    BY <1>2 DEF Books, Account
  <2>2. Funds[u] = account[u].available
    BY <1>1 DEF Funds
  <2>3. a \in 1..Funds[u] /\ Funds[u] + m.available = Funds[u] - a
    BY <1>4, <2>1, <2>2
  <2> QED BY <1>1, <2>3
<1>10. Hold[j].state = "none"
  BY <1>1, <1>6 DEF Hold
<1>11. Hold' = [Hold EXCEPT ![j] = [state |-> "open", amount |-> a]]
  BY <1>1, <1>8
<1> HIDE DEF a
<1> QED BY <1>1, <1>9, <1>10, <1>11 DEF Atomic!Reserve, Funds, Hold

(* A settlement finds its reserve open. *)
LEMMA SettlesOpenHold ==
    ASSUME BooksInv, NEW s \in Sessions,
           NEW done \in SUBSET DOMAIN tx[s].legs, WriteLegs(s, done), NEW u \in done,
           NEW j, j = MoveOf(s, u).job, j # NoJob, MoveOf(s, u).type \in Settlements
    PROVE  LET m == MoveOf(s, u) IN
           \E held \in Nat :
              /\ HoldOf(j) = [state |-> "open", amount |-> held]
              /\ m.reserved = -held
              /\ IF m.type = "RELEASE" THEN m.amount = held ELSE m.amount \in (-held)..0
              /\ Unsettled(j) /\ held > 0
<1> DEFINE m == MoveOf(s, u)
<1>1. /\ j \in Jobs /\ u = Owner[j] /\ u \in Users /\ MoveAddsUp(u, m) /\ Unsettled(j)
  BY JobCommit
<1>2. PICK i \in Idx(u) : Settles(u, i, m) /\ m.reserved = ledger[u][i].amount
  BY <1>1 DEF MoveAddsUp
<1>3. /\ ledger[u][i] \in Booked(j, "RESERVE")
      /\ ledger[u][i].amount < 0 /\ ledger[u][i].amount \in Int
  <2>1. ledger[u][i].type = "RESERVE" /\ ledger[u][i].job = j
    BY <1>2 DEF Settles
  <2>2. ledger[u][i] \in Entry
    BY <1>1 DEF BooksInv, SettlementInv, TypeOK, Idx
  <2>3. ledger[u][i].amount < 0
    BY <1>1, <2>1 DEF BooksInv, RowsAddUp
  <2>4. ledger[u][i] \in Booked(j, "RESERVE")
    BY <1>1, <2>1 DEF Booked, Find, Rows, Idx
  <2> QED BY <2>2, <2>3, <2>4 DEF Entry
<1>4. HoldOf(j) = [state |-> "open", amount |-> -ledger[u][i].amount]
  BY <1>1, <1>3, Holds DEF HoldShape
<1> DEFINE held == -ledger[u][i].amount
<1>5. held \in Nat /\ held > 0 /\ m.reserved = -held /\ -held = ledger[u][i].amount
  BY <1>2, <1>3
<1>6. IF m.type = "RELEASE" THEN m.amount = held ELSE m.amount \in (-held)..0
  BY <1>2, <1>5 DEF Settles
<1> QED BY <1>1, <1>4, <1>5, <1>6

LEMMA CaptureIsAtomic ==
    ASSUME BooksInv, BooksInv', NEW s \in Sessions,
           NEW done \in SUBSET DOMAIN tx[s].legs, WriteLegs(s, done), NEW u \in done,
           NEW j, j = MoveOf(s, u).job, j # NoJob, MoveOf(s, u).type = "CAPTURE"
    PROVE  Atomic!Capture(j)
<1> DEFINE m == MoveOf(s, u)
<1>0. "CAPTURE" \in Settlements
  BY DEF Settlements
<1>1. /\ j \in Jobs /\ u = Owner[j] /\ u \in Users
      /\ Funds' = [Funds EXCEPT ![u] = @ + m.available]
      /\ Hold' = [Hold EXCEPT ![j] = HoldOf(j)']
  BY JobCommitMoves, JobCommit
<1>2. PICK e \in Entry : Books(u, m, e)
  BY JobCommit
<1>3. ledger[u] \in Seq(Entry)
  BY <1>1 DEF BooksInv, SettlementInv, TypeOK
<1>4. PICK held \in Nat :
              /\ HoldOf(j) = [state |-> "open", amount |-> held]
              /\ m.reserved = -held /\ m.amount \in (-held)..0 /\ Unsettled(j)
  BY <1>0, SettlesOpenHold
<1>5. m.available + m.reserved = m.amount /\ m.available \in Int /\ m.amount \in Int
  BY <1>2, JobCommit DEF MoveAddsUp, Booking, Books, Movement
<1>6. Booked(j, "CAPTURE")' = {e}
  BY <1>0, <1>1, <1>2, <1>3, <1>4, BooksFind DEF Booked, Unsettled
<1>7. HoldOf(j)' = [state |-> "captured", amount |-> -m.amount]
  <2>1. e.amount = m.amount /\ m.amount <= 0
    BY <1>2, <1>4 DEF Books
  <2> QED BY <1>1, <1>5, <1>6, <2>1, HoldsNext DEF HoldShape
<1> DEFINE billed == -m.amount
<1>8. billed \in 0..held /\ m.available = held - billed
  BY <1>4, <1>5
<1>9. Funds' = [Funds EXCEPT ![u] = @ + held - billed]
  <2>1. Funds[u] \in Int
    BY <1>1, <1>2 DEF Funds, Books, Account
  <2>2. Funds[u] + m.available = Funds[u] + held - billed
    BY <1>8, <2>1
  <2> QED BY <1>1, <2>2
<1>10. Hold[j] = [state |-> "open", amount |-> held]
  BY <1>1, <1>4 DEF Hold
<1>11. Hold' = [Hold EXCEPT ![j] = [state |-> "captured", amount |-> billed]]
  BY <1>1, <1>7
<1> HIDE DEF billed
<1>12. Hold[j].state = "open" /\ Hold[j].amount = held /\ Owner[j] = u
  BY <1>1, <1>10
<1>13. Funds' = [Funds EXCEPT ![Owner[j]] = @ + Hold[j].amount - billed]
  <2> HIDE DEF m
  <2> QED BY <1>9, <1>12
<1>14. billed \in 0..Hold[j].amount
  BY <1>8, <1>12
<1> QED BY <1>11, <1>12, <1>13, <1>14 DEF Atomic!Capture, Funds, Hold

LEMMA ReleaseIsAtomic ==
    ASSUME BooksInv, BooksInv', NEW s \in Sessions,
           NEW done \in SUBSET DOMAIN tx[s].legs, WriteLegs(s, done), NEW u \in done,
           NEW j, j = MoveOf(s, u).job, j # NoJob, MoveOf(s, u).type = "RELEASE"
    PROVE  Atomic!Release(j)
<1> DEFINE m == MoveOf(s, u)
<1>0. "RELEASE" \in Settlements /\ "CAPTURE" \in Settlements
  BY DEF Settlements
<1>1. /\ j \in Jobs /\ u = Owner[j] /\ u \in Users
      /\ Funds' = [Funds EXCEPT ![u] = @ + m.available]
      /\ Hold' = [Hold EXCEPT ![j] = HoldOf(j)']
  BY JobCommitMoves, JobCommit
<1>2. PICK e \in Entry : Books(u, m, e)
  BY JobCommit
<1>3. ledger[u] \in Seq(Entry)
  BY <1>1 DEF BooksInv, SettlementInv, TypeOK
<1>4. PICK held \in Nat :
              /\ HoldOf(j) = [state |-> "open", amount |-> held] /\ held > 0
              /\ m.reserved = -held /\ m.amount = held /\ Unsettled(j)
  BY <1>0, SettlesOpenHold
<1>5. m.available + m.reserved = 0 /\ m.available \in Int
  BY <1>2, JobCommit DEF MoveAddsUp, Booking, Books, Movement
<1>6. Booked(j, "RELEASE")' = {e} /\ Booked(j, "CAPTURE")' = {}
  BY <1>0, <1>1, <1>2, <1>3, <1>4, BooksFind DEF Booked, Unsettled
<1>7. HoldOf(j)' = [state |-> "released", amount |-> held]
  <2>1. e.amount = held /\ held \in Int /\ held > 0
    BY <1>2, <1>4 DEF Books
  <2> QED BY <1>1, <1>6, <2>1, HoldsNext DEF HoldShape
<1>8. Hold[j] = [state |-> "open", amount |-> held]
  BY <1>1, <1>4 DEF Hold
<1>9. Funds' = [Funds EXCEPT ![u] = @ + Hold[j].amount]
  <2>1. m.available = held
    <3> HIDE DEF m
    <3> QED BY <1>4, <1>5
  <2>2. Hold[j].amount = held
    BY <1>8
  <2> HIDE DEF m
  <2> QED BY <1>1, <2>1, <2>2
<1>10. Hold' = [Hold EXCEPT ![j].state = "released"]
  <2>1. Hold' = [Hold EXCEPT ![j] = [state |-> "released", amount |-> held]]
    BY <1>1, <1>7
  <2>2. [Hold[j] EXCEPT !.state = "released"] = [state |-> "released", amount |-> held]
    BY <1>8
  <2> QED BY <2>1, <2>2
<1>11. Hold[j].state = "open" /\ Owner[j] = u
  BY <1>1, <1>8
<1>12. Funds' = [Funds EXCEPT ![Owner[j]] = @ + Hold[j].amount]
  BY <1>9, <1>11
<1> QED BY <1>10, <1>11, <1>12 DEF Atomic!Release, Funds, Hold

LEMMA MoveIsAtomic ==
    ASSUME BooksInv, BooksInv', NEW s \in Sessions,
           NEW done \in SUBSET DOMAIN tx[s].legs, WriteLegs(s, done),
           \A u \in done : MoveOf(s, u).job = NoJob
    PROVE  Atomic!Move
<1>1. Funds' \in [Users -> Nat]
  BY DEF Funds, BooksInv, SettlementInv, TypeOK, Account
<1>2. ASSUME NEW j \in Jobs PROVE HoldOf(j)' = HoldOf(j)
  <2> DEFINE u == Owner[j]
  <2>1. u \in Users /\ j # NoJob
    BY LedgerAssumption
  <2>2. ledger[u] \in Seq(Entry)
    BY <2>1 DEF BooksInv, SettlementInv, TypeOK
  <2>3. CASE u \in done
    <3>1. PICK e \in Entry : Books(u, MoveOf(s, u), e)
      BY <2>3, CommitBooks DEF BooksInv, Books
    <3>2. \A type \in Settlements \cup {"RESERVE"} :
             Find(u, j, type)' = Find(u, j, type) \cup
                (IF MoveOf(s, u).job = j /\ MoveOf(s, u).type = type THEN {e} ELSE {})
      BY <2>1, <2>2, <3>1, BooksFind
    <3>3. MoveOf(s, u).job # j
      BY <2>1, <2>3
    <3>4. \A type \in Settlements \cup {"RESERVE"} : Booked(j, type)' = Booked(j, type)
      BY <3>2, <3>3 DEF Booked
    <3> QED BY <3>4, HoldKept
  <2>4. CASE u \notin done
    <3>1. ledger'[u] = ledger[u]
      BY <2>1, <2>4, CommitCases DEF BooksInv
    <3>2. \A type \in Settlements \cup {"RESERVE"} : Booked(j, type)' = Booked(j, type)
      BY <3>1 DEF Booked, Find, Rows
    <3> QED BY <3>2, HoldKept
  <2> QED BY <2>3, <2>4
<1>3. Hold' = Hold
  BY <1>2 DEF Hold
<1> QED BY <1>1, <1>3 DEF Atomic!Move, Funds, Hold

(* Every step of a session is one atomic operation, or changes nothing     *)
(* that Reservations sees.                                                 *)
LEMMA StepImplements == BooksInv /\ BooksInv' /\ [Next]_vars => [Atomic!Next]_(Atomic!vars)
<1> SUFFICES ASSUME BooksInv, BooksInv', [Next]_vars
             PROVE  Atomic!Next \/ UNCHANGED <<Funds, Hold>>
  BY DEF Atomic!vars, Funds, Hold
<1>1. ASSUME NEW s \in Sessions,
           NEW done \in SUBSET DOMAIN tx[s].legs, WriteLegs(s, done) PROVE Atomic!Next
  <2>1. CASE \A u \in done : MoveOf(s, u).job = NoJob
    BY <1>1, <2>1, MoveIsAtomic DEF Atomic!Next
  <2>2. ASSUME NEW u \in done, MoveOf(s, u).job # NoJob PROVE Atomic!Next
    <3>1. PICK j : j = MoveOf(s, u).job
      OBVIOUS
    <3>2. MoveOf(s, u).type \in Settlements \cup {"RESERVE"} /\ j \in Jobs
      BY <1>1, <2>2, <3>1, JobCommit
    <3>3. \/ Atomic!Reserve(j) \/ Atomic!Capture(j) \/ Atomic!Release(j)
      BY <1>1, <2>2, <3>1, <3>2, ReserveIsAtomic, CaptureIsAtomic, ReleaseIsAtomic DEF Settlements
    <3> QED BY <3>2, <3>3 DEF Atomic!Next
  <2> QED BY <2>1, <2>2
<1>2. ASSUME \A s \in Sessions : ~Writes(s) PROVE UNCHANGED <<Funds, Hold>>
  <2>1. /\ UNCHANGED ledger
        /\ \A u \in Users : account'[u].available = account[u].available
    BY <1>2, OtherSteps DEF BooksInv, SettlementInv, Base
  <2>2. Funds' = Funds
    BY <2>1 DEF Funds
  <2>3. ASSUME NEW j \in Jobs PROVE HoldOf(j)' = HoldOf(j)
    <3>1. \A type \in Settlements \cup {"RESERVE"} : Booked(j, type)' = Booked(j, type)
      BY <2>1 DEF Booked, Find, Rows
    <3> QED BY <3>1, HoldKept
  <2>4. Hold' = Hold
    BY <2>3 DEF Hold
  <2> QED BY <2>2, <2>4
<1> QED BY <1>1, <1>2 DEF Writes

(* The racing sessions, with their stale reads, lost races and rollbacks,  *)
(* implement the atomic Reservations: a job's credits leave the balance    *)
(* once and come back exactly once, in one capture or one release.         *)
THEOREM LedgerImplementsReservations == Spec => ImplementsReservations
<1>1. Init => Atomic!Init
  <2> SUFFICES ASSUME Init PROVE Atomic!Init
    OBVIOUS
  <2>1. ASSUME NEW j \in Jobs PROVE HoldOf(j) = [state |-> "none", amount |-> 0]
    <3>1. ledger[Owner[j]] = <<>>
      BY LedgerAssumption DEF Init
    <3>2. \A type : Booked(j, type) = {}
      BY <3>1 DEF Booked, Find, Rows
    <3> QED BY <3>2 DEF HoldOf
  <2>2. \A u \in Users : account[u].available = 0
    BY DEF Init, NewAccount
  <2> QED BY <2>1, <2>2 DEF Atomic!Init
<1> QED BY <1>1, StepImplements, BooksInvariant, PTL
        DEF Spec, ImplementsReservations, Atomic!Spec
=============================================================================
