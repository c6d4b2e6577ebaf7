-------------------------- MODULE PollClaimsProofs --------------------------
(***************************************************************************)
(* Proofs about PollClaims, for any number of ticks, renders and kills.    *)
(***************************************************************************)
EXTENDS PollClaims, FiniteSetTheorems, TLAPS

TickStates ==
    [pc : {"asleep", "claiming", "working"}, todo : Seq(Tasks), mine : Seq(Tasks)]

(* No render is twice in the hands of a tick.                              *)
TickWell(k) ==
    /\ k \in TickStates
    /\ k.pc = "working" => k.mine # <<>>
    /\ IsInjective(k.todo) /\ IsInjective(k.mine)
    /\ \A r \in Range(k.todo) : r \notin Range(k.mine)

Claims == [Tasks -> Ticks \cup {NoTick}]

PollTypes ==
    /\ rows \in Seq(Tasks) /\ IsInjective(rows)
    /\ later \subseteq Tasks
    /\ claim \in Claims /\ lock \in Claims
    /\ DOMAIN tick = Ticks /\ \A t \in Ticks : TickWell(tick[t])
    /\ rolled \in BOOLEAN /\ kills \in 0 .. MaxKills

(* A claim that is not committed is of a row nobody's claim is on.         *)
LockIsFree(r) == lock[r] # NoTick => claim[r] = NoTick

HeldBy(t, r) == lock[r] = t \/ claim[r] = t

MineAreHeld == \A t \in Ticks : \A r \in Range(tick[t].mine) : HeldBy(t, r)

PollInv ==
    /\ PollTypes
    /\ \A r \in Tasks : LockIsFree(r)
    /\ ~rolled => MineAreHeld

-----------------------------------------------------------------------------
(* Lists without repetition.                                               *)

LEMMA OnList ==
    ASSUME NEW S, NEW s \in Seq(S)
    PROVE  /\ Range(s) \subseteq S
           /\ \A x : x \in Range(s) <=> \E i \in 1 .. Len(s) : s[i] = x
BY DEF Range

LEMMA TailOfList ==
    ASSUME NEW S, NEW s \in Seq(S), s # <<>>, IsInjective(s)
    PROVE  /\ Tail(s) \in Seq(S) /\ Head(s) \in S /\ IsInjective(Tail(s))
           /\ Head(s) \in Range(s) /\ Range(Tail(s)) = Range(s) \ {Head(s)}
<1>1. PICK n, t, h : n = Len(s) /\ t = Tail(s) /\ h = Head(s)
  OBVIOUS
<1>2. /\ n \in Nat \ {0} /\ t \in Seq(S) /\ h \in S /\ h = s[1] /\ Len(t) = n - 1
      /\ DOMAIN s = 1 .. n /\ DOMAIN t = 1 .. (n - 1)
  BY <1>1
<1>3. \A i \in 1 .. (n - 1) : t[i] = s[i + 1]
  BY <1>1, <1>2
<1>4. IsInjective(t)
  <2> SUFFICES ASSUME NEW i \in 1 .. (n - 1), NEW j \in 1 .. (n - 1), t[i] = t[j]
               PROVE  i = j
    BY <1>2 DEF IsInjective
  <2>1. i + 1 \in 1 .. n /\ j + 1 \in 1 .. n /\ s[i + 1] = s[j + 1]
    BY <1>2, <1>3
  <2>2. i + 1 = j + 1
    BY <1>2, <2>1 DEF IsInjective
  <2> QED BY <1>2, <2>2
<1>5. h \in Range(s)
  BY <1>2 DEF Range
<1>6. ASSUME NEW x PROVE x \in Range(t) <=> x \in Range(s) /\ x # h
  <2>1. ASSUME x \in Range(t) PROVE x \in Range(s) /\ x # h
    <3>1. PICK i \in 1 .. (n - 1) : t[i] = x
      BY <1>2, <2>1 DEF Range
    <3>2. s[i + 1] = x /\ i + 1 \in 1 .. n /\ 1 \in 1 .. n /\ i + 1 # 1
      BY <1>2, <1>3, <3>1
    <3> QED BY <1>2, <3>2 DEF Range, IsInjective
  <2>2. ASSUME x \in Range(s), x # h PROVE x \in Range(t)
    <3>1. PICK i \in 1 .. n : s[i] = x
      BY <1>2, <2>2 DEF Range
    <3>2. i # 1
      BY <1>2, <2>2, <3>1
    <3>3. i - 1 \in 1 .. (n - 1) /\ t[i - 1] = x
      BY <1>2, <1>3, <3>1, <3>2
    <3> QED BY <1>2, <3>3 DEF Range
  <2> QED BY <2>1, <2>2
<1> QED BY <1>1, <1>2, <1>4, <1>5, <1>6

LEMMA Appended ==
    ASSUME NEW S, NEW s \in Seq(S), IsInjective(s), NEW r \in S, r \notin Range(s)
    PROVE  /\ Append(s, r) \in Seq(S) /\ IsInjective(Append(s, r))
           /\ Range(Append(s, r)) = Range(s) \cup {r}
<1>1. PICK n, t : n = Len(s) /\ t = Append(s, r)
  OBVIOUS
<1>2. /\ n \in Nat /\ t \in Seq(S) /\ Len(t) = n + 1 /\ t[n + 1] = r
      /\ \A i \in 1 .. n : t[i] = s[i]
      /\ DOMAIN s = 1 .. n /\ DOMAIN t = 1 .. (n + 1)
  BY <1>1
<1>3. \A i \in 1 .. n : s[i] # r
  BY <1>2 DEF Range
<1>4. ASSUME NEW i \in 1 .. (n + 1), NEW j \in 1 .. (n + 1), t[i] = t[j] PROVE i = j
  <2>1. CASE i = n + 1 \/ j = n + 1
    BY <1>2, <1>3, <1>4, <2>1
  <2>2. CASE i # n + 1 /\ j # n + 1
    <3>1. i \in 1 .. n /\ j \in 1 .. n
      BY <1>2, <2>2
    <3> QED BY <1>2, <1>4, <3>1 DEF IsInjective
  <2> QED BY <2>1, <2>2
<1>5. Range(t) = Range(s) \cup {r}
  <2>1. ASSUME NEW x PROVE x \in Range(t) <=> x \in Range(s) \/ x = r
    <3>1. ASSUME NEW i \in 1 .. (n + 1), t[i] = x PROVE x \in Range(s) \/ x = r
      <4>1. CASE i = n + 1
        BY <1>2, <3>1, <4>1
      <4>2. CASE i # n + 1
        <5>1. i \in 1 .. n
          BY <1>2, <4>2
        <5> QED BY <1>2, <3>1, <5>1 DEF Range
      <4> QED BY <4>1, <4>2
    <3>2. ASSUME NEW i \in 1 .. n, s[i] = x PROVE x \in Range(t)
      <4>1. i \in 1 .. (n + 1)
        BY <1>2
      <4> QED BY <1>2, <3>2, <4>1 DEF Range
    <3>3. r \in Range(t)
      BY <1>2 DEF Range
    <3> QED BY <1>2, <3>1, <3>2, <3>3 DEF Range
  <2> QED BY <2>1
<1> QED BY <1>1, <1>2, <1>4, <1>5 DEF IsInjective

LEMMA TakenOff ==
    ASSUME NEW S, NEW s \in Seq(S), IsInjective(s), NEW r
    PROVE  /\ Without(s, r) \in Seq(S) /\ IsInjective(Without(s, r))
           /\ Range(Without(s, r)) = Range(s) \ {r}
<1>1. PICK n : n = Len(s)
  OBVIOUS
<1>2. n \in Nat /\ DOMAIN s = 1 .. n
  BY <1>1
<1>3. CASE ~(\E i \in 1 .. n : s[i] = r)
  <2>1. Without(s, r) = s
    BY <1>1, <1>3 DEF Without, RemoveFirst
  <2>2. r \notin Range(s)
    BY <1>2, <1>3 DEF Range
  <2> QED BY <2>1, <2>2
<1>4. ASSUME NEW k \in 1 .. n, s[k] = r
      PROVE  /\ Without(s, r) \in Seq(S) /\ IsInjective(Without(s, r))
             /\ Range(Without(s, r)) = Range(s) \ {r}
  <2>1. SelectInSeq(s, LAMBDA v : v = r) = k
    <3>1. {i \in 1 .. Len(s) : s[i] = r} = {k}
      BY <1>1, <1>2, <1>4 DEF IsInjective
    <3>2. PICK I : I = {i \in 1 .. Len(s) : s[i] = r}
      OBVIOUS
    <3>3. Min(I) = k
      BY <1>2, <3>1, <3>2 DEF Min
    <3> QED BY <3>1, <3>2, <3>3 DEF SelectInSeq
  <2>2. PICK a, b, t : /\ a = SubSeq(s, 1, k - 1) /\ b = SubSeq(s, k + 1, n)
                       /\ t = a \o b
    OBVIOUS
  <2>3. Without(s, r) = t
    BY <1>1, <1>4, <2>1, <2>2 DEF Without, RemoveFirst, RemoveAt
  <2>4. /\ a \in Seq(S) /\ Len(a) = k - 1
        /\ \A i \in 1 .. (k - 1) : a[i] = s[i]
    BY <1>1, <1>2, <2>2
  <2>5. /\ b \in Seq(S) /\ Len(b) = n - k
        /\ \A i \in 1 .. (n - k) : b[i] = s[k + i]
    BY <1>1, <1>2, <2>2
  <2>6. /\ t \in Seq(S) /\ Len(t) = n - 1 /\ DOMAIN t = 1 .. (n - 1)
        /\ \A i \in 1 .. (n - 1) : t[i] = IF i < k THEN s[i] ELSE s[i + 1]
    <3>1. t \in Seq(S) /\ Len(t) = n - 1 /\ DOMAIN t = 1 .. (n - 1)
      BY <1>2, <2>2, <2>4, <2>5
    <3>2. ASSUME NEW i \in 1 .. (n - 1), i < k PROVE t[i] = s[i]
      <4>1. i \in 1 .. (k - 1) /\ t[i] = a[i]
        BY <1>2, <2>2, <2>4, <2>5, <3>2
      <4> QED BY <2>4, <4>1
    <3>3. ASSUME NEW i \in 1 .. (n - 1), ~(i < k) PROVE t[i] = s[i + 1]
      <4>1. i - (k - 1) \in 1 .. (n - k) /\ t[i] = b[i - (k - 1)]
        BY <1>2, <2>2, <2>4, <2>5, <3>3
      <4>2. k + (i - (k - 1)) = i + 1
        BY <1>2
      <4> QED BY <2>5, <4>1, <4>2
    <3> QED BY <3>1, <3>2, <3>3
  <2>7. IsInjective(t)
    <3> SUFFICES ASSUME NEW i \in 1 .. (n - 1), NEW j \in 1 .. (n - 1), t[i] = t[j]
                 PROVE  i = j
      BY <2>6 DEF IsInjective
    <3>1. PICK x, y : /\ x = (IF i < k THEN i ELSE i + 1)
                      /\ y = (IF j < k THEN j ELSE j + 1)
      OBVIOUS
    <3>2. x \in 1 .. n /\ y \in 1 .. n /\ s[x] = s[y]
      BY <1>2, <2>6, <3>1
    <3>3. x = y
      BY <1>2, <3>2 DEF IsInjective
    <3> QED BY <1>2, <3>1, <3>3
  <2>8. ASSUME NEW i \in 1 .. (n - 1) PROVE t[i] \in Range(s) /\ t[i] # r
    <3>1. PICK x : x = IF i < k THEN i ELSE i + 1
      OBVIOUS
    <3>2. x \in 1 .. n /\ x # k /\ t[i] = s[x]
      BY <1>2, <2>6, <3>1
    <3> QED BY <1>2, <1>4, <3>2 DEF IsInjective, Range
  <2>9. ASSUME NEW x \in 1 .. n, s[x] # r PROVE s[x] \in Range(t)
    <3>1. PICK i : i = IF x < k THEN x ELSE x - 1
      OBVIOUS
    <3>2. i \in 1 .. (n - 1) /\ t[i] = s[x]
      <4>1. x # k
        BY <1>4, <2>9
      <4>2. CASE x < k
        BY <1>2, <2>6, <3>1, <4>2
      <4>3. CASE ~(x < k)
        BY <1>2, <2>6, <3>1, <4>1, <4>3
      <4> QED BY <4>2, <4>3
    <3> QED BY <2>6, <3>2 DEF Range
  <2>10. Range(t) = Range(s) \ {r}
    BY <1>2, <2>6, <2>8, <2>9 DEF Range
  <2> QED BY <2>3, <2>6, <2>7, <2>10
<1> QED BY <1>3, <1>4

-----------------------------------------------------------------------------
(* What a step does to the ticks.                                          *)

(* A tick is done with the render it worked on.                            *)
LEMMA NextIsWell ==
    ASSUME NEW t \in Ticks, TickWell(tick[t]), tick[t].pc = "working"
    PROVE  /\ TickWell(NextOf(t)) /\ NextOf(t).todo = tick[t].todo
           /\ Head(tick[t].mine) \in Tasks
           /\ Head(tick[t].mine) \in Range(tick[t].mine)
           /\ Range(NextOf(t).mine) = Range(tick[t].mine) \ {Head(tick[t].mine)}
<1>1. PICK k, n : k = tick[t] /\ n = NextOf(t)
  OBVIOUS
<1>2. /\ k \in TickStates /\ k.mine # <<>> /\ IsInjective(k.todo) /\ IsInjective(k.mine)
      /\ k.mine \in Seq(Tasks) /\ k.todo \in Seq(Tasks)
      /\ \A r \in Range(k.todo) : r \notin Range(k.mine)
  BY <1>1 DEF TickWell, TickStates
<1>3. /\ n \in TickStates /\ n.pc = "claiming" /\ n.todo = k.todo /\ n.mine = Tail(k.mine)
  <2>1. PICK rest : rest = Tail(k.mine)
    OBVIOUS
  <2>2. rest \in Seq(Tasks)
    BY <1>2, <2>1
  <2>3. n = [k EXCEPT !.pc = "claiming", !.mine = rest]
    BY <1>1, <2>1 DEF NextOf
  <2> QED BY <1>2, <2>1, <2>2, <2>3 DEF TickStates
<1>4. /\ Head(k.mine) \in Tasks /\ IsInjective(n.mine) /\ Head(k.mine) \in Range(k.mine)
      /\ Range(n.mine) = Range(k.mine) \ {Head(k.mine)}
  BY <1>2, <1>3, TailOfList
<1> QED BY <1>1, <1>2, <1>3, <1>4 DEF TickWell

LEMMA ClaimsAreClaims ==
    ASSUME PollInv, NEW t \in Ticks
    PROVE  /\ Committed(t) \in Claims /\ Unlocked(t) \in Claims
           /\ \A r \in Tasks : /\ Committed(t)[r] = IF lock[r] = t THEN t ELSE claim[r]
                               /\ Unlocked(t)[r] = IF lock[r] = t THEN NoTick ELSE lock[r]
BY DEF PollInv, PollTypes, Claims, Committed, Unlocked

LEMMA MineAreRows ==
    ASSUME PollInv, NEW t \in Ticks
    PROVE  /\ tick[t].mine \in Seq(Tasks) /\ tick[t].todo \in Seq(Tasks)
           /\ Range(tick[t].mine) \subseteq Tasks /\ Range(tick[t].todo) \subseteq Tasks
<1>1. tick[t].mine \in Seq(Tasks) /\ tick[t].todo \in Seq(Tasks)
  BY DEF PollInv, PollTypes, TickWell, TickStates
<1> QED BY <1>1, OnList

(* The claims a step commits or undoes, and the batches of the ticks: what *)
(* stays in the hands of a tick is still held by it.                       *)
LEMMA ClaimsKeep ==
    ASSUME PollInv, PollTypes', NEW t \in Ticks, lock' = Unlocked(t),
           NEW gone \in SUBSET Tasks, gone \subseteq Range(tick[t].mine),
           \A r \in gone : lock[r] \in {NoTick, t} /\ claim'[r] = NoTick,
           \A r \in Tasks \ gone : claim'[r] = Committed(t)[r],
           \A u \in Ticks : Range(tick'[u].mine) \subseteq Range(tick[u].mine),
           \A r \in gone : r \notin Range(tick'[t].mine), rolled' = rolled
    PROVE  PollInv'
<1>1. /\ lock \in Claims /\ claim \in Claims /\ NoTick \notin Ticks
      /\ \A r \in Tasks : LockIsFree(r)
  BY ClaimsAssumption DEF PollInv, PollTypes
<1>2. ASSUME NEW r \in Tasks PROVE LockIsFree(r)'
  <2>1. lock'[r] = IF lock[r] = t THEN NoTick ELSE lock[r]
    BY ClaimsAreClaims
  <2>2. CASE r \in gone
    BY <2>2 DEF LockIsFree
  <2>3. CASE r \notin gone
    <3>1. claim'[r] = IF lock[r] = t THEN t ELSE claim[r]
      BY <2>3, ClaimsAreClaims
    <3> QED BY <1>1, <2>1, <3>1 DEF LockIsFree
  <2> QED BY <2>2, <2>3
<1>3. ASSUME ~rolled, NEW u \in Ticks, NEW r \in Range(tick'[u].mine)
      PROVE  HeldBy(u, r)'
  <2>1. r \in Range(tick[u].mine)
    BY <1>3
  <2>2. r \in Tasks
    BY <2>1, MineAreRows
  <2>3. HeldBy(u, r) /\ LockIsFree(r)
    BY <1>1, <1>3, <2>1, <2>2 DEF PollInv, MineAreHeld
  <2>4. CASE r \in gone
    <3>1. u # t /\ HeldBy(t, r) /\ lock[r] \in {NoTick, t}
      BY <1>3, <2>4 DEF PollInv, MineAreHeld
    <3> QED BY <1>1, <2>3, <3>1 DEF HeldBy, LockIsFree
  <2>5. CASE r \notin gone
    <3>1. /\ lock'[r] = IF lock[r] = t THEN NoTick ELSE lock[r]
          /\ claim'[r] = IF lock[r] = t THEN t ELSE claim[r]
      BY <2>2, <2>5, ClaimsAreClaims
    <3>2. CASE lock[r] = t
      BY <1>1, <2>3, <3>1, <3>2 DEF HeldBy, LockIsFree
    <3>3. CASE lock[r] # t
      BY <1>1, <2>3, <3>1, <3>3 DEF HeldBy
    <3> QED BY <3>2, <3>3
  <2> QED BY <2>4, <2>5
<1> QED BY <1>2, <1>3 DEF PollInv, MineAreHeld

(* A rollback: what was claimed is not held any more, but that is all.     *)
LEMMA RolledKeeps ==
    ASSUME PollInv, PollTypes', NEW t \in Ticks, lock' = Unlocked(t),
           \A r \in Tasks : claim'[r] = claim[r] \/ claim'[r] = NoTick,
           rolled' \/ \A u \in Ticks : u # t => Range(tick'[u].mine) \subseteq Range(tick[u].mine),
           rolled' \/ (Range(tick'[t].mine) = {} /\ claim' = claim), rolled => rolled'
    PROVE  PollInv'
<1>1. /\ lock \in Claims /\ NoTick \notin Ticks /\ \A r \in Tasks : LockIsFree(r)
  BY ClaimsAssumption DEF PollInv, PollTypes
<1>2. ASSUME NEW r \in Tasks PROVE LockIsFree(r)'
  <2>1. lock'[r] = IF lock[r] = t THEN NoTick ELSE lock[r]
    BY ClaimsAreClaims
  <2> QED BY <1>1, <2>1 DEF LockIsFree
<1>3. ASSUME ~rolled', NEW u \in Ticks, NEW r \in Range(tick'[u].mine)
      PROVE  HeldBy(u, r)'
  <2>1. u # t /\ r \in Range(tick[u].mine) /\ claim' = claim
    BY <1>3
  <2>2. r \in Tasks
    BY <2>1, MineAreRows
  <2>3. HeldBy(u, r)
    BY <1>3, <2>1 DEF PollInv, MineAreHeld
  <2>4. lock'[r] = IF lock[r] = t THEN NoTick ELSE lock[r]
    BY <2>2, ClaimsAreClaims
  <2> QED BY <1>1, <2>1, <2>3, <2>4 DEF HeldBy
<1> QED BY <1>2, <1>3 DEF PollInv, MineAreHeld

LEMMA TodoIsLess ==
    ASSUME NEW k, TickWell(k), NEW r
    PROVE  LET n == [k EXCEPT !.todo = Without(@, r)] IN TickWell(n) /\ n.mine = k.mine
<1>1. PICK less, n : less = Without(k.todo, r) /\ n = [k EXCEPT !.todo = less]
  OBVIOUS
<1>2. k \in TickStates /\ k.todo \in Seq(Tasks) /\ IsInjective(k.todo)
  BY DEF TickWell, TickStates
<1>3. less \in Seq(Tasks) /\ IsInjective(less) /\ Range(less) \subseteq Range(k.todo)
  BY <1>1, <1>2, TakenOff
<1>4. n \in TickStates /\ n.todo = less /\ n.mine = k.mine /\ n.pc = k.pc
  BY <1>1, <1>2, <1>3 DEF TickStates
<1>5. TickWell(n)
  BY <1>3, <1>4 DEF TickWell
<1> QED BY <1>1, <1>4, <1>5

(* The row of a render that is looked at again later moves to the end, and *)
(* off the lists of the ticks that selected it before.                     *)
LEMMA RescheduledTypes ==
    ASSUME PollInv, NEW t \in Ticks, tick[t].pc = "working", NEW claims \in Claims,
           Rescheduled(t, Head(tick[t].mine), claims), lock' = Unlocked(t),
           rolled' \in BOOLEAN, UNCHANGED kills
    PROVE  /\ PollTypes' /\ Head(tick[t].mine) \in Range(tick[t].mine)
           /\ Head(tick[t].mine) \in Tasks
           /\ claim' = [claims EXCEPT ![Head(tick[t].mine)] = NoTick]
           /\ Range(tick'[t].mine) = Range(tick[t].mine) \ {Head(tick[t].mine)}
           /\ \A u \in Ticks : u # t => Range(tick'[u].mine) = Range(tick[u].mine)
<1>1. PICK r : r = Head(tick[t].mine)
  OBVIOUS
<1>2. /\ rows' = IF Contains(rows, r) THEN Append(Without(rows, r), r) ELSE rows
      /\ later' = later \cup {r} /\ claim' = [claims EXCEPT ![r] = NoTick]
      /\ tick' = [u \in Ticks |->
                    IF u = t THEN NextOf(t)
                    ELSE [tick[u] EXCEPT !.todo = Without(@, r)]]
  BY <1>1 DEF Rescheduled
<1>3. PollTypes /\ TickWell(tick[t])
  BY DEF PollInv, PollTypes
<1>4. /\ TickWell(NextOf(t)) /\ r \in Tasks /\ r \in Range(tick[t].mine)
      /\ Range(NextOf(t).mine) = Range(tick[t].mine) \ {r}
  BY <1>1, <1>3, NextIsWell
<1>5. ASSUME NEW u \in Ticks
      PROVE  /\ TickWell(tick'[u])
             /\ u # t => Range(tick'[u].mine) = Range(tick[u].mine)
  <2>1. CASE u = t
    BY <1>2, <1>4, <2>1
  <2>2. CASE u # t
    <3>1. TickWell(tick[u]) /\ tick'[u] = [tick[u] EXCEPT !.todo = Without(@, r)]
      BY <1>2, <1>3, <2>2 DEF PollTypes
    <3> QED BY <3>1, TodoIsLess
  <2> QED BY <2>1, <2>2
<1>6. rows' \in Seq(Tasks) /\ IsInjective(rows')
  <2>1. rows \in Seq(Tasks) /\ IsInjective(rows)
    BY <1>3 DEF PollTypes
  <2>2. PICK rest : rest = Without(rows, r)
    OBVIOUS
  <2>3. rest \in Seq(Tasks) /\ IsInjective(rest) /\ r \notin Range(rest)
    BY <2>1, <2>2, TakenOff
  <2>4. Append(rest, r) \in Seq(Tasks) /\ IsInjective(Append(rest, r))
    BY <1>4, <2>3, Appended
  <2> QED BY <1>2, <2>1, <2>2, <2>4
<1>7. claim' \in Claims /\ lock' \in Claims
  BY <1>2, <1>4, ClaimsAreClaims DEF Claims
<1>8. tick'[t] = NextOf(t) /\ DOMAIN tick' = Ticks
  BY <1>2
<1>9. PollTypes'
  BY <1>2, <1>3, <1>4, <1>5, <1>6, <1>7, <1>8 DEF PollTypes
<1> QED BY <1>1, <1>2, <1>4, <1>5, <1>8, <1>9

LEMMA StillPendingKeeps ==
    ASSUME PollInv, NEW t \in Ticks, StillPending(t)
    PROVE  PollInv'
<1>1. PICK r : r = Head(tick[t].mine)
  OBVIOUS
<1>2. /\ tick[t].pc = "working" /\ lock[r] \in {NoTick, t} /\ lock' = Unlocked(t)
      /\ Rescheduled(t, Head(tick[t].mine), Committed(t))
      /\ UNCHANGED <<rolled, kills>> /\ rolled \in BOOLEAN
  BY <1>1 DEF StillPending, PollInv, PollTypes
<1>3. Committed(t) \in Claims
  BY ClaimsAreClaims
<1>4. /\ PollTypes' /\ r \in Range(tick[t].mine) /\ r \in Tasks
      /\ claim' = [Committed(t) EXCEPT ![r] = NoTick]
      /\ Range(tick'[t].mine) = Range(tick[t].mine) \ {r}
      /\ \A u \in Ticks : u # t => Range(tick'[u].mine) = Range(tick[u].mine)
  BY <1>1, <1>2, <1>3, RescheduledTypes
<1>5. /\ claim'[r] = NoTick
      /\ \A x \in Tasks \ {r} : claim'[x] = Committed(t)[x]
  BY <1>3, <1>4 DEF Claims
<1>6. \A u \in Ticks : Range(tick'[u].mine) \subseteq Range(tick[u].mine)
  BY <1>4
<1> QED BY <1>2, <1>4, <1>5, <1>6, ClaimsKeep

LEMMA FinishedKeeps ==
    ASSUME PollInv, NEW t \in Ticks, Finished(t)
    PROVE  PollInv'
<1>1. PICK r : r = Head(tick[t].mine)
  OBVIOUS
<1>2. /\ tick[t].pc = "working" /\ lock[r] \in {NoTick, t} /\ lock' = Unlocked(t)
      /\ rows' = Without(rows, r) /\ claim' = [Committed(t) EXCEPT ![r] = NoTick]
      /\ tick' = [tick EXCEPT ![t] = NextOf(t)]
      /\ UNCHANGED <<later, rolled, kills>> /\ PollTypes
  BY <1>1 DEF Finished, PollInv
<1>3. /\ TickWell(NextOf(t)) /\ r \in Tasks /\ r \in Range(tick[t].mine)
      /\ Range(NextOf(t).mine) = Range(tick[t].mine) \ {r}
  BY <1>1, <1>2, NextIsWell DEF PollTypes
<1>4. rows' \in Seq(Tasks) /\ IsInjective(rows')
  BY <1>2, TakenOff DEF PollTypes
<1>5. /\ DOMAIN tick' = Ticks /\ tick'[t] = NextOf(t)
      /\ \A u \in Ticks : u # t => tick'[u] = tick[u]
  BY <1>2 DEF PollTypes
<1>6. \A u \in Ticks : TickWell(tick'[u])
  BY <1>2, <1>3, <1>5 DEF PollTypes
<1>7. Committed(t) \in Claims /\ claim' \in Claims /\ lock' \in Claims
  BY <1>2, ClaimsAreClaims DEF Claims
<1>8. PollTypes'
  BY <1>2, <1>4, <1>5, <1>6, <1>7 DEF PollTypes
<1>9. claim'[r] = NoTick /\ \A x \in Tasks \ {r} : claim'[x] = Committed(t)[x]
  BY <1>2, <1>3, <1>7 DEF Claims
<1>10. /\ \A u \in Ticks : Range(tick'[u].mine) \subseteq Range(tick[u].mine)
       /\ r \notin Range(tick'[t].mine)
  BY <1>3, <1>5
<1>11. PICK gone : gone = {r}
  OBVIOUS
<1>12. /\ gone \in SUBSET Tasks /\ gone \subseteq Range(tick[t].mine)
       /\ \A x \in gone : /\ lock[x] \in {NoTick, t} /\ claim'[x] = NoTick
                          /\ x \notin Range(tick'[t].mine)
       /\ \A x \in Tasks \ gone : claim'[x] = Committed(t)[x]
  BY <1>2, <1>3, <1>9, <1>10, <1>11
<1> QED BY <1>2, <1>8, <1>10, <1>12, ClaimsKeep

LEMMA EmitKeeps == ASSUME PollInv, NEW t \in Ticks, Emit(t) PROVE PollInv'
<1>1. /\ claim' = Committed(t) /\ lock' = Unlocked(t)
      /\ UNCHANGED <<rows, later, tick, rolled, kills>> /\ PollTypes
  BY DEF Emit, PollInv
<1>2. PollTypes'
  BY <1>1, ClaimsAreClaims DEF PollTypes
<1>3. PICK gone : gone = {}
  OBVIOUS
<1> QED BY <1>1, <1>2, <1>3, ClaimsKeep

LEMMA AskRaisesKeeps == ASSUME PollInv, NEW t \in Ticks, AskRaises(t) PROVE PollInv'
<1>1. /\ tick[t].pc = "working" /\ lock' = Unlocked(t) /\ rolled'
      /\ tick' = [tick EXCEPT ![t] = NextOf(t)]
      /\ UNCHANGED <<rows, later, claim, kills>> /\ PollTypes
  BY DEF AskRaises, PollInv
<1>2. rolled' \in BOOLEAN
  BY DEF AskRaises
<1>3. TickWell(NextOf(t))
  BY <1>1, NextIsWell DEF PollTypes
<1>4. \A u \in Ticks : TickWell(tick'[u])
  BY <1>1, <1>3 DEF PollTypes
<1>5. lock' \in Claims
  BY <1>1, ClaimsAreClaims
<1>6. PollTypes'
  BY <1>1, <1>2, <1>4, <1>5 DEF PollTypes
<1> QED BY <1>1, <1>6, RolledKeeps

LEMMA WalkRaisesKeeps == ASSUME PollInv, NEW t \in Ticks, WalkRaises(t) PROVE PollInv'
<1>1. PICK r : r = Head(tick[t].mine)
  OBVIOUS
<1>2. /\ tick[t].pc = "working" /\ lock' = Unlocked(t) /\ rolled'
      /\ Rescheduled(t, Head(tick[t].mine), claim) /\ UNCHANGED kills
  BY DEF WalkRaises
<1>3. claim \in Claims /\ rolled' \in BOOLEAN
  BY DEF WalkRaises, PollInv, PollTypes
<1>4. PollTypes' /\ r \in Tasks /\ claim' = [claim EXCEPT ![r] = NoTick]
  BY <1>1, <1>2, <1>3, RescheduledTypes
<1>5. \A x \in Tasks : claim'[x] = claim[x] \/ claim'[x] = NoTick
  BY <1>3, <1>4 DEF Claims
<1> QED BY <1>2, <1>4, <1>5, RolledKeeps

LEMMA AsleepIsWell == TickWell(Asleep) /\ Range(Asleep.mine) = {}
<1>1. <<>> \in Seq(Tasks) /\ IsInjective(<<>>) /\ Range(<<>>) = {}
  BY DEF IsInjective, Range
<1>2. /\ Asleep \in TickStates /\ Asleep.pc = "asleep"
      /\ Asleep.todo = <<>> /\ Asleep.mine = <<>>
  BY <1>1 DEF Asleep, TickStates
<1> QED BY <1>1, <1>2 DEF TickWell

LEMMA KillKeeps == ASSUME PollInv, NEW t \in Ticks, Kill(t) PROVE PollInv'
<1>1. /\ lock' = Unlocked(t) /\ tick' = [tick EXCEPT ![t] = Asleep]
      /\ UNCHANGED <<rows, later, claim, rolled>> /\ PollTypes
      /\ kills < MaxKills /\ kills' = kills + 1
  BY DEF Kill, PollInv
<1>2. TickWell(Asleep) /\ Range(Asleep.mine) = {}
  BY AsleepIsWell
<1>3. /\ DOMAIN tick' = Ticks /\ tick'[t] = Asleep
      /\ \A u \in Ticks : u # t => tick'[u] = tick[u]
  BY <1>1 DEF PollTypes
<1>4. kills' \in 0 .. MaxKills
  BY <1>1, ClaimsAssumption DEF PollTypes
<1>5. lock' \in Claims
  BY <1>1, ClaimsAreClaims
<1>6. PollTypes'
  BY <1>1, <1>2, <1>3, <1>4, <1>5 DEF PollTypes
<1> QED BY <1>1, <1>2, <1>3, <1>6, RolledKeeps

(* No claim is made, committed, undone or run out.                         *)
LEMMA ClaimsStay ==
    ASSUME PollInv, PollTypes', UNCHANGED <<claim, lock>>, rolled' = rolled,
           \A u \in Ticks : Range(tick'[u].mine) \subseteq Range(tick[u].mine)
    PROVE  PollInv'
BY DEF PollInv, LockIsFree, MineAreHeld, HeldBy

LEMMA OldestAreRows ==
    ASSUME PollInv, NEW at \in Oldest, NEW todo, todo = [k \in DOMAIN at |-> rows[at[k]]]
    PROVE  todo \in Seq(Tasks) /\ IsInjective(todo)
<1>1. rows \in Seq(Tasks) /\ IsInjective(rows)
  BY DEF PollInv, PollTypes
<1>2. PICK due : due = {i \in DOMAIN rows : rows[i] \notin later}
  OBVIOUS
<1>3. IsFiniteSet(due)
  <2>1. Len(rows) \in Nat /\ due \subseteq 1 .. Len(rows)
    BY <1>1, <1>2
  <2>2. IsFiniteSet(1 .. Len(rows))
    BY <2>1, FS_Interval
  <2> QED BY <2>1, <2>2, FS_Subset
<1>4. PICK size : size = IF Cardinality(due) < Limit THEN Cardinality(due) ELSE Limit
  OBVIOUS
<1>5. size \in Nat
  BY <1>3, <1>4, FS_CardinalityType, ClaimsAssumption
<1>6. /\ at \in [1 .. size -> due]
      /\ \A j, k \in 1 .. size : j < k => at[j] < at[k]
  BY <1>2, <1>4 DEF Oldest
<1>7. ASSUME NEW k \in 1 .. size PROVE at[k] \in DOMAIN rows /\ todo[k] = rows[at[k]]
  BY <1>2, <1>6
<1>8. todo \in [1 .. size -> Tasks]
  BY <1>1, <1>6, <1>7
<1>9. todo \in Seq(Tasks)
  BY <1>5, <1>8
<1>10. IsInjective(todo)
  <2> SUFFICES ASSUME NEW j \in 1 .. size, NEW k \in 1 .. size, todo[j] = todo[k]
               PROVE  j = k
    BY <1>8 DEF IsInjective
  <2>1. at[j] = at[k] /\ at[j] \in Int
    <3>1. PICK a, b : a = at[j] /\ b = at[k]
      OBVIOUS
    <3>2. /\ a \in DOMAIN rows /\ b \in DOMAIN rows /\ rows[a] = rows[b]
          /\ a \in Int
      <4>1. at[j] \in DOMAIN rows /\ todo[j] = rows[at[j]]
        BY <1>7
      <4>2. at[k] \in DOMAIN rows /\ todo[k] = rows[at[k]]
        BY <1>7
      <4>3. todo[j] = todo[k]
        OBVIOUS
      <4>4. DOMAIN rows \subseteq Int
        BY <1>1
      <4> QED BY <3>1, <4>1, <4>2, <4>3, <4>4
    <3> QED BY <1>1, <3>1, <3>2 DEF IsInjective
  <2>2. ~(j < k) /\ ~(k < j)
    BY <1>6, <2>1
  <2> QED BY <1>5, <2>2
<1> QED BY <1>9, <1>10

LEMMA WakeKeeps == ASSUME PollInv, NEW t \in Ticks, Wake(t) PROVE PollInv'
<1>1. PICK at \in Oldest :
          tick' = [tick EXCEPT ![t] = [pc |-> "claiming",
                                       todo |-> [k \in DOMAIN at |-> rows[at[k]]],
                                       mine |-> <<>>]]
  BY DEF Wake
<1>2. PICK todo : todo = [k \in DOMAIN at |-> rows[at[k]]]
  OBVIOUS
<1>3. todo \in Seq(Tasks) /\ IsInjective(todo)
  BY <1>2, OldestAreRows
<1>4. PICK k : k = [pc |-> "claiming", todo |-> todo, mine |-> <<>>]
  OBVIOUS
<1>5. TickWell(k) /\ Range(k.mine) = {}
  <2>1. <<>> \in Seq(Tasks) /\ IsInjective(<<>>) /\ Range(<<>>) = {}
    BY DEF IsInjective, Range
  <2>2. k \in TickStates /\ k.pc = "claiming" /\ k.todo = todo /\ k.mine = <<>>
    BY <1>3, <1>4, <2>1 DEF TickStates
  <2> QED BY <1>3, <2>1, <2>2 DEF TickWell
<1>6. UNCHANGED <<rows, later, claim, lock, rolled, kills>> /\ PollTypes
  BY DEF Wake, PollInv
<1>7. /\ DOMAIN tick' = Ticks /\ tick'[t] = k
      /\ \A u \in Ticks : u # t => tick'[u] = tick[u]
  BY <1>1, <1>2, <1>4, <1>6 DEF PollTypes
<1>8. PollTypes'
  BY <1>5, <1>6, <1>7 DEF PollTypes
<1> QED BY <1>5, <1>6, <1>7, <1>8, ClaimsStay

LEMMA ClaimNextKeeps == ASSUME PollInv, NEW t \in Ticks, ClaimNext(t) PROVE PollInv'
<1>1. PICK k, r, rest : k = tick[t] /\ r = Head(k.todo) /\ rest = Tail(k.todo)
  OBVIOUS
<1>2. /\ k.pc = "claiming" /\ k.todo # <<>> /\ lock[r] \in {NoTick, t}
      /\ UNCHANGED <<rows, later, claim, rolled, kills>> /\ PollTypes /\ TickWell(k)
      /\ lock \in Claims /\ claim \in Claims /\ DOMAIN tick = Ticks
  BY <1>1 DEF ClaimNext, PollInv, PollTypes
<1>3. k \in TickStates /\ k.todo \in Seq(Tasks) /\ k.mine \in Seq(Tasks)
  BY <1>2 DEF TickWell, TickStates
<1>4. /\ rest \in Seq(Tasks) /\ r \in Tasks /\ IsInjective(rest)
      /\ r \in Range(k.todo) /\ Range(rest) = Range(k.todo) \ {r}
  BY <1>1, <1>2, <1>3, TailOfList DEF TickWell
<1>5. r \notin Range(k.mine)
  BY <1>2, <1>4 DEF TickWell
<1>6. CASE ~Claimable(t, r)
  <2>1. tick' = [tick EXCEPT ![t].todo = rest] /\ UNCHANGED lock
    BY <1>1, <1>6 DEF ClaimNext
  <2>2. PICK n : n = [k EXCEPT !.todo = rest]
    OBVIOUS
  <2>3. /\ DOMAIN tick' = Ticks /\ tick'[t] = n
        /\ \A u \in Ticks : u # t => tick'[u] = tick[u]
    BY <1>1, <1>2, <2>1, <2>2
  <2>4. n \in TickStates /\ n.todo = rest /\ n.mine = k.mine /\ n.pc = "claiming"
    BY <1>2, <1>3, <1>4, <2>2 DEF TickStates
  <2>5. TickWell(n)
    BY <1>2, <1>4, <2>4 DEF TickWell
  <2>6. PollTypes'
    BY <1>2, <2>1, <2>3, <2>5 DEF PollTypes
  <2>7. \A u \in Ticks : Range(tick'[u].mine) \subseteq Range(tick[u].mine)
    BY <1>1, <2>3, <2>4
  <2> QED BY <1>2, <2>1, <2>6, <2>7, ClaimsStay
<1>7. CASE Claimable(t, r)
  <2>1. PICK mine : mine = Append(k.mine, r)
    OBVIOUS
  <2>2. /\ mine \in Seq(Tasks) /\ IsInjective(mine) /\ Range(mine) = Range(k.mine) \cup {r}
    BY <1>2, <1>3, <1>4, <1>5, <2>1, Appended DEF TickWell
  <2>3. /\ tick' = [tick EXCEPT ![t].todo = Tail(@), ![t].mine = Append(@, r)]
        /\ lock' = [lock EXCEPT ![r] = t] /\ claim[r] = NoTick
    BY <1>1, <1>7 DEF ClaimNext, Claimable
  <2>4. PICK n : n = [k EXCEPT !.todo = rest, !.mine = mine]
    OBVIOUS
  <2>5. tick' = [tick EXCEPT ![t] = n]
    BY <1>1, <1>2, <1>3, <2>1, <2>3, <2>4 DEF TickStates
  <2>6. /\ DOMAIN tick' = Ticks /\ tick'[t] = n
        /\ \A u \in Ticks : u # t => tick'[u] = tick[u]
    BY <1>2, <2>5
  <2>7. n \in TickStates /\ n.todo = rest /\ n.mine = mine /\ n.pc = "claiming"
    BY <1>2, <1>3, <1>4, <2>2, <2>4 DEF TickStates
  <2>8. TickWell(n)
    BY <1>2, <1>4, <2>2, <2>7 DEF TickWell
  <2>9. lock' \in Claims /\ lock'[r] = t /\ \A x \in Tasks \ {r} : lock'[x] = lock[x]
    BY <1>2, <1>4, <2>3 DEF Claims
  <2>10. PollTypes'
    BY <1>2, <2>6, <2>8, <2>9 DEF PollTypes
  <2>11. \A x \in Tasks : LockIsFree(x)'
    BY <1>2, <2>3, <2>9 DEF PollInv, LockIsFree
  <2>12. ASSUME ~rolled, NEW u \in Ticks, NEW x \in Range(tick'[u].mine)
         PROVE  HeldBy(u, x)'
    <3>1. CASE x = r /\ u = t
      BY <2>9, <3>1 DEF HeldBy
    <3>2. CASE x # r \/ u # t
      <4>1. x \in Range(tick[u].mine)
        BY <1>1, <2>2, <2>6, <2>7, <2>12, <3>2
      <4>2. x \in Tasks /\ HeldBy(u, x)
        BY <2>12, <4>1, MineAreRows DEF PollInv, MineAreHeld
      <4>3. x # r
        BY <1>2, <2>3, <3>2, <4>2, ClaimsAssumption DEF HeldBy
      <4> QED BY <1>2, <2>9, <4>2, <4>3 DEF HeldBy
    <3> QED BY <3>1, <3>2
  <2> QED BY <1>2, <2>10, <2>11, <2>12 DEF PollInv, MineAreHeld
<1> QED BY <1>6, <1>7

LEMMA WorkKeeps == ASSUME PollInv, NEW t \in Ticks, Work(t) PROVE PollInv'
<1>1. PICK k : k = tick[t]
  OBVIOUS
<1>2. /\ UNCHANGED <<rows, later, claim, lock, rolled, kills>> /\ PollTypes
      /\ TickWell(k) /\ DOMAIN tick = Ticks
  BY <1>1 DEF Work, PollInv, PollTypes
<1>3. PICK n : n = IF k.mine = <<>> THEN Asleep ELSE [k EXCEPT !.pc = "working"]
  OBVIOUS
<1>4. tick' = [tick EXCEPT ![t] = n]
  BY <1>1, <1>3 DEF Work
<1>5. /\ DOMAIN tick' = Ticks /\ tick'[t] = n
      /\ \A u \in Ticks : u # t => tick'[u] = tick[u]
  BY <1>2, <1>4
<1>6. TickWell(n) /\ Range(n.mine) \subseteq Range(k.mine)
  <2>1. CASE k.mine = <<>>
    BY <1>3, <2>1, AsleepIsWell
  <2>2. CASE k.mine # <<>>
    <3>1. k \in TickStates
      BY <1>2 DEF TickWell
    <3>2. n \in TickStates /\ n.todo = k.todo /\ n.mine = k.mine /\ n.pc = "working"
      BY <1>3, <2>2, <3>1 DEF TickStates
    <3> QED BY <1>2, <2>2, <3>2 DEF TickWell
  <2> QED BY <2>1, <2>2
<1>7. PollTypes'
  BY <1>2, <1>5, <1>6 DEF PollTypes
<1> QED BY <1>1, <1>2, <1>5, <1>6, <1>7, ClaimsStay

LEMMA PollIntervalPassesKeeps == ASSUME PollInv, PollIntervalPasses PROVE PollInv'
<1>1. PollTypes' /\ UNCHANGED <<tick, claim, lock, rolled>>
  BY DEF PollIntervalPasses, PollInv, PollTypes
<1> QED BY <1>1, ClaimsStay

LEMMA LeaseExpiresKeeps ==
    ASSUME PollInv, NEW r \in Tasks, LeaseExpires(r)
    PROVE  PollInv'
<1>1. /\ claim[r] # NoTick /\ ~Contains(tick[claim[r]].mine, r)
      /\ claim' = [claim EXCEPT ![r] = NoTick]
      /\ UNCHANGED <<rows, later, lock, tick, rolled, kills>> /\ PollTypes
      /\ claim \in Claims
  BY DEF LeaseExpires, PollInv, PollTypes
<1>2. claim[r] \in Ticks
  BY <1>1 DEF Claims
<1>3. claim' \in Claims /\ claim'[r] = NoTick /\ \A x \in Tasks \ {r} : claim'[x] = claim[x]
  BY <1>1 DEF Claims
<1>4. PollTypes'
  BY <1>1, <1>3 DEF PollTypes
<1>5. \A x \in Tasks : LockIsFree(x)'
  BY <1>1, <1>3 DEF PollInv, LockIsFree
<1>6. ASSUME ~rolled, NEW u \in Ticks, NEW x \in Range(tick[u].mine)
      PROVE  HeldBy(u, x)'
  <2>1. x \in Tasks /\ HeldBy(u, x) /\ tick[u].mine \in Seq(Tasks)
    BY <1>6, MineAreRows DEF PollInv, MineAreHeld
  <2>2. Contains(tick[u].mine, x)
    BY <1>6, <2>1 DEF Range, Contains
  <2>3. ~(x = r /\ claim[r] = u)
    BY <1>1, <2>2
  <2> QED BY <1>1, <1>3, <2>1, <2>3 DEF HeldBy
<1> QED BY <1>1, <1>4, <1>5, <1>6 DEF PollInv, MineAreHeld

LEMMA PollsStart == Init => PollInv
<1> SUFFICES ASSUME Init PROVE PollInv
  OBVIOUS
<1>1. rows \in Seq(Tasks) /\ IsInjective(rows)
  <2>1. PICK n : n = Cardinality(Tasks)
    OBVIOUS
  <2>2. n \in Nat /\ \E f : f \in Bijection(1 .. n, Tasks)
    BY <2>1, FS_CardinalityType, ClaimsAssumption DEF ExistsBijection
  <2>3. \E f \in [1 .. n -> Tasks] : IsInjective(f)
    BY <2>2 DEF Bijection, Injection, IsInjective
  <2>4. rows = CHOOSE f \in [1 .. n -> Tasks] : IsInjective(f)
    BY <2>1 DEF Init, SetToSeq
  <2>5. rows \in [1 .. n -> Tasks] /\ IsInjective(rows)
    BY <2>3, <2>4
  <2> QED BY <2>2, <2>5
<1>2. /\ later = {} /\ claim = [r \in Tasks |-> NoTick] /\ lock = [r \in Tasks |-> NoTick]
      /\ tick = [t \in Ticks |-> Asleep] /\ rolled \in BOOLEAN /\ kills = 0
  BY DEF Init
<1>3. TickWell(Asleep) /\ Range(Asleep.mine) = {}
  BY AsleepIsWell
<1>4. PollTypes
  BY <1>1, <1>2, <1>3, ClaimsAssumption DEF PollTypes, Claims
<1> QED BY <1>2, <1>3, <1>4 DEF PollInv, LockIsFree, MineAreHeld

LEMMA PollsKeep == PollInv /\ [Next]_vars => PollInv'
<1> SUFFICES ASSUME PollInv, [Next]_vars PROVE PollInv'
  OBVIOUS
<1>1. ASSUME NEW t \in Ticks, Wake(t) \/ Proceed(t) \/ Emit(t) \/ Kill(t)
      PROVE  PollInv'
  BY <1>1, WakeKeeps, ClaimNextKeeps, WorkKeeps, StillPendingKeeps, FinishedKeeps,
     AskRaisesKeeps, WalkRaisesKeeps, EmitKeeps, KillKeeps DEF Proceed
<1>2. CASE PollIntervalPasses
  BY <1>2, PollIntervalPassesKeeps
<1>3. ASSUME NEW r \in Tasks, LeaseExpires(r) PROVE PollInv'
  BY <1>3, LeaseExpiresKeeps
<1>4. CASE UNCHANGED vars
  <2>1. UNCHANGED <<rows, later, claim, lock, tick, rolled, kills>>
    BY <1>4 DEF vars
  <2>2. PollTypes'
    BY <2>1 DEF PollInv, PollTypes
  <2> QED BY <2>1, <2>2, ClaimsStay
<1> QED BY <1>1, <1>2, <1>3, <1>4 DEF Next

LEMMA PollInvariant == Spec => []PollInv
BY PollsStart, PollsKeep, PTL DEF Spec

(* The parked renders, their claims and the batches of the ticks are what  *)
(* claim_due and poll_once can make of them.                               *)
THEOREM TypeCorrect == Spec => []TypeOK
<1>1. PollInv => TypeOK
  <2> SUFFICES ASSUME PollInv PROVE TypeOK
    OBVIOUS
  <2>1. ASSUME NEW t \in Ticks
        PROVE  /\ tick[t].pc \in {"asleep", "claiming", "working"}
               /\ Range(tick[t].todo) \cup Range(tick[t].mine) \subseteq Tasks
               /\ tick[t].pc = "working" => tick[t].mine # <<>>
    BY MineAreRows DEF PollInv, PollTypes, TickWell, TickStates
  <2>2. Range(rows) \subseteq Tasks
    BY OnList DEF PollInv, PollTypes
  <2> QED BY <2>1, <2>2 DEF PollInv, PollTypes, Claims, TypeOK
<1> QED BY <1>1, PollInvariant, PTL

(* As long as no tick rolled its batch back and went on with it, no render *)
(* is in the hands of two ticks: the conditional UPDATE of claim_due is    *)
(* enough, with claims that are committed late, leases that run out and    *)
(* ticks that are killed.                                                  *)
THEOREM ClaimsDoExclude == Spec => []ClaimsExclude
<1>1. PollInv => ClaimsExclude
  <2> SUFFICES ASSUME PollInv, ~rolled, NEW r \in Tasks, NEW t \in Ticks, NEW u \in Ticks,
                      Works(t, r), Works(u, r)
               PROVE  t = u
    BY DEF ClaimsExclude, OneTickPerTask
  <2>1. ASSUME NEW x \in Ticks, Works(x, r) PROVE r \in Range(tick[x].mine)
    BY <2>1, NextIsWell DEF Works, PollInv, PollTypes
  <2>2. HeldBy(t, r) /\ HeldBy(u, r) /\ LockIsFree(r)
    BY <2>1 DEF PollInv, MineAreHeld
  <2> QED BY <2>2, ClaimsAssumption DEF HeldBy, LockIsFree
<1> QED BY <1>1, PollInvariant, PTL
=============================================================================
