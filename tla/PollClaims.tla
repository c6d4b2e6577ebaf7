----------------------------- MODULE PollClaims -----------------------------
(***************************************************************************)
(* How overlapping ticks of the render poller share the parked renders:    *)
(* claim_due in app/domain/jobs/async_tasks and poll_once in               *)
(* app/workers/async_polling.                                              *)
(*                                                                         *)
(* A tick claims its whole batch, one conditional UPDATE per row, and does *)
(* not commit.  The claims become durable with the first commit made for   *)
(* the first render it advances, and are undone with the first rollback.   *)
(* What a tick does to the job of a render is JobLifecycle's.              *)
(***************************************************************************)
EXTENDS Naturals, FiniteSets, Sequences, SequencesExt

CONSTANTS
    Ticks,
    Tasks,    \* rows of provider_async_tasks
    Broken,   \* renders whose provider may raise when it is asked
    NoTick,
    Limit,    \* rows one tick selects
    MaxKills  \* bound: ticks killed

ASSUME ClaimsAssumption ==
    /\ IsFiniteSet(Tasks) /\ Broken \subseteq Tasks
    /\ NoTick \notin Ticks
    /\ Limit \in Nat \ {0} /\ MaxKills \in Nat

VARIABLES
    rows,   \* the parked renders, by next_poll_at
    later,  \* those whose next_poll_at is still to come
    claim,  \* claimed_at as committed: by which tick
    lock,   \* a claim not committed yet: by which tick
    tick,
    rolled, \* history: has a tick rolled its batch back and gone on?
    kills
vars == <<rows, later, claim, lock, tick, rolled, kills>>

Asleep == [pc |-> "asleep", todo |-> <<>>, mine |-> <<>>]

Due(r) == Contains(rows, r) /\ r \notin later
Without(s, r) == RemoveFirst(s, r)   \* a row is in no list twice

Works(t, r) == tick[t].pc = "working" /\ Head(tick[t].mine) = r

-----------------------------------------------------------------------------
(* Claiming *)

(* Where the oldest rows that are due stand, claimed by another or not.    *)
Oldest ==
    LET due  == {i \in DOMAIN rows : rows[i] \notin later}
        size == IF Cardinality(due) < Limit THEN Cardinality(due) ELSE Limit
    IN  {at \in [1 .. size -> due] :
            /\ \A j, k \in 1 .. size : j < k => at[j] < at[k]
            /\ \A i \in due : i \in Range(at) \/ at[size] < i}

Wake(t) ==
    /\ tick[t].pc = "asleep"
    /\ \E r \in Tasks : Due(r)
    /\ \E at \in Oldest :
          tick' = [tick EXCEPT ![t] = [pc |-> "claiming",
                                       todo |-> [k \in DOMAIN at |-> rows[at[k]]],
                                       mine |-> <<>>]]
    /\ UNCHANGED <<rows, later, claim, lock, rolled, kills>>

(* As it would be without claimed_at in the WHERE.                         *)
DueToAnyone(t, r) == Due(r)

(* The WHERE of the claiming UPDATE, once the row is not locked. *)
Claimable(t, r) == Due(r) /\ claim[r] = NoTick

ClaimNext(t) ==
    LET r == Head(tick[t].todo) IN
    /\ tick[t].pc = "claiming" /\ tick[t].todo # <<>>
    /\ lock[r] \in {NoTick, t}
    /\ IF Claimable(t, r)
       THEN /\ lock' = [lock EXCEPT ![r] = t]
            /\ tick' = [tick EXCEPT ![t].todo = Tail(@), ![t].mine = Append(@, r)]
       ELSE /\ tick' = [tick EXCEPT ![t].todo = Tail(@)]
            /\ UNCHANGED lock
    /\ UNCHANGED <<rows, later, claim, rolled, kills>>

-----------------------------------------------------------------------------
(* Advancing the batch *)

(* What a commit of the tick makes durable, and what a rollback undoes.    *)
Committed(t) == [r \in Tasks |-> IF lock[r] = t THEN t ELSE claim[r]]
Unlocked(t)  == [r \in Tasks |-> IF lock[r] = t THEN NoTick ELSE lock[r]]

NextOf(t) == [tick[t] EXCEPT !.pc = "claiming", !.mine = Tail(@)]

(* The provider is asked about the next claimed render.  The claim is not  *)
(* looked at again.                                                        *)
Work(t) ==
    /\ tick[t].pc = "claiming" /\ tick[t].todo = <<>>
    /\ tick' = [tick EXCEPT ![t] = IF @.mine = <<>> THEN Asleep
                                   ELSE [@ EXCEPT !.pc = "working"]]
    /\ UNCHANGED <<rows, later, claim, lock, rolled, kills>>

(* As it would be if a new row were booked beside the old one.             *)
BookedAgain(t, r, claims) ==
    /\ rows' = Append(rows, r)
    /\ later' = later \cup {r}
    /\ claim' = [claims EXCEPT ![r] = NoTick]
    /\ tick' = [tick EXCEPT ![t] = NextOf(t)]

(* reschedule and commit: r is free, due later, and no longer matched by a *)
(* tick that selected it before.                                           *)
Rescheduled(t, r, claims) ==
    /\ rows' = IF Contains(rows, r) THEN Append(Without(rows, r), r) ELSE rows
    /\ later' = later \cup {r}
    /\ claim' = [claims EXCEPT ![r] = NoTick]
    /\ tick' = [u \in Ticks |->
                  IF u = t THEN NextOf(t)
                  ELSE [tick[u] EXCEPT !.todo = Without(@, r)]]

StillPending(t) ==
    /\ tick[t].pc = "working"
    /\ lock[Head(tick[t].mine)] \in {NoTick, t}
    /\ Rescheduled(t, Head(tick[t].mine), Committed(t))
    /\ lock' = Unlocked(t)
    /\ UNCHANGED <<rolled, kills>>

(* The resumed walk commits as it goes.                                    *)
Emit(t) ==
    /\ tick[t].pc = "working"
    /\ claim' = Committed(t) /\ lock' = Unlocked(t)
    /\ UNCHANGED <<rows, later, tick, rolled, kills>>

Finished(t) ==
    LET r == Head(tick[t].mine) IN
    /\ tick[t].pc = "working"
    /\ lock[r] \in {NoTick, t}
    /\ rows' = Without(rows, r)
    /\ claim' = [Committed(t) EXCEPT ![r] = NoTick]
    /\ lock' = Unlocked(t)
    /\ tick' = [tick EXCEPT ![t] = NextOf(t)]
    /\ UNCHANGED <<later, rolled, kills>>

(* Asking the provider raised: everything uncommitted is rolled back, the  *)
(* claims on the rest of the batch included, and the tick goes on with it. *)
AskRaises(t) ==
    /\ tick[t].pc = "working" /\ Head(tick[t].mine) \in Broken
    /\ lock' = Unlocked(t)
    /\ tick' = [tick EXCEPT ![t] = NextOf(t)]
    /\ rolled' = TRUE
    /\ UNCHANGED <<rows, later, claim, kills>>

(* The resumed walk raised: rolled back as well, then kept for later.      *)
WalkRaises(t) ==
    /\ tick[t].pc = "working" /\ Head(tick[t].mine) \in Broken
    /\ lock[Head(tick[t].mine)] \in {NoTick, t}
    /\ Rescheduled(t, Head(tick[t].mine), claim)
    /\ lock' = Unlocked(t)
    /\ rolled' = TRUE
    /\ UNCHANGED kills

Kill(t) ==
    /\ tick[t].pc # "asleep"
    /\ kills < MaxKills /\ kills' = kills + 1
    /\ lock' = Unlocked(t)
    /\ tick' = [tick EXCEPT ![t] = Asleep]
    /\ UNCHANGED <<rows, later, claim, rolled>>

-----------------------------------------------------------------------------
(* Time *)

PollIntervalPasses ==
    /\ later # {}
    /\ later' = {}
    /\ UNCHANGED <<rows, claim, lock, tick, rolled, kills>>

(* As it would be if a claim were only ever cleared by whoever made it.    *)
LeaseIsForever(r) == FALSE /\ UNCHANGED vars

(* CLAIM_LEASE is longer than a tick may live, so it only ever runs out on *)
(* a claim whose tick is over or has left it behind.                       *)
LeaseExpires(r) ==
    /\ claim[r] # NoTick
    /\ ~Contains(tick[claim[r]].mine, r)
    /\ claim' = [claim EXCEPT ![r] = NoTick]
    /\ UNCHANGED <<rows, later, lock, tick, rolled, kills>>

-----------------------------------------------------------------------------
Init ==
    /\ rows = SetToSeq(Tasks)
    /\ later = {}
    /\ claim = [r \in Tasks |-> NoTick]
    /\ lock = [r \in Tasks |-> NoTick]
    /\ tick = [t \in Ticks |-> Asleep]
    /\ rolled = FALSE /\ kills = 0

Proceed(t) ==
    \/ ClaimNext(t) \/ Work(t)
    \/ StillPending(t) \/ Finished(t) \/ AskRaises(t) \/ WalkRaises(t)

Next ==
    \/ \E t \in Ticks : Wake(t) \/ Proceed(t) \/ Emit(t) \/ Kill(t)
    \/ PollIntervalPasses
    \/ \E r \in Tasks : LeaseExpires(r)

Spec == Init /\ [][Next]_vars

(* Beat keeps ticking, leases run out, and a tick keeps going: strongly,   *)
(* because PostgreSQL queues the transactions that wait for a row.         *)
Fairness ==
    /\ \A t \in Ticks : WF_vars(Wake(t)) /\ SF_vars(Proceed(t))
    /\ \A r \in Tasks : WF_vars(LeaseExpires(r))

FairSpec == Spec /\ Fairness

-----------------------------------------------------------------------------
TypeOK ==
    /\ Range(rows) \subseteq Tasks /\ IsInjective(rows)
    /\ later \subseteq Tasks
    /\ claim \in [Tasks -> Ticks \cup {NoTick}]
    /\ lock \in [Tasks -> Ticks \cup {NoTick}]
    /\ \A t \in Ticks :
          /\ tick[t].pc \in {"asleep", "claiming", "working"}
          /\ Range(tick[t].todo) \cup Range(tick[t].mine) \subseteq Tasks
          /\ tick[t].pc = "working" => tick[t].mine # <<>>
    /\ rolled \in BOOLEAN /\ kills \in 0..MaxKills

(* "Two scheduler ticks racing for the same row produce exactly one        *)
(* winner": no render is ever in the hands of two ticks.                   *)
OneTickPerTask ==
    \A r \in Tasks : \A t, u \in Ticks : Works(t, r) /\ Works(u, r) => t = u

(* What does hold of the claims: as long as no tick has rolled its batch   *)
(* back and gone on with it, no render is in the hands of two ticks,       *)
(* whichever ticks overlap, finish, die or outlive their leases.           *)
ClaimsExclude == ~rolled => OneTickPerTask

(* "One stuck provider must not stop the others": while fewer renders are  *)
(* stuck than a batch holds, every other render that falls due is looked   *)
(* at, although stuck ones stay at the head of the queue.                  *)
NoTaskStarves ==
    \A r \in Tasks \ Broken :
        Due(r) ~> (~Contains(rows, r) \/ \E t \in Ticks : Works(t, r))
=============================================================================
