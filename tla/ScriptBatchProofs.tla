-------------------------- MODULE ScriptBatchProofs -------------------------
(***************************************************************************)
(* Proofs about ScriptBatch, for any number of items, any width of the     *)
(* pool and any number of commands, reloads and faults.                    *)
(***************************************************************************)
EXTENDS ScriptBatch, FiniteSetTheorems, TLAPS

USE BatchAssumption

Item    == [st : Statuses, job : Nat]
Batches == [kind : {"images", "videos"}, items : [Items -> Item],
            running : BOOLEAN, resuming : BOOLEAN, paused : BOOLEAN, stored : BOOLEAN]
States  == {"live", "done", "failed"}

Live(i) == {n \in DOMAIN made[i] : made[i][n] = "live"}

(* What is shown of an item agrees with where its call is: an item a call  *)
(* runs is shown so and stored, one that waits has no call.                *)
ShownAsRun(i) ==
    /\ at[i] \in {"pacing", "submitting", "taken"} => batch.items[i].st = "submitting"
    /\ at[i] \in {"polling", "linking"} => batch.items[i].st \in {"submitting", "running"}
    /\ at[i] # "idle" => batch.running /\ batch.stored
    /\ i \in todo => /\ at[i] = "idle" /\ batch.running
                     /\ batch.items[i].st \in {"queued", "failed"}

(* A job shown is one the server took.                                     *)
JobIsTaken(i) ==
    /\ batch.items[i].job <= Len(made[i])
    /\ at[i] = "taken" => Len(made[i]) # 0
    /\ batch.items[i].st = "running" => batch.items[i].job # 0

(* Only the job just taken, or the one that is polled, may be live.        *)
LiveIsAwaited(i) ==
    i \notin blind =>
        /\ at[i] \notin {"taken", "polling"} => Live(i) = {}
        /\ at[i] = "taken" => Live(i) \subseteq {Len(made[i])}
        /\ at[i] = "polling" => Live(i) \subseteq {batch.items[i].job}

(* An item shown in flight is being run, is waiting its turn, or was found *)
(* waiting by a reload.                                                    *)
Accounted(i) ==
    batch.items[i].st \in InFlight => at[i] # "idle" \/ i \in todo \/ i \in left

Fits(i) == ShownAsRun(i) /\ JobIsTaken(i) /\ LiveIsAwaited(i) /\ Accounted(i)

Types ==
    /\ batch \in Batches
    /\ todo \subseteq Items
    /\ at \in [Items -> Phases]
    /\ made \in [Items -> Seq(States)]
    /\ linked \subseteq Items /\ blind \subseteq Items /\ left \subseteq Items

(* The strengthening every step preserves.                                 *)
BatchInv == Types /\ \A i \in Items : Fits(i)

-----------------------------------------------------------------------------
(* What the changes to the shown items do.                                 *)

LEMMA Patched ==
    ASSUME NEW b \in Batches, NEW i \in Items, NEW st \in Statuses
    PROVE  LET p == PatchItem(b, i, st) IN
           /\ p \in Batches
           /\ p.items = [b.items EXCEPT ![i] = [st |-> st, job |-> b.items[i].job]]
           /\ p.kind = b.kind /\ p.running = b.running /\ p.resuming = b.resuming
           /\ p.paused = b.paused
           /\ p.stored = Stored(p.items)
<1> DEFINE e == [b EXCEPT !.items[i].st = st]
<1>1. b.items \in [Items -> Item] /\ b.items[i] \in Item
  BY DEF Batches
<1>2. e.items = [b.items EXCEPT ![i] = [st |-> st, job |-> b.items[i].job]]
  BY <1>1 DEF Batches, Item
<1>3. e.items \in [Items -> Item]
  BY <1>1, <1>2 DEF Item
<1>4. e \in Batches
  BY <1>3 DEF Batches
<1>5. /\ e.kind = b.kind /\ e.running = b.running /\ e.resuming = b.resuming
      /\ e.paused = b.paused
  BY DEF Batches
<1>6. Stored(e.items) \in BOOLEAN
  BY DEF Stored
<1> HIDE DEF e
<1>7. PatchItem(b, i, st) = [e EXCEPT !.stored = Stored(e.items)]
  BY DEF PatchItem, Persist, e
<1> QED BY <1>2, <1>4, <1>5, <1>6, <1>7 DEF Batches

LEMMA Remaining ==
    ASSUME NEW b \in Batches
    PROVE  LET p == PauseRemainingQueued(b) IN
           /\ p \in Batches
           /\ \A j \in Items : p.items[j] = IF b.items[j].st = "queued"
                                  THEN [st |-> "paused", job |-> b.items[j].job]
                                  ELSE b.items[j]
           /\ p.kind = b.kind /\ p.running = b.running /\ p.resuming = b.resuming
           /\ p.stored = Stored(p.items)
<1> DEFINE its == [i \in Items |-> IF b.items[i].st = "queued"
                                   THEN [b.items[i] EXCEPT !.st = "paused"] ELSE b.items[i]]
           e == [b EXCEPT !.paused = TRUE, !.items = its]
<1>1. \A i \in Items : b.items[i] \in Item
  BY DEF Batches
<1>2. \A i \in Items : its[i] = IF b.items[i].st = "queued"
                                THEN [st |-> "paused", job |-> b.items[i].job]
                                ELSE b.items[i]
  BY <1>1 DEF Item
<1>3. its \in [Items -> Item]
  BY <1>1 DEF Item, Statuses
<1> HIDE DEF its
<1>4. e \in Batches /\ e.items = its
  BY <1>3 DEF Batches
<1>5. /\ e.kind = b.kind /\ e.running = b.running /\ e.resuming = b.resuming
  BY DEF Batches
<1>6. Stored(e.items) \in BOOLEAN
  BY DEF Stored
<1> HIDE DEF e
<1>7. PauseRemainingQueued(b) = [e EXCEPT !.stored = Stored(e.items)]
  BY DEF PauseRemainingQueued, Persist, e, its
<1> QED BY <1>2, <1>4, <1>5, <1>6, <1>7 DEF Batches

LEMMA Requeued ==
    ASSUME NEW b \in Batches, NEW set
    PROVE  LET p == Requeue(b, set) IN
           /\ p \in Batches
           /\ \A j \in Items : p.items[j] = IF j \in set
                                  THEN [st |-> "queued", job |-> b.items[j].job]
                                  ELSE b.items[j]
           /\ p.kind = b.kind /\ ~p.paused
           /\ p.stored = Stored(p.items)
<1> DEFINE its == [i \in Items |-> IF i \in set
                                   THEN [b.items[i] EXCEPT !.st = "queued"] ELSE b.items[i]]
           e == [b EXCEPT !.paused = FALSE, !.items = its]
<1>1. \A i \in Items : b.items[i] \in Item
  BY DEF Batches
<1>2. \A i \in Items : its[i] = IF i \in set
                                THEN [st |-> "queued", job |-> b.items[i].job]
                                ELSE b.items[i]
  BY <1>1 DEF Item
<1>3. its \in [Items -> Item]
  BY <1>1 DEF Item, Statuses
<1> HIDE DEF its
<1>4. e \in Batches /\ e.items = its
  BY <1>3 DEF Batches
<1>5. e.kind = b.kind /\ ~e.paused
  BY DEF Batches
<1>6. Stored(e.items) \in BOOLEAN
  BY DEF Stored
<1> HIDE DEF e
<1>7. Requeue(b, set) = [e EXCEPT !.stored = Stored(e.items)]
  BY DEF Requeue, Persist, e, its
<1> QED BY <1>2, <1>4, <1>5, <1>6, <1>7 DEF Batches

-----------------------------------------------------------------------------
(* What a step on one item leaves of the others.                           *)

Keeps(j) ==
    /\ batch'.items[j] = batch.items[j] /\ at'[j] = at[j] /\ made'[j] = made[j]
    /\ j \in blind => j \in blind'
    /\ j \in left => j \in left'
    /\ j \in todo' <=> j \in todo

(* The batch goes on, and storage holds what is shown.                     *)
RunsGoOn ==
    /\ batch'.running = batch.running
    /\ batch'.stored = batch.stored \/ batch'.stored = Stored(batch'.items)

LEMMA Undisturbed ==
    ASSUME BatchInv, NEW j \in Items, Keeps(j), RunsGoOn
    PROVE  Fits(j)'
<1>1. Fits(j)
  BY DEF BatchInv
<1>2. at[j] # "idle" => batch'.running /\ batch'.stored
  <2>1. at[j] # "idle" => batch.items[j].st \in InFlight
    BY <1>1 DEF Fits, ShownAsRun, InFlight, BatchInv, Types, Phases
  <2>2. at[j] # "idle" => Stored(batch'.items)
    BY <2>1 DEF Keeps, Stored
  <2> QED BY <1>1, <2>2 DEF RunsGoOn, Fits, ShownAsRun
<1>3. ShownAsRun(j)'
  BY <1>1, <1>2 DEF Fits, ShownAsRun, Keeps, RunsGoOn
<1>4. JobIsTaken(j)'
  BY <1>1 DEF Fits, JobIsTaken, Keeps
<1>5. LiveIsAwaited(j)'
  BY <1>1 DEF Fits, LiveIsAwaited, Live, Keeps
<1>6. Accounted(j)'
  BY <1>1 DEF Fits, Accounted, Keeps
<1> QED BY <1>3, <1>4, <1>5, <1>6 DEF Fits

(* A queue that stops leaves what waited paused.                           *)
LEMMA TodoDropped ==
    ASSUME BatchInv, NEW j \in Items, RunsGoOn, todo' = {},
           batch'.items[j] = IF batch.items[j].st = "queued"
                             THEN [st |-> "paused", job |-> batch.items[j].job]
                             ELSE batch.items[j],
           at'[j] = at[j], made'[j] = made[j],
           j \in blind => j \in blind', j \in left => j \in left'
    PROVE  Fits(j)'
<1>1. Fits(j) /\ at[j] \in Phases
  BY DEF BatchInv, Types
<1>2. CASE at[j] # "idle"
  <2>1. batch.items[j].st # "queued" /\ j \notin todo
    BY <1>1, <1>2 DEF Fits, ShownAsRun, Phases
  <2> QED BY <2>1, Undisturbed DEF Keeps
<1>3. CASE at[j] = "idle"
  <2>1. ShownAsRun(j)'
    BY <1>3 DEF ShownAsRun
  <2>2. JobIsTaken(j)'
    BY <1>1, <1>3 DEF Fits, JobIsTaken
  <2>3. LiveIsAwaited(j)'
    BY <1>1, <1>3 DEF Fits, LiveIsAwaited, Live
  <2>4. Accounted(j)'
    BY <1>1, <1>3 DEF Fits, Accounted, ShownAsRun, InFlight
  <2> QED BY <2>1, <2>2, <2>3, <2>4 DEF Fits
<1> QED BY <1>2, <1>3

-----------------------------------------------------------------------------
(* The ways an item's run ends.                                            *)

LEMMA FailsKeeps ==
    ASSUME BatchInv, NEW i \in Items, Fails(i), at[i] # "idle",
           made' \in [Items -> Seq(States)],
           \A j \in Items \ {i} : made'[j] = made[j],
           Len(made[i]) <= Len(made'[i]),
           blind \subseteq blind', blind' \subseteq Items,
           i \in blind' \/ Live(i)' = {},
           UNCHANGED left, linked' \subseteq Items
    PROVE  BatchInv'
<1> DEFINE failed == PatchItem(batch, i, "failed")
<1>1. /\ failed \in Batches
      /\ failed.items = [batch.items EXCEPT ![i] = [st |-> "failed", job |-> batch.items[i].job]]
      /\ failed.running = batch.running
      /\ failed.stored = Stored(failed.items)
  BY Patched DEF BatchInv, Types, Statuses
<1>2. /\ batch.items \in [Items -> Item] /\ batch.items[i].job \in Nat
      /\ failed.items[i] = [st |-> "failed", job |-> batch.items[i].job]
      /\ \A j \in Items \ {i} : failed.items[j] = batch.items[j]
  BY <1>1 DEF BatchInv, Types, Batches, Item
<1>3. at' = [at EXCEPT ![i] = "idle"] /\ at' \in [Items -> Phases]
  BY DEF Fails, Goes, BatchInv, Types, Phases
<1> HIDE DEF failed
<1>4. /\ batch' \in Batches /\ RunsGoOn
      /\ batch'.items[i] = [st |-> "failed", job |-> batch.items[i].job]
      /\ i \notin todo'
  <2>1. i \notin todo
    BY DEF BatchInv, Fits, ShownAsRun
  <2>2. CASE batch' = failed /\ todo' = todo
    BY <1>1, <1>2, <2>1, <2>2 DEF RunsGoOn
  <2>3. CASE batch' = PauseRemainingQueued(failed) /\ todo' = {}
    <3>1. /\ batch' \in Batches /\ batch'.running = failed.running
          /\ batch'.stored = Stored(batch'.items)
      BY <1>1, <2>3, Remaining
    <3>2. batch'.items[i] = IF failed.items[i].st = "queued"
                            THEN [st |-> "paused", job |-> failed.items[i].job]
                            ELSE failed.items[i]
      BY <1>1, <2>3, Remaining
    <3>3. failed.items[i].st # "queued"
      BY <1>2
    <3>4. batch'.items[i] = [st |-> "failed", job |-> batch.items[i].job]
      BY <1>2, <3>2, <3>3
    <3> QED BY <1>1, <2>3, <3>1, <3>4 DEF RunsGoOn
  <2> QED BY <2>2, <2>3 DEF Fails, failed
<1>5. Types'
  BY <1>3, <1>4 DEF BatchInv, Types, Fails
<1>6. Fits(i)'
  <2>1. at'[i] = "idle"
    BY <1>3 DEF BatchInv, Types
  <2>2. batch'.items[i].st = "failed" /\ batch'.items[i].job = batch.items[i].job
    BY <1>4
  <2>3. ShownAsRun(i)'
    BY <1>4, <2>1 DEF ShownAsRun
  <2>4. JobIsTaken(i)'
    <3>1. batch.items[i].job <= Len(made[i])
      BY DEF BatchInv, Fits, JobIsTaken
    <3>2. Len(made[i]) \in Nat /\ Len(made'[i]) \in Nat
      BY DEF BatchInv, Types
    <3> QED BY <1>2, <2>1, <2>2, <3>1, <3>2 DEF JobIsTaken
  <2>5. LiveIsAwaited(i)'
    BY <2>1 DEF LiveIsAwaited
  <2>6. Accounted(i)'
    BY <2>2 DEF Accounted, InFlight
  <2> QED BY <2>3, <2>4, <2>5, <2>6 DEF Fits
<1>7. ASSUME NEW j \in Items \ {i} PROVE Fits(j)'
  <2>1. at'[j] = at[j] /\ made'[j] = made[j]
    BY <1>3 DEF BatchInv, Types
  <2>2. CASE batch' = failed /\ todo' = todo
    BY <1>2, <1>4, <2>1, <2>2, Undisturbed DEF Keeps
  <2>3. CASE batch' = PauseRemainingQueued(failed) /\ todo' = {}
    <3>1. batch'.items[j] = IF batch.items[j].st = "queued"
                             THEN [st |-> "paused", job |-> batch.items[j].job]
                             ELSE batch.items[j]
      BY <1>1, <1>2, <2>3, Remaining
    <3> QED BY <1>4, <2>1, <2>3, <3>1, TodoDropped
  <2> QED BY <2>2, <2>3 DEF Fails, failed
<1> QED BY <1>5, <1>6, <1>7 DEF BatchInv

LEMMA SucceedsKeeps ==
    ASSUME BatchInv, NEW i \in Items, Succeeds(i), at[i] # "idle",
           Live(i) = {} \/ i \in blind, UNCHANGED <<made, blind, left>>
    PROVE  BatchInv'
<1>1. /\ batch' \in Batches
      /\ batch'.items = [batch.items EXCEPT ![i] = [st |-> "succeeded", job |-> batch.items[i].job]]
      /\ batch'.running = batch.running
      /\ batch'.stored = Stored(batch'.items)
  BY Patched DEF Succeeds, BatchInv, Types, Statuses
<1>2. /\ batch'.items[i] = [st |-> "succeeded", job |-> batch.items[i].job]
      /\ \A j \in Items \ {i} : batch'.items[j] = batch.items[j]
  BY <1>1 DEF BatchInv, Types, Batches, Item
<1>3. /\ at' = [at EXCEPT ![i] = "idle"] /\ at' \in [Items -> Phases]
      /\ todo' = todo /\ i \notin todo
  BY DEF Succeeds, Goes, BatchInv, Types, Phases, Fits, ShownAsRun
<1>4. Types'
  BY <1>1, <1>3 DEF BatchInv, Types, Succeeds
<1>5. Fits(i)'
  <2>1. at'[i] = "idle"
    BY <1>3 DEF BatchInv, Types
  <2>2. ShownAsRun(i)'
    BY <1>3, <2>1 DEF ShownAsRun
  <2>3. JobIsTaken(i)'
    BY <1>2, <2>1 DEF BatchInv, Fits, JobIsTaken
  <2>4. LiveIsAwaited(i)'
    BY <2>1 DEF LiveIsAwaited, Live
  <2>5. Accounted(i)'
    BY <1>2 DEF Accounted, InFlight
  <2> QED BY <2>2, <2>3, <2>4, <2>5 DEF Fits
<1>6. ASSUME NEW j \in Items \ {i} PROVE Fits(j)'
  <2>1. Keeps(j)
    BY <1>2, <1>3 DEF Keeps, BatchInv, Types
  <2> QED BY <1>1, <2>1, Undisturbed DEF RunsGoOn
<1> QED BY <1>4, <1>5, <1>6 DEF BatchInv

-----------------------------------------------------------------------------
(* The steps, one lemma each.                                              *)

LEMMA InitInv == BatchInit => BatchInv
<1> SUFFICES ASSUME BatchInit PROVE BatchInv
  OBVIOUS
<1> DEFINE none == [i \in Items |-> [st |-> "none", job |-> 0]]
<1>1. none \in [Items -> Item]
  BY DEF Item, Statuses
<1>2. batch.items = none /\ batch \in Batches /\ ~batch.running
  BY <1>1 DEF BatchInit, Batches
<1>3. Types
  BY <1>2 DEF BatchInit, Types, Nowhere, Phases
<1>4. ASSUME NEW i \in Items PROVE Fits(i)
  <2>1. batch.items[i] = [st |-> "none", job |-> 0] /\ at[i] = "idle" /\ made[i] = <<>>
    BY <1>2 DEF BatchInit, Nowhere
  <2>2. ShownAsRun(i) /\ JobIsTaken(i) /\ Accounted(i)
    BY <2>1 DEF BatchInit, ShownAsRun, JobIsTaken, Accounted, InFlight
  <2>3. LiveIsAwaited(i)
    BY <2>1 DEF LiveIsAwaited, Live
  <2> QED BY <2>2, <2>3 DEF Fits
<1> QED BY <1>3, <1>4 DEF BatchInv

(* While nothing runs, every item is idle.                                 *)
LEMMA AllIdle ==
    ASSUME BatchInv, ~batch.running, NEW i \in Items
    PROVE  at[i] = "idle" /\ i \notin todo
BY DEF BatchInv, Fits, ShownAsRun

(* A batch that begins queues items that are idle.                         *)
LEMMA Begins ==
    ASSUME BatchInv, ~batch.running, UNCHANGED <<at, made, linked, blind, left>>,
           batch' \in Batches, batch'.running,
           todo' \subseteq Items,
           \A i \in Items :
               /\ \/ batch'.items[i].job = batch.items[i].job
                  \/ batch'.items[i].job = 0
               /\ batch'.items[i].st = "running" => batch'.items[i] = batch.items[i]
               /\ i \in todo' => batch'.items[i].st \in {"queued", "failed"}
               /\ batch'.items[i].st \in InFlight =>
                       i \in todo' \/ batch'.items[i] = batch.items[i]
    PROVE  BatchInv'
<1>1. Types'
  BY DEF BatchInv, Types
<1>2. ASSUME NEW i \in Items PROVE Fits(i)'
  <2>1. at[i] = "idle" /\ i \notin todo /\ Fits(i)
    BY AllIdle DEF BatchInv
  <2>2. ShownAsRun(i)'
    BY <2>1 DEF ShownAsRun
  <2>3. JobIsTaken(i)'
    <3>1. Len(made[i]) \in Nat
      BY DEF BatchInv, Types
    <3> QED BY <2>1, <3>1 DEF Fits, JobIsTaken
  <2>4. LiveIsAwaited(i)'
    BY <2>1 DEF Fits, LiveIsAwaited, Live
  <2>5. Accounted(i)'
    BY <2>1 DEF Fits, Accounted
  <2> QED BY <2>2, <2>3, <2>4, <2>5 DEF Fits
<1> QED BY <1>1, <1>2 DEF BatchInv

LEMMA StartKeeps == ASSUME BatchInv, Start PROVE BatchInv'
<1> DEFINE its == [i \in Items |->
                     [st |-> IF i \in Pending THEN "queued" ELSE "none", job |-> 0]]
           e == [batch EXCEPT !.running = TRUE, !.resuming = FALSE, !.paused = FALSE,
                              !.items = its]
<1>1. its \in [Items -> Item]
  BY DEF Item, Statuses
<1>2. \A i \in Items : its[i].job = 0 /\ its[i].st = IF i \in Pending THEN "queued" ELSE "none"
  OBVIOUS
<1> HIDE DEF its
<1>3. e \in Batches /\ e.items = its /\ e.running
  BY <1>1 DEF BatchInv, Types, Batches
<1>4. Stored(e.items) \in BOOLEAN
  BY DEF Stored
<1> HIDE DEF e
<1>5. batch' = [e EXCEPT !.stored = Stored(e.items)]
  BY DEF Start, Persist, e, its
<1>6. batch' \in Batches /\ batch'.items = its /\ batch'.running
  BY <1>3, <1>4, <1>5 DEF Batches
<1>7. /\ todo' = Pending /\ Pending \subseteq Items /\ ~batch.running
      /\ UNCHANGED <<at, made, linked, blind, left>>
  BY DEF Start, Pending
<1> QED BY <1>2, <1>6, <1>7, Begins DEF InFlight

LEMMA RetryKeeps == ASSUME BatchInv, NEW i \in Items, RetryImage(i) PROVE BatchInv'
<1>1. batch' \in Batches /\ batch'.items = batch.items /\ batch'.running
  BY DEF RetryImage, BatchInv, Types, Batches
<1>2. /\ todo' = {i} /\ ~batch.running /\ batch.items[i].st = "failed"
      /\ UNCHANGED <<at, made, linked, blind, left>>
  BY DEF RetryImage
<1> QED BY <1>1, <1>2, Begins

LEMMA ResumeKeeps == ASSUME BatchInv, ResumeVideos PROVE BatchInv'
<1> DEFINE remaining == {i \in Items : batch.items[i].st \in Stalled \cup {"queued"}}
           e == Requeue(batch, remaining)
<1>1. /\ e \in Batches
      /\ \A j \in Items : e.items[j] = IF j \in remaining
                                  THEN [st |-> "queued", job |-> batch.items[j].job]
                                  ELSE batch.items[j]
  BY Requeued DEF BatchInv, Types
<1> HIDE DEF e
<1>2. batch' = [e EXCEPT !.running = TRUE, !.resuming = FALSE]
  BY DEF ResumeVideos, e
<1>3. batch' \in Batches /\ batch'.items = e.items /\ batch'.running
  BY <1>1, <1>2 DEF Batches
<1>4. /\ todo' = remaining /\ ~batch.running
      /\ UNCHANGED <<at, made, linked, blind, left>>
  BY DEF ResumeVideos
<1>5. ASSUME NEW i \in Items
      PROVE  /\ batch'.items[i].job = batch.items[i].job
             /\ batch'.items[i].st = "running" => batch'.items[i] = batch.items[i]
             /\ i \in todo' => batch'.items[i].st \in {"queued", "failed"}
             /\ batch'.items[i].st \in InFlight =>
                       i \in todo' \/ batch'.items[i] = batch.items[i]
  <2>1. i \in remaining <=> batch.items[i].st \in Stalled \cup {"queued"}
    OBVIOUS
  <2>2. batch'.items[i] = IF i \in remaining
                          THEN [st |-> "queued", job |-> batch.items[i].job]
                          ELSE batch.items[i]
    BY <1>1, <1>3
  <2> HIDE DEF remaining
  <2>3. CASE i \in remaining
    BY <1>4, <2>2, <2>3
  <2>4. CASE i \notin remaining
    BY <1>4, <2>2, <2>4
  <2> QED BY <2>3, <2>4
<1> QED BY <1>3, <1>4, <1>5, Begins

LEMMA EndsKeeps == ASSUME BatchInv, BatchEnds PROVE BatchInv'
<1> DEFINE e == [batch EXCEPT !.running = FALSE, !.resuming = FALSE]
<1>1. e \in Batches /\ e.items = batch.items
  BY DEF BatchInv, Types, Batches
<1>2. Stored(e.items) \in BOOLEAN
  BY DEF Stored
<1> HIDE DEF e
<1>3. batch' = [e EXCEPT !.stored = Stored(e.items)]
  BY DEF BatchEnds, Persist, e
<1>4. batch' \in Batches /\ batch'.items = batch.items
  BY <1>1, <1>2, <1>3 DEF Batches
<1>5. Types'
  BY <1>4 DEF BatchInv, Types, BatchEnds
<1>6. ASSUME NEW i \in Items PROVE Fits(i)'
  <2>1. at[i] = "idle" /\ at' = at /\ todo' = todo /\ todo = {} /\ Fits(i)
    BY DEF BatchInv, BatchEnds, Nowhere
  <2>2. ShownAsRun(i)' /\ JobIsTaken(i)' /\ Accounted(i)'
    BY <1>4, <2>1 DEF Fits, ShownAsRun, JobIsTaken, Accounted, BatchEnds
  <2>3. LiveIsAwaited(i)'
    BY <2>1 DEF Fits, LiveIsAwaited, Live, BatchEnds
  <2> QED BY <2>2, <2>3 DEF Fits
<1> QED BY <1>5, <1>6 DEF BatchInv

LEMMA OneItem ==
    ASSUME BatchInv, NEW i \in Items, Types', Fits(i)', RunsGoOn,
           \A j \in Items \ {i} : Keeps(j)
    PROVE  BatchInv'
BY Undisturbed DEF BatchInv

(* What Goes changes.                                                      *)
LEMMA GoesTo ==
    ASSUME BatchInv, NEW i \in Items, NEW phase \in Phases, Goes(i, phase)
    PROVE  /\ at' \in [Items -> Phases] /\ at'[i] = phase
           /\ \A j \in Items \ {i} : at'[j] = at[j]
BY DEF Goes, BatchInv, Types

LEMMA RunKeeps == ASSUME BatchInv, NEW i \in Items, RunItem(i) PROVE BatchInv'
<1>1. /\ batch' \in Batches
      /\ batch'.items = [batch.items EXCEPT ![i] = [st |-> "submitting", job |-> batch.items[i].job]]
      /\ batch'.running = batch.running
      /\ batch'.stored = Stored(batch'.items)
  BY Patched DEF RunItem, BatchInv, Types, Statuses
<1>2. /\ batch'.items[i] = [st |-> "submitting", job |-> batch.items[i].job]
      /\ \A j \in Items \ {i} : batch'.items[j] = batch.items[j]
  BY <1>1 DEF BatchInv, Types, Batches, Item
<1>3. /\ at' \in [Items -> Phases] /\ at'[i] = "pacing"
      /\ \A j \in Items \ {i} : at'[j] = at[j]
  BY GoesTo DEF RunItem, Phases
<1>4. i \in todo /\ todo' = todo \ {i} /\ UNCHANGED <<made, linked, blind, left>>
  BY DEF RunItem
<1>5. Types'
  BY <1>1, <1>3, <1>4 DEF BatchInv, Types
<1>6. Fits(i)'
  <2>1. Fits(i)
    BY DEF BatchInv
  <2>2. batch.running /\ at[i] = "idle"
    BY <1>4, <2>1 DEF Fits, ShownAsRun
  <2>3. batch'.stored
    BY <1>1, <1>2 DEF Stored, InFlight
  <2>4. ShownAsRun(i)'
    BY <1>1, <1>2, <1>3, <1>4, <2>2, <2>3 DEF ShownAsRun
  <2>5. JobIsTaken(i)'
    BY <1>2, <1>3, <1>4, <2>1 DEF Fits, JobIsTaken
  <2>6. LiveIsAwaited(i)'
    BY <1>3, <1>4, <2>1, <2>2 DEF Fits, LiveIsAwaited, Live
  <2>7. Accounted(i)'
    BY <1>3 DEF Accounted
  <2> QED BY <2>4, <2>5, <2>6, <2>7 DEF Fits
<1>7. RunsGoOn /\ \A j \in Items \ {i} : Keeps(j)
  BY <1>1, <1>2, <1>3, <1>4 DEF RunsGoOn, Keeps
<1> QED BY <1>5, <1>6, <1>7, OneItem

LEMMA SubmitJobKeeps == ASSUME BatchInv, NEW i \in Items, SubmitJob(i) PROVE BatchInv'
<1>1. /\ at' \in [Items -> Phases] /\ at'[i] = "submitting"
      /\ \A j \in Items \ {i} : at'[j] = at[j]
  BY GoesTo DEF SubmitJob, Phases
<1>2. at[i] = "pacing" /\ UNCHANGED <<batch, todo, made, linked, blind, left>>
  BY DEF SubmitJob
<1>3. Types'
  BY <1>1, <1>2 DEF BatchInv, Types
<1>4. Fits(i)'
  <2>1. Fits(i)
    BY DEF BatchInv
  <2>2. ShownAsRun(i)'
    BY <1>1, <1>2, <2>1 DEF Fits, ShownAsRun
  <2>3. JobIsTaken(i)' /\ Accounted(i)'
    BY <1>1, <1>2, <2>1 DEF Fits, JobIsTaken, Accounted
  <2>4. LiveIsAwaited(i)'
    BY <1>1, <1>2, <2>1 DEF Fits, LiveIsAwaited, Live
  <2> QED BY <2>2, <2>3, <2>4 DEF Fits
<1>5. RunsGoOn /\ \A j \in Items \ {i} : Keeps(j)
  BY <1>1, <1>2 DEF RunsGoOn, Keeps
<1> QED BY <1>3, <1>4, <1>5, OneItem

(* One more job of an item.                                                *)
LEMMA TookOne ==
    ASSUME BatchInv, NEW i \in Items, made' = Took(i)
    PROVE  /\ made' \in [Items -> Seq(States)]
           /\ \A j \in Items \ {i} : made'[j] = made[j]
           /\ Len(made[i]) \in Nat /\ Len(made'[i]) = Len(made[i]) + 1
           /\ \A n \in 1 .. Len(made[i]) : made'[i][n] = made[i][n]
<1>1. made \in [Items -> Seq(States)] /\ made' = [made EXCEPT ![i] = Append(made[i], "live")]
  BY DEF BatchInv, Types, Took
<1>2. made[i] \in Seq(States) /\ "live" \in States
  BY <1>1 DEF States
<1> QED BY <1>1, <1>2

LEMMA TakesKeeps == ASSUME BatchInv, NEW i \in Items, ServerTakes(i) PROVE BatchInv'
<1>1. /\ at' \in [Items -> Phases] /\ at'[i] = "taken"
      /\ \A j \in Items \ {i} : at'[j] = at[j]
  BY GoesTo DEF ServerTakes, Phases
<1>2. at[i] = "submitting" /\ UNCHANGED <<batch, todo, linked, blind, left>>
  BY DEF ServerTakes
<1>3. /\ made' \in [Items -> Seq(States)]
      /\ \A j \in Items \ {i} : made'[j] = made[j]
      /\ Len(made[i]) \in Nat /\ Len(made'[i]) = Len(made[i]) + 1
      /\ \A n \in 1 .. Len(made[i]) : made'[i][n] = made[i][n]
  BY TookOne DEF ServerTakes
<1>4. Types'
  BY <1>1, <1>2, <1>3 DEF BatchInv, Types
<1>5. Fits(i)'
  <2>1. Fits(i) /\ batch.items[i].job \in Nat
    BY DEF BatchInv, Types, Batches, Item
  <2>2. ShownAsRun(i)'
    BY <1>1, <1>2, <2>1 DEF Fits, ShownAsRun
  <2>3. JobIsTaken(i)'
    BY <1>1, <1>2, <1>3, <2>1 DEF Fits, JobIsTaken
  <2>4. Accounted(i)'
    BY <1>1 DEF Accounted
  <2>5. LiveIsAwaited(i)'
    <3>1. SUFFICES ASSUME i \notin blind, NEW n \in DOMAIN made'[i], made'[i][n] = "live"
                   PROVE  n = Len(made'[i])
      BY <1>1, <1>2 DEF LiveIsAwaited, Live
    <3>2. n \in 1 .. (Len(made[i]) + 1)
      BY <1>3
    <3>3. ASSUME n \in 1 .. Len(made[i]) PROVE FALSE
      <4>1. n \in Live(i)
        BY <1>3, <3>1, <3>3 DEF Live, BatchInv, Types
      <4> QED BY <1>2, <2>1, <3>1, <4>1 DEF Fits, LiveIsAwaited
    <3> QED BY <1>3, <3>2, <3>3
  <2> QED BY <2>2, <2>3, <2>4, <2>5 DEF Fits
<1>6. RunsGoOn /\ \A j \in Items \ {i} : Keeps(j)
  BY <1>1, <1>2, <1>3 DEF RunsGoOn, Keeps
<1> QED BY <1>4, <1>5, <1>6, OneItem

LEMMA SubmittedKeeps == ASSUME BatchInv, NEW i \in Items, Submitted(i) PROVE BatchInv'
<1> DEFINE b == [batch EXCEPT !.items[i].job = Len(made[i])]
<1>1. Len(made[i]) \in Nat /\ batch.items \in [Items -> Item] /\ batch.items[i] \in Item
  BY DEF BatchInv, Types, Batches
<1>2. b.items = [batch.items EXCEPT ![i] = [st |-> batch.items[i].st, job |-> Len(made[i])]]
  <2>1. b.items = [batch.items EXCEPT ![i] = [batch.items[i] EXCEPT !.job = Len(made[i])]]
    BY <1>1 DEF BatchInv, Types, Batches
  <2>2. [batch.items[i] EXCEPT !.job = Len(made[i])]
            = [st |-> batch.items[i].st, job |-> Len(made[i])]
    BY <1>1 DEF Item
  <2> QED BY <2>1, <2>2
<1>3. b.items \in [Items -> Item]
  BY <1>1, <1>2 DEF Item
<1>4. b \in Batches /\ b.running = batch.running
  BY <1>3 DEF BatchInv, Types, Batches
<1> HIDE DEF b
<1>5. batch' = PatchItem(b, i, "running")
  BY DEF Submitted, b
<1>6. /\ batch' \in Batches
      /\ batch'.items = [b.items EXCEPT ![i] = [st |-> "running", job |-> b.items[i].job]]
      /\ batch'.running = batch.running
      /\ batch'.stored = Stored(batch'.items)
  BY <1>4, <1>5, Patched DEF Statuses
<1>7. /\ batch'.items[i] = [st |-> "running", job |-> Len(made[i])]
      /\ \A j \in Items \ {i} : batch'.items[j] = batch.items[j]
  BY <1>1, <1>2, <1>3, <1>6
<1>8. /\ at' \in [Items -> Phases] /\ at'[i] = "polling"
      /\ \A j \in Items \ {i} : at'[j] = at[j]
  BY GoesTo DEF Submitted, Phases
<1>9. at[i] = "taken" /\ UNCHANGED <<todo, made, linked, blind, left>>
  BY DEF Submitted
<1>10. Types'
  BY <1>6, <1>8, <1>9 DEF BatchInv, Types
<1>11. Fits(i)'
  <2>1. Fits(i)
    BY DEF BatchInv
  <2>2. batch.running /\ i \notin todo /\ Len(made[i]) # 0
    BY <1>9, <2>1 DEF Fits, ShownAsRun, JobIsTaken
  <2>3. batch'.stored
    BY <1>6, <1>7 DEF Stored, InFlight
  <2>4. ShownAsRun(i)'
    BY <1>6, <1>7, <1>8, <1>9, <2>2, <2>3 DEF ShownAsRun
  <2>5. JobIsTaken(i)'
    BY <1>1, <1>7, <1>8, <1>9, <2>2 DEF JobIsTaken
  <2>6. LiveIsAwaited(i)'
    BY <1>7, <1>8, <1>9, <2>1 DEF Fits, LiveIsAwaited, Live
  <2>7. Accounted(i)'
    BY <1>8 DEF Accounted
  <2> QED BY <2>4, <2>5, <2>6, <2>7 DEF Fits
<1>12. RunsGoOn /\ \A j \in Items \ {i} : Keeps(j)
  BY <1>6, <1>7, <1>8, <1>9 DEF RunsGoOn, Keeps
<1> QED BY <1>10, <1>11, <1>12, OneItem

(* The runs that fail: nothing of the item is live, or the page is blind.  *)
LEMMA RefusesKeeps == ASSUME BatchInv, NEW i \in Items, Refuses(i) PROVE BatchInv'
<1>1. /\ at[i] = "submitting" /\ Fails(i) /\ UNCHANGED <<made, linked, blind, left>>
  BY DEF Refuses
<1>2. i \in blind' \/ Live(i)' = {}
  BY <1>1 DEF BatchInv, Fits, LiveIsAwaited, Live
<1>3. /\ made' \in [Items -> Seq(States)] /\ Len(made[i]) \in Nat
      /\ linked' \subseteq Items /\ blind' \subseteq Items
  BY <1>1 DEF BatchInv, Types
<1> QED BY <1>1, <1>2, <1>3, FailsKeeps

LEMMA LoseSubmitKeeps == ASSUME BatchInv, NEW i \in Items, LoseSubmit(i) PROVE BatchInv'
<1>1. /\ at[i] # "idle" /\ Fails(i) /\ UNCHANGED <<linked, left>>
      /\ blind' = blind \cup {i} /\ made' \in {Took(i), made}
  BY DEF LoseSubmit
<1>2. /\ made' \in [Items -> Seq(States)]
      /\ \A j \in Items \ {i} : made'[j] = made[j]
      /\ Len(made[i]) <= Len(made'[i])
  <2>1. CASE made' = Took(i)
    <3>1. /\ made' \in [Items -> Seq(States)]
          /\ \A j \in Items \ {i} : made'[j] = made[j]
          /\ Len(made[i]) \in Nat /\ Len(made'[i]) = Len(made[i]) + 1
      BY <2>1, TookOne
    <3> QED BY <3>1
  <2>2. CASE made' = made
    BY <2>2 DEF BatchInv, Types
  <2> QED BY <1>1, <2>1, <2>2
<1>3. linked' \subseteq Items /\ blind' \subseteq Items /\ blind \subseteq blind' /\ i \in blind'
  BY <1>1 DEF BatchInv, Types
<1> QED BY <1>1, <1>2, <1>3, FailsKeeps

LEMMA LosePollKeeps == ASSUME BatchInv, NEW i \in Items, LosePoll(i) PROVE BatchInv'
<1>1. /\ at[i] = "polling" /\ Fails(i) /\ UNCHANGED <<made, linked, left>>
      /\ blind' = blind \cup {i}
  BY DEF LosePoll
<1>2. /\ made' \in [Items -> Seq(States)] /\ Len(made[i]) \in Nat
      /\ linked' \subseteq Items /\ blind' \subseteq Items
      /\ blind \subseteq blind' /\ i \in blind'
  BY <1>1 DEF BatchInv, Types
<1> QED BY <1>1, <1>2, FailsKeeps

LEMMA LinkFailsKeeps == ASSUME BatchInv, NEW i \in Items, LinkFails(i) PROVE BatchInv'
<1>1. /\ at[i] = "linking" /\ Fails(i) /\ UNCHANGED <<made, linked, blind, left>>
  BY DEF LinkFails
<1>2. i \in blind' \/ Live(i)' = {}
  BY <1>1 DEF BatchInv, Fits, LiveIsAwaited, Live
<1>3. /\ made' \in [Items -> Seq(States)] /\ Len(made[i]) \in Nat
      /\ linked' \subseteq Items /\ blind' \subseteq Items
  BY <1>1 DEF BatchInv, Types
<1> QED BY <1>1, <1>2, <1>3, FailsKeeps

LEMMA FinishKeeps == ASSUME BatchInv, NEW i \in Items, FinishImage(i) PROVE BatchInv'
<1>1. at[i] = "linking" /\ Succeeds(i) /\ UNCHANGED <<made, blind, left>>
  BY DEF FinishImage
<1>2. Live(i) = {} \/ i \in blind
  BY <1>1 DEF BatchInv, Fits, LiveIsAwaited
<1> QED BY <1>1, <1>2, SucceedsKeeps

(* The poll ends when the job it waits for is over: then none is live.     *)
LEMMA PollKeeps == ASSUME BatchInv, NEW i \in Items, PollJob(i) PROVE BatchInv'
<1>1. /\ at[i] = "polling" /\ made[i][batch.items[i].job] # "live"
      /\ UNCHANGED <<made, blind, left>>
  BY DEF PollJob
<1>2. Live(i) = {} \/ i \in blind
  <2>1. i \notin blind => Live(i) \subseteq {batch.items[i].job}
    BY <1>1 DEF BatchInv, Fits, LiveIsAwaited
  <2> QED BY <1>1, <2>1 DEF Live
<1>3. CASE Fails(i) /\ UNCHANGED linked
  <2>1. i \in blind' \/ Live(i)' = {}
    BY <1>1, <1>2 DEF Live
  <2>2. /\ made' \in [Items -> Seq(States)] /\ Len(made[i]) \in Nat
        /\ linked' \subseteq Items /\ blind' \subseteq Items
    BY <1>1, <1>3 DEF BatchInv, Types
  <2> QED BY <1>1, <1>3, <2>1, <2>2, FailsKeeps
<1>4. CASE Succeeds(i)
  BY <1>1, <1>2, <1>4, SucceedsKeeps
<1>5. CASE Goes(i, "linking") /\ UNCHANGED <<batch, todo, linked>>
  <2>1. /\ at' \in [Items -> Phases] /\ at'[i] = "linking"
        /\ \A j \in Items \ {i} : at'[j] = at[j]
    BY <1>5, GoesTo DEF Phases
  <2>2. Types'
    BY <1>1, <1>5, <2>1 DEF BatchInv, Types
  <2>3. Fits(i)'
    <3>1. Fits(i)
      BY DEF BatchInv
    <3>2. ShownAsRun(i)'
      BY <1>1, <1>5, <2>1, <3>1 DEF Fits, ShownAsRun
    <3>3. JobIsTaken(i)' /\ Accounted(i)'
      BY <1>1, <1>5, <2>1, <3>1 DEF Fits, JobIsTaken, Accounted
    <3>4. LiveIsAwaited(i)'
      BY <1>1, <1>2, <2>1 DEF LiveIsAwaited, Live
    <3> QED BY <3>2, <3>3, <3>4 DEF Fits
  <2>4. RunsGoOn /\ \A j \in Items \ {i} : Keeps(j)
    BY <1>1, <1>5, <2>1 DEF RunsGoOn, Keeps
  <2> QED BY <2>2, <2>3, <2>4, OneItem
<1> QED BY <1>3, <1>4, <1>5 DEF PollJob

LEMMA JobEndsKeeps ==
    ASSUME BatchInv, NEW i \in Items, NEW n \in DOMAIN made[i], JobEnds(i, n)
    PROVE  BatchInv'
<1>1. UNCHANGED <<batch, todo, at, linked, blind, left>>
  BY DEF JobEnds
<1>2. PICK st \in {"done", "failed"} : made' = [made EXCEPT ![i][n] = st]
  BY DEF JobEnds
<1>3. made[i] \in Seq(States) /\ st \in States /\ st # "live"
  BY DEF BatchInv, Types, States
<1>4. made' = [made EXCEPT ![i] = [made[i] EXCEPT ![n] = st]]
  BY <1>2
<1>5. /\ made' \in [Items -> Seq(States)] /\ made'[i] = [made[i] EXCEPT ![n] = st]
      /\ \A j \in Items \ {i} : made'[j] = made[j]
  BY <1>3, <1>4 DEF BatchInv, Types
<1>6. Len(made'[i]) = Len(made[i]) /\ Live(i)' \subseteq Live(i)
  <2>1. /\ Len(made'[i]) = Len(made[i]) /\ DOMAIN made'[i] = DOMAIN made[i]
        /\ \A m \in DOMAIN made[i] : made'[i][m] = IF m = n THEN st ELSE made[i][m]
    BY <1>3, <1>5
  <2> QED BY <1>3, <2>1 DEF Live
<1>7. Types'
  BY <1>1, <1>5 DEF BatchInv, Types
<1>8. Fits(i)'
  <2>1. Fits(i)
    BY DEF BatchInv
  <2>2. ShownAsRun(i)' /\ Accounted(i)'
    BY <1>1, <2>1 DEF Fits, ShownAsRun, Accounted
  <2>3. JobIsTaken(i)'
    BY <1>1, <1>6, <2>1 DEF Fits, JobIsTaken
  <2>4. LiveIsAwaited(i)'
    <3> DEFINE live == Live(i)
               later == Live(i)'
    <3>1. later \subseteq live
      BY <1>6
    <3>2. i \notin blind =>
            /\ at[i] \notin {"taken", "polling"} => live = {}
            /\ at[i] = "taken" => live \subseteq {Len(made[i])}
            /\ at[i] = "polling" => live \subseteq {batch.items[i].job}
      BY <2>1 DEF Fits, LiveIsAwaited
    <3>3. LiveIsAwaited(i)' = (i \notin blind' =>
            /\ at'[i] \notin {"taken", "polling"} => later = {}
            /\ at'[i] = "taken" => later \subseteq {Len(made'[i])}
            /\ at'[i] = "polling" => later \subseteq {batch'.items[i].job})
      BY DEF LiveIsAwaited
    <3> HIDE DEF live, later
    <3> QED BY <1>1, <1>6, <3>1, <3>2, <3>3
  <2> QED BY <2>2, <2>3, <2>4 DEF Fits
<1>9. RunsGoOn /\ \A j \in Items \ {i} : Keeps(j)
  BY <1>1, <1>5 DEF RunsGoOn, Keeps
<1> QED BY <1>7, <1>8, <1>9, OneItem

(* A call that was polling is found again by its job; a request that was   *)
(* on its way leaves the item blind.                                       *)
LEMMA ReloadKeeps == ASSUME BatchInv, ReloadPage PROVE BatchInv'
<1> DEFINE sent  == {i \in Items : at[i] = "submitting"}
           none  == [i \in Items |-> [st |-> "none", job |-> 0]]
           items == IF batch.stored THEN batch.items ELSE none
           inflight == {i \in Items : /\ items[i].job # 0
                                      /\ items[i].st \in {"submitting", "running"}}
           Some(set) == \E i \in Items : items[i].st \in set
           goesOn == inflight # {} \/ Some({"queued", "paused"})
           e == [batch EXCEPT !.items = items, !.running = goesOn, !.resuming = goesOn,
                              !.paused = Some(Stalled), !.stored = goesOn]
<1>1. PICK served \in SUBSET sent :
          made' = [i \in Items |-> IF i \in served THEN Append(made[i], "live") ELSE made[i]]
  BY DEF ReloadPage
<1>2. /\ blind' = blind \cup {i \in Items : at[i] \in {"submitting", "taken"}}
      /\ left' = left \cup {i \in Items : items[i].st \in {"queued", "submitting"}}
      /\ batch' = e
      /\ at' = [i \in Items |-> IF i \in inflight /\ goesOn THEN "polling" ELSE "idle"]
      /\ todo' = {} /\ linked' = linked
  BY DEF ReloadPage
<1>3. /\ items \in [Items -> Item]
      /\ \A i \in Items : IF batch.stored THEN items[i] = batch.items[i]
                          ELSE items[i] = [st |-> "none", job |-> 0]
  <2>1. none \in [Items -> Item]
    BY DEF Item, Statuses
  <2> QED BY <2>1 DEF BatchInv, Types, Batches
<1>4. \A i \in Items : i \in inflight <=>
          items[i].job # 0 /\ items[i].st \in {"submitting", "running"}
  OBVIOUS
<1>5. goesOn \in BOOLEAN /\ Some(Stalled) \in BOOLEAN /\ (inflight # {} => goesOn)
  OBVIOUS
<1> HIDE DEF items, inflight, goesOn, Some
<1>6. /\ batch' \in Batches /\ batch'.items = items
      /\ batch'.running = goesOn /\ batch'.stored = goesOn
  BY <1>2, <1>3, <1>5 DEF BatchInv, Types, Batches
<1>7. \A i \in Items :
          /\ made[i] \in Seq(States) /\ "live" \in States
          /\ Len(made[i]) \in Nat
          /\ items[i].job \in Nat
  BY <1>3 DEF BatchInv, Types, States, Item
<1>8. /\ made' \in [Items -> Seq(States)]
      /\ \A i \in Items : Len(made[i]) <= Len(made'[i])
      /\ \A i \in Items : i \notin served => made'[i] = made[i]
  <2>1. \A i \in Items :
            /\ Append(made[i], "live") \in Seq(States)
            /\ Len(Append(made[i], "live")) = Len(made[i]) + 1
    BY <1>7
  <2> QED BY <1>1, <1>7, <2>1
<1>9. /\ at' \in [Items -> Phases]
      /\ \A i \in Items : at'[i] = IF i \in inflight /\ goesOn THEN "polling" ELSE "idle"
  BY <1>2 DEF Phases
<1>10. Types'
  BY <1>2, <1>6, <1>8, <1>9 DEF BatchInv, Types
<1>11. ASSUME NEW i \in Items PROVE Fits(i)'
  <2>1. Fits(i)
    BY DEF BatchInv
  <2>2. ShownAsRun(i)'
    BY <1>2, <1>4, <1>5, <1>6, <1>9 DEF ShownAsRun
  <2>3. JobIsTaken(i)'
    <3>1. at'[i] # "taken"
      BY <1>9
    <3>2. items[i].st = "running" => items[i].job # 0
      BY <1>3, <2>1 DEF Fits, JobIsTaken
    <3>3. items[i].job <= Len(made[i])
      BY <1>3, <1>7, <2>1 DEF Fits, JobIsTaken
    <3>4. Len(made'[i]) \in Nat
      BY <1>8
    <3> QED BY <1>6, <1>7, <1>8, <3>1, <3>2, <3>3, <3>4 DEF JobIsTaken
  <2>4. LiveIsAwaited(i)'
    <3>1. SUFFICES ASSUME i \notin blind'
                   PROVE  Live(i)' \subseteq IF at'[i] = "polling" THEN {batch'.items[i].job}
                                              ELSE {}
      BY <1>9 DEF LiveIsAwaited
    <3>2. i \notin blind /\ at[i] \notin {"submitting", "taken"} /\ i \notin served
      BY <1>1, <1>2, <3>1
    <3>3. Live(i)' = Live(i)
      BY <1>8, <3>2 DEF Live
    <3>4. CASE at[i] # "polling"
      BY <2>1, <3>2, <3>3, <3>4 DEF Fits, LiveIsAwaited
    <3>5. CASE at[i] = "polling"
      <4>1. /\ items[i] = batch.items[i] /\ items[i].st \in {"submitting", "running"}
            /\ Live(i) \subseteq {items[i].job}
        BY <1>3, <2>1, <3>2, <3>5 DEF Fits, ShownAsRun, LiveIsAwaited
      <4>2. CASE items[i].job # 0
        BY <1>4, <1>5, <1>6, <1>9, <3>3, <4>1, <4>2
      <4>3. CASE items[i].job = 0
        <5>1. 0 \notin DOMAIN made[i]
          BY <1>7
        <5>2. Live(i) = {}
          BY <4>1, <4>3, <5>1 DEF Live
        <5> QED BY <3>3, <5>2
      <4> QED BY <4>2, <4>3
    <3> QED BY <3>4, <3>5
  <2>5. Accounted(i)'
    <3>1. CASE items[i].st \in {"queued", "submitting"}
      BY <1>2, <3>1 DEF Accounted
    <3>2. CASE items[i].st = "running"
      <4>1. items[i].job # 0
        BY <1>3, <2>1, <3>2 DEF Fits, JobIsTaken
      <4>2. at'[i] = "polling"
        BY <1>4, <1>5, <1>9, <3>2, <4>1
      <4> QED BY <4>2 DEF Accounted
    <3> QED BY <1>6, <3>1, <3>2 DEF Accounted, InFlight
  <2> QED BY <2>2, <2>3, <2>4, <2>5 DEF Fits
<1> QED BY <1>10, <1>11 DEF BatchInv

LEMMA NextInv == ASSUME BatchInv, [BatchNext]_batchVars PROVE BatchInv'
<1>1. CASE UNCHANGED batchVars
  BY <1>1 DEF batchVars, BatchInv, Types, Fits, ShownAsRun, JobIsTaken,
              LiveIsAwaited, Live, Accounted
<1>2. CASE Start
  BY <1>2, StartKeeps
<1>3. CASE ResumeVideos
  BY <1>3, ResumeKeeps
<1>4. CASE BatchEnds
  BY <1>4, EndsKeeps
<1>5. CASE ReloadPage
  BY <1>5, ReloadKeeps
<1>6. ASSUME NEW i \in Items,
             \/ RetryImage(i) \/ RunItem(i) \/ SubmitJob(i) \/ ServerTakes(i) \/ Submitted(i)
             \/ Refuses(i) \/ LoseSubmit(i) \/ LosePoll(i) \/ PollJob(i)
             \/ FinishImage(i) \/ LinkFails(i)
      PROVE  BatchInv'
  BY <1>6, RetryKeeps, RunKeeps, SubmitJobKeeps, TakesKeeps, SubmittedKeeps, RefusesKeeps,
     LoseSubmitKeeps, LosePollKeeps, PollKeeps, FinishKeeps, LinkFailsKeeps
<1>7. ASSUME NEW i \in Items, NEW n \in DOMAIN made[i], JobEnds(i, n)
      PROVE  BatchInv'
  BY <1>7, JobEndsKeeps
<1> QED BY <1>1, <1>2, <1>3, <1>4, <1>5, <1>6, <1>7 DEF BatchNext

-----------------------------------------------------------------------------
(* In every behaviour the items, calls and jobs fit each other: the        *)
(* inductive invariant the next theorems are read from.                    *)
THEOREM BatchInvariant == BatchSpec => []BatchInv
<1>1. BatchInit => BatchInv
  BY InitInv
<1>2. BatchInv /\ [BatchNext]_batchVars => BatchInv'
  BY NextInv
<1> QED BY <1>1, <1>2, PTL DEF BatchSpec

(* A batch, its calls and its jobs are what use-script-batch can hold,     *)
(* whatever commands, reloads and faults come.                             *)
THEOREM BatchTypes == BatchSpec => []BatchTypeOK
<1>1. BatchInv => BatchTypeOK
  BY DEF BatchInv, BatchTypeOK, Types, Fits, JobIsTaken, Batches, Item, States
<1> QED BY <1>1, BatchInvariant, PTL

(* No item has two jobs being generated, through every retry, resume and   *)
(* reload, unless the page was kept from hearing of one.                   *)
THEOREM BatchOneLiveJob == BatchSpec => []OneLiveJob
<1>1. BatchInv => OneLiveJob
  <2>1. SUFFICES ASSUME BatchInv, NEW i \in Items \ blind,
                        NEW m \in DOMAIN made[i], NEW n \in DOMAIN made[i],
                        made[i][m] = "live", made[i][n] = "live"
                 PROVE  m = n
    BY DEF OneLiveJob
  <2>2. LiveIsAwaited(i) /\ i \notin blind /\ {m, n} \subseteq Live(i)
    BY <2>1 DEF BatchInv, Fits, Live
  <2> DEFINE live == Live(i)
  <2>3. live = {} \/ live \subseteq {Len(made[i])} \/ live \subseteq {batch.items[i].job}
    BY <2>2 DEF LiveIsAwaited
  <2> HIDE DEF live
  <2>4. m \in live /\ n \in live
    BY <2>2 DEF live
  <2> QED BY <2>3, <2>4
<1> QED BY <1>1, BatchInvariant, PTL

(* When no batch runs, whatever is shown in flight was found waiting by a  *)
(* reload: everything else can be retried or resumed.                      *)
THEOREM BatchForgetsNothing == BatchSpec => []NothingForgotten
<1>1. BatchInv => NothingForgotten
  BY DEF BatchInv, Fits, ShownAsRun, Accounted, NothingForgotten
<1> QED BY <1>1, BatchInvariant, PTL
-----------------------------------------------------------------------------
(* The queue of segments.                                                  *)

InHand == {i \in Items : batch.items[i].st \in {"submitting", "running"}}

(* One segment is in hand at a time, and then none has failed or is paused.*)
(* While the queue has more to shoot, what is in hand has a call awaited;  *)
(* what a reload left shown in hand without one is not resumed beside.     *)
QueueInv ==
    batch.kind = "videos" =>
        /\ todo # {} => /\ ~batch.resuming /\ ~batch.paused
                        /\ \A i \in InHand : at[i] # "idle"
        /\ batch.paused => InHand = {}
        /\ InHand # {} \/ todo # {} => \A i \in Items : batch.items[i].st \notin Stalled
        /\ \A i, j \in InHand : i = j

LEMMA CalledIsInHand ==
    ASSUME BatchInv, NEW i \in Items, at[i] # "idle"
    PROVE  i \in InHand
BY DEF BatchInv, Fits, ShownAsRun, Types, Phases, InHand

(* A queue stops with what was in hand.                                    *)
LEMMA Stops ==
    ASSUME InHand' = {}, todo' = {}
    PROVE  QueueInv'
BY DEF QueueInv

LEMMA Starts ==
    ASSUME InHand' = {}, ~batch'.resuming, ~batch'.paused,
           \A i \in Items : batch'.items[i].st \notin Stalled
    PROVE  QueueInv'
BY DEF QueueInv

(* The item in hand goes on.                                               *)
LEMMA Advances ==
    ASSUME BatchInv, QueueInv, NEW i \in Items, at[i] # "idle",
           batch'.items[i].st \in {"submitting", "running", "succeeded"},
           at'[i] # "idle" \/ batch'.items[i].st = "succeeded",
           \A j \in Items \ {i} : batch'.items[j].st = batch.items[j].st /\ at'[j] = at[j],
           batch'.kind = batch.kind, batch'.resuming = batch.resuming,
           batch'.paused = batch.paused, todo' = todo
    PROVE  QueueInv'
<1>1. i \in InHand
  BY CalledIsInHand
<1>2. InHand' \subseteq InHand
  BY <1>1 DEF InHand
<1>3. \A j \in InHand' : at[j] # "idle" => at'[j] # "idle"
  BY DEF InHand
<1>4. InHand # {}
  BY <1>1
<1>5. batch.kind = "videos" => \A j \in Items : batch'.items[j].st \notin Stalled
  BY <1>4 DEF QueueInv, Stalled
<1> QED BY <1>1, <1>2, <1>3, <1>5 DEF QueueInv

LEMMA FailsStops ==
    ASSUME BatchInv, QueueInv, NEW i \in Items, at[i] # "idle", Fails(i)
    PROVE  QueueInv'
<1> DEFINE failed == PatchItem(batch, i, "failed")
<1>1. /\ failed \in Batches
      /\ failed.items = [batch.items EXCEPT ![i] = [st |-> "failed", job |-> batch.items[i].job]]
      /\ failed.kind = batch.kind
  BY Patched DEF BatchInv, Types, Statuses
<1>2. failed.items[i].st = "failed" /\ \A j \in Items \ {i} : failed.items[j] = batch.items[j]
  BY <1>1 DEF BatchInv, Types, Batches, Item
<1> HIDE DEF failed
<1>3. /\ batch'.kind = batch.kind
      /\ \A j \in Items : \/ batch'.items[j].st = failed.items[j].st
                          \/ batch'.items[j].st = "paused"
  <2>1. CASE batch' = failed
    BY <1>1, <2>1
  <2>2. CASE batch' = PauseRemainingQueued(failed)
    <3>1. /\ batch'.kind = failed.kind
          /\ \A j \in Items : batch'.items[j] = IF failed.items[j].st = "queued"
                                 THEN [st |-> "paused", job |-> failed.items[j].job]
                                 ELSE failed.items[j]
      BY <1>1, <2>2, Remaining
    <3>2. ASSUME NEW j \in Items
          PROVE  batch'.items[j].st \in {failed.items[j].st, "paused"}
      <4>1. batch'.items[j] = IF failed.items[j].st = "queued"
                              THEN [st |-> "paused", job |-> failed.items[j].job]
                              ELSE failed.items[j]
        BY <3>1
      <4>2. CASE failed.items[j].st = "queued"
        <5>1. batch'.items[j] = [st |-> "paused", job |-> failed.items[j].job]
          BY <4>1, <4>2
        <5> QED BY <5>1
      <4>3. CASE failed.items[j].st # "queued"
        <5>1. batch'.items[j] = failed.items[j]
          BY <4>1, <4>3
        <5> QED BY <5>1
      <4> QED BY <4>2, <4>3
    <3> QED BY <1>1, <3>1, <3>2
  <2> QED BY <2>1, <2>2 DEF Fails, failed
<1>4. CASE batch.kind = "videos"
  <2>1. todo' = {}
    BY <1>4 DEF Fails, QueueInv
  <2>2. \A j \in Items \ {i} : j \notin InHand
    BY <1>4, CalledIsInHand DEF QueueInv
  <2>3. InHand' = {}
    BY <1>2, <1>3, <2>2 DEF InHand
  <2> QED BY <2>1, <2>3, Stops
<1>5. CASE batch.kind # "videos"
  BY <1>3, <1>5 DEF QueueInv
<1> QED BY <1>4, <1>5

LEMMA SucceedsAdvances ==
    ASSUME BatchInv, QueueInv, NEW i \in Items, at[i] # "idle", Succeeds(i)
    PROVE  QueueInv'
<1>1. /\ batch'.items = [batch.items EXCEPT ![i] = [st |-> "succeeded", job |-> batch.items[i].job]]
      /\ batch'.kind = batch.kind /\ batch'.resuming = batch.resuming
      /\ batch'.paused = batch.paused
  BY Patched DEF Succeeds, BatchInv, Types, Statuses
<1>2. /\ batch'.items[i].st = "succeeded"
      /\ \A j \in Items \ {i} : batch'.items[j].st = batch.items[j].st
  BY <1>1 DEF BatchInv, Types, Batches, Item
<1>3. /\ \A j \in Items \ {i} : at'[j] = at[j]
      /\ todo' = todo
  BY DEF Succeeds, Goes, BatchInv, Types, Phases
<1> QED BY <1>1, <1>2, <1>3, Advances

LEMMA InitQueue == BatchInit => QueueInv
<1> SUFFICES ASSUME BatchInit PROVE QueueInv
  OBVIOUS
<1>1. /\ batch.items = [i \in Items |-> [st |-> "none", job |-> 0]]
      /\ todo = {} /\ ~batch.paused
  BY DEF BatchInit
<1>2. \A i \in Items : batch.items[i].st = "none"
  BY <1>1
<1>3. InHand = {}
  BY <1>2 DEF InHand
<1> QED BY <1>1, <1>3 DEF QueueInv

LEMMA StartQueue == ASSUME BatchInv, Start PROVE QueueInv'
<1> DEFINE its == [i \in Items |->
                     [st |-> IF i \in Pending THEN "queued" ELSE "none", job |-> 0]]
           e == [batch EXCEPT !.running = TRUE, !.resuming = FALSE, !.paused = FALSE,
                              !.items = its]
<1>1. \A i \in Items : its[i].st \in {"queued", "none"}
  OBVIOUS
<1> HIDE DEF its
<1>2. e.items = its /\ ~e.resuming /\ ~e.paused
  BY DEF BatchInv, Types, Batches
<1>3. DOMAIN e = DOMAIN batch
  OBVIOUS
<1> HIDE DEF e
<1>4. batch' = [e EXCEPT !.stored = Stored(e.items)]
  BY DEF Start, Persist, e, its
<1>5. batch'.items = its /\ ~batch'.resuming /\ ~batch'.paused
  BY <1>2, <1>3, <1>4 DEF BatchInv, Types, Batches
<1>6. InHand' = {}
  BY <1>1, <1>5 DEF InHand
<1> QED BY <1>1, <1>5, <1>6, Starts DEF Stalled

LEMMA ResumeQueue == ASSUME BatchInv, QueueInv, ResumeVideos PROVE QueueInv'
<1> DEFINE remaining == {i \in Items : batch.items[i].st \in Stalled \cup {"queued"}}
           e == Requeue(batch, remaining)
<1>1. /\ e \in Batches /\ ~e.paused
      /\ \A j \in Items : e.items[j] = IF j \in remaining
                                  THEN [st |-> "queued", job |-> batch.items[j].job]
                                  ELSE batch.items[j]
  BY Requeued DEF BatchInv, Types
<1> HIDE DEF e
<1>2. batch' = [e EXCEPT !.running = TRUE, !.resuming = FALSE]
  BY DEF ResumeVideos, e
<1>3. batch'.items = e.items /\ ~batch'.resuming /\ ~batch'.paused
  BY <1>1, <1>2 DEF Batches
<1>4. \A i \in Items : batch.items[i].st \notin {"submitting", "running"}
  BY DEF ResumeVideos, QueueInv, InHand
<1>5. ASSUME NEW i \in Items
      PROVE  batch'.items[i].st \notin Stalled \cup {"submitting", "running"}
  <2>1. i \in remaining <=> batch.items[i].st \in Stalled \cup {"queued"}
    OBVIOUS
  <2>2. batch'.items[i] = IF i \in remaining
                          THEN [st |-> "queued", job |-> batch.items[i].job]
                          ELSE batch.items[i]
    BY <1>1, <1>3
  <2> HIDE DEF remaining
  <2>3. CASE i \in remaining
    <3>1. batch'.items[i].st = "queued"
      BY <2>2, <2>3
    <3> QED BY <3>1 DEF Stalled
  <2>4. CASE i \notin remaining
    BY <1>4, <2>1, <2>2, <2>4 DEF Stalled
  <2> QED BY <2>3, <2>4
<1>6. InHand' = {}
  BY <1>5 DEF InHand
<1> QED BY <1>3, <1>5, <1>6, Starts

(* Nothing is run while a call is awaited, so the next is in hand alone.   *)
LEMMA RunQueue == ASSUME BatchInv, QueueInv, NEW i \in Items, RunItem(i) PROVE QueueInv'
<1>1. /\ batch'.items = [batch.items EXCEPT ![i] = [st |-> "submitting", job |-> batch.items[i].job]]
      /\ batch'.kind = batch.kind /\ batch'.resuming = batch.resuming
      /\ batch'.paused = batch.paused
  BY Patched DEF RunItem, BatchInv, Types, Statuses
<1>2. /\ batch'.items[i].st = "submitting"
      /\ \A j \in Items \ {i} : batch'.items[j] = batch.items[j]
  BY <1>1 DEF BatchInv, Types, Batches, Item
<1>3. at'[i] = "pacing" /\ \A j \in Items \ {i} : at'[j] = at[j]
  BY GoesTo DEF RunItem, Phases
<1>4. i \in todo /\ todo' \subseteq todo
  BY DEF RunItem
<1>5. CASE batch.kind = "videos"
  <2> DEFINE called == {j \in Items : at[j] # "idle"}
  <2>1. Cardinality(called) < 1
    BY <1>5 DEF RunItem, Parallel
  <2>2. IsFiniteSet(called)
    <3>1. IsFiniteSet(Items)
      BY FS_Interval DEF Items
    <3> QED BY <3>1, FS_Subset
  <2>3. called = {}
    BY <2>1, <2>2, FS_CardinalityType, FS_EmptySet
  <2>4. InHand = {}
    BY <1>4, <1>5, <2>3 DEF QueueInv, InHand
  <2>5. InHand' = {i}
    BY <1>2, <2>4 DEF InHand
  <2>6. \A j \in Items : batch'.items[j].st \notin Stalled
    BY <1>2, <1>4, <1>5 DEF QueueInv, Stalled
  <2> QED BY <1>1, <1>3, <1>4, <1>5, <2>5, <2>6 DEF QueueInv
<1>6. CASE batch.kind # "videos"
  BY <1>1, <1>6 DEF QueueInv
<1> QED BY <1>5, <1>6

LEMMA EndsQueue == ASSUME BatchInv, QueueInv, BatchEnds PROVE QueueInv'
<1> DEFINE e == [batch EXCEPT !.running = FALSE, !.resuming = FALSE]
<1>1. e \in Batches /\ e.items = batch.items /\ e.kind = batch.kind /\ e.paused = batch.paused
  BY DEF BatchInv, Types, Batches
<1> HIDE DEF e
<1>2. batch' = [e EXCEPT !.stored = Stored(e.items)]
  BY DEF BatchEnds, Persist, e
<1>3. batch'.items = batch.items /\ batch'.kind = batch.kind /\ batch'.paused = batch.paused
  BY <1>1, <1>2 DEF Batches
<1>4. InHand' = InHand /\ todo' = {}
  BY <1>3 DEF InHand, BatchEnds
<1> QED BY <1>3, <1>4 DEF QueueInv

(* A page loaded anew shows what it showed, or nothing, and queues nothing.*)
LEMMA ReloadQueue == ASSUME BatchInv, QueueInv, ReloadPage PROVE QueueInv'
<1> DEFINE fresh == [i \in Items |-> [st |-> "none", job |-> 0]]
           items == IF batch.stored THEN batch.items ELSE fresh
<1>1. PICK goesOn \in BOOLEAN :
         batch' = [batch EXCEPT !.items = items, !.running = goesOn, !.resuming = goesOn,
                                !.paused = \E i \in Items : items[i].st \in Stalled,
                                !.stored = goesOn]
  BY DEF ReloadPage
<1>2. todo' = {}
  BY DEF ReloadPage
<1>3. items = batch.items \/ \A i \in Items : items[i].st = "none"
  OBVIOUS
<1> HIDE DEF items
<1>4. /\ batch'.items = items /\ batch'.kind = batch.kind
      /\ batch'.paused <=> \E i \in Items : items[i].st \in Stalled
  BY <1>1 DEF BatchInv, Types, Batches
<1>5. CASE items = batch.items
  <2>1. InHand' = InHand
    BY <1>4, <1>5 DEF InHand
  <2> QED BY <1>2, <1>4, <1>5, <2>1 DEF QueueInv
<1>6. CASE \A i \in Items : items[i].st = "none"
  <2>1. InHand' = {}
    BY <1>4, <1>6 DEF InHand
  <2> QED BY <1>2, <2>1, Stops
<1> QED BY <1>3, <1>5, <1>6

LEMMA NextQueue ==
    ASSUME BatchInv, QueueInv, [BatchNext]_batchVars PROVE QueueInv'
<1>1. CASE UNCHANGED batchVars
  BY <1>1 DEF batchVars, QueueInv, InHand
<1>2. CASE Start
  BY <1>2, StartQueue
<1>3. CASE ResumeVideos
  BY <1>3, ResumeQueue
<1>4. CASE BatchEnds
  BY <1>4, EndsQueue
<1>5. CASE ReloadPage
  BY <1>5, ReloadQueue
<1>6. ASSUME NEW i \in Items, RetryImage(i) PROVE QueueInv'
  <2>1. batch'.kind # "videos"
    BY <1>6 DEF RetryImage, BatchInv, Types, Batches
  <2> QED BY <2>1 DEF QueueInv
<1>7. ASSUME NEW i \in Items, RunItem(i) PROVE QueueInv'
  BY <1>7, RunQueue
<1>8. ASSUME NEW i \in Items,
             Refuses(i) \/ LoseSubmit(i) \/ LosePoll(i) \/ LinkFails(i)
      PROVE  QueueInv'
  <2>1. Fails(i) /\ at[i] # "idle"
    BY <1>8 DEF Refuses, LoseSubmit, LosePoll, LinkFails
  <2> QED BY <2>1, FailsStops
<1>9. ASSUME NEW i \in Items, FinishImage(i) PROVE QueueInv'
  <2>1. Succeeds(i) /\ at[i] # "idle"
    BY <1>9 DEF FinishImage
  <2> QED BY <2>1, SucceedsAdvances
<1>10. ASSUME NEW i \in Items, NEW phase \in Phases \ {"idle"}, at[i] # "idle",
              Goes(i, phase), UNCHANGED <<batch, todo>>
       PROVE  QueueInv'
  <2>1. at'[i] # "idle" /\ \A j \in Items \ {i} : at'[j] = at[j]
    BY <1>10, GoesTo
  <2>2. batch.items[i].st \in {"submitting", "running"}
    BY <1>10, CalledIsInHand DEF InHand
  <2> QED BY <1>10, <2>1, <2>2, Advances
<1>11. ASSUME NEW i \in Items, SubmitJob(i) \/ ServerTakes(i) PROVE QueueInv'
  <2>1. /\ at[i] # "idle" /\ UNCHANGED <<batch, todo>>
        /\ Goes(i, "submitting") \/ Goes(i, "taken")
    BY <1>11 DEF SubmitJob, ServerTakes
  <2> QED BY <1>10, <2>1 DEF Phases
<1>12. ASSUME NEW i \in Items, PollJob(i) PROVE QueueInv'
  <2>1. at[i] # "idle"
    BY <1>12 DEF PollJob
  <2>2. Fails(i) \/ Succeeds(i) \/ (Goes(i, "linking") /\ UNCHANGED <<batch, todo>>)
    BY <1>12 DEF PollJob
  <2> QED BY <1>10, <2>1, <2>2, FailsStops, SucceedsAdvances DEF Phases
<1>13. ASSUME NEW i \in Items, Submitted(i) PROVE QueueInv'
  <2> DEFINE b == [batch EXCEPT !.items[i].job = Len(made[i])]
  <2>1. Len(made[i]) \in Nat
    BY DEF BatchInv, Types
  <2>2. batch.items \in [Items -> Item] /\ batch.items[i] \in Item
    BY DEF BatchInv, Types, Batches
  <2>3. b.items = [batch.items EXCEPT ![i] = [st |-> batch.items[i].st, job |-> Len(made[i])]]
    <3>1. b.items = [batch.items EXCEPT ![i].job = Len(made[i])]
      BY DEF BatchInv, Types, Batches
    <3>2. [batch.items[i] EXCEPT !.job = Len(made[i])]
            = [st |-> batch.items[i].st, job |-> Len(made[i])]
      BY <2>2 DEF Item
    <3> QED BY <2>2, <3>1, <3>2
  <2>4. b.items \in [Items -> Item]
    BY <2>1, <2>2, <2>3 DEF Item
  <2>5. /\ b \in Batches /\ b.kind = batch.kind /\ b.resuming = batch.resuming
        /\ b.paused = batch.paused
    BY <2>4 DEF BatchInv, Types, Batches
  <2>6. batch' = PatchItem(b, i, "running") /\ todo' = todo /\ Goes(i, "polling")
        /\ at[i] # "idle"
    BY <1>13 DEF Submitted
  <2> HIDE DEF b
  <2>7. /\ batch'.items = [b.items EXCEPT ![i] = [st |-> "running", job |-> b.items[i].job]]
        /\ batch'.kind = batch.kind /\ batch'.resuming = batch.resuming
        /\ batch'.paused = batch.paused
    BY <2>5, <2>6, Patched DEF Statuses
  <2>8. /\ batch'.items[i].st = "running"
        /\ \A j \in Items \ {i} : batch'.items[j].st = batch.items[j].st
    BY <2>2, <2>3, <2>4, <2>7
  <2>9. at'[i] # "idle" /\ \A j \in Items \ {i} : at'[j] = at[j]
    BY <2>6, GoesTo DEF Phases
  <2> QED BY <2>6, <2>7, <2>8, <2>9, Advances
<1>14. ASSUME NEW i \in Items, NEW n \in DOMAIN made[i], JobEnds(i, n)
       PROVE  QueueInv'
  BY <1>14 DEF JobEnds, QueueInv, InHand
<1> QED BY <1>1, <1>2, <1>3, <1>4, <1>5, <1>6, <1>7, <1>8, <1>9, <1>11, <1>12, <1>13, <1>14
        DEF BatchNext

(* Segments are shot one at a time, in order, and a failure ends the queue:*)
(* no segment is in hand beside a failed one, whichever comes first.       *)
THEOREM BatchStopsAtFailure == BatchSpec => []StopsAtFailure
<1>1. BatchInit => QueueInv
  BY InitQueue
<1>2. BatchInv /\ QueueInv /\ [BatchNext]_batchVars => QueueInv'
  BY NextQueue
<1>3. QueueInv => StopsAtFailure
  BY DEF QueueInv, StopsAtFailure, InHand, Stalled
<1> QED BY <1>1, <1>2, <1>3, BatchInvariant, PTL DEF BatchSpec

=============================================================================
