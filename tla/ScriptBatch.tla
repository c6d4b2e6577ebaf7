----------------------------- MODULE ScriptBatch ----------------------------
(***************************************************************************)
(* A script's batch of generations, features/script/use-script-batch: a    *)
(* pool that draws every character or scene, or a queue that shoots the    *)
(* segments one after another and stops at the first failure, with the     *)
(* retries, the resume and what a reload of the page finds again.          *)
(*                                                                         *)
(* A job is one submission the server took; the dubbing queue is the video *)
(* queue with other parameters.  Prices, prompts and drafts are left out.  *)
(***************************************************************************)
EXTENDS Integers, Sequences, FiniteSets

CONSTANTS
    Size,               \* the items of the script, in order
    ImageConcurrency,
    MaxTurns            \* bound: commands, reloads and faults
ASSUME BatchAssumption == Size \in Nat /\ ImageConcurrency \in Nat \ {0}

VARIABLES
    batch,   \* the items shown, running, paused, and what storage keeps
    todo,    \* the items the pool's cursor or the queue's loop has not reached
    at,      \* where the call that runs an item is awaiting
    made,    \* every job the server took for an item
    linked,  \* items the script already points at a result of
    blind,   \* history: items whose job the page was not told of
    left,    \* history: items a reload found waiting
    turns
batchVars == <<batch, todo, at, made, linked, blind, left, turns>>

Items == 1 .. Size
Statuses == {"none", "queued", "submitting", "running", "paused", "failed", "succeeded"}
Phases == {"idle", "pacing", "submitting", "taken", "polling", "linking"}
InFlight == {"queued", "submitting", "running"}
Stalled  == {"paused", "failed"}
Parallel == IF batch.kind = "images" THEN ImageConcurrency ELSE 1

TakesTurn == turns < MaxTurns /\ turns' = turns + 1

-----------------------------------------------------------------------------
(* Items, and what sessionStorage keeps of them *)

Stored(items) == \E i \in Items : items[i].st \in InFlight \cup Stalled

(* persist: storage holds what is shown while anything is left to do.      *)
Persist(b) == [b EXCEPT !.stored = Stored(b.items)]

PatchItem(b, i, st) == Persist([b EXCEPT !.items[i].st = st])

(* As it would be if a stopped queue left its items queued.              *)
PauseNothing(b) == Persist([b EXCEPT !.paused = TRUE])

(* What waited in the queue is paused, for resumeVideos to take up.        *)
PauseRemainingQueued(b) ==
    Persist([b EXCEPT !.paused = TRUE,
        !.items = [i \in Items |-> IF @[i].st = "queued"
                                   THEN [@[i] EXCEPT !.st = "paused"] ELSE @[i]]])

Requeue(b, set) ==
    Persist([b EXCEPT !.paused = FALSE,
        !.items = [i \in Items |-> IF i \in set
                                   THEN [@[i] EXCEPT !.st = "queued"] ELSE @[i]]])

Nowhere == [i \in Items |-> "idle"]

BatchInit ==
    /\ batch \in [kind : {"images", "videos"},
                  items : {[i \in Items |-> [st |-> "none", job |-> 0]]},
                  running : {FALSE}, resuming : {FALSE}, paused : {FALSE},
                  stored : {FALSE}]
    /\ todo = {}
    /\ at = Nowhere
    /\ made = [i \in Items |-> <<>>]
    /\ linked = {}
    /\ blind = {}
    /\ left = {}
    /\ turns = 0

-----------------------------------------------------------------------------
(* The commands, refused while a batch runs *)

(* The pending items: no result yet, none shown in flight.                 *)
Pending == {i \in Items \ linked : batch.items[i].st \notin InFlight}

Start ==
    /\ TakesTurn /\ ~batch.running /\ Pending # {}
    /\ batch' = Persist([batch EXCEPT
          !.running = TRUE, !.resuming = FALSE, !.paused = FALSE,
          !.items = [i \in Items |->
              [st |-> IF i \in Pending THEN "queued" ELSE "none", job |-> 0]]])
    /\ todo' = Pending
    /\ UNCHANGED <<at, made, linked, blind, left>>

RetryImage(i) ==
    /\ TakesTurn /\ ~batch.running
    /\ batch.kind = "images" /\ batch.items[i].st = "failed"
    /\ batch' = [batch EXCEPT !.running = TRUE, !.resuming = FALSE]
    /\ todo' = {i}
    /\ UNCHANGED <<at, made, linked, blind, left>>

ResumeVideos ==
    LET remaining == {i \in Items : batch.items[i].st \in Stalled \cup {"queued"}} IN
    /\ TakesTurn /\ ~batch.running /\ batch.paused
    /\ batch.kind = "videos" /\ remaining # {}
    /\ batch' = [Requeue(batch, remaining) EXCEPT !.running = TRUE, !.resuming = FALSE]
    /\ todo' = remaining
    /\ UNCHANGED <<at, made, linked, blind, left>>

-----------------------------------------------------------------------------
(* One item's run *)

Goes(i, phase) == at' = [at EXCEPT ![i] = phase]

(* The next in the script's order, as soon as a worker is free.            *)
RunItem(i) ==
    /\ i \in todo /\ \A j \in todo : i <= j
    /\ Cardinality({j \in Items : at[j] # "idle"}) < Parallel
    /\ Goes(i, "pacing")
    /\ todo' = todo \ {i}
    /\ batch' = PatchItem(batch, i, "submitting")
    /\ UNCHANGED <<made, linked, blind, left, turns>>

SubmitJob(i) ==
    /\ at[i] = "pacing"
    /\ Goes(i, "submitting")
    /\ UNCHANGED <<batch, todo, made, linked, blind, left, turns>>

Took(i) == [made EXCEPT ![i] = Append(@, "live")]

ServerTakes(i) ==
    /\ at[i] = "submitting"
    /\ Goes(i, "taken")
    /\ made' = Took(i)
    /\ UNCHANGED <<batch, todo, linked, blind, left, turns>>

Submitted(i) ==
    /\ at[i] = "taken"
    /\ Goes(i, "polling")
    /\ batch' = PatchItem([batch EXCEPT !.items[i].job = Len(made[i])], i, "running")
    /\ UNCHANGED <<todo, made, linked, blind, left, turns>>

(* As it would be if the queue went on after a failure.                  *)
FailsAlone(i) ==
    /\ Goes(i, "idle")
    /\ batch' = PatchItem(batch, i, "failed")
    /\ UNCHANGED todo

(* An item fails: a queue drops what it had left, a pool goes on.          *)
Fails(i) ==
    LET failed == PatchItem(batch, i, "failed")
        stops == batch.kind = "videos" /\ ~batch.resuming
    IN  /\ Goes(i, "idle")
        /\ batch' = IF stops THEN PauseRemainingQueued(failed) ELSE failed
        /\ todo' = IF stops THEN {} ELSE todo

Succeeds(i) ==
    /\ Goes(i, "idle")
    /\ batch' = PatchItem(batch, i, "succeeded")
    /\ linked' = linked \cup {i}
    /\ UNCHANGED todo

(* Refused by the server, or the answer never comes: then the request may  *)
(* have been served all the same.                                          *)
Refuses(i) ==
    /\ TakesTurn /\ at[i] = "submitting"
    /\ Fails(i)
    /\ UNCHANGED <<made, linked, blind, left>>

LoseSubmit(i) ==
    /\ TakesTurn /\ at[i] \in {"submitting", "taken"}
    /\ Fails(i)
    /\ made' = IF at[i] = "submitting" THEN Took(i) ELSE made
    /\ blind' = blind \cup {i}
    /\ UNCHANGED <<linked, left>>

LosePoll(i) ==
    /\ TakesTurn /\ at[i] = "polling"
    /\ Fails(i)
    /\ blind' = blind \cup {i}
    /\ UNCHANGED <<made, linked, left>>

(* As it would be if a job not over yet were taken for a failed one.     *)
PollOnce(i) ==
    /\ at[i] = "polling"
    /\ IF made[i][batch.items[i].job] = "done" THEN Succeeds(i)
       ELSE Fails(i) /\ UNCHANGED linked
    /\ UNCHANGED <<made, blind, left, turns>>

(* Asked until the job is over, however long that takes.                   *)
PollJob(i) ==
    LET st == made[i][batch.items[i].job] IN
    /\ at[i] = "polling" /\ st # "live"
    /\ IF st = "failed" THEN Fails(i) /\ UNCHANGED linked
       ELSE IF batch.kind = "videos" THEN Succeeds(i)
       ELSE Goes(i, "linking") /\ UNCHANGED <<batch, todo, linked>>
    /\ UNCHANGED <<made, blind, left, turns>>

FinishImage(i) ==
    /\ at[i] = "linking"
    /\ Succeeds(i)
    /\ UNCHANGED <<made, blind, left, turns>>

LinkFails(i) ==
    /\ TakesTurn /\ at[i] = "linking"
    /\ Fails(i)
    /\ UNCHANGED <<made, linked, blind, left>>

BatchEnds ==
    /\ batch.running /\ todo = {} /\ at = Nowhere
    /\ batch' = Persist([batch EXCEPT !.running = FALSE, !.resuming = FALSE])
    /\ UNCHANGED <<todo, at, made, linked, blind, left, turns>>

JobEnds(i, n) ==
    /\ made[i][n] = "live"
    /\ \E st \in {"done", "failed"} : made' = [made EXCEPT ![i][n] = st]
    /\ UNCHANGED <<batch, todo, at, linked, blind, left, turns>>

-----------------------------------------------------------------------------
(* The page is reloaded: its calls end where they are, a request on its    *)
(* way may still be served, and the stored items are taken up.             *)
ReloadPage ==
    LET sent  == {i \in Items : at[i] = "submitting"}
        items == IF batch.stored THEN batch.items
                 ELSE [i \in Items |-> [st |-> "none", job |-> 0]]
        inflight == {i \in Items : /\ items[i].job # 0
                                   /\ items[i].st \in {"submitting", "running"}}
        Some(set) == \E i \in Items : items[i].st \in set
        goesOn == inflight # {} \/ Some({"queued", "paused"})
    IN  /\ TakesTurn
        /\ \E served \in SUBSET sent :
               made' = [i \in Items |-> IF i \in served THEN Append(made[i], "live")
                                        ELSE made[i]]
        /\ blind' = blind \cup {i \in Items : at[i] \in {"submitting", "taken"}}
        /\ left' = left \cup {i \in Items : items[i].st \in {"queued", "submitting"}}
        /\ batch' = [batch EXCEPT !.items = items, !.running = goesOn,
                                  !.resuming = goesOn, !.paused = Some(Stalled),
                                  !.stored = goesOn]
        /\ at' = [i \in Items |-> IF i \in inflight /\ goesOn THEN "polling" ELSE "idle"]
        /\ todo' = {}
        /\ UNCHANGED linked

BatchNext ==
    \/ Start \/ ResumeVideos \/ BatchEnds \/ ReloadPage
    \/ \E i \in Items :
          \/ RetryImage(i) \/ RunItem(i) \/ SubmitJob(i) \/ ServerTakes(i) \/ Submitted(i)
          \/ Refuses(i) \/ LoseSubmit(i) \/ LosePoll(i) \/ PollJob(i)
          \/ FinishImage(i) \/ LinkFails(i)
          \/ \E n \in DOMAIN made[i] : JobEnds(i, n)

BatchSpec == BatchInit /\ [][BatchNext]_batchVars

BatchTypeOK ==
    /\ batch \in [kind : {"images", "videos"},
                  items : [Items -> [st : Statuses, job : Nat]],
                  running : BOOLEAN, resuming : BOOLEAN, paused : BOOLEAN,
                  stored : BOOLEAN]
    /\ todo \subseteq Items
    /\ at \in [Items -> Phases]
    /\ made \in [Items -> Seq({"live", "done", "failed"})]
    /\ \A i \in Items : batch.items[i].job <= Len(made[i])
    /\ linked \subseteq Items /\ blind \subseteq Items /\ left \subseteq Items

(* An item the page was told everything about has one job being generated  *)
(* at most, through every retry, resume and reload: none is charged beside *)
(* one that may still succeed.                                             *)
OneLiveJob ==
    \A i \in Items \ blind : \A m, n \in DOMAIN made[i] :
        made[i][m] = "live" /\ made[i][n] = "live" => m = n

(* The segments are shot in order and the queue stops at the first         *)
(* failure: nothing after a failed segment is being shot.                  *)
StopsAtFailure ==
    batch.kind = "videos" =>
        \A i, j \in Items : i < j /\ batch.items[i].st = "failed" =>
            batch.items[j].st \notin {"submitting", "running"}

(* When nothing runs, no item is shown in flight, where neither a retry    *)
(* nor a new batch would pick it up: each is left to be resumed or         *)
(* retried.  Only what a reload found waiting escapes this.                *)
NothingForgotten ==
    ~batch.running => {i \in Items : batch.items[i].st \in InFlight} \subseteq left
=============================================================================
