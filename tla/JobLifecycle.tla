---------------------------- MODULE JobLifecycle ----------------------------
(***************************************************************************)
(* A generation job from submission to settlement: app/domain/jobs,        *)
(* app/workflows/runner and app/workers.                                   *)
(*                                                                         *)
(* A walker is a process that walks the job's graph: a Celery worker, a    *)
(* tick of the render poller, or the API request that answers a question.  *)
(* Its transaction commits between nodes, so every step below is one       *)
(* commit (or a read that later steps act on).  Around the walkers run the *)
(* submit, cancel, terminate and requeue requests and the two sweepers.    *)
(*                                                                         *)
(* The graph is kept to what its settlement depends on.  "plan" stands for *)
(* the nodes before the provider (any of which may ask the author),        *)
(* "generate", "submit" and "submitting" for provider_generate with the    *)
(* routing that precedes it, "quality" for the nodes after it.  Time is    *)
(* abstracted: a deadline may have passed whenever the row it concerns     *)
(* exists.  The ledger (CreditLedger) is kept to the job's own rows.       *)
(***************************************************************************)
EXTENDS Naturals

CONSTANTS
    Jobs,
    Workers,     \* Celery workers
    Pollers,     \* overlapping ticks of poll_async_provider_tasks
    Authors,     \* API sessions answering a question
    NoJob, NoWalker,
    Races,       \* may another write of the account make a release lose?
    Keeps,       \* may an operator keep the credits when terminating?
    MaxAttempts, \* route_score.max_attempts
    MaxPolls,    \* pending answers before the poll budget is exceeded
    MaxAsks,     \* bound: questions asked about a job
    MaxParks,    \* bound: renders the provider leaves pending
    MaxSends,    \* bound: broker messages for a job, redeliveries included
    MaxFaults,   \* bound: processes that die and nodes that raise ...
    Poison       \* ... unless a node may raise each time it is executed

Walkers == Workers \cup Pollers \cup Authors

ASSUME LifecycleAssumption ==
    /\ NoJob \notin Jobs /\ NoWalker \notin Walkers
    /\ Workers \cap Pollers = {} /\ Workers \cap Authors = {}
    /\ Pollers \cap Authors = {}
    /\ Races \subseteq BOOLEAN /\ Keeps \subseteq BOOLEAN /\ Poison \in BOOLEAN
    /\ {MaxAttempts, MaxPolls, MaxAsks, MaxParks, MaxSends, MaxFaults} \subseteq Nat

VARIABLES
    job,     \* generation_jobs, and which ledger rows the job has
    ask,     \* workflow_input_requests: the id of the job's row, 0 for none
    asks,    \* how many ids were used
    task,    \* provider_async_tasks: the job's parked render
    parks,   \* how many renders were parked
    broker,  \* messages waiting in the queue
    sends,   \* messages ever put there
    posting, \* submitted jobs whose request has not enqueued them yet
    lock,    \* who holds the job's row in an open transaction
    walk,    \* what each walker is doing
    sweep,   \* what expire_stale_jobs selected the job for
    due,     \* the question expire_stale_input_requests selected
    faults
vars == <<job, ask, asks, task, parks, broker, sends, posting, lock, walk,
          sweep, due, faults>>

Terminal == {"SUCCEEDED", "FAILED", "CANCELLED", "EXPIRED"}
Statuses == Terminal \cup
    {"NONE", "CREATED", "QUEUED", "SUBMITTED", "RUNNING", "AWAITING_INPUT"}

(* JOB_TRANSITIONS, read backwards: the statuses the UPDATE accepts.       *)
Sources(target) ==
    CASE target = "QUEUED"         -> {"CREATED"}
      [] target = "SUBMITTED"      -> {"QUEUED"}
      [] target = "RUNNING"        -> {"QUEUED", "SUBMITTED", "AWAITING_INPUT"}
      [] target = "AWAITING_INPUT" -> {"RUNNING"}
      [] target = "SUCCEEDED"      -> {"SUBMITTED", "RUNNING"}
      [] OTHER -> {"CREATED", "QUEUED", "SUBMITTED", "RUNNING", "AWAITING_INPUT"}

(* Where a walk can be before the node it is about to execute.             *)
Nodes == {"start", "plan", "ask", "generate", "submit", "park", "quality",
          "settle", "fail"}
Points == Nodes \cup {"idle", "accept", "submitting", "honor", "raised", "done"}

NoTask == [id |-> 0, tries |-> 0, polls |-> 0, parked |-> "none"]

Idle == [pc |-> "idle", job |-> NoJob, seen |-> "unread", tries |-> 0,
         from |-> 0, outcome |-> "none"]

-----------------------------------------------------------------------------
(* Rows and locks *)

Ended(j) == job[j].status \in Terminal
Live(j)  == job[j].status \notin Terminal \cup {"NONE"}

(* An UPDATE of the job's row waits for the transaction that holds it.     *)
Free(j, w) == lock[j] \in {NoWalker, w}
Unlock(w)  == lock' = [j \in Jobs |-> IF lock[j] = w THEN NoWalker ELSE lock[j]]

Move(j, target) == job' = [job EXCEPT ![j].status = target]

(* settle_release: nothing happens to a settled reservation, nor to an     *)
(* open one when the account's version moved in between: both are a        *)
(* Conflict, and both are swallowed.                                       *)
Refund(j, lost) ==
    IF job[j].hold = "open" /\ ~lost THEN "released" ELSE job[j].hold

(* As it would be without the statuses in the WHERE of transition.         *)
CloseAnyway(j, target, code, lost) ==
    job' = [job EXCEPT ![j].hold = Refund(j, lost),
                       ![j].status = target, ![j].code = code]

(* Release the reservation and move to target, the move being refused      *)
(* without further consequence when something else ended the job.          *)
Close(j, target, code, lost) ==
    job' = [job EXCEPT
              ![j].hold   = Refund(j, lost),
              ![j].status = IF Live(j) THEN target ELSE @,
              ![j].code   = IF Live(j) THEN code ELSE @]

DropParked(j) ==
    /\ ask' = [ask EXCEPT ![j] = 0]
    /\ task' = [task EXCEPT ![j] = NoTask]

Fault == faults < MaxFaults /\ faults' = faults + 1

Send(j) ==
    /\ sends[j] < MaxSends
    /\ broker' = [broker EXCEPT ![j] = @ + 1]
    /\ sends' = [sends EXCEPT ![j] = @ + 1]

-----------------------------------------------------------------------------
(* Moving a walker *)

Go(w, pc) == walk' = [walk EXCEPT ![w].pc = pc, ![w].seen = "unread"]

Rest(w) == walk' = [walk EXCEPT ![w] = Idle]

Start(w, j, pc, tries, from, outcome) ==
    /\ walk[w].pc = "idle"
    /\ walk' = [walk EXCEPT
                  ![w] = [pc |-> pc, job |-> j, seen |-> "unread",
                          tries |-> tries, from |-> from, outcome |-> outcome]]

(* route_score: another attempt while the budget lasts.                    *)
Retry(w) ==
    IF walk[w].tries < MaxAttempts
    THEN walk' = [walk EXCEPT ![w].pc = "generate", ![w].seen = "unread",
                              ![w].tries = @ + 1]
    ELSE Go(w, "fail")

(* A node about to execute: the walker's copy of the job is fresh.         *)
At(w, pc) == walk[w].pc = pc /\ walk[w].seen # "unread"

-----------------------------------------------------------------------------
(* The walk *)

(* _cancel_if_requested, after a node and before the next.  Of the         *)
(* terminal statuses only CANCELLED stops the walk.                        *)
Check(w) ==
    LET j == walk[w].job IN
    /\ walk[w].pc \in Nodes /\ walk[w].seen = "unread"
    /\ \/ job[j].status = "CANCELLED" /\ Go(w, "done")
       \/ Live(j) /\ job[j].cancel /\ Go(w, "honor")
       \/ /\ job[j].status # "CANCELLED"
          /\ ~(Live(j) /\ job[j].cancel)
          /\ walk' = [walk EXCEPT ![w].seen = job[j].status]
    /\ UNCHANGED <<job, ask, asks, task, parks, broker, sends, posting, lock,
                   sweep, due, faults>>

(* honor_user_cancel, for a job its caller read as live and cancelled.     *)
Honor(w, lost) ==
    LET j == walk[w].job IN
    /\ walk[w].pc = "honor" /\ Free(j, w)
    /\ DropParked(j)
    /\ Close(j, "CANCELLED", "", lost)
    /\ Unlock(w) /\ Go(w, "done")
    /\ UNCHANGED <<asks, parks, broker, sends, posting, sweep, due, faults>>

(* run: the first worker on a job takes it out of CREATED.                 *)
Begin(w) ==
    LET j == walk[w].job IN
    /\ At(w, "start")
    /\ \/ walk[w].seen # "CREATED" /\ Go(w, "plan") /\ UNCHANGED job
       \/ /\ walk[w].seen = "CREATED" /\ Free(j, w)
          /\ job[j].status \in Sources("QUEUED")
          /\ Move(j, "QUEUED") /\ Go(w, "plan")
       \/ /\ walk[w].seen = "CREATED"
          /\ job[j].status \notin Sources("QUEUED")
          /\ Go(w, "raised") /\ UNCHANGED job
    /\ UNCHANGED <<ask, asks, task, parks, broker, sends, posting, lock, sweep,
                   due, faults>>

(* Safety, planning, copy and routing nodes: on to the provider, down a    *)
(* failure port, or a question for the author.                             *)
Plan(w) ==
    /\ At(w, "plan")
    /\ \/ Go(w, "fail")
       \/ Retry(w)
       \/ asks[walk[w].job] < MaxAsks /\ Go(w, "ask")
    /\ UNCHANGED <<job, ask, asks, task, parks, broker, sends, posting, lock,
                   sweep, due, faults>>

(* _suspend on a question: the row and the status commit together.         *)
Ask(w) ==
    LET j == walk[w].job
        running == IF walk[w].seen = "QUEUED" THEN Sources("RUNNING")
                                              ELSE Sources("AWAITING_INPUT")
    IN  /\ At(w, "ask") /\ Free(j, w)
        /\ IF job[j].status \in running
           THEN /\ asks' = [asks EXCEPT ![j] = @ + 1]
                /\ ask' = [ask EXCEPT ![j] = asks[j] + 1]
                /\ Move(j, "AWAITING_INPUT") /\ Go(w, "done")
           ELSE Go(w, "raised") /\ UNCHANGED <<job, ask, asks>>
        /\ UNCHANGED <<task, parks, broker, sends, posting, lock, sweep, due,
                       faults>>

(* provider_generate up to its first event, which commits.                 *)
Generate(w) ==
    LET j == walk[w].job IN
    /\ At(w, "generate")
    /\ IF walk[w].seen = "QUEUED"
       THEN /\ Free(j, w)
            /\ IF job[j].status \in Sources("SUBMITTED")
               THEN /\ Move(j, "SUBMITTED")
                    /\ walk' = [walk EXCEPT ![w].pc = "submit",
                                            ![w].seen = "SUBMITTED"]
               ELSE Go(w, "raised") /\ UNCHANGED job
       ELSE walk' = [walk EXCEPT ![w].pc = "submit"] /\ UNCHANGED job
    /\ UNCHANGED <<ask, asks, task, parks, broker, sends, posting, lock, sweep,
                   due, faults>>

(* The move to RUNNING stays uncommitted, its row locked, while the        *)
(* provider is called.  A job already running is called for without it.    *)
Submit(w) ==
    LET j == walk[w].job
        moves == walk[w].seen # "RUNNING"
    IN  /\ At(w, "submit")
        /\ moves => Free(j, w)
        /\ IF moves /\ job[j].status \notin Sources("RUNNING")
           THEN Go(w, "raised") /\ UNCHANGED lock
           ELSE /\ lock' = IF moves THEN [lock EXCEPT ![j] = w] ELSE lock
                /\ Go(w, IF job[j].cancel THEN "honor" ELSE "submitting")
        /\ UNCHANGED <<job, ask, asks, task, parks, broker, sends, posting,
                       sweep, due, faults>>

(* The provider answered.  A cancel that arrived meanwhile is honoured (in *)
(* the open transaction, if there is one); otherwise the next event        *)
(* commits the move to RUNNING with the answer.                            *)
Result(w) ==
    LET j == walk[w].job IN
    /\ walk[w].pc = "submitting"
    /\ IF job[j].cancel
       THEN Go(w, "honor") /\ UNCHANGED <<job, lock>>
       ELSE /\ \/ Go(w, "quality") \/ Retry(w) \/ Go(w, "fail")
               \/ parks[j] < MaxParks /\ Go(w, "park")
            /\ IF lock[j] = w THEN Move(j, "RUNNING") ELSE UNCHANGED job
            /\ Unlock(w)
    /\ UNCHANGED <<ask, asks, task, parks, broker, sends, posting, sweep, due,
                   faults>>

(* _suspend on a render: the new row replaces whatever row is there.       *)
Park(w) ==
    LET j == walk[w].job IN
    /\ At(w, "park")
    /\ parks' = [parks EXCEPT ![j] = @ + 1]
    /\ task' = [task EXCEPT ![j] = [id |-> parks[j] + 1, tries |-> walk[w].tries,
                                    polls |-> 0, parked |-> "none"]]
    /\ Go(w, "done")
    /\ UNCHANGED <<job, ask, asks, broker, sends, posting, lock, sweep, due,
                   faults>>

Quality(w) ==
    /\ At(w, "quality")
    /\ Go(w, "settle") \/ Retry(w) \/ Go(w, "fail")
    /\ UNCHANGED <<job, ask, asks, task, parks, broker, sends, posting, lock,
                   sweep, due, faults>>

(* As it would be if the capture were committed before the transition.     *)
SettleInHalves(w) ==
    LET j == walk[w].job IN
    /\ At(w, "settle") /\ Free(j, w)
    /\ job' = [job EXCEPT
                 ![j].hold = IF @ = "open" THEN "captured" ELSE @,
                 ![j].status = IF @ \in Sources("SUCCEEDED") THEN "SUCCEEDED" ELSE @]
    /\ Go(w, "done")
    /\ UNCHANGED <<ask, asks, task, parks, broker, sends, posting, lock, sweep,
                   due, faults>>

(* execute_settle_success: the capture and the status are one commit, and  *)
(* neither survives the other's refusal.                                   *)
Settle(w) ==
    LET j == walk[w].job IN
    /\ At(w, "settle") /\ Free(j, w)
    /\ IF job[j].hold = "open" /\ job[j].status \in Sources("SUCCEEDED")
       THEN /\ job' = [job EXCEPT ![j].hold = "captured",
                                  ![j].status = "SUCCEEDED"]
            /\ Go(w, "done")
       ELSE Go(w, "raised") /\ UNCHANGED job
    /\ UNCHANGED <<ask, asks, task, parks, broker, sends, posting, lock, sweep,
                   due, faults>>

(* execute_fail, and _engine_failure.                                      *)
Fail(w, lost) ==
    LET j == walk[w].job IN
    /\ At(w, "fail") /\ Free(j, w)
    /\ Close(j, "FAILED", "", lost)
    /\ Go(w, "done")
    /\ UNCHANGED <<ask, asks, task, parks, broker, sends, posting, lock, sweep,
                   due, faults>>

(* A node raises: a provider, a model, the database, a time limit.         *)
Raise(w) ==
    /\ walk[w].seen # "unread" \/ walk[w].pc = "submitting"
    /\ Fault \/ (Poison /\ UNCHANGED faults)
    /\ Unlock(w) /\ Go(w, "raised")
    /\ UNCHANGED <<job, ask, asks, task, parks, broker, sends, posting, sweep,
                   due>>

(* The process dies: its transaction is undone, and the broker hands a     *)
(* worker's unacknowledged message out again.                              *)
Crash(w) ==
    LET j == walk[w].job IN
    /\ walk[w].pc # "idle"
    /\ Fault
    /\ Unlock(w) /\ Rest(w)
    /\ IF w \in Workers /\ sends[j] < MaxSends
       THEN Send(j) ELSE UNCHANGED <<broker, sends>>
    /\ UNCHANGED <<job, ask, asks, task, parks, posting, sweep, due>>

-----------------------------------------------------------------------------
(* Celery workers *)

(* As it would be if the broker handed a message out without removing it   *)
(* from what it may hand out.                                              *)
DeliverUncounted(w, j) ==
    /\ w \in Workers /\ walk[w].pc = "idle" /\ sends[j] > 0
    /\ broker' = [broker EXCEPT ![j] = @ - 1]
    /\ Start(w, j, "start", 0, 0, "none")
    /\ UNCHANGED <<job, ask, asks, task, parks, sends, posting, lock, sweep,
                   due, faults>>

(* A message reaches an idle worker, which ignores a job that ended.       *)
Deliver(w, j) ==
    /\ w \in Workers /\ walk[w].pc = "idle"
    /\ broker[j] > 0
    /\ broker' = [broker EXCEPT ![j] = @ - 1]
    /\ IF Ended(j) THEN UNCHANGED walk ELSE Start(w, j, "start", 0, 0, "none")
    /\ UNCHANGED <<job, ask, asks, task, parks, sends, posting, lock, sweep,
                   due, faults>>

(* GenerationTask.on_failure, in a session of its own: claim the job, then *)
(* release.  A transient error is retried with a new message instead.      *)
OnFailure(w, lost) ==
    LET j == walk[w].job IN
    /\ w \in Workers /\ walk[w].pc = "raised"
    /\ \/ /\ Free(j, w)
          /\ IF Live(j) THEN Close(j, "FAILED", "", lost) ELSE UNCHANGED job
          /\ UNCHANGED <<broker, sends>>
       \/ Send(j) /\ UNCHANGED job
    /\ Rest(w)
    /\ UNCHANGED <<ask, asks, task, parks, posting, lock, sweep, due, faults>>

(* The visibility timeout passes while the worker is still at it.          *)
Redeliver(w) ==
    /\ w \in Workers /\ walk[w].pc # "idle"
    /\ Send(walk[w].job)
    /\ UNCHANGED <<job, ask, asks, task, parks, posting, lock, walk, sweep,
                   due, faults>>

-----------------------------------------------------------------------------
(* The render poller *)

Resume(w, j, outcome) ==
    LET t == task[j] IN
    IF outcome = "succeeded"
    THEN Start(w, j, "quality", t.tries, t.id, outcome)
    ELSE IF t.tries < MaxAttempts
         THEN \/ Start(w, j, "generate", t.tries + 1, t.id, outcome)
              \/ Start(w, j, "fail", t.tries, t.id, outcome)
         ELSE Start(w, j, "fail", t.tries, t.id, outcome)

(* _advance.  Nothing keeps two overlapping ticks off one row here: a tick *)
(* that rolls back loses its claims (see PollClaims).                      *)
Advance(w, j) ==
    LET t == task[j] IN
    /\ w \in Pollers /\ walk[w].pc = "idle"
    /\ t # NoTask
    /\ \/ /\ Ended(j)
          /\ task' = [task EXCEPT ![j] = NoTask]
          /\ UNCHANGED walk
       \/ /\ ~Ended(j) /\ job[j].cancel
          /\ Start(w, j, "honor", 0, t.id, "none")
          /\ UNCHANGED task
       \/ /\ ~Ended(j) /\ ~job[j].cancel /\ t.parked # "none"
          /\ Resume(w, j, t.parked)
          /\ UNCHANGED task
       \/ /\ ~Ended(j) /\ ~job[j].cancel /\ t.parked = "none"
          /\ \E outcome \in {"succeeded", "failed"} : Resume(w, j, outcome)
          /\ UNCHANGED task
       \/ /\ ~Ended(j) /\ ~job[j].cancel /\ t.parked = "none"
          /\ t.polls < MaxPolls
          /\ task' = [task EXCEPT ![j].polls = @ + 1]
          /\ UNCHANGED walk
    /\ UNCHANGED <<job, ask, asks, parks, broker, sends, posting, lock, sweep,
                   due, faults>>

(* _park_for_retry: what the upstream said is kept for the next tick.      *)
ParkForRetry(w) ==
    LET j == walk[w].job IN
    /\ w \in Pollers /\ walk[w].pc = "raised"
    /\ task' = IF task[j].id = walk[w].from
               THEN [task EXCEPT ![j].parked = walk[w].outcome] ELSE task
    /\ Rest(w)
    /\ UNCHANGED <<job, ask, asks, parks, broker, sends, posting, lock, sweep,
                   due, faults>>

(* The walk returned: a worker acknowledges its message, a tick drops the  *)
(* row it resumed from unless the walk replaced it, a request answers.     *)
Done(w) ==
    LET j == walk[w].job IN
    /\ walk[w].pc = "done"
    /\ task' = IF w \in Pollers /\ task[j].id = walk[w].from
               THEN [task EXCEPT ![j] = NoTask] ELSE task
    /\ Rest(w)
    /\ UNCHANGED <<job, ask, asks, parks, broker, sends, posting, lock, sweep,
                   due, faults>>

-----------------------------------------------------------------------------
(* Requests *)

(* submit: the job and its reserve commit together, then it is enqueued.   *)
Create(j) ==
    /\ job[j].status = "NONE"
    /\ job' = [job EXCEPT ![j].status = "CREATED", ![j].hold = "open"]
    /\ posting' = posting \cup {j}
    /\ UNCHANGED <<ask, asks, task, parks, broker, sends, lock, walk, sweep,
                   due, faults>>

(* enqueue_or_fail: the broker takes the message, or the job is failed; or *)
(* the process dies before either.                                         *)
Enqueue(j, lost) ==
    /\ j \in posting
    /\ posting' = posting \ {j}
    /\ \/ Send(j) /\ UNCHANGED <<job, faults>>
       \/ /\ Free(j, NoWalker)
          /\ IF Live(j) THEN Close(j, "FAILED", "ENQUEUE_FAILED", lost)
                        ELSE UNCHANGED job
          /\ UNCHANGED <<broker, sends, faults>>
       \/ Fault /\ UNCHANGED <<job, broker, sends>>
    /\ UNCHANGED <<ask, asks, task, parks, lock, walk, sweep, due>>

(* should_honor_immediately.                                               *)
Parked(j) ==
    \/ job[j].status \in {"AWAITING_INPUT", "CREATED"}
    \/ job[j].status \in {"RUNNING", "SUBMITTED"} /\ task[j] # NoTask

(* cancel_job: request_cancel's UPDATE holds the row for the rest.         *)
Cancel(j, lost) ==
    /\ Live(j) /\ Free(j, NoWalker)
    /\ \/ /\ Parked(j)
          /\ DropParked(j)
          /\ job' = [job EXCEPT ![j].cancel = TRUE,
                                ![j].hold = Refund(j, lost),
                                ![j].status = "CANCELLED"]
       \/ /\ ~Parked(j) /\ ~job[j].cancel
          /\ job' = [job EXCEPT ![j].cancel = TRUE]
          /\ UNCHANGED <<ask, task>>
    /\ UNCHANGED <<asks, parks, broker, sends, posting, lock, walk, sweep, due,
                   faults>>

(* answer: what it read of the job and of the question ...                 *)
Answer(w, j) ==
    /\ w \in Authors /\ walk[w].pc = "idle"
    /\ \/ Live(j) /\ job[j].cancel /\ Start(w, j, "honor", 0, 0, "none")
       \/ /\ ~job[j].cancel
          /\ job[j].status = "AWAITING_INPUT" /\ ask[j] # 0
          /\ Start(w, j, "accept", 0, ask[j], "none")
    /\ UNCHANGED <<job, ask, asks, task, parks, broker, sends, posting, lock,
                   sweep, due, faults>>

(* As it would be if the question were deleted in a commit before.         *)
AcceptInHalves(w) ==
    LET j == walk[w].job IN
    /\ walk[w].pc = "accept"
    /\ ask' = [ask EXCEPT ![j] = 0]
    /\ Go(w, "plan")
    /\ UNCHANGED <<job, asks, task, parks, broker, sends, posting, lock, sweep,
                   due, faults>>

(* ... and _accept, which deletes that question and resumes the walk.      *)
Accept(w) ==
    LET j == walk[w].job IN
    /\ walk[w].pc = "accept" /\ Free(j, w)
    /\ IF job[j].status \in Sources("RUNNING")
       THEN /\ ask' = IF ask[j] = walk[w].from THEN [ask EXCEPT ![j] = 0] ELSE ask
            /\ Move(j, "RUNNING") /\ Go(w, "plan")
       ELSE Rest(w) /\ UNCHANGED <<job, ask>>
    /\ UNCHANGED <<asks, task, parks, broker, sends, posting, lock, sweep, due,
                   faults>>

(* A resumed walk that raises is a failed request: nothing else happens.   *)
RequestFails(w) ==
    /\ w \in Authors /\ walk[w].pc = "raised"
    /\ Rest(w)
    /\ UNCHANGED <<job, ask, asks, task, parks, broker, sends, posting, lock,
                   sweep, due, faults>>

(* An operator ends a job, and may leave its credits held.                 *)
Terminate(j, keep, lost) ==
    /\ Live(j) /\ Free(j, NoWalker)
    /\ task' = [task EXCEPT ![j] = NoTask]
    /\ job' = [job EXCEPT ![j].status = "CANCELLED",
                          ![j].code = "ADMIN_TERMINATED",
                          ![j].hold = IF keep THEN @ ELSE Refund(j, lost)]
    /\ UNCHANGED <<ask, asks, parks, broker, sends, posting, lock, walk, sweep,
                   due, faults>>

Requeue(j) ==
    /\ Live(j) /\ Send(j)
    /\ UNCHANGED <<job, ask, asks, task, parks, posting, lock, walk, sweep,
                   due, faults>>

-----------------------------------------------------------------------------
(* Sweepers: each selects first and acts later on what it selected. *)

(* As it would be if only jobs a worker had taken were looked for.         *)
SelectStarted(j) ==
    /\ sweep[j] = "no"
    /\ Live(j) /\ job[j].status # "CREATED" /\ task[j] = NoTask /\ ask[j] = 0
    /\ sweep' = [sweep EXCEPT ![j] = IF job[j].cancel THEN "cancel" ELSE "expire"]
    /\ UNCHANGED <<job, ask, asks, task, parks, broker, sends, posting, lock,
                   walk, due, faults>>

(* expire_stale_jobs leaves alone what the poller or a question owns.      *)
SelectStale(j) ==
    /\ sweep[j] = "no"
    /\ Live(j) /\ task[j] = NoTask /\ ask[j] = 0
    /\ sweep' = [sweep EXCEPT ![j] = IF job[j].cancel THEN "cancel" ELSE "expire"]
    /\ UNCHANGED <<job, ask, asks, task, parks, broker, sends, posting, lock,
                   walk, due, faults>>

ExpireStale(j, lost) ==
    /\ sweep[j] # "no" /\ Free(j, NoWalker)
    /\ \/ /\ sweep[j] = "cancel"
          /\ DropParked(j) /\ Close(j, "CANCELLED", "", lost)
       \/ /\ sweep[j] = "expire" /\ Live(j)
          /\ Close(j, "EXPIRED", "JOB_EXPIRED", lost)
          /\ UNCHANGED <<ask, task>>
       \/ sweep[j] = "expire" /\ ~Live(j) /\ UNCHANGED <<job, ask, task>>
    /\ sweep' = [sweep EXCEPT ![j] = "no"]
    /\ UNCHANGED <<asks, parks, broker, sends, posting, lock, walk, due, faults>>

(* As it would be if only questions that are still open were looked for.   *)
SelectOpen(j) ==
    /\ due[j] = 0 /\ ask[j] # 0 /\ job[j].status = "AWAITING_INPUT"
    /\ due' = [due EXCEPT ![j] = ask[j]]
    /\ UNCHANGED <<job, ask, asks, task, parks, broker, sends, posting, lock,
                   walk, sweep, faults>>

(* due_for_expiry looks at the row only, not at the status of its job.     *)
SelectQuestion(j) ==
    /\ due[j] = 0 /\ ask[j] # 0
    /\ due' = [due EXCEPT ![j] = ask[j]]
    /\ UNCHANGED <<job, ask, asks, task, parks, broker, sends, posting, lock,
                   walk, sweep, faults>>

ExpireQuestion(j, lost) ==
    LET dropped == IF ask[j] = due[j] THEN [ask EXCEPT ![j] = 0] ELSE ask IN
    /\ due[j] # 0
    /\ \/ /\ Ended(j)
          /\ ask' = dropped
          /\ UNCHANGED <<job, task>>
       \/ /\ Live(j) /\ job[j].cancel /\ Free(j, NoWalker)
          /\ DropParked(j) /\ Close(j, "CANCELLED", "", lost)
       \/ /\ Live(j) /\ ~job[j].cancel /\ Free(j, NoWalker)
          /\ Close(j, "EXPIRED", "INPUT_REQUEST_EXPIRED", lost)
          /\ ask' = dropped
          /\ UNCHANGED task
    /\ due' = [due EXCEPT ![j] = 0]
    /\ UNCHANGED <<asks, parks, broker, sends, posting, lock, walk, sweep, faults>>

-----------------------------------------------------------------------------
Init ==
    /\ job = [j \in Jobs |-> [status |-> "NONE", cancel |-> FALSE,
                              hold |-> "none", code |-> ""]]
    /\ ask = [j \in Jobs |-> 0] /\ asks = [j \in Jobs |-> 0]
    /\ task = [j \in Jobs |-> NoTask] /\ parks = [j \in Jobs |-> 0]
    /\ broker = [j \in Jobs |-> 0] /\ sends = [j \in Jobs |-> 0]
    /\ posting = {} /\ lock = [j \in Jobs |-> NoWalker]
    /\ walk = [w \in Walkers |-> Idle]
    /\ sweep = [j \in Jobs |-> "no"] /\ due = [j \in Jobs |-> 0]
    /\ faults = 0

(* What a walker does of itself once it has started.                       *)
Walk(w) ==
    \/ Check(w) \/ Begin(w) \/ Plan(w) \/ Ask(w) \/ Generate(w) \/ Submit(w)
    \/ Result(w) \/ Park(w) \/ Quality(w) \/ Settle(w) \/ Done(w)
    \/ Accept(w) \/ ParkForRetry(w) \/ RequestFails(w)
    \/ \E lost \in Races : Honor(w, lost) \/ Fail(w, lost) \/ OnFailure(w, lost)

Sweep(j) ==
    \/ SelectStale(j) \/ SelectQuestion(j)
    \/ \E lost \in Races : ExpireStale(j, lost) \/ ExpireQuestion(j, lost)

Request(j) ==
    \/ Create(j) \/ Requeue(j)
    \/ \E lost \in Races : Cancel(j, lost)
    \/ \E keep \in Keeps, lost \in Races : Terminate(j, keep, lost)

Next ==
    \/ \E w \in Walkers : Walk(w) \/ Raise(w) \/ Crash(w) \/ Redeliver(w)
    \/ \E w \in Walkers, j \in Jobs :
          Deliver(w, j) \/ Advance(w, j) \/ Answer(w, j)
    \/ \E j \in Jobs, lost \in Races : Enqueue(j, lost)
    \/ \E j \in Jobs : Sweep(j) \/ Request(j)

Spec == Init /\ [][Next]_vars

(* Processes that are running keep running; Celery delivers; Beat ticks.   *)
(* Nothing obliges a user or an operator to do anything.                   *)
Fairness ==
    /\ \A w \in Walkers : WF_vars(Walk(w))
    /\ \A j \in Jobs :
          /\ WF_vars(\E w \in Workers : Deliver(w, j))
          /\ WF_vars(\E w \in Pollers : Advance(w, j))
          /\ WF_vars(\E lost \in Races : Enqueue(j, lost))
          /\ WF_vars(SelectStale(j)) /\ WF_vars(SelectQuestion(j))
          /\ WF_vars(\E lost \in Races : ExpireStale(j, lost))
          /\ WF_vars(\E lost \in Races : ExpireQuestion(j, lost))

FairSpec == Spec /\ Fairness

-----------------------------------------------------------------------------
TypeOK ==
    /\ job \in [Jobs -> [status: Statuses, cancel: BOOLEAN,
                         hold: {"none", "open", "captured", "released"},
                         code: {"", "ENQUEUE_FAILED", "ADMIN_TERMINATED",
                                "JOB_EXPIRED", "INPUT_REQUEST_EXPIRED"}]]
    /\ ask \in [Jobs -> Nat] /\ asks \in [Jobs -> Nat] /\ parks \in [Jobs -> Nat]
    /\ task \in [Jobs -> [id: Nat, tries: Nat, polls: Nat,
                          parked: {"none", "succeeded", "failed"}]]
    /\ broker \in [Jobs -> Nat] /\ sends \in [Jobs -> Nat]
    /\ posting \subseteq Jobs
    /\ lock \in [Jobs -> Walkers \cup {NoWalker}]
    /\ walk \in [Walkers -> [pc: Points, job: Jobs \cup {NoJob},
                             seen: Statuses \cup {"unread"}, tries: Nat, from: Nat,
                             outcome: {"none", "succeeded", "failed"}]]
    /\ \A w \in Walkers : walk[w].pc # "idle" => walk[w].job \in Jobs
    /\ sweep \in [Jobs -> {"no", "expire", "cancel"}]
    /\ due \in [Jobs -> Nat] /\ faults \in Nat

(* The reservation is settled with the job, and settled as the job ended:  *)
(* captured exactly when it succeeded, released when it failed, expired or *)
(* was cancelled (unless the operator who terminated it kept the credits), *)
(* and untouched while anything may still happen to it.  This supposes that *)
(* no other write of the account makes a release lose (Races = {FALSE}):   *)
(* EndedIsSettled is the part that a lost release breaks.                  *)
SettledWithOutcome ==
    \A j \in Jobs :
        /\ job[j].hold = "captured" <=> job[j].status = "SUCCEEDED"
        /\ job[j].hold = "released" => job[j].status \in Terminal \ {"SUCCEEDED"}
        /\ job[j].hold = "open" /\ Ended(j) => job[j].code = "ADMIN_TERMINATED"
        /\ job[j].hold = "none" <=> job[j].status = "NONE"

(* A job that waits for its author always has the question to answer:      *)
(* otherwise neither an answer nor the question's deadline could move it   *)
(* on, and the author would look at an empty form.                         *)
AwaitingHasQuestion ==
    \A j \in Jobs : job[j].status = "AWAITING_INPUT" => ask[j] # 0

(* "A reserve always ends in exactly one capture or one release": a job    *)
(* that ended, unless by an operator who kept the credits, holds none.     *)
EndedIsSettled ==
    \A j \in Jobs : Ended(j) /\ job[j].code # "ADMIN_TERMINATED"
                        => job[j].hold # "open"

(* Finitely many faults do not strand a reservation: every submitted job   *)
(* ends, although its message may be lost, its worker may die, its render  *)
(* may never be answered for and its author may never come back ("Without  *)
(* this a crash would leave the user's credits reserved forever").         *)
EverySubmissionEnds ==
    \A j \in Jobs : job[j].status # "NONE" ~> Ended(j)

(* Nor is anything left behind that a poller or a sweeper would go on      *)
(* visiting: a job that ended, however, loses its parked rows.             *)
ParkedWorkIsDropped ==
    \A j \in Jobs : Ended(j) ~> task[j] = NoTask /\ ask[j] = 0
=============================================================================
