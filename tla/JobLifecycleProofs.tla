-------------------------- MODULE JobLifecycleProofs ------------------------
(***************************************************************************)
(* Proofs about JobLifecycle, for any jobs, workers, overlapping ticks and *)
(* author sessions, and any bounds on what the environment may do.         *)
(***************************************************************************)
EXTENDS JobRefinement, TLAPS

USE LifecycleAssumption

Row == [status: Statuses, cancel: BOOLEAN,
        hold: {"none", "open", "captured", "released"},
        code: {"", "ENQUEUE_FAILED", "ADMIN_TERMINATED",
               "JOB_EXPIRED", "INPUT_REQUEST_EXPIRED"}]
Parking == [id: Nat, tries: Nat, polls: Nat,
            parked: {"none", "succeeded", "failed"}]
Position == [pc: Points, job: Jobs \cup {NoJob},
             seen: Statuses \cup {"unread"}, tries: Nat, from: Nat,
             outcome: {"none", "succeeded", "failed"}]

(* A walker that is under way walks a job; one that is not has read none.  *)
WalksWell ==
    /\ walk \in [Walkers -> Position]
    /\ \A w \in Walkers : IF walk[w].pc = "idle" THEN walk[w].seen = "unread"
                                                 ELSE walk[w].job \in Jobs

RowsWell ==
    /\ job \in [Jobs -> Row]
    /\ ask \in [Jobs -> Nat] /\ asks \in [Jobs -> Nat] /\ parks \in [Jobs -> Nat]
    /\ task \in [Jobs -> Parking]

QueuesWell ==
    /\ broker \in [Jobs -> Nat] /\ sends \in [Jobs -> Nat]
    /\ posting \subseteq Jobs
    /\ lock \in [Jobs -> Walkers \cup {NoWalker}]
    /\ sweep \in [Jobs -> {"no", "expire", "cancel"}]
    /\ due \in [Jobs -> Nat] /\ faults \in Nat

(* Between Submit's UPDATE and its commit a walker holds the row of its     *)
(* job, which therefore still accepts the move to RUNNING when it commits. *)
LocksWell ==
    \A j \in Jobs : lock[j] # NoWalker =>
        /\ walk[lock[j]].job = j
        /\ walk[lock[j]].pc \in {"submitting", "honor"}
        /\ job[j].status \in Sources("RUNNING")

Safe == WalksWell /\ RowsWell /\ QueuesWell /\ LocksWell

OnlyMoves(w) == \A u \in Walkers \ {w} : walk'[u] = walk[u]

-----------------------------------------------------------------------------
(* What the building blocks of the actions do to the types.                *)

(* A walker that moves on keeps its job.                                   *)
LEMMA GoesOn ==
    ASSUME WalksWell, NEW w \in Walkers, walk[w].pc # "idle",
           NEW pc \in Points \ {"idle"}, Go(w, pc)
    PROVE  WalksWell' /\ OnlyMoves(w)
BY DEF WalksWell, Go, Position, OnlyMoves

LEMMA Retries ==
    ASSUME WalksWell, NEW w \in Walkers, walk[w].pc # "idle", Retry(w)
    PROVE  WalksWell' /\ OnlyMoves(w)
BY DEF WalksWell, Go, Retry, Position, Points, Nodes, OnlyMoves

LEMMA Rests ==
    ASSUME WalksWell, NEW w \in Walkers, Rest(w)
    PROVE  WalksWell' /\ OnlyMoves(w)
BY DEF WalksWell, Rest, Idle, Position, Points, OnlyMoves

LEMMA Starts ==
    ASSUME WalksWell, NEW w \in Walkers, NEW j \in Jobs,
           NEW pc \in Points \ {"idle"}, NEW tries \in Nat, NEW from \in Nat,
           NEW outcome \in {"none", "succeeded", "failed"},
           Start(w, j, pc, tries, from, outcome)
    PROVE  WalksWell' /\ OnlyMoves(w) /\ walk[w].pc = "idle"
BY DEF WalksWell, Start, Position, OnlyMoves

LEMMA Resumes ==
    ASSUME WalksWell, RowsWell, NEW w \in Walkers, NEW j \in Jobs,
           NEW outcome \in {"succeeded", "failed"}, Resume(w, j, outcome)
    PROVE  WalksWell' /\ OnlyMoves(w) /\ walk[w].pc = "idle"
<1>1. task[j] \in Parking
  BY DEF RowsWell
<1>2. /\ {"quality", "generate", "fail"} \subseteq Points \ {"idle"}
      /\ task[j].tries \in Nat /\ task[j].tries + 1 \in Nat /\ task[j].id \in Nat
  BY <1>1 DEF Parking, Points, Nodes
<1> QED BY <1>2, Starts DEF Resume

(* Of the rows, only j's changes, to these fields.                         *)
Becomes(j, status, cancel, hold, code) ==
    /\ job' \in [Jobs -> Row]
    /\ \A k \in Jobs \ {j} : job'[k] = job[k]
    /\ job'[j].status = status /\ job'[j].cancel = cancel
    /\ job'[j].hold = hold /\ job'[j].code = code

(* A job that is closed once more keeps its status and its code.           *)
Closed(j, status, cancel, lost, code) ==
    Becomes(j, IF Live(j) THEN status ELSE job[j].status, cancel,
            Refund(j, lost), IF Live(j) THEN code ELSE job[j].code)

(* The row of a job after a move, and after it was closed.                 *)
LEMMA Moves ==
    ASSUME NEW j \in Jobs, job \in [Jobs -> Row], NEW target \in Statuses,
           Move(j, target)
    PROVE  Becomes(j, target, job[j].cancel, job[j].hold, job[j].code)
BY DEF Move, Becomes, Row

LEMMA Closes ==
    ASSUME NEW j \in Jobs, job \in [Jobs -> Row],
           NEW target \in Terminal,
           NEW code \in {"", "ENQUEUE_FAILED", "JOB_EXPIRED", "INPUT_REQUEST_EXPIRED"},
           NEW lost \in BOOLEAN, Close(j, target, code, lost)
    PROVE  Closed(j, target, job[j].cancel, lost, code)
<1>1. Refund(j, lost) \in {"none", "open", "captured", "released"}
  BY DEF Refund, Row
<1> DEFINE status == IF Live(j) THEN target ELSE job[j].status
           reason == IF Live(j) THEN code ELSE job[j].code
<1>2. /\ status \in Statuses
      /\ reason \in {"", "ENQUEUE_FAILED", "ADMIN_TERMINATED",
                     "JOB_EXPIRED", "INPUT_REQUEST_EXPIRED"}
  BY DEF Row, Statuses
<1>3. job' = [job EXCEPT ![j].hold = Refund(j, lost), ![j].status = status,
                         ![j].code = reason]
  BY DEF Close
<1> HIDE DEF status, reason
<1>4. Becomes(j, status, job[j].cancel, Refund(j, lost), reason)
  BY <1>1, <1>2, <1>3 DEF Becomes, Row
<1> QED BY <1>4 DEF Closed, status, reason

-----------------------------------------------------------------------------
(* What a step may do to the rows of the jobs.                             *)

Opens(j) ==
    /\ job[j].status = "NONE"
    /\ Becomes(j, "CREATED", job[j].cancel, "open", job[j].code)

Works(j) ==
    /\ Live(j)
    /\ \E status \in Statuses \ (Terminal \cup {"NONE"}), cancel \in BOOLEAN :
          Becomes(j, status, cancel, job[j].hold, job[j].code)

Captures(j) ==
    /\ Live(j) /\ job[j].hold = "open"
    /\ Becomes(j, "SUCCEEDED", job[j].cancel, "captured", job[j].code)

Ends(j) ==
    \E status \in Terminal \ {"SUCCEEDED"}, cancel \in BOOLEAN, lost \in Races,
       code \in {"", "ENQUEUE_FAILED", "ADMIN_TERMINATED",
                "JOB_EXPIRED", "INPUT_REQUEST_EXPIRED"} :
          Closed(j, status, cancel, lost, code)

Withholds(j) ==
    /\ Live(j)
    /\ Becomes(j, "CANCELLED", job[j].cancel, job[j].hold, "ADMIN_TERMINATED")

RowStep ==
    \/ UNCHANGED job
    \/ \E j \in Jobs : Opens(j) \/ Works(j) \/ Captures(j) \/ Ends(j) \/ Withholds(j)

(* A locked row stays as it is as long as its status does.                 *)
LEMMA LocksStay ==
    ASSUME Safe, UNCHANGED lock,
           NEW w \in Walkers, OnlyMoves(w), walk[w].pc \notin {"submitting", "honor"},
           \A k \in Jobs : lock[k] # NoWalker => job'[k].status = job[k].status
    PROVE  LocksWell'
BY DEF Safe, LocksWell, OnlyMoves, QueuesWell

LEMMA LocksLeave ==
    ASSUME Safe, NEW w \in Walkers, OnlyMoves(w), Unlock(w),
           \A k \in Jobs : lock[k] \notin {NoWalker, w} => job'[k].status = job[k].status
    PROVE  LocksWell' /\ lock' \in [Jobs -> Walkers \cup {NoWalker}]
BY DEF Safe, LocksWell, OnlyMoves, QueuesWell, Unlock

(* A walker that does not wait for the provider's answer holds no lock, so *)
(* a row it finds free is nobody's.                                        *)
LEMMA FreeIsUnlocked ==
    ASSUME Safe, NEW w \in Walkers, NEW j \in Jobs, Free(j, w),
           walk[w].pc \notin {"submitting", "honor"}
    PROVE  lock[j] = NoWalker
BY DEF Safe, LocksWell, Free

-----------------------------------------------------------------------------
(* Every action keeps the types, the locks and the shape of the rows.      *)

SafeStep == Safe' /\ RowStep

(* A step of a walker that leaves every row alone.                         *)
LEMMA QuietStep ==
    ASSUME Safe, NEW w \in Walkers, OnlyMoves(w), WalksWell',
           walk[w].pc \notin {"submitting", "honor"},
           UNCHANGED <<job, lock>>, RowsWell', QueuesWell'
    PROVE  SafeStep
<1>1. LocksWell'
  BY LocksStay
<1> QED BY <1>1 DEF SafeStep, Safe, RowStep

(* A step of a walker that changes the row of a job it found free.         *)
LEMMA FreeStep ==
    ASSUME Safe, NEW w \in Walkers, OnlyMoves(w), WalksWell',
           walk[w].pc \notin {"submitting", "honor"}, UNCHANGED lock,
           NEW j \in Jobs, Free(j, w), \A k \in Jobs \ {j} : job'[k] = job[k],
           RowsWell', QueuesWell', RowStep
    PROVE  SafeStep
<1>1. lock[j] = NoWalker
  BY FreeIsUnlocked
<1>2. LocksWell'
  BY <1>1, LocksStay
<1> QED BY <1>2 DEF SafeStep, Safe

(* A live job moves to a live status.                                      *)
LEMMA MovesOn ==
    ASSUME Safe, NEW j \in Jobs, Live(j),
           NEW target \in Statuses \ (Terminal \cup {"NONE"}), Move(j, target)
    PROVE  /\ RowStep /\ job' \in [Jobs -> Row]
           /\ \A k \in Jobs \ {j} : job'[k] = job[k]
<1>1. Becomes(j, target, job[j].cancel, job[j].hold, job[j].code)
  BY Moves DEF Safe, RowsWell
<1>2. job[j].cancel \in BOOLEAN
  BY DEF Safe, RowsWell, Row
<1>3. Works(j)
  BY <1>1, <1>2 DEF Works
<1> QED BY <1>1, <1>3 DEF RowStep, Becomes

(* Closing a job in any state ends it or gives its credits back.           *)
LEMMA ClosesDown ==
    ASSUME Safe, NEW j \in Jobs, NEW lost \in Races,
           NEW target \in Terminal \ {"SUCCEEDED"},
           NEW code \in {"", "ENQUEUE_FAILED", "JOB_EXPIRED", "INPUT_REQUEST_EXPIRED"},
           Close(j, target, code, lost)
    PROVE  /\ RowStep /\ job' \in [Jobs -> Row]
           /\ \A k \in Jobs \ {j} : job'[k] = job[k]
<1>1. Closed(j, target, job[j].cancel, lost, code)
  <2>1. job \in [Jobs -> Row] /\ target \in Terminal /\ lost \in BOOLEAN
    BY DEF Safe, RowsWell
  <2> QED BY <2>1, Closes
<1>2. job[j].cancel \in BOOLEAN
  BY DEF Safe, RowsWell, Row
<1>3. Ends(j)
  BY <1>1, <1>2 DEF Ends
<1> QED BY <1>1, <1>3 DEF RowStep, Closed, Becomes

LEMMA Drops ==
    ASSUME Safe, NEW j \in Jobs, DropParked(j)
    PROVE  ask' \in [Jobs -> Nat] /\ task' \in [Jobs -> Parking]
BY DEF DropParked, NoTask, Parking, Safe, RowsWell

LEMMA Sends ==
    ASSUME Safe, NEW j \in Jobs, Send(j)
    PROVE  broker' \in [Jobs -> Nat] /\ sends' \in [Jobs -> Nat]
BY DEF Send, Safe, QueuesWell

(* A request or a sweeper that found the row free, or left every row alone. *)
LEMMA OutsideStep ==
    ASSUME Safe, NEW j \in Jobs, UNCHANGED <<walk, lock>>,
           UNCHANGED job \/ Free(j, NoWalker), \A k \in Jobs \ {j} : job'[k] = job[k],
           RowsWell', QueuesWell', RowStep
    PROVE  SafeStep
<1>1. LocksWell'
  <2>1. \A k \in Jobs : lock[k] # NoWalker => job'[k] = job[k]
    BY DEF Free
  <2> QED BY <2>1 DEF Safe, LocksWell
<1>2. WalksWell'
  BY DEF Safe, WalksWell
<1> QED BY <1>1, <1>2 DEF SafeStep, Safe

LEMMA CheckStep ==
    ASSUME Safe, NEW w \in Walkers, Check(w) PROVE SafeStep
<1>1. /\ walk[w].pc \in Nodes /\ walk[w].pc \notin {"idle", "submitting", "honor"}
      /\ walk[w].job \in Jobs /\ walk[w] \in Position
  BY DEF Check, Nodes, Safe, WalksWell
<1>2. /\ UNCHANGED <<job, lock>> /\ RowsWell' /\ QueuesWell'
  BY DEF Check, Safe, RowsWell, QueuesWell
<1>3. WalksWell' /\ OnlyMoves(w)
  <2>1. CASE Go(w, "done") \/ Go(w, "honor")
    BY <2>1, <1>1, GoesOn DEF Safe, Points
  <2>2. CASE walk' = [walk EXCEPT ![w].seen = job[walk[w].job].status]
    <3>1. job[walk[w].job].status \in Statuses
      BY <1>1 DEF Safe, RowsWell, Row
    <3> QED BY <3>1, <2>2, <1>1 DEF Safe, WalksWell, OnlyMoves, Position
  <2> QED BY <2>1, <2>2 DEF Check
<1> QED BY <1>1, <1>2, <1>3, QuietStep

LEMMA HonorStep ==
    ASSUME Safe, NEW w \in Walkers, NEW lost \in Races, Honor(w, lost) PROVE SafeStep
<1> DEFINE j == walk[w].job
<1>1. walk[w].pc = "honor" /\ j \in Jobs /\ Free(j, w)
  BY DEF Honor, Safe, WalksWell
<1>2. WalksWell' /\ OnlyMoves(w)
  BY <1>1, GoesOn DEF Honor, Safe, Points
<1>3. "CANCELLED" \in Terminal \ {"SUCCEEDED"}
  BY DEF Terminal
<1>4. Close(j, "CANCELLED", "", lost)
  BY DEF Honor
<1> HIDE DEF j
<1>5. /\ RowStep /\ job' \in [Jobs -> Row]
      /\ \A k \in Jobs \ {j} : job'[k] = job[k]
  BY <1>1, <1>3, <1>4, ClosesDown
<1>6. RowsWell' /\ QueuesWell'
  <2>1. /\ UNCHANGED <<asks, parks, broker, sends, posting, sweep, due, faults>>
        /\ DropParked(j)
    BY DEF Honor, j
  <2>2. lock' \in [Jobs -> Walkers \cup {NoWalker}]
    BY DEF Honor, Unlock, Safe, QueuesWell
  <2>3. ask' \in [Jobs -> Nat] /\ task' \in [Jobs -> Parking]
    BY <1>1, <2>1, Drops
  <2> QED BY <1>5, <2>1, <2>2, <2>3 DEF Safe, RowsWell, QueuesWell
<1>7. \A k \in Jobs : lock[k] \notin {NoWalker, w} => job'[k].status = job[k].status
  BY <1>1, <1>5 DEF Free
<1>8. LocksWell'
  BY <1>2, <1>7, LocksLeave DEF Honor
<1> QED BY <1>2, <1>5, <1>6, <1>8 DEF SafeStep, Safe

LEMMA BeginStep ==
    ASSUME Safe, NEW w \in Walkers, Begin(w) PROVE SafeStep
<1> DEFINE j == walk[w].job
<1>1. walk[w].pc = "start" /\ j \in Jobs
  BY DEF Begin, At, Safe, WalksWell
<1>2. WalksWell' /\ OnlyMoves(w)
  <2>1. Go(w, "plan") \/ Go(w, "raised")
    BY DEF Begin
  <2> QED BY <2>1, <1>1, GoesOn DEF Safe, Points, Nodes
<1>3. /\ UNCHANGED lock /\ QueuesWell' /\ UNCHANGED <<ask, asks, parks, task>>
  BY DEF Begin, Safe, QueuesWell
<1>4. CASE UNCHANGED job
  BY <1>1, <1>2, <1>3, <1>4, QuietStep DEF Safe, RowsWell
<1>5. CASE Free(j, w) /\ job[j].status = "CREATED" /\ Move(j, "QUEUED")
  <2>1. Live(j) /\ "QUEUED" \in Statuses \ (Terminal \cup {"NONE"})
    BY <1>5 DEF Live, Terminal, Statuses
  <2>2. /\ RowStep /\ job' \in [Jobs -> Row]
        /\ \A k \in Jobs \ {j} : job'[k] = job[k]
    BY <1>1, <1>5, <2>1, MovesOn
  <2>3. RowsWell'
    BY <1>3, <2>2 DEF Safe, RowsWell
  <2> QED BY <1>1, <1>2, <1>3, <1>5, <2>2, <2>3, FreeStep
<1> QED BY <1>4, <1>5 DEF Begin, Sources

LEMMA PlanStep ==
    ASSUME Safe, NEW w \in Walkers, Plan(w) PROVE SafeStep
<1>1. walk[w].pc = "plan"
  BY DEF Plan, At
<1>2. WalksWell' /\ OnlyMoves(w)
  BY <1>1, GoesOn, Retries DEF Plan, Safe, Points, Nodes
<1> QED BY <1>1, <1>2, QuietStep DEF Plan, Safe, RowsWell, QueuesWell

LEMMA AskStep ==
    ASSUME Safe, NEW w \in Walkers, Ask(w) PROVE SafeStep
<1> DEFINE j == walk[w].job
<1>1. walk[w].pc = "ask" /\ j \in Jobs /\ Free(j, w)
  BY DEF Ask, At, Safe, WalksWell
<1>2. WalksWell' /\ OnlyMoves(w)
  <2>1. Go(w, "done") \/ Go(w, "raised")
    BY DEF Ask
  <2> QED BY <2>1, <1>1, GoesOn DEF Safe, Points, Nodes
<1>3. UNCHANGED <<lock, parks, task>> /\ QueuesWell'
  BY DEF Ask, Safe, QueuesWell
<1>4. CASE UNCHANGED <<job, ask, asks>>
  BY <1>1, <1>2, <1>3, <1>4, QuietStep DEF Safe, RowsWell
<1>5. CASE /\ job[j].status \in Sources("RUNNING") \cup Sources("AWAITING_INPUT")
           /\ asks' = [asks EXCEPT ![j] = @ + 1]
           /\ ask' = [ask EXCEPT ![j] = asks[j] + 1]
           /\ Move(j, "AWAITING_INPUT")
  <2>1. Live(j) /\ "AWAITING_INPUT" \in Statuses \ (Terminal \cup {"NONE"})
    BY <1>5 DEF Live, Terminal, Statuses, Sources
  <2>2. /\ RowStep /\ job' \in [Jobs -> Row]
        /\ \A k \in Jobs \ {j} : job'[k] = job[k]
    BY <1>1, <1>5, <2>1, MovesOn
  <2>3. asks' \in [Jobs -> Nat] /\ ask' \in [Jobs -> Nat]
    <3>1. asks[j] + 1 \in Nat
      BY <1>1 DEF Safe, RowsWell
    <3> HIDE DEF j
    <3> QED BY <1>1, <1>5, <3>1 DEF Safe, RowsWell
  <2>4. RowsWell'
    BY <1>3, <2>2, <2>3 DEF Safe, RowsWell
  <2> QED BY <1>1, <1>2, <1>3, <2>2, <2>4, FreeStep
<1> QED BY <1>4, <1>5 DEF Ask

LEMMA GenerateStep ==
    ASSUME Safe, NEW w \in Walkers, Generate(w) PROVE SafeStep
<1> DEFINE j == walk[w].job
<1>1. walk[w].pc = "generate" /\ j \in Jobs
  BY DEF Generate, At, Safe, WalksWell
<1>2. WalksWell' /\ OnlyMoves(w)
  <2>1. CASE Go(w, "raised")
    BY <2>1, <1>1, GoesOn DEF Safe, Points, Nodes
  <2>2. CASE \/ walk' = [walk EXCEPT ![w].pc = "submit", ![w].seen = "SUBMITTED"]
             \/ walk' = [walk EXCEPT ![w].pc = "submit"]
    BY <2>2, <1>1 DEF Safe, WalksWell, OnlyMoves, Position, Points, Nodes, Statuses
  <2> QED BY <2>1, <2>2 DEF Generate
<1>3. /\ UNCHANGED lock /\ QueuesWell' /\ UNCHANGED <<ask, asks, parks, task>>
  BY DEF Generate, Safe, QueuesWell
<1>4. CASE UNCHANGED job
  BY <1>1, <1>2, <1>3, <1>4, QuietStep DEF Safe, RowsWell
<1>5. CASE Free(j, w) /\ job[j].status \in Sources("SUBMITTED") /\ Move(j, "SUBMITTED")
  <2>1. Live(j) /\ "SUBMITTED" \in Statuses \ (Terminal \cup {"NONE"})
    BY <1>5 DEF Live, Terminal, Statuses, Sources
  <2>2. /\ RowStep /\ job' \in [Jobs -> Row]
        /\ \A k \in Jobs \ {j} : job'[k] = job[k]
    BY <1>1, <1>5, <2>1, MovesOn
  <2>3. RowsWell'
    BY <1>3, <2>2 DEF Safe, RowsWell
  <2> QED BY <1>1, <1>2, <1>3, <1>5, <2>2, <2>3, FreeStep
<1> QED BY <1>4, <1>5 DEF Generate

LEMMA SubmitStep ==
    ASSUME Safe, NEW w \in Walkers, Submit(w) PROVE SafeStep
<1> DEFINE j == walk[w].job
           moves == walk[w].seen # "RUNNING"
<1>1. walk[w].pc = "submit" /\ j \in Jobs /\ (moves => Free(j, w))
  BY DEF Submit, At, Safe, WalksWell
<1>2. WalksWell' /\ OnlyMoves(w)
  <2>1. Go(w, "raised") \/ Go(w, "honor") \/ Go(w, "submitting")
    BY DEF Submit
  <2> QED BY <2>1, <1>1, GoesOn DEF Safe, Points, Nodes
<1>3. UNCHANGED job /\ RowsWell'
  BY DEF Submit, Safe, RowsWell
<1>4. CASE UNCHANGED lock
  <2>1. QueuesWell'
    BY <1>4 DEF Submit, Safe, QueuesWell
  <2> QED BY <1>1, <1>2, <1>3, <1>4, <2>1, QuietStep
<1>5. CASE /\ moves /\ job[j].status \in Sources("RUNNING")
           /\ lock' = [lock EXCEPT ![j] = w]
           /\ Go(w, "honor") \/ Go(w, "submitting")
  <2>1. QueuesWell'
    BY <1>1, <1>5 DEF Submit, Safe, QueuesWell
  <2>2. walk'[w].job = j /\ walk'[w].pc \in {"submitting", "honor"}
    BY <1>1, <1>5 DEF Go, Safe, WalksWell, Position
  <2>3. \A k \in Jobs : lock[k] # w
    BY <1>1 DEF Safe, LocksWell
  <2>4. LocksWell'
    BY <1>1, <1>2, <1>3, <1>5, <2>2, <2>3 DEF Safe, LocksWell, QueuesWell, OnlyMoves
  <2> QED BY <1>2, <1>3, <2>1, <2>4 DEF SafeStep, Safe, RowStep
<1> QED BY <1>1, <1>4, <1>5 DEF Submit

LEMMA ResultStep ==
    ASSUME Safe, NEW w \in Walkers, Result(w) PROVE SafeStep
<1> DEFINE j == walk[w].job
<1>1. walk[w].pc = "submitting" /\ j \in Jobs
  BY DEF Result, Safe, WalksWell
<1>2. WalksWell' /\ OnlyMoves(w)
  <2>1. Go(w, "honor") \/ Go(w, "quality") \/ Retry(w) \/ Go(w, "fail") \/ Go(w, "park")
    BY DEF Result
  <2> QED BY <2>1, <1>1, GoesOn, Retries DEF Safe, Points, Nodes
<1>3. /\ UNCHANGED <<ask, asks, parks, task, broker, sends, posting, sweep, due, faults>>
  BY DEF Result
<1>4. CASE Go(w, "honor") /\ UNCHANGED <<job, lock>>
  <2>1. walk'[w].job = j /\ walk'[w].pc = "honor"
    BY <1>1, <1>4 DEF Go, Safe, WalksWell, Position
  <2>2. LocksWell'
    BY <1>2, <1>4, <2>1 DEF Safe, LocksWell, OnlyMoves, QueuesWell
  <2> QED BY <1>2, <1>3, <1>4, <2>2 DEF SafeStep, Safe, RowStep, RowsWell, QueuesWell
<1>5. CASE Unlock(w) /\ lock[j] # w /\ UNCHANGED job
  <2>1. LocksWell' /\ lock' \in [Jobs -> Walkers \cup {NoWalker}]
    BY <1>2, <1>5, LocksLeave
  <2> QED BY <1>2, <1>3, <1>5, <2>1 DEF SafeStep, Safe, RowStep, RowsWell, QueuesWell
<1>6. CASE Unlock(w) /\ lock[j] = w /\ Move(j, "RUNNING")
  <2>1. job[j].status \in Sources("RUNNING")
    BY <1>1, <1>6 DEF Safe, LocksWell
  <2>2. Live(j) /\ "RUNNING" \in Statuses \ (Terminal \cup {"NONE"})
    BY <2>1 DEF Live, Terminal, Statuses, Sources
  <2>3. /\ RowStep /\ job' \in [Jobs -> Row]
        /\ \A k \in Jobs \ {j} : job'[k] = job[k]
    BY <1>1, <1>6, <2>2, MovesOn
  <2>4. LocksWell' /\ lock' \in [Jobs -> Walkers \cup {NoWalker}]
    BY <1>2, <1>6, <2>3, LocksLeave
  <2> QED BY <1>2, <1>3, <2>3, <2>4 DEF SafeStep, Safe, RowsWell, QueuesWell
<1> QED BY <1>4, <1>5, <1>6 DEF Result

LEMMA ParkStep ==
    ASSUME Safe, NEW w \in Walkers, Park(w) PROVE SafeStep
<1> DEFINE j == walk[w].job
<1>1. walk[w].pc = "park" /\ j \in Jobs /\ walk[w].tries \in Nat
  BY DEF Park, At, Safe, WalksWell, Position
<1>2. WalksWell' /\ OnlyMoves(w)
  BY <1>1, GoesOn DEF Park, Safe, Points, Nodes
<1>3. RowsWell'
  <2>1. [id |-> parks[j] + 1, tries |-> walk[w].tries, polls |-> 0, parked |-> "none"]
          \in Parking
    BY <1>1 DEF Safe, RowsWell, Parking
  <2> QED BY <1>1, <2>1 DEF Park, Safe, RowsWell
<1> QED BY <1>1, <1>2, <1>3, QuietStep DEF Park, Safe, QueuesWell

LEMMA QualityStep ==
    ASSUME Safe, NEW w \in Walkers, Quality(w) PROVE SafeStep
<1>1. walk[w].pc = "quality"
  BY DEF Quality, At
<1>2. WalksWell' /\ OnlyMoves(w)
  BY <1>1, GoesOn, Retries DEF Quality, Safe, Points, Nodes
<1> QED BY <1>1, <1>2, QuietStep DEF Quality, Safe, RowsWell, QueuesWell

LEMMA SettleStep ==
    ASSUME Safe, NEW w \in Walkers, Settle(w) PROVE SafeStep
<1> DEFINE j == walk[w].job
<1>1. walk[w].pc = "settle" /\ j \in Jobs /\ Free(j, w)
  BY DEF Settle, At, Safe, WalksWell
<1>2. WalksWell' /\ OnlyMoves(w)
  <2>1. Go(w, "done") \/ Go(w, "raised")
    BY DEF Settle
  <2> QED BY <2>1, <1>1, GoesOn DEF Safe, Points, Nodes
<1>3. /\ UNCHANGED lock /\ QueuesWell' /\ UNCHANGED <<ask, asks, parks, task>>
  BY DEF Settle, Safe, QueuesWell
<1>4. CASE UNCHANGED job
  BY <1>1, <1>2, <1>3, <1>4, QuietStep DEF Safe, RowsWell
<1>5. CASE /\ job[j].hold = "open" /\ job[j].status \in Sources("SUCCEEDED")
           /\ job' = [job EXCEPT ![j].hold = "captured", ![j].status = "SUCCEEDED"]
  <2>1. Live(j)
    BY <1>5 DEF Live, Terminal, Sources
  <2>2. Becomes(j, "SUCCEEDED", job[j].cancel, "captured", job[j].code)
    <3>1. job \in [Jobs -> Row] /\ "SUCCEEDED" \in Statuses
      BY DEF Safe, RowsWell, Statuses, Terminal
    <3> HIDE DEF j
    <3> QED BY <1>1, <1>5, <3>1 DEF Becomes, Row
  <2>3. RowStep
    BY <1>1, <1>5, <2>1, <2>2 DEF RowStep, Captures
  <2>4. RowsWell' /\ \A k \in Jobs \ {j} : job'[k] = job[k]
    BY <1>3, <2>2 DEF Becomes, Safe, RowsWell
  <2> QED BY <1>1, <1>2, <1>3, <2>3, <2>4, FreeStep
<1> QED BY <1>4, <1>5 DEF Settle

LEMMA FailStep ==
    ASSUME Safe, NEW w \in Walkers, NEW lost \in Races, Fail(w, lost) PROVE SafeStep
<1> DEFINE j == walk[w].job
<1>1. walk[w].pc = "fail" /\ j \in Jobs /\ Free(j, w)
  BY DEF Fail, At, Safe, WalksWell
<1>2. WalksWell' /\ OnlyMoves(w)
  BY <1>1, GoesOn DEF Fail, Safe, Points, Nodes
<1>3. UNCHANGED <<lock, ask, asks, parks, task>> /\ QueuesWell'
  BY DEF Fail, Safe, QueuesWell
<1>4. Close(j, "FAILED", "", lost) /\ "FAILED" \in Terminal \ {"SUCCEEDED"}
  BY DEF Fail, Terminal
<1> HIDE DEF j
<1>5. /\ RowStep /\ job' \in [Jobs -> Row]
      /\ \A k \in Jobs \ {j} : job'[k] = job[k]
  BY <1>1, <1>4, ClosesDown
<1>6. RowsWell'
  BY <1>3, <1>5 DEF Safe, RowsWell
<1> QED BY <1>1, <1>2, <1>3, <1>5, <1>6, FreeStep

LEMMA RaiseStep ==
    ASSUME Safe, NEW w \in Walkers, Raise(w) PROVE SafeStep
<1>1. walk[w].pc # "idle"
  BY DEF Raise, Safe, WalksWell
<1>2. WalksWell' /\ OnlyMoves(w)
  BY <1>1, GoesOn DEF Raise, Safe, Points
<1>3. faults' \in Nat
  BY DEF Raise, Fault, Safe, QueuesWell
<1>4. LocksWell' /\ lock' \in [Jobs -> Walkers \cup {NoWalker}]
  BY <1>2, LocksLeave DEF Raise
<1> QED BY <1>2, <1>3, <1>4 DEF Raise, SafeStep, Safe, RowStep, RowsWell, QueuesWell

LEMMA CrashStep ==
    ASSUME Safe, NEW w \in Walkers, Crash(w) PROVE SafeStep
<1>1. walk[w].job \in Jobs
  BY DEF Crash, Safe, WalksWell
<1>2. WalksWell' /\ OnlyMoves(w)
  BY Rests DEF Crash, Safe
<1>3. /\ faults' \in Nat
      /\ broker' \in [Jobs -> Nat] /\ sends' \in [Jobs -> Nat]
  BY <1>1, Sends DEF Crash, Fault, Safe, QueuesWell
<1>4. LocksWell' /\ lock' \in [Jobs -> Walkers \cup {NoWalker}]
  BY <1>2, LocksLeave DEF Crash
<1> QED BY <1>2, <1>3, <1>4 DEF Crash, SafeStep, Safe, RowStep, RowsWell, QueuesWell

LEMMA DeliverStep ==
    ASSUME Safe, NEW w \in Walkers, NEW j \in Jobs, Deliver(w, j) PROVE SafeStep
<1>1. walk[w].pc = "idle"
  BY DEF Deliver
<1>2. WalksWell' /\ OnlyMoves(w)
  <2>1. CASE UNCHANGED walk
    BY <2>1 DEF Safe, WalksWell, OnlyMoves
  <2>2. CASE Start(w, j, "start", 0, 0, "none")
    BY <2>2, Starts DEF Safe, Points, Nodes
  <2> QED BY <2>1, <2>2 DEF Deliver
<1>3. broker' \in [Jobs -> Nat]
  BY DEF Deliver, Safe, QueuesWell
<1> QED BY <1>1, <1>2, <1>3, QuietStep DEF Deliver, Safe, RowsWell, QueuesWell

LEMMA OnFailureStep ==
    ASSUME Safe, NEW w \in Walkers, NEW lost \in Races, OnFailure(w, lost) PROVE SafeStep
<1> DEFINE j == walk[w].job
<1>1. walk[w].pc = "raised" /\ j \in Jobs
  BY DEF OnFailure, Safe, WalksWell
<1>2. WalksWell' /\ OnlyMoves(w)
  BY Rests DEF OnFailure, Safe
<1>3. UNCHANGED <<lock, ask, asks, parks, task>>
  BY DEF OnFailure
<1>4. QueuesWell'
  BY <1>1, Sends DEF OnFailure, Safe, QueuesWell
<1>5. CASE UNCHANGED job
  BY <1>1, <1>2, <1>3, <1>4, <1>5, QuietStep DEF Safe, RowsWell
<1>6. CASE Free(j, w) /\ Close(j, "FAILED", "", lost)
  <2>1. "FAILED" \in Terminal \ {"SUCCEEDED"}
    BY DEF Terminal
  <2> HIDE DEF j
  <2>2. /\ RowStep /\ job' \in [Jobs -> Row]
        /\ \A k \in Jobs \ {j} : job'[k] = job[k]
    BY <1>1, <1>6, <2>1, ClosesDown
  <2>3. RowsWell'
    BY <1>3, <2>2 DEF Safe, RowsWell
  <2> QED BY <1>1, <1>2, <1>3, <1>4, <1>6, <2>2, <2>3, FreeStep
<1> QED BY <1>5, <1>6 DEF OnFailure

LEMMA RedeliverStep ==
    ASSUME Safe, NEW w \in Walkers, Redeliver(w) PROVE SafeStep
<1>1. walk[w].job \in Jobs
  BY DEF Redeliver, Safe, WalksWell
<1>2. broker' \in [Jobs -> Nat] /\ sends' \in [Jobs -> Nat]
  BY <1>1, Sends DEF Redeliver
<1>3. RowsWell' /\ QueuesWell' /\ UNCHANGED <<job, walk, lock>>
  BY <1>2 DEF Redeliver, Safe, RowsWell, QueuesWell
<1> QED BY <1>1, <1>3, OutsideStep DEF RowStep

LEMMA AdvanceStep ==
    ASSUME Safe, NEW w \in Walkers, NEW j \in Jobs, Advance(w, j) PROVE SafeStep
<1>1. walk[w].pc = "idle"
  BY DEF Advance
<1>2. WalksWell' /\ OnlyMoves(w)
  <2>1. CASE UNCHANGED walk
    BY <2>1 DEF Safe, WalksWell, OnlyMoves
  <2>2. CASE Start(w, j, "honor", 0, task[j].id, "none")
    <3>1. task[j].id \in Nat
      BY DEF Safe, RowsWell, Parking
    <3> QED BY <3>1, <2>2, Starts DEF Safe, Points
  <2>3. CASE task[j].parked # "none" /\ Resume(w, j, task[j].parked)
    <3>1. task[j].parked \in {"succeeded", "failed"}
      BY <2>3 DEF Safe, RowsWell, Parking
    <3> QED BY <3>1, <2>3, Resumes DEF Safe
  <2>4. CASE \E outcome \in {"succeeded", "failed"} : Resume(w, j, outcome)
    BY <2>4, Resumes DEF Safe
  <2> QED BY <2>1, <2>2, <2>3, <2>4 DEF Advance
<1>3. task' \in [Jobs -> Parking]
  <2>1. CASE UNCHANGED task
    BY <2>1 DEF Safe, RowsWell
  <2>2. CASE task' = [task EXCEPT ![j] = NoTask]
    BY <2>2 DEF NoTask, Parking, Safe, RowsWell
  <2>3. CASE task' = [task EXCEPT ![j].polls = @ + 1]
    BY <2>3 DEF Parking, Safe, RowsWell
  <2> QED BY <2>1, <2>2, <2>3 DEF Advance
<1>4. RowsWell' /\ QueuesWell' /\ UNCHANGED <<job, lock>>
  BY <1>3 DEF Advance, Safe, RowsWell, QueuesWell
<1> QED BY <1>1, <1>2, <1>4, QuietStep

LEMMA ParkForRetryStep ==
    ASSUME Safe, NEW w \in Walkers, ParkForRetry(w) PROVE SafeStep
<1> DEFINE j == walk[w].job
<1>1. walk[w].pc = "raised" /\ j \in Jobs
  BY DEF ParkForRetry, Safe, WalksWell
<1>2. WalksWell' /\ OnlyMoves(w)
  BY Rests DEF ParkForRetry, Safe
<1>3. task' \in [Jobs -> Parking]
  <2>1. walk[w].outcome \in {"none", "succeeded", "failed"}
    BY DEF Safe, WalksWell, Position
  <2>2. task' = [task EXCEPT ![j].parked = walk[w].outcome] \/ UNCHANGED task
    BY DEF ParkForRetry
  <2> HIDE DEF j
  <2> QED BY <1>1, <2>1, <2>2 DEF Safe, RowsWell, Parking
<1>4. RowsWell' /\ QueuesWell' /\ UNCHANGED <<job, lock>>
  BY <1>3 DEF ParkForRetry, Safe, RowsWell, QueuesWell
<1> QED BY <1>1, <1>2, <1>4, QuietStep

LEMMA DoneStep ==
    ASSUME Safe, NEW w \in Walkers, Done(w) PROVE SafeStep
<1>1. walk[w].pc = "done" /\ walk[w].job \in Jobs
  BY DEF Done, Safe, WalksWell
<1>2. WalksWell' /\ OnlyMoves(w)
  BY Rests DEF Done, Safe
<1>3. task' \in [Jobs -> Parking]
  BY <1>1 DEF Done, NoTask, Parking, Safe, RowsWell
<1>4. RowsWell' /\ QueuesWell' /\ UNCHANGED <<job, lock>>
  BY <1>3 DEF Done, Safe, RowsWell, QueuesWell
<1> QED BY <1>1, <1>2, <1>4, QuietStep

LEMMA CreateStep ==
    ASSUME Safe, NEW j \in Jobs, Create(j) PROVE SafeStep
<1>1. Becomes(j, "CREATED", job[j].cancel, "open", job[j].code)
  <2>1. /\ "CREATED" \in Statuses /\ job \in [Jobs -> Row]
        /\ job' = [job EXCEPT ![j].status = "CREATED", ![j].hold = "open"]
    BY DEF Create, Statuses, Safe, RowsWell
  <2> QED BY <2>1 DEF Becomes, Row
<1>2. RowStep
  BY <1>1 DEF Create, RowStep, Opens
<1>3. RowsWell' /\ QueuesWell'
  BY <1>1 DEF Create, Becomes, Safe, RowsWell, QueuesWell
<1>4. \A k \in Jobs : lock[k] # NoWalker => k # j
  BY DEF Create, Safe, LocksWell, Sources
<1>5. LocksWell' /\ WalksWell'
  BY <1>1, <1>4 DEF Create, Becomes, Safe, LocksWell, WalksWell
<1> QED BY <1>2, <1>3, <1>5 DEF SafeStep, Safe

LEMMA EnqueueStep ==
    ASSUME Safe, NEW j \in Jobs, NEW lost \in Races, Enqueue(j, lost) PROVE SafeStep
<1>1. UNCHANGED <<walk, lock, ask, asks, task, parks>>
  BY DEF Enqueue
<1>2. QueuesWell'
  <2>1. broker' \in [Jobs -> Nat] /\ sends' \in [Jobs -> Nat] /\ faults' \in Nat
    BY Sends DEF Enqueue, Fault, Safe, QueuesWell
  <2> QED BY <2>1 DEF Enqueue, Safe, QueuesWell
<1>3. CASE UNCHANGED job
  BY <1>1, <1>2, <1>3, OutsideStep DEF RowStep, Safe, RowsWell
<1>4. CASE Free(j, NoWalker) /\ Close(j, "FAILED", "ENQUEUE_FAILED", lost)
  <2>1. /\ RowStep /\ job' \in [Jobs -> Row]
        /\ \A k \in Jobs \ {j} : job'[k] = job[k]
    BY <1>4, ClosesDown DEF Terminal
  <2>2. RowsWell'
    BY <1>1, <2>1 DEF Safe, RowsWell
  <2> QED BY <1>1, <1>2, <1>4, <2>1, <2>2, OutsideStep
<1> QED BY <1>3, <1>4 DEF Enqueue

LEMMA CancelStep ==
    ASSUME Safe, NEW j \in Jobs, NEW lost \in Races, Cancel(j, lost) PROVE SafeStep
<1>1. UNCHANGED <<walk, lock, asks, parks>> /\ QueuesWell' /\ Live(j) /\ Free(j, NoWalker)
  BY DEF Cancel, Safe, QueuesWell
<1>2. job \in [Jobs -> Row] /\ Refund(j, lost) \in {"none", "open", "captured", "released"}
  BY DEF Refund, Safe, RowsWell, Row
<1>3. ask' \in [Jobs -> Nat] /\ task' \in [Jobs -> Parking]
  BY Drops DEF Cancel, Safe, RowsWell
<1>4. CASE job' = [job EXCEPT ![j].cancel = TRUE, ![j].hold = Refund(j, lost),
                              ![j].status = "CANCELLED"]
  <2>1. "CANCELLED" \in Terminal \ {"SUCCEEDED"} /\ "CANCELLED" \in Statuses
    BY DEF Terminal, Statuses
  <2>2. Becomes(j, "CANCELLED", TRUE, Refund(j, lost), job[j].code)
    BY <1>2, <1>4, <2>1 DEF Becomes, Row
  <2>3. Closed(j, "CANCELLED", TRUE, lost, job[j].code)
    BY <1>1, <2>2 DEF Closed
  <2>4. job[j].code \in {"", "ENQUEUE_FAILED", "ADMIN_TERMINATED",
                         "JOB_EXPIRED", "INPUT_REQUEST_EXPIRED"}
    BY <1>2 DEF Row
  <2>5. Ends(j)
    BY <2>1, <2>3, <2>4 DEF Ends
  <2> QED BY <1>1, <1>3, <2>2, <2>5, OutsideStep DEF RowStep, Becomes, Safe, RowsWell
<1>5. CASE job' = [job EXCEPT ![j].cancel = TRUE]
  <2>1. Becomes(j, job[j].status, TRUE, job[j].hold, job[j].code)
    BY <1>2, <1>5 DEF Becomes, Row
  <2>2. job[j].status \in Statuses \ (Terminal \cup {"NONE"})
    BY <1>1, <1>2 DEF Live, Row
  <2>3. Works(j)
    BY <1>1, <2>1, <2>2 DEF Works
  <2> QED BY <1>1, <1>3, <2>1, <2>3, OutsideStep DEF RowStep, Becomes, Safe, RowsWell
<1> QED BY <1>4, <1>5 DEF Cancel

LEMMA AnswerStep ==
    ASSUME Safe, NEW w \in Walkers, NEW j \in Jobs, Answer(w, j) PROVE SafeStep
<1>1. WalksWell' /\ OnlyMoves(w) /\ walk[w].pc = "idle"
  <2>1. ask[j] \in Nat
    BY DEF Safe, RowsWell
  <2>2. Start(w, j, "honor", 0, 0, "none") \/ Start(w, j, "accept", 0, ask[j], "none")
    BY DEF Answer
  <2> QED BY <2>1, <2>2, Starts DEF Safe, Points
<1> QED BY <1>1, QuietStep DEF Answer, Safe, RowsWell, QueuesWell

LEMMA AcceptStep ==
    ASSUME Safe, NEW w \in Walkers, Accept(w) PROVE SafeStep
<1> DEFINE j == walk[w].job
<1>1. walk[w].pc = "accept" /\ j \in Jobs /\ Free(j, w)
  BY DEF Accept, Safe, WalksWell
<1>2. WalksWell' /\ OnlyMoves(w)
  BY <1>1, GoesOn, Rests DEF Accept, Safe, Points, Nodes
<1>3. UNCHANGED <<lock, asks, parks, task>> /\ QueuesWell'
  BY DEF Accept, Safe, QueuesWell
<1>4. CASE UNCHANGED <<job, ask>>
  BY <1>1, <1>2, <1>3, <1>4, QuietStep DEF Safe, RowsWell
<1>5. CASE /\ job[j].status \in Sources("RUNNING") /\ Move(j, "RUNNING")
           /\ ask' = IF ask[j] = walk[w].from THEN [ask EXCEPT ![j] = 0] ELSE ask
  <2>1. Live(j) /\ "RUNNING" \in Statuses \ (Terminal \cup {"NONE"})
    BY <1>5 DEF Live, Terminal, Statuses, Sources
  <2>2. /\ RowStep /\ job' \in [Jobs -> Row]
        /\ \A k \in Jobs \ {j} : job'[k] = job[k]
    BY <1>1, <1>5, <2>1, MovesOn
  <2>3. ask' \in [Jobs -> Nat]
    BY <1>5 DEF Safe, RowsWell
  <2>4. RowsWell'
    BY <1>3, <2>2, <2>3 DEF Safe, RowsWell
  <2> QED BY <1>1, <1>2, <1>3, <2>2, <2>4, FreeStep
<1> QED BY <1>4, <1>5 DEF Accept

LEMMA RequestFailsStep ==
    ASSUME Safe, NEW w \in Walkers, RequestFails(w) PROVE SafeStep
<1>1. WalksWell' /\ OnlyMoves(w) /\ walk[w].pc = "raised"
  BY Rests DEF RequestFails, Safe
<1> QED BY <1>1, QuietStep DEF RequestFails, Safe, RowsWell, QueuesWell

LEMMA TerminateStep ==
    ASSUME Safe, NEW j \in Jobs, NEW keep \in Keeps, NEW lost \in Races,
           Terminate(j, keep, lost)
    PROVE  SafeStep
<1>1. /\ UNCHANGED <<walk, lock, ask, asks, parks>> /\ QueuesWell'
      /\ Live(j) /\ Free(j, NoWalker)
  BY DEF Terminate, Safe, QueuesWell
<1>2. job \in [Jobs -> Row] /\ Refund(j, lost) \in {"none", "open", "captured", "released"}
  BY DEF Refund, Safe, RowsWell, Row
<1>3. task' \in [Jobs -> Parking]
  BY DEF Terminate, NoTask, Parking, Safe, RowsWell
<1>4. "CANCELLED" \in Terminal \ {"SUCCEEDED"} /\ "CANCELLED" \in Statuses
  BY DEF Terminal, Statuses
<1> DEFINE left == IF keep THEN job[j].hold ELSE Refund(j, lost)
<1>5. left \in {"none", "open", "captured", "released"}
  BY <1>2 DEF Row
<1>6. Becomes(j, "CANCELLED", job[j].cancel, left, "ADMIN_TERMINATED")
  <2>1. job' = [job EXCEPT ![j].status = "CANCELLED", ![j].code = "ADMIN_TERMINATED",
                           ![j].hold = left]
    BY DEF Terminate
  <2> HIDE DEF left
  <2> QED BY <1>2, <1>4, <1>5, <2>1 DEF Becomes, Row
<1>7. RowStep
  <2>1. CASE keep
    BY <1>1, <1>6, <2>1 DEF RowStep, Withholds
  <2>2. CASE ~keep
    <3>1. Closed(j, "CANCELLED", job[j].cancel, lost, "ADMIN_TERMINATED")
      BY <1>1, <1>6, <2>2 DEF Closed
    <3>2. Ends(j)
      BY <1>2, <1>4, <3>1 DEF Ends, Row
    <3> QED BY <3>2 DEF RowStep
  <2> QED BY <2>1, <2>2
<1> QED BY <1>1, <1>3, <1>6, <1>7, OutsideStep DEF Becomes, Safe, RowsWell

LEMMA RequeueStep ==
    ASSUME Safe, NEW j \in Jobs, Requeue(j) PROVE SafeStep
<1>1. RowsWell' /\ QueuesWell' /\ UNCHANGED <<job, walk, lock>>
  BY Sends DEF Requeue, Safe, RowsWell, QueuesWell
<1> QED BY <1>1, OutsideStep DEF RowStep

LEMMA SelectStep ==
    ASSUME Safe, NEW j \in Jobs, SelectStale(j) \/ SelectQuestion(j) PROVE SafeStep
<1>1. ask[j] \in Nat
  BY DEF Safe, RowsWell
<1>2. RowsWell' /\ QueuesWell' /\ UNCHANGED <<job, walk, lock>>
  BY <1>1 DEF SelectStale, SelectQuestion, Safe, RowsWell, QueuesWell
<1> QED BY <1>2, OutsideStep DEF RowStep

LEMMA ExpireStaleStep ==
    ASSUME Safe, NEW j \in Jobs, NEW lost \in Races, ExpireStale(j, lost) PROVE SafeStep
<1>1. UNCHANGED <<walk, lock, asks, parks>> /\ QueuesWell' /\ Free(j, NoWalker)
  BY DEF ExpireStale, Safe, QueuesWell
<1>2. ask' \in [Jobs -> Nat] /\ task' \in [Jobs -> Parking]
  BY Drops DEF ExpireStale, Safe, RowsWell
<1>3. /\ RowStep /\ job' \in [Jobs -> Row]
      /\ \A k \in Jobs \ {j} : job'[k] = job[k]
  <2>1. CASE UNCHANGED job
    BY <2>1 DEF RowStep, Safe, RowsWell
  <2>2. CASE \/ Close(j, "CANCELLED", "", lost) \/ Close(j, "EXPIRED", "JOB_EXPIRED", lost)
    BY <2>2, ClosesDown DEF Terminal
  <2> QED BY <2>1, <2>2 DEF ExpireStale
<1>4. RowsWell'
  BY <1>1, <1>2, <1>3 DEF Safe, RowsWell
<1> QED BY <1>1, <1>3, <1>4, OutsideStep

LEMMA ExpireQuestionStep ==
    ASSUME Safe, NEW j \in Jobs, NEW lost \in Races, ExpireQuestion(j, lost) PROVE SafeStep
<1>1. /\ UNCHANGED <<walk, lock, asks, parks>> /\ QueuesWell'
      /\ UNCHANGED job \/ Free(j, NoWalker)
  BY DEF ExpireQuestion, Safe, QueuesWell
<1>2. ask' \in [Jobs -> Nat] /\ task' \in [Jobs -> Parking]
  <2>1. CASE DropParked(j)
    BY <2>1, Drops
  <2>2. CASE /\ ask' = IF ask[j] = due[j] THEN [ask EXCEPT ![j] = 0] ELSE ask
             /\ UNCHANGED task
    BY <2>2 DEF Safe, RowsWell
  <2> QED BY <2>1, <2>2 DEF ExpireQuestion
<1>3. /\ RowStep /\ job' \in [Jobs -> Row]
      /\ \A k \in Jobs \ {j} : job'[k] = job[k]
  <2>1. CASE UNCHANGED job
    BY <2>1 DEF RowStep, Safe, RowsWell
  <2>2. CASE \/ Close(j, "CANCELLED", "", lost)
             \/ Close(j, "EXPIRED", "INPUT_REQUEST_EXPIRED", lost)
    BY <2>2, ClosesDown DEF Terminal
  <2> QED BY <2>1, <2>2 DEF ExpireQuestion
<1>4. RowsWell'
  BY <1>1, <1>2, <1>3 DEF Safe, RowsWell
<1> QED BY <1>1, <1>3, <1>4, OutsideStep

(* The whole next-state relation, action by action.                        *)
LEMMA EveryStepIsSafe ==
    ASSUME Safe, [Next]_vars PROVE SafeStep
<1>1. CASE UNCHANGED vars
  BY <1>1 DEF vars, SafeStep, Safe, RowStep, WalksWell, RowsWell, QueuesWell, LocksWell
<1>2. ASSUME NEW w \in Walkers, Walk(w) PROVE SafeStep
  <2>1. ASSUME NEW lost \in Races, Honor(w, lost) \/ Fail(w, lost) \/ OnFailure(w, lost)
        PROVE  SafeStep
    BY <2>1, HonorStep, FailStep, OnFailureStep
  <2> QED BY <1>2, <2>1, CheckStep, BeginStep, PlanStep, AskStep, GenerateStep,
             SubmitStep, ResultStep, ParkStep, QualityStep, SettleStep, DoneStep,
             AcceptStep, ParkForRetryStep, RequestFailsStep
          DEF Walk
<1>3. ASSUME NEW w \in Walkers, Raise(w) \/ Crash(w) \/ Redeliver(w) PROVE SafeStep
  BY <1>3, RaiseStep, CrashStep, RedeliverStep
<1>4. ASSUME NEW w \in Walkers, NEW j \in Jobs,
             Deliver(w, j) \/ Advance(w, j) \/ Answer(w, j)
      PROVE  SafeStep
  BY <1>4, DeliverStep, AdvanceStep, AnswerStep
<1>5. ASSUME NEW j \in Jobs, NEW lost \in Races, Enqueue(j, lost) PROVE SafeStep
  BY <1>5, EnqueueStep
<1>6. ASSUME NEW j \in Jobs, Sweep(j) PROVE SafeStep
  BY <1>6, SelectStep, ExpireStaleStep, ExpireQuestionStep DEF Sweep
<1>7. ASSUME NEW j \in Jobs, Request(j) PROVE SafeStep
  BY <1>7, CreateStep, RequeueStep, CancelStep, TerminateStep DEF Request
<1> QED BY <1>1, <1>2, <1>3, <1>4, <1>5, <1>6, <1>7 DEF Next

-----------------------------------------------------------------------------
(* The theorems *)

LEMMA SafeInit == Init => Safe
<1> SUFFICES ASSUME Init PROVE Safe
  OBVIOUS
<1>1. WalksWell
  BY DEF Init, WalksWell, Idle, Position, Points, Nodes
<1>2. RowsWell
  BY DEF Init, RowsWell, Row, Parking, NoTask, Statuses
<1>3. QueuesWell /\ LocksWell
  BY DEF Init, QueuesWell, LocksWell
<1> QED BY <1>1, <1>2, <1>3 DEF Safe

LEMMA InitialRows ==
    Init => \A j \in Jobs : /\ job[j].status = "NONE" /\ job[j].hold = "none"
                            /\ job[j].code = ""
<1> DEFINE row == [status |-> "NONE", cancel |-> FALSE, hold |-> "none", code |-> ""]
<1>1. row.status = "NONE" /\ row.hold = "none" /\ row.code = ""
  OBVIOUS
<1>2. Init => \A j \in Jobs : job[j] = row
  <2>1. Init => job = [j \in Jobs |-> row]
    BY DEF Init
  <2> HIDE DEF row
  <2> QED BY <2>1
<1> HIDE DEF row
<1> QED BY <1>1, <1>2

LEMMA AlwaysSafe == Spec => []Safe
<1>1. Safe /\ [Next]_vars => Safe'
  BY EveryStepIsSafe DEF SafeStep
<1> QED BY SafeInit, <1>1, PTL DEF Spec

(* Type correctness: rows, queues and walkers hold only what the code      *)
(* stores there, and a walker that is under way always has a job.          *)
THEOREM TypeCorrect == Spec => []TypeOK
<1>1. Safe => TypeOK
  BY DEF Safe, WalksWell, RowsWell, QueuesWell, TypeOK, Row, Parking, Position
<1> QED BY <1>1, AlwaysSafe, PTL

(* A job that ended keeps the status it ended with, whatever any walker,   *)
(* request, poller tick or sweeper still does about it, and whoever's      *)
(* release loses a race: the transition() that every end goes through      *)
(* ("a terminal job can never be reopened by a late provider callback").   *)
EndIsFinal == \A j \in Jobs : Ended(j) => job'[j].status = job[j].status

THEOREM EndsAreFinal == Spec => [][EndIsFinal]_vars
<1>1. Safe /\ [Next]_vars => [EndIsFinal]_vars
  <2> SUFFICES ASSUME Safe, [Next]_vars PROVE EndIsFinal
    OBVIOUS
  <2>1. RowStep
    BY EveryStepIsSafe DEF SafeStep
  <2>2. ASSUME NEW j \in Jobs, NEW k \in Jobs, Ended(k),
               Opens(j) \/ Works(j) \/ Captures(j) \/ Ends(j) \/ Withholds(j)
        PROVE  job'[k].status = job[k].status
    BY <2>2 DEF Opens, Works, Captures, Ends, Withholds, Closed, Becomes, Ended, Live,
                Terminal
  <2> QED BY <2>1, <2>2 DEF RowStep, EndIsFinal
<1> QED BY <1>1, AlwaysSafe, PTL DEF Spec

(* The question of a job that waits goes only with the wait.               *)
LEMMA AsksStay ==
    ASSUME AwaitingHasQuestion, NEW j \in Jobs, UNCHANGED ask,
           \A k \in Jobs \ {j} : job'[k] = job[k],
           job'[j].status \in {job[j].status} \cup (Statuses \ {"AWAITING_INPUT"})
    PROVE  AwaitingHasQuestion'
BY DEF AwaitingHasQuestion

LEMMA MovesAway ==
    ASSUME Safe, AwaitingHasQuestion, NEW j \in Jobs, UNCHANGED ask,
           NEW target \in Statuses \ {"AWAITING_INPUT"}, Move(j, target)
    PROVE  AwaitingHasQuestion'
BY Moves, AsksStay DEF Safe, RowsWell, Becomes

(* What is closed does not wait, whether its question goes or stays.       *)
LEMMA ClosesAway ==
    ASSUME Safe, AwaitingHasQuestion, NEW j \in Jobs, NEW lost \in Races,
           NEW target \in Terminal \ {"SUCCEEDED"},
           NEW code \in {"", "ENQUEUE_FAILED", "JOB_EXPIRED", "INPUT_REQUEST_EXPIRED"},
           Close(j, target, code, lost), \A k \in Jobs \ {j} : ask'[k] = ask[k]
    PROVE  AwaitingHasQuestion'
<1>1. job \in [Jobs -> Row] /\ target \in Terminal /\ lost \in BOOLEAN
  BY DEF Safe, RowsWell
<1>2. Closed(j, target, job[j].cancel, lost, code)
  BY <1>1, Closes
<1>3. job'[j].status # "AWAITING_INPUT"
  BY <1>1, <1>2 DEF Closed, Becomes, Live, Terminal
<1> QED BY <1>2, <1>3 DEF Closed, Becomes, AwaitingHasQuestion

LEMMA WalksKeepQuestions ==
    ASSUME Safe, AwaitingHasQuestion, NEW w \in Walkers, Walk(w)
    PROVE  AwaitingHasQuestion'
<1> DEFINE j == walk[w].job
<1>1. walk[w].pc # "idle" => j \in Jobs
  BY DEF Safe, WalksWell
<1>2. CASE UNCHANGED <<job, ask>>
  BY <1>2 DEF AwaitingHasQuestion
<1>3. CASE Begin(w)
  BY <1>1, <1>2, <1>3, MovesAway DEF Begin, At, Statuses
<1>4. CASE Ask(w)
  <2>1. CASE ask' = [ask EXCEPT ![j] = asks[j] + 1] /\ Move(j, "AWAITING_INPUT")
    <3>1. j \in Jobs /\ asks[j] + 1 # 0
      BY <1>1, <1>4 DEF Ask, At, Safe, RowsWell
    <3> HIDE DEF j
    <3> QED BY <2>1, <3>1, Moves DEF Safe, RowsWell, Becomes, AwaitingHasQuestion, Statuses
  <2> QED BY <1>2, <1>4, <2>1 DEF Ask
<1>5. CASE Generate(w)
  BY <1>1, <1>2, <1>5, MovesAway DEF Generate, At, Statuses
<1>6. CASE Result(w)
  BY <1>1, <1>2, <1>6, MovesAway DEF Result, Statuses
<1>7. CASE Settle(w)
  <2>1. CASE job' = [job EXCEPT ![j].hold = "captured", ![j].status = "SUCCEEDED"]
    <3>1. j \in Jobs /\ job \in [Jobs -> Row] /\ UNCHANGED ask
      BY <1>1, <1>7 DEF Settle, At, Safe, RowsWell
    <3> HIDE DEF j
    <3> QED BY <2>1, <3>1 DEF AwaitingHasQuestion, Row
  <2> QED BY <1>2, <1>7, <2>1 DEF Settle
<1>8. CASE Accept(w)
  <2>1. CASE /\ Move(j, "RUNNING")
             /\ ask' = IF ask[j] = walk[w].from THEN [ask EXCEPT ![j] = 0] ELSE ask
    <3>1. j \in Jobs
      BY <1>1, <1>8 DEF Accept
    <3> HIDE DEF j
    <3> QED BY <2>1, <3>1, Moves DEF Safe, RowsWell, Becomes, AwaitingHasQuestion, Statuses
  <2> QED BY <1>2, <1>8, <2>1 DEF Accept
<1>9. ASSUME NEW lost \in Races, Honor(w, lost) PROVE AwaitingHasQuestion'
  <2>1. j \in Jobs /\ \A k \in Jobs \ {j} : ask'[k] = ask[k]
    BY <1>1, <1>9 DEF Honor, DropParked, Safe, RowsWell
  <2> QED BY <1>9, <2>1, ClosesAway DEF Honor, Terminal
<1>10. ASSUME NEW lost \in Races, Fail(w, lost) \/ OnFailure(w, lost)
       PROVE  AwaitingHasQuestion'
  <2>1. j \in Jobs /\ UNCHANGED ask
    BY <1>1, <1>10 DEF Fail, OnFailure, At
  <2> QED BY <1>2, <1>10, <2>1, ClosesAway DEF Fail, OnFailure, Terminal
<1>11. CASE Check(w) \/ Plan(w) \/ Submit(w) \/ Park(w) \/ Quality(w) \/ Done(w)
            \/ ParkForRetry(w) \/ RequestFails(w)
  BY <1>2, <1>11 DEF Check, Plan, Submit, Park, Quality, Done, ParkForRetry, RequestFails
<1> QED BY <1>3, <1>4, <1>5, <1>6, <1>7, <1>8, <1>9, <1>10, <1>11 DEF Walk

LEMMA RequestsKeepQuestions ==
    ASSUME Safe, AwaitingHasQuestion, NEW j \in Jobs,
           Sweep(j) \/ Request(j) \/ \E lost \in Races : Enqueue(j, lost)
    PROVE  AwaitingHasQuestion'
<1>1. job \in [Jobs -> Row] /\ ask \in [Jobs -> Nat]
  BY DEF Safe, RowsWell
<1>2. CASE UNCHANGED <<job, ask>>
  BY <1>2 DEF AwaitingHasQuestion
<1>3. ASSUME NEW lost \in Races, Enqueue(j, lost) PROVE AwaitingHasQuestion'
  BY <1>2, <1>3, ClosesAway DEF Enqueue, Terminal
<1>4. CASE Create(j)
  BY <1>1, <1>4 DEF Create, AwaitingHasQuestion, Row
<1>5. ASSUME NEW lost \in Races, Cancel(j, lost) PROVE AwaitingHasQuestion'
  <2>1. CASE /\ DropParked(j)
             /\ job' = [job EXCEPT ![j].cancel = TRUE, ![j].hold = Refund(j, lost),
                                   ![j].status = "CANCELLED"]
    BY <1>1, <2>1 DEF DropParked, AwaitingHasQuestion, Row
  <2>2. CASE job' = [job EXCEPT ![j].cancel = TRUE] /\ UNCHANGED ask
    BY <1>1, <2>2 DEF AwaitingHasQuestion, Row
  <2> QED BY <1>5, <2>1, <2>2 DEF Cancel
<1>6. ASSUME NEW keep \in Keeps, NEW lost \in Races, Terminate(j, keep, lost)
      PROVE  AwaitingHasQuestion'
  <2>1. \A k \in Jobs \ {j} : job'[k] = job[k]
    BY <1>1, <1>6 DEF Terminate
  <2>2. job'[j].status = "CANCELLED"
    BY <1>1, <1>6 DEF Terminate, Row
  <2> QED BY <1>6, <2>1, <2>2 DEF Terminate, AwaitingHasQuestion
<1>7. ASSUME NEW lost \in Races, ExpireStale(j, lost) PROVE AwaitingHasQuestion'
  <2>1. CASE Close(j, "CANCELLED", "", lost) \/ Close(j, "EXPIRED", "JOB_EXPIRED", lost)
    <3>1. \A k \in Jobs \ {j} : ask'[k] = ask[k]
      BY <1>1, <1>7 DEF ExpireStale, DropParked
    <3> QED BY <2>1, <3>1, ClosesAway DEF Terminal
  <2> QED BY <1>2, <1>7, <2>1 DEF ExpireStale
<1>8. ASSUME NEW lost \in Races, ExpireQuestion(j, lost) PROVE AwaitingHasQuestion'
  <2>1. \A k \in Jobs \ {j} : ask'[k] = ask[k]
    BY <1>1, <1>8 DEF ExpireQuestion, DropParked
  <2>2. CASE \/ Close(j, "CANCELLED", "", lost)
             \/ Close(j, "EXPIRED", "INPUT_REQUEST_EXPIRED", lost)
    BY <2>1, <2>2, ClosesAway DEF Terminal
  <2>3. CASE Ended(j) /\ UNCHANGED job
    BY <2>1, <2>3 DEF Ended, Terminal, AwaitingHasQuestion
  <2> QED BY <1>8, <2>2, <2>3 DEF ExpireQuestion
<1>9. CASE SelectStale(j) \/ SelectQuestion(j) \/ Requeue(j)
  BY <1>2, <1>9 DEF SelectStale, SelectQuestion, Requeue
<1> QED BY <1>3, <1>4, <1>5, <1>6, <1>7, <1>8, <1>9 DEF Sweep, Request

(* A job that waits for its author always has its question, for any number *)
(* of walkers and requests: _suspend commits the two together, and every   *)
(* deletion of the row goes with a status that is not AWAITING_INPUT.      *)
THEOREM WaitsAreAnswerable == Spec => []AwaitingHasQuestion
<1>1. Init => AwaitingHasQuestion
  BY InitialRows DEF AwaitingHasQuestion
<1>2. AwaitingHasQuestion /\ Safe /\ [Next]_vars => AwaitingHasQuestion'
  <2> SUFFICES ASSUME AwaitingHasQuestion, Safe, [Next]_vars PROVE AwaitingHasQuestion'
    OBVIOUS
  <2>1. CASE UNCHANGED vars
    BY <2>1 DEF vars, AwaitingHasQuestion
  <2>2. ASSUME NEW w \in Walkers, Raise(w) \/ Crash(w) \/ Redeliver(w)
        PROVE  AwaitingHasQuestion'
    BY <2>2 DEF Raise, Crash, Redeliver, AwaitingHasQuestion
  <2>3. ASSUME NEW w \in Walkers, NEW j \in Jobs,
               Deliver(w, j) \/ Advance(w, j) \/ Answer(w, j)
        PROVE  AwaitingHasQuestion'
    BY <2>3 DEF Deliver, Advance, Answer, AwaitingHasQuestion
  <2> QED BY <2>1, <2>2, <2>3, WalksKeepQuestions, RequestsKeepQuestions DEF Next
<1> QED BY <1>1, <1>2, AlwaysSafe, PTL DEF Spec

-----------------------------------------------------------------------------
(* The settlement, and the contract.  Both suppose that a release does not *)
(* lose a race (Races = {FALSE}), as the properties say of themselves.     *)

Consistent(j) ==
    /\ job[j].hold = "captured" <=> job[j].status = "SUCCEEDED"
    /\ job[j].hold = "released" => job[j].status \in Terminal \ {"SUCCEEDED"}
    /\ job[j].hold = "open" /\ Ended(j) => job[j].code = "ADMIN_TERMINATED"
    /\ job[j].hold = "none" <=> job[j].status = "NONE"
    /\ job[j].code = "ADMIN_TERMINATED" => Ended(j)

Settled == \A j \in Jobs : Consistent(j)

(* Which deal a consistent row stands for.                                 *)
DealFits(j) ==
    /\ DealOf(j) = "none" <=> job[j].status = "NONE"
    /\ DealOf(j) = "open" <=> Live(j)
    /\ DealOf(j) = "billed" <=> job[j].status = "SUCCEEDED"
    /\ DealOf(j) = "returned" <=>
          job[j].status \in Terminal \ {"SUCCEEDED"} /\ job[j].hold = "released"
    /\ DealOf(j) = "kept" <=>
          job[j].status \in Terminal \ {"SUCCEEDED"} /\ job[j].hold = "open"
    /\ DealOf(j) \in {"none", "open", "billed", "returned", "kept"}

DealsFit == \A j \in Jobs : job[j] \in Row /\ Consistent(j) => DealFits(j)

LEMMA Deals == DealsFit
<1> SUFFICES ASSUME NEW j \in Jobs, job[j] \in Row, Consistent(j) PROVE DealFits(j)
  BY DEF DealsFit
<1>1. CASE job[j].status = "NONE"
  BY <1>1 DEF Consistent, DealOf, Live, Ended, Terminal, DealFits
<1>2. CASE Live(j)
  <2>1. job[j].hold = "open" /\ job[j].status # "NONE"
    BY <1>2 DEF Consistent, Live, Terminal, Row
  <2>2. ~ Ended(j) /\ job[j].code # "ADMIN_TERMINATED"
    BY <1>2 DEF Consistent, Live, Ended
  <2> QED BY <1>2, <2>1, <2>2 DEF DealOf, Ended, Terminal, DealFits
<1>3. CASE job[j].status = "SUCCEEDED"
  BY <1>3 DEF Consistent, DealOf, Live, Ended, Terminal, Row, DealFits
<1>4. CASE job[j].status \in Terminal \ {"SUCCEEDED"}
  BY <1>4 DEF Consistent, DealOf, Live, Ended, Terminal, Row, DealFits
<1> QED BY <1>1, <1>2, <1>3, <1>4 DEF Live

LEMMA DealsNext == DealsFit'
BY Deals, PTL

(* A step keeps the row consistent, and the deal moves as the contract     *)
(* lets it or not at all.                                                  *)
DealMoves(j) ==
    \/ DealOf(j)' = DealOf(j)
    \/ DealOf(j) = "none" /\ DealOf(j)' = "open"
    \/ DealOf(j) = "open" /\ DealOf(j)' \in {"billed", "returned", "kept"}
    \/ DealOf(j) = "kept" /\ DealOf(j)' = "returned"

LEMMA StepIsDeal ==
    ASSUME Races = {FALSE}, job \in [Jobs -> Row], Settled, NEW j \in Jobs,
           Opens(j) \/ Works(j) \/ Captures(j) \/ Ends(j) \/ Withholds(j)
    PROVE  Settled' /\ DealMoves(j) /\ \A k \in Jobs \ {j} : DealOf(k)' = DealOf(k)
<1>1. /\ \A k \in Jobs \ {j} : job'[k] = job[k]
      /\ job[j] \in Row /\ job'[j] \in Row
  BY DEF Opens, Works, Captures, Ends, Withholds, Closed, Becomes
<1>2. Consistent(j) /\ DealFits(j)
  BY <1>1, Deals DEF Settled, DealsFit
<1>3. Consistent(j)' => DealFits(j)'
  BY <1>1, DealsNext DEF DealsFit
<1>4. Consistent(j)' /\ DealMoves(j)
  <2>1. CASE Opens(j)
    <3>1. /\ job[j].status = "NONE" /\ job'[j].status = "CREATED"
          /\ job'[j].hold = "open" /\ job'[j].code = job[j].code
      BY <2>1 DEF Opens, Becomes
    <3>2. Consistent(j)'
      BY <1>2, <3>1 DEF Consistent, Ended, Terminal
    <3> QED BY <1>2, <1>3, <3>1, <3>2 DEF Live, Terminal, DealFits, DealMoves
  <2>2. CASE Works(j)
    <3>1. /\ Live(j) /\ job'[j].status \notin Terminal \cup {"NONE"}
          /\ job'[j].hold = job[j].hold /\ job'[j].code = job[j].code
      BY <2>2 DEF Works, Becomes
    <3>2. Consistent(j)'
      BY <1>1, <1>2, <3>1 DEF Consistent, Live, Ended, Terminal, Row
    <3> QED BY <1>2, <1>3, <3>1, <3>2 DEF Live, DealFits, DealMoves
  <2>3. CASE Captures(j)
    <3>1. /\ Live(j) /\ job'[j].status = "SUCCEEDED"
          /\ job'[j].hold = "captured" /\ job'[j].code = job[j].code
      BY <2>3 DEF Captures, Becomes
    <3>2. Consistent(j)'
      BY <1>2, <3>1 DEF Consistent, Live, Ended, Terminal
    <3> QED BY <1>2, <1>3, <3>1, <3>2 DEF DealFits, DealMoves
  <2>4. CASE Ends(j)
    <3>1. PICK status \in Terminal \ {"SUCCEEDED"},
               code \in {"", "ENQUEUE_FAILED", "ADMIN_TERMINATED",
                        "JOB_EXPIRED", "INPUT_REQUEST_EXPIRED"} :
            /\ job'[j].status = IF Live(j) THEN status ELSE job[j].status
            /\ job'[j].code = IF Live(j) THEN code ELSE job[j].code
            /\ job'[j].hold = IF job[j].hold = "open" THEN "released" ELSE job[j].hold
      BY <2>4 DEF Ends, Closed, Becomes, Refund
    <3>2. CASE Live(j)
      <4>1. job[j].hold = "open"
        BY <1>1, <1>2, <3>2 DEF Consistent, Live, Ended, Terminal, Row
      <4>2. Consistent(j)'
        BY <3>1, <3>2, <4>1 DEF Consistent, Live, Ended, Terminal
      <4> QED BY <1>2, <1>3, <3>1, <3>2, <4>1, <4>2 DEF DealFits, DealMoves
    <3>3. CASE ~ Live(j)
      <4>1. Consistent(j)'
        BY <1>2, <3>1, <3>3 DEF Consistent, Live, Ended, Terminal
      <4> QED BY <1>1, <1>2, <1>3, <3>1, <3>3, <4>1
              DEF Consistent, Live, Ended, Terminal, Row, DealFits, DealMoves
    <3> QED BY <3>2, <3>3
  <2>5. CASE Withholds(j)
    <3>1. /\ Live(j) /\ job'[j].status = "CANCELLED"
          /\ job'[j].hold = job[j].hold /\ job'[j].code = "ADMIN_TERMINATED"
      BY <2>5 DEF Withholds, Becomes
    <3>2. job[j].hold = "open"
      BY <1>1, <1>2, <3>1 DEF Consistent, Live, Ended, Terminal, Row
    <3>3. Consistent(j)'
      BY <3>1, <3>2 DEF Consistent, Ended, Terminal
    <3> QED BY <1>2, <1>3, <3>1, <3>2, <3>3 DEF DealFits, DealMoves, Terminal
  <2> QED BY <2>1, <2>2, <2>3, <2>4, <2>5
<1>5. \A k \in Jobs \ {j} : Consistent(k)' /\ DealOf(k)' = DealOf(k)
  <2> TAKE k \in Jobs \ {j}
  <2>1. job'[k] = job[k]
    BY <1>1
  <2>2. Live(k)' = Live(k) /\ Ended(k)' = Ended(k)
    BY <2>1 DEF Live, Ended
  <2>3. Consistent(k)
    BY DEF Settled
  <2> QED BY <2>1, <2>2, <2>3 DEF Consistent, DealOf
<1> QED BY <1>4, <1>5 DEF Settled

LEMMA InitiallySettled == Init => Settled /\ \A j \in Jobs : DealOf(j) = "none"
<1> SUFFICES ASSUME Init PROVE Settled /\ \A j \in Jobs : DealOf(j) = "none"
  OBVIOUS
<1>1. \A j \in Jobs : job[j].status = "NONE" /\ job[j].hold = "none" /\ job[j].code = ""
  BY InitialRows
<1>2. Settled
  BY <1>1 DEF Settled, Consistent, Ended, Terminal
<1>3. \A j \in Jobs : DealOf(j) = "none"
  BY <1>1 DEF DealOf, Live, Ended, Terminal
<1> QED BY <1>2, <1>3

LEMMA AlwaysSettled ==
    ASSUME Races = {FALSE} PROVE Spec => []Settled
<1>1. Settled /\ Safe /\ [Next]_vars => Settled'
  <2> SUFFICES ASSUME Settled, Safe, [Next]_vars PROVE Settled'
    OBVIOUS
  <2>1. RowStep
    BY EveryStepIsSafe DEF SafeStep
  <2>2. CASE UNCHANGED job
    BY <2>2 DEF Settled, Consistent, Ended
  <2>3. CASE ~ UNCHANGED job
    BY <2>1, <2>3, StepIsDeal DEF RowStep, Safe, RowsWell
  <2> QED BY <2>2, <2>3
<1>2. Init => Settled
  BY InitiallySettled
<1> QED BY <1>1, <1>2, AlwaysSafe, PTL DEF Spec

(* The credits are captured exactly when the job succeeded and released    *)
(* only when it failed, expired or was cancelled, and no ended job keeps   *)
(* its reserve open but one an operator terminated: execute_settle_success *)
(* commits the capture with the status, and every other end releases       *)
(* before it moves the status.                                             *)
THEOREM SettledAsItEnded ==
    ASSUME Races = {FALSE} PROVE Spec => []SettledWithOutcome
<1>1. Settled => SettledWithOutcome
  BY DEF Settled, Consistent, SettledWithOutcome
<1> QED BY <1>1, AlwaysSettled, PTL

(* Every step of the lifecycle is a step of the contract or none.          *)
LEMMA StepSimulation ==
    ASSUME Races = {FALSE}, Safe, Settled, [Next]_vars
    PROVE  [Contract!Next]_(Contract!vars)
<1> DEFINE d == [j \in Jobs |-> DealOf(j)]
           e == [j \in Jobs |-> DealOf(j)']
<1>1. RowStep
  BY EveryStepIsSafe DEF SafeStep
<1>2. CASE UNCHANGED job
  <2>1. \A j \in Jobs : DealOf(j)' = DealOf(j)
    BY <1>2 DEF DealOf, Live, Ended
  <2> QED BY <2>1 DEF Contract!vars
<1>3. CASE ~ UNCHANGED job
  <2>1. PICK j \in Jobs : DealMoves(j) /\ \A k \in Jobs \ {j} : DealOf(k)' = DealOf(k)
    BY <1>1, <1>3, StepIsDeal DEF RowStep, Safe, RowsWell
  <2>2. d[j] = DealOf(j) /\ e = [d EXCEPT ![j] = DealOf(j)']
    BY <2>1
  <2> HIDE DEF d, e
  <2>3. CASE DealOf(j)' = DealOf(j)
    BY <2>2, <2>3 DEF d, e, Contract!vars
  <2>4. CASE DealOf(j) = "none" /\ DealOf(j)' = "open"
    <3>1. Contract!Reserve(j)
      BY <2>2, <2>4 DEF d, e, Contract!Reserve, Contract!Becomes
    <3> QED BY <3>1 DEF Contract!Next
  <2>5. CASE DealOf(j) = "open" /\ DealOf(j)' \in {"billed", "returned", "kept"}
    <3>1. Contract!Bill(j) \/ Contract!Return(j) \/ Contract!Keep(j)
      BY <2>2, <2>5 DEF d, e, Contract!Bill, Contract!Return, Contract!Keep,
                        Contract!Becomes
    <3> QED BY <3>1 DEF Contract!Next
  <2>6. CASE DealOf(j) = "kept" /\ DealOf(j)' = "returned"
    <3>1. Contract!Return(j)
      BY <2>2, <2>6 DEF d, e, Contract!Return, Contract!Becomes
    <3> QED BY <3>1 DEF Contract!Next
  <2> QED BY <2>1, <2>3, <2>4, <2>5, <2>6 DEF DealMoves
<1> QED BY <1>2, <1>3

(* The job lifecycle implements the submitter's contract: the credits move *)
(* once, in the step that ends the job, as the job ended, for any number   *)
(* of jobs, workers, ticks, sessions, retries, redeliveries and faults.    *)
THEOREM LifecycleImplementsContract ==
    ASSUME Races = {FALSE} PROVE Spec => ImplementsContract
<1>1. Init => Contract!Init
  BY InitiallySettled DEF Contract!Init
<1>2. Safe /\ Settled /\ [Next]_vars => [Contract!Next]_(Contract!vars)
  BY StepSimulation
<1> QED BY <1>1, <1>2, AlwaysSafe, AlwaysSettled, PTL
        DEF Spec, ImplementsContract, Contract!Spec
=============================================================================
