------------------------------ MODULE JobStream -----------------------------
(***************************************************************************)
(* A page that follows a generation job: lib/use-job-stream against the    *)
(* event stream and the detail endpoint of api/v1/jobs, on a page that may *)
(* be turned to another job while answers about the first are on the way.  *)
(*                                                                         *)
(* An event is its status and progress; its place in the log is its        *)
(* sequence number.  The live-only thinking frames carry no state.         *)
(***************************************************************************)
EXTENDS Integers, Sequences, FiniteSets, SequencesExt

CONSTANTS
    Levels,     \* the progress a running job may report
    MaxLog,     \* bound: events of both jobs, rolled back ones included
    MaxReads,   \* bound: requests under way at once
    MaxSlips    \* bound: frames, answers and connections lost
ASSUME StreamAssumption == Levels \subseteq Nat /\ MaxLog \in Nat /\ MaxReads \in Nat

VARIABLES
    jobs,       \* each job's row and events, and what was published too early
    airborne,   \* frames handed to Redis and not delivered yet
    page,       \* the state and refs of useJobStream
    conn,       \* the fetch of the stream, and the server's end of it
    reads,      \* requests for the job's record under way
    slips
streamVars == <<jobs, airborne, page, conn, reads, slips>>

Jobs == {1, 2}   \* the page opens on 1 and may be turned to 2
Over(st) == st \in {"done", "cancelled"}
Full == 100

Slip == slips < MaxSlips /\ slips' = slips + 1

-----------------------------------------------------------------------------
(* The server *)

ProgressFor(j) == IF Over(jobs[j].st) THEN Full
                  ELSE IF jobs[j].log = <<>> THEN 0
                  ELSE Last(jobs[j].log).prog

AppendEvent(j, st, prog) == Append(jobs[j].log, [st |-> st, prog |-> prog])

FrameOf(j, seq, st, prog) == [job |-> j, seq |-> seq, st |-> st, prog |-> prog]

(* Each job's row: its status, its log, how much of it there was when the  *)
(* job ended, an event published and not yet committed (one at most: the   *)
(* next would take the same number), and those published and rolled back.  *)
NewJob == [st |-> "running", log |-> <<>>, ended |-> 0, open |-> <<>>, undone |-> {}]

Used(j) == Len(jobs[j].log) + Len(jobs[j].open)
Withdrawn(j) == Cardinality(jobs[j].undone)
Writable(j) == /\ jobs[j].open = <<>>
               /\ Used(1) + Used(2) + Withdrawn(1) + Withdrawn(2) < MaxLog
NextSeq(j) == Len(jobs[j].log) + 1

Publishes(j, seq, st, prog) == airborne' = airborne \cup {FrameOf(j, seq, st, prog)}

(* _emit of a node: the event is committed, then published.  A job that    *)
(* draws several views starts over at a lower progress for each; a walk    *)
(* that is in flight when its job ends goes on reporting.                  *)
Emit(j, prog) ==
    /\ Writable(j)
    /\ jobs' = [jobs EXCEPT ![j].log = AppendEvent(j, "running", prog)]
    /\ Publishes(j, NextSeq(j), "running", prog)
    /\ UNCHANGED <<page, conn, reads, slips>>

(* The settling node: row, ledger and event in one commit.                 *)
Settles(j) ==
    /\ Writable(j) /\ ~Over(jobs[j].st)
    /\ jobs' = [jobs EXCEPT ![j].st = "done", ![j].ended = NextSeq(j),
                            ![j].log = AppendEvent(j, "done", Full)]
    /\ Publishes(j, NextSeq(j), "done", Full)
    /\ UNCHANGED <<page, conn, reads, slips>>

(* An engine failure, a dispatch failure, a sweep: no frame says so, and   *)
(* there may be no event.  A cancel under way holds the row, an event of   *)
(* the poller does not.                                                    *)
EndsUnsaid(j) ==
    /\ ~Over(jobs[j].st)
    /\ \/ /\ \A i \in DOMAIN jobs[j].open : jobs[j].open[i].st = "running"
          /\ jobs' = [jobs EXCEPT ![j].st = "done", ![j].ended = Len(jobs[j].log)]
       \/ /\ Writable(j)
          /\ jobs' = [jobs EXCEPT ![j].st = "done", ![j].ended = NextSeq(j),
                                  ![j].log = AppendEvent(j, "done", Full)]
    /\ UNCHANGED <<airborne, page, conn, reads, slips>>

(* An event published inside a transaction: a frame of a job no longer     *)
(* shown reaches nobody.                                                   *)
Opens(j, st, prog) ==
    /\ Writable(j)
    /\ jobs' = [jobs EXCEPT ![j].open = <<[st |-> st, prog |-> prog]>>]
    /\ airborne' = airborne \cup {f \in {FrameOf(j, NextSeq(j), st, prog)} : j = page.job}

(* _emit of the poller: its heartbeat, or that a route failed.             *)
Heartbeat(j, prog) ==
    /\ Opens(j, "running", prog)
    /\ UNCHANGED <<page, conn, reads, slips>>

(* The runner or a sweep honours a cancel that was requested.              *)
Honours(j) ==
    /\ ~Over(jobs[j].st) /\ Opens(j, "cancelled", Full)
    /\ UNCHANGED <<page, conn, reads, slips>>

(* cancel_job: a parked job is cancelled, a walking one is told to stop;   *)
(* a job that is over refuses.                                             *)
Cancels(r) ==
    LET j == r.job IN
    /\ r \in reads /\ r.kind = "cancel" /\ r.st = "asked"
    /\ IF Over(jobs[j].st)
       THEN reads' = reads \ {r} /\ UNCHANGED <<jobs, airborne>>
       ELSE /\ Opens(j, "cancelled", Full) \/ Opens(j, "running", ProgressFor(j))
            /\ reads' = (reads \ {r}) \cup {[r EXCEPT !.st = "held"]}
    /\ UNCHANGED <<page, conn, slips>>

Waits(r, j) == r.job = j /\ r.st = "held"

(* The transaction commits, and a request that made it is answered.        *)
CommitEvent(j) ==
    LET e == jobs[j].open[1]
        log == AppendEvent(j, e.st, e.prog)
        st == IF Over(e.st) THEN e.st ELSE jobs[j].st
        rec == [st |-> st, prog |-> IF Over(st) THEN Full ELSE e.prog,
                events |-> Len(log)]
    IN  /\ jobs[j].open # <<>>
        /\ jobs' = [jobs EXCEPT ![j].st = st, ![j].log = log, ![j].open = <<>>,
                                ![j].ended = IF Over(e.st) THEN Len(log) ELSE @]
        /\ reads' = {q \in reads : ~Waits(q, j)} \cup
                    {[q EXCEPT !.st = "answered", !.rec = rec] :
                        q \in {q \in reads : Waits(q, j)}}
        /\ UNCHANGED <<airborne, page, conn, slips>>

(* Or it does not: the process dies before it, the walk raises, or another *)
(* job of the batch does.                                                  *)
RollsBack(j) ==
    /\ Slip /\ jobs[j].open # <<>>
    /\ jobs' = [jobs EXCEPT ![j].open = <<>>,
                            ![j].undone = @ \cup {[seq |-> NextSeq(j),
                                                   st |-> jobs[j].open[1].st]}]
    /\ reads' = {q \in reads : ~Waits(q, j)}
    /\ UNCHANGED <<airborne, page, conn>>

Listens(j) == conn.st = "open" /\ conn.feed = "live" /\ conn.job = j

(* Where the generator is after what it passed on last.                    *)
FeedAfter(frames, else) ==
    IF frames # <<>> /\ Over(Last(frames).st) THEN "over" ELSE else

(* It passes on what is newer than all it has passed on, and ends with a   *)
(* terminal frame.                                                         *)
Deliver(f) ==
    /\ f \in airborne
    /\ airborne' = airborne \ {f}
    /\ conn' = IF Listens(f.job) /\ f.seq > conn.last
               THEN [conn EXCEPT !.pipe = Append(@, f), !.last = f.seq,
                                 !.feed = FeedAfter(<<f>>, @)]
               ELSE conn
    /\ UNCHANGED <<jobs, page, reads, slips>>

DeliverFails(f) ==
    /\ Slip /\ f \in airborne
    /\ airborne' = airborne \ {f}
    /\ UNCHANGED <<jobs, page, conn, reads>>

-----------------------------------------------------------------------------
(* The page's state and the two ways it is brought up to date *)

Highest(seqs, low) == IF seqs = {} THEN low
                      ELSE LET top == CHOOSE s \in seqs : \A t \in seqs : s >= t
                           IN  IF top > low THEN top ELSE low
HigherOf(a, b) == IF a > b THEN a ELSE b

(* As it would be if an answer were shown as it is.                      *)
ShowNext(current, next) == next

(* A bar never goes back while its job runs.                               *)
ClampProgress(current, next) ==
    IF current.id # next.id \/ Over(next.st) THEN next
    ELSE [next EXCEPT !.prog = HigherOf(current.prog, @)]

PatchJobFromEvent(current, f) ==
    [current EXCEPT !.st = IF Over(@) THEN @ ELSE f.st,
                    !.prog = IF Over(f.st) THEN Full ELSE HigherOf(@, f.prog)]

(* As it would be if an answer's events replaced those held.             *)
TakeEvents(current, seqs, j) == [s \in seqs |-> j]

(* An event held twice is the later one: the numbers are the keys.         *)
MergeEvents(current, seqs, j) ==
    [s \in DOMAIN current \cup seqs |-> IF s \in seqs THEN j ELSE current[s]]

(* applyLatest and applyJob: whichever job the answer is about.            *)
ApplyLatest(j, rec) ==
    LET seqs == 1 .. rec.events IN
    [page EXCEPT !.shown = ClampProgress(@, [id |-> j, st |-> rec.st, prog |-> rec.prog]),
                 !.events = MergeEvents(@, seqs, j),
                 !.lastEventId = Highest(seqs, @),
                 !.whole = @ \/ (j = page.job /\ Over(rec.st)),
                 !.mixed = @ \/ j # page.job]

ApplyFrame(f) ==
    [page EXCEPT !.lastEventId = HigherOf(@, f.seq),
                 !.mixed = @ \/ f.job # page.job,
                 !.events = MergeEvents(@, {f.seq}, f.job),
                 !.shown = IF f.seq < page.lastEventId THEN @
                           ELSE PatchJobFromEvent(@, f)]

Closed == [st |-> "closed"]
Ready(j) == [st |-> "ready", job |-> j]

Turned(j) ==
    LET st == jobs[j].st IN
    [job |-> j, shown |-> [id |-> j, st |-> st, prog |-> ProgressFor(j)],
     events |-> <<>>, lastEventId |-> 0, stopped |-> Over(st),
     whole |-> FALSE, mixed |-> FALSE]

StreamInit ==
    /\ jobs = [j \in Jobs |-> NewJob]
    /\ airborne = {}
    /\ page = [job |-> 1, shown |-> [id |-> 1, st |-> "running", prog |-> 0],
               events |-> <<>>, lastEventId |-> 0, stopped |-> FALSE,
               whole |-> FALSE, mixed |-> FALSE]
    /\ conn = Ready(1)
    /\ reads = {}
    /\ slips = 0

-----------------------------------------------------------------------------
(* Requests for the record.  One of a kind is under way for a job at a     *)
(* time: a bound on the polls.                                             *)

(* The last read of a stream keeps the rest of the frames it came in.      *)
Final(j, rest) == [kind |-> "final", job |-> j, st |-> "asked", rec |-> <<>>,
                   rest |-> rest]
Request(kind, j) == [Final(j, <<>>) EXCEPT !.kind = kind]
MayAsk == Cardinality(reads) < MaxReads
Asking(kind) == \E r \in reads : r.kind = kind /\ r.job = page.job

PollTimer ==
    /\ MayAsk /\ ~page.stopped /\ ~Asking("poll")
    /\ reads' = reads \cup {Request("poll", page.job)}
    /\ UNCHANGED <<jobs, airborne, page, conn, slips>>

Reconnects ==
    /\ MayAsk /\ conn.st = "dropped"
    /\ conn' = [st |-> "catching up", job |-> conn.job]
    /\ reads' = reads \cup {Request("reconnect", conn.job)}
    /\ UNCHANGED <<jobs, airborne, page, slips>>

AskCancel ==
    /\ MayAsk /\ ~Asking("cancel") /\ ~Over(page.shown.st)
    /\ reads' = reads \cup {Request("cancel", page.job)}
    /\ UNCHANGED <<jobs, airborne, page, conn, slips>>

(* The record, which is also the answer to a cancel that was asked before. *)
GetJob(r) ==
    /\ r \in reads /\ r.st = "asked"
    /\ reads' = (reads \ {r}) \cup
           {[r EXCEPT !.st = "answered", !.rec =
                [st |-> jobs[r.job].st, prog |-> ProgressFor(r.job),
                 events |-> Len(jobs[r.job].log)]]}
    /\ UNCHANGED <<jobs, airborne, page, conn, slips>>

(* The read between two connections is over: connect again, unless told    *)
(* the job is.                                                             *)
CaughtUp(r) == conn' = IF conn.st = "catching up" /\ r.kind = "reconnect"
                       THEN Ready(conn.job) ELSE conn

(* refreshJob is over, and the loop over the frames goes on.               *)
Resumed(r) == IF r.rest = <<>> THEN {}
              ELSE {[r EXCEPT !.st = "resumed", !.rec = <<>>]}

(* As it would be if an answer about another job ended the watch.        *)
AnsweredAnyhow(r) ==
    LET ends == Over(r.rec.st) /\ r.kind \in {"poll", "reconnect"}
        next == ApplyLatest(r.job, r.rec)
    IN  /\ r \in reads /\ r.st = "answered"
        /\ reads' = (reads \ {r}) \cup Resumed(r)
        /\ page' = IF ends THEN [next EXCEPT !.stopped = TRUE] ELSE next
        /\ IF ends THEN conn' = Closed ELSE CaughtUp(r)
        /\ UNCHANGED <<jobs, airborne, slips>>

(* The answer is shown whatever the page shows by now; it ends only the    *)
(* watch of the job it was asked for.                                      *)
Answered(r) ==
    LET ends == Over(r.rec.st) /\ r.kind \in {"poll", "reconnect"} /\ r.job = page.job
        next == ApplyLatest(r.job, r.rec)
    IN  /\ r \in reads /\ r.st = "answered"
        /\ reads' = (reads \ {r}) \cup Resumed(r)
        /\ page' = IF ends THEN [next EXCEPT !.stopped = TRUE] ELSE next
        /\ IF ends THEN conn' = Closed
           ELSE IF r.job = page.job THEN CaughtUp(r) ELSE UNCHANGED conn
        /\ UNCHANGED <<jobs, airborne, slips>>

LoseAnswer(r) ==
    /\ Slip /\ r \in reads /\ r.st \in {"asked", "answered"}
    /\ reads' = (reads \ {r}) \cup Resumed(r)
    /\ IF r.job = page.job THEN CaughtUp(r) ELSE UNCHANGED conn
    /\ UNCHANGED <<jobs, airborne, page>>

-----------------------------------------------------------------------------
(* The stream *)

Backfill(j, after) ==
    [i \in 1 .. Len(jobs[j].log) - after |->
        FrameOf(j, after + i, jobs[j].log[after + i].st, jobs[j].log[after + i].prog)]

(* The backfill is read before the generator subscribes, and one that ends *)
(* with a terminal event ends it.                                          *)
OpenEvents ==
    LET missed == Backfill(conn.job, page.lastEventId) IN
    /\ conn.st = "ready"
    /\ conn' = [st |-> "open", job |-> conn.job, feed |-> FeedAfter(missed, "backfill"),
                pipe |-> missed, last |-> page.lastEventId + Len(missed)]
    /\ UNCHANGED <<jobs, airborne, page, reads, slips>>

Subscribes ==
    /\ conn.st = "open" /\ conn.feed = "backfill"
    /\ conn' = [conn EXCEPT !.feed = "live"]
    /\ UNCHANGED <<jobs, airborne, page, reads, slips>>

(* A terminal frame ends the watch and has the record read; any number of  *)
(* the frames behind it came in the same read of the body.                 *)
ReadFrame ==
    LET f == Head(conn.pipe) IN
    /\ conn.st = "open" /\ conn.pipe # <<>>
    /\ IF Over(f.st)
       THEN /\ page' = [ApplyFrame(f) EXCEPT !.stopped = TRUE]
            /\ conn' = Closed
            /\ \E n \in 1 .. Len(conn.pipe) :
                   reads' = reads \cup {Final(conn.job, SubSeq(conn.pipe, 2, n))}
       ELSE /\ page' = ApplyFrame(f)
            /\ conn' = [conn EXCEPT !.pipe = Tail(@)]
            /\ UNCHANGED reads
    /\ UNCHANGED <<jobs, airborne, slips>>

(* The frames that came with a terminal one are read on after its record,  *)
(* whatever the page shows by then.                                        *)
ReadRest(r) ==
    LET f == Head(r.rest)
        more == [r EXCEPT !.rest = Tail(@)]
    IN  /\ r \in reads /\ r.st = "resumed"
        /\ page' = ApplyFrame(f)
        /\ reads' = (reads \ {r}) \cup
                    (IF Over(f.st) THEN {Final(r.job, more.rest)}
                     ELSE {q \in {more} : q.rest # <<>>})
        /\ UNCHANGED <<jobs, airborne, conn, slips>>

DropEvents ==
    /\ Slip /\ conn.st = "open"
    /\ conn' = [st |-> "dropped", job |-> conn.job]
    /\ UNCHANGED <<jobs, airborne, page, reads>>

(* A version picked in the strip, or a new iteration: the reset, and the   *)
(* end of the old effect.  Requests it made go on.                         *)
Turn ==
    /\ page.job = 1
    /\ page' = Turned(2)
    /\ conn' = IF page'.stopped THEN Closed ELSE Ready(2)
    /\ airborne' = {}
    /\ UNCHANGED <<jobs, reads, slips>>

-----------------------------------------------------------------------------
StreamNext ==
    \/ Settles(page.job) \/ EndsUnsaid(page.job) \/ Honours(page.job)
    \/ \E p \in Levels : Emit(page.job, p) \/ Heartbeat(page.job, p)
    \/ \E j \in Jobs : CommitEvent(j) \/ RollsBack(j)
    \/ \E f \in airborne : Deliver(f) \/ DeliverFails(f)
    \/ PollTimer \/ Reconnects \/ AskCancel
    \/ \E r \in reads : \/ GetJob(r) \/ Cancels(r) \/ Answered(r)
                        \/ LoseAnswer(r) \/ ReadRest(r)
    \/ OpenEvents \/ Subscribes \/ ReadFrame \/ DropEvents \/ Turn

StreamSpec == StreamInit /\ [][StreamNext]_streamVars

StreamTypeOK ==
    /\ \A j \in Jobs : /\ jobs[j].st \in {"running", "done", "cancelled"}
                       /\ Len(jobs[j].log) <= MaxLog
    /\ \A f \in airborne : f.job \in Jobs /\ f.seq \in 1 .. MaxLog
    /\ page.job \in Jobs /\ page.shown.id \in Jobs
    /\ page.shown.prog \in {0, Full} \cup Levels
    /\ page.lastEventId \in 0 .. MaxLog
    /\ conn.st \in {"ready", "open", "dropped", "catching up", "closed"}
    /\ Cardinality(reads) <= MaxReads + 2

(* The bar of a job that is not over never goes back, whichever of the     *)
(* stream, a poll, a reconnect and a cancel brings the news, in whatever   *)
(* order, and though the server's own progress does go back.               *)
ProgressNeverDrops ==
    [][/\ page'.job = page.job
       /\ page'.shown.id = page.shown.id
       /\ ~Over(page'.shown.st)
       => page'.shown.prog >= page.shown.prog]_streamVars

(* The numbers under which the page may have heard of an event of a job:   *)
(* its log, one that is published and not committed, and those that never  *)
(* were.                                                                   *)
Heard(j) == 1 .. Used(j) \cup {u.seq : u \in jobs[j].undone}

(* Once the page has had the record of a job that is over, it holds every  *)
(* event the job had when it ended, though frames were lost, dropped or    *)
(* overtaken: a late answer with fewer events takes none away.  And it     *)
(* holds none but the job's own: what came after the end, and what was     *)
(* published and rolled back, included.  Only an answer or a frame about   *)
(* the job shown before can blur this.                                     *)
RecordIsWhole ==
    page.whole /\ ~page.mixed =>
        /\ 1 .. jobs[page.job].ended \subseteq DOMAIN page.events
        /\ DOMAIN page.events \subseteq Heard(page.job)

CancelOpen(j) == \E i \in DOMAIN jobs[j].open : Over(jobs[j].open[i].st)
CancelUndone(j) == \E u \in jobs[j].undone : Over(u.st)

(* The page gives up watching a job, its stream and its polls, only when   *)
(* the job is over, or its cancellation was published: it is about to be   *)
(* committed, or was rolled back.                                          *)
StopsOnlyWhenOver ==
    page.stopped => \/ Over(jobs[page.job].st)
                    \/ CancelOpen(page.job) \/ CancelUndone(page.job)
=============================================================================
