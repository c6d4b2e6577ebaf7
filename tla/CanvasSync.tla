----------------------------- MODULE CanvasSync -----------------------------
(***************************************************************************)
(* A canvas open in a browser tab while other sessions and the Agent write *)
(* to it: the autosave loop of features/canvas/use-canvas-sync, the stream *)
(* of use-canvas-events and what canvas-view draws, against the change     *)
(* feed of app/domain/canvas/graph_service.                                *)
(*                                                                         *)
(* A card keeps a position and a text, the two fields the view takes from  *)
(* the server on different terms; a connection is its pair of cards.  The  *)
(* tab's code between two awaits is one step, a transaction is one step.   *)
(***************************************************************************)
EXTENDS Integers, Sequences, FiniteSets, SequencesExt, Functions

CONSTANTS
    First,      \* the card the canvas is opened with
    Mine,       \* the card the person adds, under an id minted in the tab
    Landed,     \* the card the Agent's result lands as
    MaxRead,    \* MAX_CHANGES_PER_READ
    Mixes       \* bounds: how many edits, old arrangements put back, files
                \* picked, writes of others and losses there are together

\* A read of the change log returns at most a number of changes.
ASSUME CanvasAssumption == MaxRead \in Nat

VARIABLES
    srv,    \* the rows of the canvas, its change_seq and canvas_changes
    unsent, \* committed batches of changes still to be published
    tab,    \* the refs of useCanvasSync and what the view holds
    shelf,  \* arrangements drawn before: the stacks of useGraphHistory, and
            \* the one a handler keeps over its await
    flight, \* the one request applyCanvasGraphOps has under way
    fresh,  \* the one GET reload has under way
    stream, \* the connection, its server side and the client's cursor
    past,   \* history: what has happened to this tab that it cannot see
    spent   \* bounds
canvasVars == <<srv, unsent, tab, shelf, flight, fresh, stream, past, spent>>

Cards == {First, Mine, Landed}
Link  == <<First, Mine>>  \* the connection the person may draw

-----------------------------------------------------------------------------
(* Graphs and the changes folded into them *)

Put(g, c, n) == [g EXCEPT !.nodes = [x \in DOMAIN @ \cup {c} |->
                                        IF x = c THEN n ELSE @[x]]]
Cut(g, c) == [nodes |-> Restrict(g.nodes, DOMAIN g.nodes \ {c}),
              edges |-> {e \in g.edges : c \notin {e[1], e[2]}}]

SetNode(s, c, n) == [seq |-> s, kind |-> "node", id |-> c, node |-> <<n>>]
CutNode(s, c)    == [seq |-> s, kind |-> "node", id |-> c, node |-> <<>>]
SetEdge(s, e)    == [seq |-> s, kind |-> "edge", id |-> e, set |-> TRUE]
CutEdge(s, e)    == [seq |-> s, kind |-> "edge", id |-> e, set |-> FALSE]

ApplyChange(g, ch) ==
    IF ch.kind = "node"
    THEN IF ch.node = <<>> THEN Cut(g, ch.id) ELSE Put(g, ch.id, ch.node[1])
    ELSE [g EXCEPT !.edges = IF ch.set THEN @ \cup {ch.id} ELSE @ \ {ch.id}]

ApplyChanges(g, chs) == FoldLeft(ApplyChange, g, chs)

(* Array.prototype.sort is stable: what comes later goes behind its equals. *)
InsertBySeq(sorted, ch) ==
    InsertAt(sorted, 1 + Cardinality({i \in DOMAIN sorted : sorted[i].seq <= ch.seq}), ch)
BySeq(chs) == FoldLeft(InsertBySeq, <<>>, chs)

(* The changes numbered above since, in their order.                       *)
After(chs, since) ==
    FoldLeft(LAMBDA kept, ch : IF ch.seq > since THEN Append(kept, ch) ELSE kept,
             <<>>, chs)

Higher(m, ch) == IF ch.seq > m THEN ch.seq ELSE m
HighestSeq(chs, low) == FoldLeft(Higher, low, chs)

(* The operations that carry base to next: creates, then updates, then     *)
(* deletes, each with the revision base has the card at.                   *)
Fields(a, b) == {f \in {"pos", "text"} : a[f] # b[f]}

DiffGraph(base, next) ==
    LET old   == DOMAIN base.nodes
        new   == DOMAIN next.nodes
        moved == {c \in old \cap new :
                    Fields(base.nodes[c], next.nodes[c]) # {}}
    IN  SetToSeq({[kind |-> "node.create", id |-> c, node |-> next.nodes[c]] :
                    c \in new \ old})
        \o SetToSeq({[kind |-> "edge.create", id |-> e] :
                        e \in next.edges \ base.edges})
        \o SetToSeq({[kind |-> "node.update", id |-> c,
                      rev |-> base.nodes[c].rev, node |-> next.nodes[c],
                      fields |-> Fields(base.nodes[c], next.nodes[c])] :
                        c \in moved})
        \o SetToSeq({[kind |-> "edge.delete", id |-> e] :
                        e \in base.edges \ next.edges})
        \o SetToSeq({[kind |-> "node.delete", id |-> c,
                      rev |-> base.nodes[c].rev] : c \in old \ new})

-----------------------------------------------------------------------------
(* The server: one transaction under the project row's lock *)

(* A change written at the next number, on the rows and in the log.        *)
Logged(s, ch) ==
    LET c == [ch EXCEPT !.seq = s.seq + 1] IN
    [s EXCEPT !.seq = @ + 1, !.log = Append(@, c), !.made = Append(@, c),
              !.rows = ApplyChange(@, c)]

Spends(s) == [s EXCEPT !.seq = @ + 1]   \* a number no change carries
Refused(s) == [s EXCEPT !.ok = FALSE]   \* GraphOpError: the batch is undone

Holds(s, op) == /\ op.id \in DOMAIN s.rows.nodes
                /\ s.rows.nodes[op.id].rev = op.rev

CreateNode(s, op) ==
    IF op.id \in DOMAIN s.rows.nodes THEN Refused(s)
    ELSE Logged(s, SetNode(0, op.id, [op.node EXCEPT !.rev = 1]))

(* As it would be if a stale patch were written without a change of it.  *)
UpdateUnseen(s, op) ==
    LET row == s.rows.nodes[op.id] IN
    IF op.id \notin DOMAIN s.rows.nodes THEN Spends(s)
    ELSE LET n == [f \in DOMAIN row |-> IF f = "rev" THEN row.rev + 1
                                        ELSE IF f \in op.fields THEN op.node[f]
                                        ELSE row[f]]
         IN  IF Holds(s, op) THEN Logged(s, SetNode(0, op.id, n))
             ELSE Spends([s EXCEPT !.rows = Put(@, op.id, n)])

(* A patch of a revision that is gone is a conflict of that operation.     *)
UpdateNode(s, op) ==
    IF ~Holds(s, op) THEN Spends(s)
    ELSE LET row == s.rows.nodes[op.id] IN
         Logged(s, SetNode(0, op.id,
             [f \in DOMAIN row |-> IF f = "rev" THEN row.rev + 1
                                   ELSE IF f \in op.fields THEN op.node[f]
                                   ELSE row[f]]))

(* The cascade of a card's connections is logged, or a reader of the feed  *)
(* would keep them.                                                        *)
LogCut(s, e) == Logged(s, CutEdge(0, e))
DeleteNode(s, op) ==
    IF ~Holds(s, op) THEN s
    ELSE LET attached == {e \in s.rows.edges : op.id \in {e[1], e[2]}} IN
         Logged(FoldLeft(LogCut, s, SetToSeq(attached)), CutNode(0, op.id))

CreateEdge(s, op) ==
    IF ~({op.id[1], op.id[2]} \subseteq DOMAIN s.rows.nodes) THEN Refused(s)
    ELSE IF op.id \in s.rows.edges THEN Spends(s)
    ELSE Logged(s, SetEdge(0, op.id))

DeleteEdge(s, op) ==
    IF op.id \in s.rows.edges THEN Logged(s, CutEdge(0, op.id)) ELSE s

ApplyOp(s, op) ==
    IF ~s.ok THEN s
    ELSE CASE op.kind = "node.create" -> CreateNode(s, op)
           [] op.kind = "node.update" -> UpdateNode(s, op)
           [] op.kind = "node.delete" -> DeleteNode(s, op)
           [] op.kind = "edge.create" -> CreateEdge(s, op)
           [] op.kind = "edge.delete" -> DeleteEdge(s, op)

Begun(s) == [rows |-> s.rows, seq |-> s.seq, log |-> s.log, made |-> <<>>, ok |-> TRUE]

ApplyOps(s, ops) == FoldLeft(ApplyOp, Begun(s), ops)

Rows(s) == [rows |-> s.rows, seq |-> s.seq, log |-> s.log]

(* What a reader at since is given, or that it must read the canvas whole. *)
ChangesSince(s, since) ==
    LET missed == After(s.log, since) IN
    [missed |-> missed,
     gap |-> \/ Len(missed) > MaxRead
             \/ /\ since > 0 /\ missed # <<>>
                /\ s.log[1].seq > since + 1]

-----------------------------------------------------------------------------
(* The tab *)

NoGraph == <<>>

(* setGraph, as far as the view is concerned: it takes the graph up only   *)
(* when the cards or their positions differ from the graph it took last,   *)
(* and keeps the texts it holds.                                           *)
Positions(g) == [c \in DOMAIN g.nodes |-> g.nodes[c].pos]

SetGraph(t, g) ==
    IF Positions(g) = t.drawn THEN t
    ELSE [t EXCEPT !.drawn = Positions(g),
                   !.view = [g EXCEPT !.nodes =
                       [c \in DOMAIN @ |->
                           IF c \in DOMAIN t.view.nodes
                           THEN [@[c] EXCEPT !.text = t.view.nodes[c].text]
                           ELSE @[c]]]]

(* The changes that left a card with this row.                             *)
Writings(c, n) == {i \in DOMAIN srv.log : /\ srv.log[i].kind = "node"
                                          /\ srv.log[i].id = c
                                          /\ srv.log[i].node = <<n>>}

(* A card is older in g than in base: no transaction wrote its row, or the *)
(* row base has was written after it, in this life of the card or another. *)
Older(g, base) ==
    \E c \in DOMAIN g.nodes :
        \/ Writings(c, g.nodes[c]) = {}
        \/ /\ c \in DOMAIN base.nodes
           /\ \E j \in Writings(c, base.nodes[c]) :
                  \A i \in Writings(c, g.nodes[c]) : i < j

(* baseRef and seqRef, taken from an arrangement of the view.  aged is set *)
(* when that makes a card older than it was, or when frames are folded in  *)
(* ahead of older ones kept back; gapped, when an answer had a gap.        *)
Hold(t, g, seq) ==
    [t EXCEPT !.base = g, !.seq = seq, !.aged = @ \/ Older(g, t.base)]

(* As it would be if the view were not told of what was adopted.         *)
AdoptUnseen(t, g, seq) == [t EXCEPT !.base = g, !.seq = seq]

Adopt(t, g, seq) == SetGraph([t EXCEPT !.base = g, !.seq = seq], g)

(* Changes folded over the acknowledged graph, in a tab with no write of   *)
(* its own waiting.                                                        *)
FoldIn(t, chs, seq) ==
    Adopt(t, ApplyChanges(t.base, chs), IF seq > t.seq THEN seq ELSE t.seq)

Busy == flight.st # "none"

(* pump, run by a save or by the end of a flush: sends what base lacks.    *)
Pump(t) ==
    LET desired == t.queue[1]
        ops == DiffGraph(t.base, desired)
        idle == [t EXCEPT !.queue = NoGraph]
    IN  IF ops = <<>>
        THEN /\ tab' = SetGraph(Hold(idle, desired, t.seq), desired)
             /\ flight' = [st |-> "none"]
        ELSE /\ tab' = idle
             /\ flight' = [st |-> "sent", desired |-> desired, ops |-> ops,
                           since |-> t.seq]

(* As it would be if frames kept back were not taken up ...              *)
SettleAside(t) ==
    IF t.queue # NoGraph THEN Pump(t)
    ELSE flight' = [st |-> "none"] /\ tab' = t

(* ... or were dropped.                                                  *)
SettleAfresh(t) ==
    IF t.queue # NoGraph THEN Pump(t)
    ELSE flight' = [st |-> "none"] /\ tab' = [t EXCEPT !.deferred = <<>>]

(* The end of a flush: the queue first, then the frames kept back.         *)
Settle(t) ==
    IF t.queue # NoGraph THEN Pump(t)
    ELSE /\ flight' = [st |-> "none"]
         /\ tab' = IF t.deferred = <<>> THEN t
                   ELSE FoldIn([t EXCEPT !.deferred = <<>>], t.deferred,
                               HighestSeq(t.deferred, 0))

(* A commit of the view: the newest arrangement replaces any that waits.   *)
(* The view may be an old arrangement put back, see below.                 *)
Save(t) ==
    LET queued == [t EXCEPT !.queue = <<t.view>>] IN
    IF Busy THEN tab' = queued /\ UNCHANGED flight ELSE Pump(queued)

-----------------------------------------------------------------------------
CanvasInit ==
    LET one == [nodes |-> [c \in {First} |-> [rev |-> 1, pos |-> 0, text |-> 0]],
                edges |-> {}]
    IN  /\ srv = [rows |-> one, seq |-> 1,
                  log |-> <<SetNode(1, First, one.nodes[First])>>]
        /\ unsent = <<>>
        /\ tab = [base |-> one, seq |-> 1, queue |-> NoGraph, deferred |-> <<>>,
                  view |-> one, drawn |-> Positions(one), typing |-> FALSE,
                  minted |-> FALSE, aged |-> FALSE, gapped |-> FALSE]
        /\ shelf = [undos |-> <<>>, redos |-> <<>>, held |-> NoGraph]
        /\ flight = [st |-> "none"]
        /\ fresh = [st |-> "none"]
        /\ stream = [st |-> "down", cursor |-> 0]
        /\ past = [seen |-> {}, removed |-> {}, blind |-> {}, recalled |-> {}]
        /\ spent = [edits |-> 0, recalls |-> 0, files |-> 0, foreign |-> 0, faults |-> 0]

(* One of the mixes has room for it.                                       *)
Happens(what) ==
    /\ spent' = [spent EXCEPT ![what] = @ + 1]
    /\ \E mix \in Mixes : \A k \in DOMAIN mix : spent'[k] <= mix[k]

-----------------------------------------------------------------------------
(* The person at the canvas *)

Shown == DOMAIN tab.view.nodes
Outside == UNCHANGED <<srv, unsent, fresh, stream>>

Move(c) ==
    /\ Happens("edits") /\ c \in Shown
    /\ Save([tab EXCEPT !.view.nodes[c].pos = 1 - @])
    /\ Outside /\ UNCHANGED <<shelf, past>>

Type(c) ==
    /\ Happens("edits") /\ c \in Shown
    /\ tab' = [tab EXCEPT !.view.nodes[c].text = 1 - @, !.typing = TRUE]
    /\ Outside /\ UNCHANGED <<shelf, past, flight>>

TypingTimer ==
    /\ tab.typing
    /\ Save([tab EXCEPT !.typing = FALSE])
    /\ Outside /\ UNCHANGED <<shelf, past, spent>>

AddCard ==
    /\ Happens("edits") /\ ~tab.minted
    /\ Save([tab EXCEPT !.minted = TRUE,
                        !.view = Put(@, Mine, [rev |-> 0, pos |-> 0, text |-> 0])])
    /\ Outside /\ UNCHANGED <<shelf, past>>

Connect ==
    /\ Happens("edits") /\ {Link[1], Link[2]} \subseteq Shown
    /\ Save([tab EXCEPT !.view.edges = @ \cup {Link}])
    /\ Outside /\ UNCHANGED <<shelf, past>>

(* apply: what is shown is kept for undo, g is shown and saved; held stays *)
(* of what a handler keeps.                                                *)
ApplyEdit(t, g, held) ==
    /\ Save([t EXCEPT !.view = g])
    /\ shelf' = [undos |-> Append(shelf.undos, tab.view), redos |-> <<>>,
                 held |-> held]

RemoveSelected(c) ==
    /\ Happens("edits") /\ c \in Shown
    /\ ApplyEdit(tab, Cut(tab.view, c), shelf.held)
    /\ past' = [past EXCEPT !.removed = @ \cup {c}]
    /\ Outside

(* What is shown and is not in an arrangement drawn before.                *)
Recalls(g) == past' = [past EXCEPT !.recalled = @ \cup (Shown \ DOMAIN g.nodes)]

(* history.undo and history.redo: the newest arrangement of one stack is   *)
(* shown and saved as it was, the one that was shown goes on the other.    *)
(* The stacks' limit of 50 is above the bound on edits.                    *)
Undo ==
    /\ Happens("recalls") /\ shelf.undos # <<>>
    /\ Save([tab EXCEPT !.view = Last(shelf.undos)])
    /\ Recalls(Last(shelf.undos))
    /\ shelf' = [shelf EXCEPT !.undos = Front(@), !.redos = Append(@, tab.view)]
    /\ Outside

Redo ==
    /\ Happens("recalls") /\ shelf.redos # <<>>
    /\ Save([tab EXCEPT !.view = Last(shelf.redos)])
    /\ Recalls(Last(shelf.redos))
    /\ shelf' = [shelf EXCEPT !.redos = Front(@), !.undos = Append(@, tab.view)]
    /\ Outside

(* A file is picked, to be imported or uploaded to a card: the handler     *)
(* keeps the arrangement of that moment over its await.  One at a time is  *)
(* a bound.                                                                *)
PickFile ==
    /\ Happens("files") /\ shelf.held = NoGraph
    /\ shelf' = [shelf EXCEPT !.held = <<tab.view>>]
    /\ Outside /\ UNCHANGED <<tab, flight, past>>

(* It was read: its cards are added to that arrangement, as paste adds its *)
(* copies to the one shown; ...                                            *)
Imported ==
    /\ shelf.held # NoGraph /\ ~tab.minted
    /\ ApplyEdit([tab EXCEPT !.minted = TRUE],
                 Put(shelf.held[1], Mine, [rev |-> 0, pos |-> 0, text |-> 0]), NoGraph)
    /\ Recalls(shelf.held[1])
    /\ Outside /\ UNCHANGED spent

(* ... or uploaded: a card of that arrangement is bound to it, which is    *)
(* data of the card as its text is; ...                                    *)
Uploaded(c) ==
    /\ shelf.held # NoGraph /\ c \in DOMAIN shelf.held[1].nodes
    /\ ApplyEdit(tab, [shelf.held[1] EXCEPT !.nodes[c].text = 1 - @], NoGraph)
    /\ Recalls(shelf.held[1])
    /\ Outside /\ UNCHANGED spent

(* ... or neither could be done.                                           *)
PickFails ==
    /\ shelf.held # NoGraph
    /\ shelf' = [shelf EXCEPT !.held = NoGraph]
    /\ Outside /\ UNCHANGED <<tab, flight, past, spent>>

-----------------------------------------------------------------------------
(* The flush *)

Seqs(chs) == {chs[i].seq : i \in DOMAIN chs}

(* The changes the tab is handed, and the cards it learns of while a newer *)
(* arrangement, drawn without them, waits to be sent.                      *)
Learns(base, seqs) ==
    past' = [past EXCEPT !.seen = seqs,
                       !.blind = IF tab.queue = NoGraph THEN @
                ELSE @ \cup (DOMAIN base.nodes \ DOMAIN tab.base.nodes)]

(* The transaction of the batch, and the catch-up read inside it.          *)
CommitOps ==
    LET s == ApplyOps(srv, flight.ops)
        after == ChangesSince(s, flight.since)
    IN  /\ flight.st = "sent"
        /\ IF s.ok
           THEN /\ srv' = Rows(s)
                /\ unsent' = IF s.made = <<>> THEN unsent ELSE Append(unsent, s.made)
                /\ flight' = [st |-> "answered", desired |-> flight.desired,
                              seq |-> s.seq, gap |-> after.gap,
                              changes |-> after.missed]
           ELSE flight' = [st |-> "refused"] /\ UNCHANGED <<srv, unsent>>
        /\ UNCHANGED <<tab, shelf, fresh, stream, past, spent>>

LoseRequest ==
    /\ Happens("faults") /\ flight.st \in {"sent", "answered"}
    /\ flight' = [st |-> "refused"]
    /\ UNCHANGED <<srv, unsent, tab, shelf, fresh, stream, past>>

(* reload reads the canvas; one read on its way at a time is a bound.      *)
Reload == fresh' = IF fresh.st = "none" THEN [st |-> "asked"] ELSE fresh

FlushAnswered ==
    /\ flight.st = "answered"
    /\ IF flight.gap
       THEN Reload /\ Settle([tab EXCEPT !.gapped = TRUE]) /\ UNCHANGED past
       ELSE LET news == IF tab.deferred = <<>> THEN flight.changes
                        ELSE BySeq(flight.changes \o tab.deferred)
                settled == ApplyChanges(flight.desired, news)
                told == [tab EXCEPT !.deferred = <<>>]
            IN  /\ Settle(IF tab.queue = NoGraph
                          THEN SetGraph(Hold(told, settled, flight.seq), settled)
                          ELSE Hold(told, settled, flight.seq))
                /\ Learns(settled, past.seen)
                /\ UNCHANGED fresh
    /\ UNCHANGED <<srv, unsent, shelf, stream, spent>>

(* Refused, or the answer never came: what waited is dropped too.          *)
FlushFailed ==
    /\ flight.st = "refused"
    /\ Settle([tab EXCEPT !.queue = NoGraph])
    /\ UNCHANGED <<srv, unsent, shelf, fresh, stream, past, spent>>

ReadCanvas ==
    /\ fresh.st = "asked"
    /\ fresh' = [st |-> "read", graph |-> srv.rows, seq |-> srv.seq]
    /\ UNCHANGED <<srv, unsent, tab, shelf, flight, stream, past, spent>>

LoseRead ==
    /\ Happens("faults") /\ fresh.st # "none"
    /\ fresh' = [st |-> "none"]
    /\ UNCHANGED <<srv, unsent, tab, shelf, flight, stream, past>>

(* Whatever the tab was doing when it asked, it adopts the answer.         *)
Reloaded ==
    /\ fresh.st = "read"
    /\ tab' = Adopt(tab, fresh.graph, fresh.seq)
    /\ fresh' = [st |-> "none"]
    /\ Learns(fresh.graph, past.seen \cap 1 .. fresh.seq)
    /\ UNCHANGED <<srv, unsent, shelf, flight, stream, spent>>

-----------------------------------------------------------------------------
(* The others on the canvas *)

Commits(s) == /\ srv' = Rows(s)
              /\ unsent' = Append(unsent, s.made)
              /\ UNCHANGED <<tab, shelf, flight, fresh, stream, past>>

OtherOps == LET nodes == srv.rows.nodes IN
    {[kind |-> "node.update", id |-> c, rev |-> nodes[c].rev, fields |-> {f},
      node |-> [nodes[c] EXCEPT ![f] = 1 - @]] :
        c \in DOMAIN nodes, f \in {"pos", "text"}}
    \cup {[kind |-> "node.delete", id |-> c, rev |-> nodes[c].rev] :
        c \in DOMAIN nodes}

OtherWrites ==
    /\ Happens("foreign")
    /\ \E op \in OtherOps : Commits(ApplyOps(srv, <<op>>))

(* The Agent's result: a card and its connection, inserted.                *)
AgentLands ==
    /\ Happens("foreign")
    /\ First \in DOMAIN srv.rows.nodes
    /\ \A i \in DOMAIN srv.log : srv.log[i].id # Landed
    /\ Commits(Logged(Logged(Begun(srv),
                             SetNode(0, Landed, [rev |-> 1, pos |-> 0, text |-> 0])),
                      SetEdge(0, <<First, Landed>>)))

-----------------------------------------------------------------------------
(* The change stream *)

Close(cursor) == [st |-> "down", cursor |-> cursor]

(* The backfill is read before the connection's generator subscribes.      *)
OpenStream ==
    LET feed == ChangesSince(srv, stream.cursor) IN
    /\ stream.st = "down"
    /\ stream' = IF feed.gap THEN [st |-> "gap", cursor |-> stream.cursor]
                 ELSE [st |-> "open", cursor |-> stream.cursor,
                       subscribed |-> FALSE, pipe |-> feed.missed,
                       last |-> HighestSeq(feed.missed, stream.cursor)]
    /\ UNCHANGED <<srv, unsent, tab, shelf, flight, fresh, past, spent>>

Subscribe ==
    /\ stream.st = "open" /\ ~stream.subscribed
    /\ stream' = [stream EXCEPT !.subscribed = TRUE]
    /\ UNCHANGED <<srv, unsent, tab, shelf, flight, fresh, past, spent>>

Listening == stream.st = "open" /\ stream.subscribed

(* What the stream passes on of a batch: nothing at or below what it has.  *)
Passed(batch) == After(batch, stream.last)

(* Writers publish after their commits, in any order.                      *)
Publish(i) ==
    /\ i \in DOMAIN unsent
    /\ unsent' = RemoveAt(unsent, i)
    /\ IF Listening
       THEN stream' = [stream EXCEPT !.pipe = @ \o Passed(unsent[i]),
                                     !.last = HighestSeq(unsent[i], @)]
       ELSE UNCHANGED stream
    /\ UNCHANGED <<srv, tab, shelf, flight, fresh, past, spent>>

(* Redis could not be reached.                                             *)
PublishFails(i) ==
    /\ Happens("faults") /\ i \in DOMAIN unsent
    /\ unsent' = RemoveAt(unsent, i)
    /\ UNCHANGED <<srv, tab, shelf, flight, fresh, stream, past>>

(* One read of the body: the frames in it are one batch.                   *)
ReadStream(n) ==
    LET batch == SubSeq(stream.pipe, 1, n)
        at == batch[n].seq
        ahead == tab.deferred # <<>>  \* of frames kept back, that are older
    IN  /\ stream.st = "open" /\ n \in DOMAIN stream.pipe
        /\ stream' = [stream EXCEPT !.pipe = SubSeq(@, n + 1, Len(@)), !.cursor = at]
        /\ IF Busy \/ tab.queue # NoGraph
           THEN tab' = [tab EXCEPT !.deferred = @ \o batch]
           ELSE tab' = FoldIn([tab EXCEPT !.aged = @ \/ ahead], batch, at)
        /\ Learns(tab'.base, past.seen \cup Seqs(batch))
        /\ UNCHANGED <<srv, unsent, shelf, flight, fresh, spent>>

ReadGap ==
    /\ stream.st = "gap"
    /\ Reload
    /\ stream' = Close(0)
    /\ UNCHANGED <<srv, unsent, tab, shelf, flight, past, spent>>

DropStream ==
    /\ Happens("faults") /\ stream.st = "open"
    /\ stream' = Close(stream.cursor)
    /\ UNCHANGED <<srv, unsent, tab, shelf, flight, fresh, past>>

-----------------------------------------------------------------------------
CanvasNext ==
    \/ \E c \in Cards : Move(c) \/ Type(c) \/ RemoveSelected(c) \/ Uploaded(c)
    \/ TypingTimer \/ AddCard \/ Connect
    \/ Undo \/ Redo \/ PickFile \/ Imported \/ PickFails
    \/ CommitOps \/ LoseRequest \/ FlushAnswered \/ FlushFailed
    \/ ReadCanvas \/ LoseRead \/ Reloaded
    \/ OtherWrites \/ AgentLands
    \/ OpenStream \/ Subscribe \/ ReadGap \/ DropStream
    \/ \E i \in 1 .. Len(unsent) : Publish(i) \/ PublishFails(i)
    \/ \E n \in 1 .. (IF stream.st = "open" THEN Len(stream.pipe) ELSE 0) : ReadStream(n)

CanvasSpec == CanvasInit /\ [][CanvasNext]_canvasVars

(* Every reference is to a card there is, every number was given out, and  *)
(* at most one arrangement waits.                                          *)
CanvasTypeOK ==
    /\ \A g \in {srv.rows, tab.base, tab.view} :
           DOMAIN g.nodes \subseteq Cards /\ g.edges \subseteq Cards \X Cards
    /\ \A i \in DOMAIN srv.log : srv.log[i].seq \in 1 .. srv.seq
    /\ tab.seq \in 0 .. srv.seq /\ stream.cursor \in 0 .. srv.seq
    /\ Len(tab.queue) <= 1
    /\ flight.st \in {"none", "sent", "answered", "refused"}
    /\ fresh.st \in {"none", "asked", "read"}
    /\ stream.st \in {"down", "gap", "open"}

(* The log replays to the rows: a reader of the feed who folds all of it   *)
(* has every card and connection, and none that is gone, whatever mix of   *)
(* saved batches, stale revisions and landed results wrote it.             *)
FeedIsTheCanvas ==
    ApplyChanges([nodes |-> <<>>, edges |-> {}], srv.log) = srv.rows

(* Whenever the tab was handed every change there is, in whatever batches  *)
(* and whatever order its own flushes left it to fold them, and none is    *)
(* kept back, what it takes for acknowledged is what the server has.       *)
(* Something adopted late can make a card older than it was (aged): not    *)
(* then.                                                                   *)
Converged ==
    Seqs(srv.log) \subseteq past.seen /\ ~tab.aged /\ tab.deferred = <<>>
        => tab.base = srv.rows

Doomed == {flight.ops[i].id : i \in {j \in DOMAIN flight.ops :
                                          flight.ops[j].kind = "node.delete"}}

(* The save loop never asks for the deletion of a card its person did not  *)
(* remove, however many cards others add meanwhile.  Two kinds of card are *)
(* not safe: one that was learned of while an arrangement drawn without it *)
(* waited, and one that was shown when an arrangement without it was put   *)
(* back, by undo or redo or by an import or an upload that drew it before  *)
(* the card arrived.                                                       *)
OnlyTheirOwn ==
    flight.st = "sent" =>
        Doomed \subseteq past.removed \cup past.blind \cup past.recalled

(* An arrangement waits, or frames are kept back, only while a flush that  *)
(* will take them up is under way: no end of a flush, good or bad, leaves  *)
(* a save or a change of others stranded.  Frames are once an answer had a *)
(* gap and the arrangement that waited turned out to be nothing new.       *)
NothingIsStranded ==
    /\ tab.queue # NoGraph => Busy
    /\ tab.deferred # <<>> => Busy \/ tab.gapped
=============================================================================
