---------------------------- MODULE EditorSession ---------------------------
(***************************************************************************)
(* A cut open in the drama editor: the optimistic queue, the undo stack    *)
(* and the lease of features/editor/drama-editor and use-editor-lease,     *)
(* against the revisions of domain/editor/service.                         *)
(*                                                                         *)
(* A document is the sequence of edits it is made of.  A lease is the      *)
(* token that may write: rotated whenever it is acquired again.            *)
(***************************************************************************)
EXTENDS Integers, Sequences, SequencesExt

CONSTANTS
    MaxCheckpoints,  \* MAX_UNDO_CHECKPOINTS
    MaxEdits,        \* bound: edits made in this editor
    MaxRestores,     \* bound: undos, redos and restores
    MaxUpsets        \* bound: lost answers, leases lost, writes of others

ASSUME EditorAssumption == MaxCheckpoints \in Nat \ {0} /\ MaxEdits \in Nat

VARIABLES
    cut,      \* the revisions of the cut, its head and its lease
    desk,     \* the refs and the undo stack of DramaEditor, and its lease
    send,     \* the one applyCommands under way
    undoing,  \* the one performRestore under way
    refetch,  \* a getCut under way, by whom it was asked for
    tally     \* bounds
editorVars == <<cut, desk, send, undoing, refetch, tally>>

None == [st |-> "none"]
Counts(what, most) == tally[what] < most /\ tally' = [tally EXCEPT ![what] = @ + 1]
Edits == Counts("edits", MaxEdits)
Upset == Counts("upsets", MaxUpsets)

-----------------------------------------------------------------------------
(* The server: apply_commands and restore_revision under the cut's lock *)

Doc(r) == cut.revs[r]

(* A revision written on the head the writer names, or refused.            *)
Accepts(expected, token) == token = cut.token /\ expected = cut.head

Write(doc) == cut' = [cut EXCEPT !.revs = Append(@, doc),
                                    !.head = Len(cut.revs) + 1]

-----------------------------------------------------------------------------
(* The desk *)

At(stack) == [stack |-> stack, index |-> Len(stack)]

(* As it would be if no checkpoint were ever cut off.                    *)
PushOnTop(c, rev) == At(Append(c.stack, rev))

(* What lay ahead of the index is cut off, and the oldest when too many.   *)
PushCheckpoint(c, rev) ==
    LET kept == IF c.index < Len(c.stack) THEN c.index ELSE Len(c.stack)
        truncated == Append(SubSeq(c.stack, 1, kept), rev)
        over == Len(truncated) - MaxCheckpoints
    IN  At(IF over > 0 THEN SubSeq(truncated, over + 1, Len(truncated)) ELSE truncated)

(* As it would be if only the head's number were adopted.                *)
KeepDocument(d, rev, doc) == [d EXCEPT !.head = rev, !.adrift = FALSE]

(* adrift: the document holds edits that were given up without a word, or  *)
(* that a recovery which failed could not take back.                       *)
AdoptRevision(d, rev, doc) == [d EXCEPT !.head = rev, !.doc = doc, !.adrift = FALSE]

(* reload's end: what was queued is dropped and the undo stack starts over *)
ReloadWith(d, rev, doc) ==
    [AdoptRevision(d, rev, doc) EXCEPT !.queue = <<>>, !.checkpoints = At(<<rev>>)]

(* pump: takes the next batch, and then looks for a lease to send it with. *)
SendNext(d) ==
    IF d.queue = <<>> THEN desk' = d /\ send' = None
    ELSE LET rest == [d EXCEPT !.queue = Tail(@)] IN
         IF d.token = 0
         THEN desk' = [rest EXCEPT !.adrift = TRUE] /\ send' = None
         ELSE /\ desk' = rest
              /\ send' = [st |-> "sent", edit |-> Head(d.queue),
                          expected |-> d.head, token |-> d.token]

EditorInit ==
    /\ cut = [revs |-> <<<<>>>>, head |-> 1, token |-> 1]
    /\ desk = [head |-> 1, doc |-> <<>>, queue |-> <<>>, token |-> 1,
               checkpoints |-> At(<<1>>), adrift |-> FALSE, crossed |-> FALSE]
    /\ send = None
    /\ undoing = None
    /\ refetch = None
    /\ tally = [edits |-> 0, restores |-> 0, upsets |-> 0]

-----------------------------------------------------------------------------
(* Edits *)

Still == send = None /\ undoing = None /\ refetch = None /\ desk.queue = <<>>

(* crossed: an undo, redo or restore was under way with something else.    *)
Crosses == [desk EXCEPT !.crossed = @ \/ undoing # None]

Apply ==
    LET edit == tally.edits + 1
        drawn == [Crosses EXCEPT !.doc = Append(@, edit), !.queue = Append(@, edit)]
    IN  /\ Edits /\ desk.token # 0
        /\ IF send.st = "none" THEN SendNext(drawn) ELSE desk' = drawn /\ UNCHANGED send
        /\ UNCHANGED <<cut, undoing, refetch>>

ApplyCommands ==
    /\ send.st = "sent"
    /\ IF Accepts(send.expected, send.token)
       THEN /\ Write(Append(Doc(cut.head), send.edit))
            /\ send' = [st |-> "applied", rev |-> Len(cut.revs) + 1]
       ELSE send' = [st |-> "refused"] /\ UNCHANGED cut
    /\ UNCHANGED <<desk, undoing, refetch, tally>>

LoseSend ==
    /\ Upset /\ send.st \in {"sent", "applied"}
    /\ send' = [st |-> "refused"]
    /\ UNCHANGED <<cut, desk, undoing, refetch>>

Applied ==
    LET confirmed == [desk EXCEPT
            !.head = send.rev,
            !.doc = IF desk.queue = <<>> THEN Doc(send.rev) ELSE @,
            !.adrift = @ /\ desk.queue # <<>>,
            !.checkpoints = PushCheckpoint(@, send.rev)]
    IN  /\ send.st = "applied"
        /\ SendNext(confirmed)
        /\ UNCHANGED <<cut, undoing, refetch, tally>>

(* Refused or unanswered: drop the queue and fetch the cut again.          *)
ApplyFails ==
    /\ send.st = "refused" /\ refetch = None
    /\ desk' = [desk EXCEPT !.queue = <<>>]
    /\ send' = [st |-> "recovering"]
    /\ refetch' = [st |-> "asked", by |-> "send"]
    /\ UNCHANGED <<cut, undoing, tally>>

GetCut ==
    /\ refetch.st = "asked"
    /\ refetch' = [st |-> "read", by |-> refetch.by, rev |-> cut.head]
    /\ UNCHANGED <<cut, desk, send, undoing, tally>>

(* The fetch is over: whoever asked for it goes on.                        *)
GoesOn(d) ==
    /\ refetch' = None
    /\ IF refetch.by = "send" THEN SendNext(d) ELSE desk' = d /\ UNCHANGED send
    /\ undoing' = IF refetch.by = "restore" THEN None ELSE undoing

Refetched ==
    /\ refetch.st = "read"
    /\ GoesOn(ReloadWith(desk, refetch.rev, Doc(refetch.rev)))
    /\ UNCHANGED <<cut, tally>>

LoseRefetch ==
    /\ Upset /\ refetch.st # "none"
    /\ GoesOn([desk EXCEPT !.adrift = @ \/ refetch.by = "send"])
    /\ UNCHANGED cut

(* An edit plan applied from the panel: a revision written under this      *)
(* desk's lease, then reload.                                              *)
PlanApplied ==
    /\ Upset /\ desk.token = cut.token /\ refetch = None
    /\ Write(Append(Doc(cut.head), -1))
    /\ refetch' = [st |-> "asked", by |-> "plan"]
    /\ desk' = Crosses
    /\ UNCHANGED <<send, undoing>>

-----------------------------------------------------------------------------
(* Undo, redo and restore: the target is chosen, then the queue is waited  *)
(* for, then the head is read.                                             *)

PerformRestore(how) ==
    LET target == desk.checkpoints.index + (IF how = "undo" THEN -1 ELSE 1) IN
    /\ Counts("restores", MaxRestores) /\ undoing = None
    /\ target \in DOMAIN desk.checkpoints.stack
    /\ undoing' = [st |-> "flushing", how |-> how,
                   rev |-> desk.checkpoints.stack[target]]
    /\ desk' = [desk EXCEPT !.crossed = @ \/ ~Still]
    /\ UNCHANGED <<cut, send, refetch>>

RestoreFromHistory(rev) ==
    /\ Counts("restores", MaxRestores) /\ undoing = None
    /\ undoing' = [st |-> "flushing", how |-> "restore", rev |-> rev]
    /\ desk' = [desk EXCEPT !.crossed = @ \/ ~Still]
    /\ UNCHANGED <<cut, send, refetch>>

Flushed ==
    /\ undoing.st = "flushing" /\ send = None /\ desk.queue = <<>>
    /\ undoing' = IF desk.token = 0 THEN None
                  ELSE [st |-> "sent", how |-> undoing.how, rev |-> undoing.rev,
                        expected |-> desk.head, token |-> desk.token]
    /\ UNCHANGED <<cut, desk, send, refetch, tally>>

RestoreRevision ==
    /\ undoing.st = "sent"
    /\ IF ~Accepts(undoing.expected, undoing.token)
       THEN /\ undoing' = [undoing EXCEPT !.st =
                   IF undoing.token = cut.token THEN "conflict" ELSE "denied"]
            /\ UNCHANGED cut
       ELSE IF undoing.rev = cut.head
       THEN undoing' = [undoing EXCEPT !.st = "restored"] /\ UNCHANGED cut
       ELSE /\ Write(Doc(undoing.rev))
            /\ undoing' = [undoing EXCEPT !.st = "restored", !.rev = Len(cut.revs) + 1]
    /\ UNCHANGED <<desk, send, refetch, tally>>

(* As it would be if a restore were no checkpoint of its own.            *)
SteppedOnly(c, how, rev) ==
    CASE how = "undo"    -> [c EXCEPT !.index = @ - 1]
      [] how = "redo"    -> [c EXCEPT !.index = @ + 1]
      [] how = "restore" -> c

(* Undo and redo move the index, a restore is an edit like any other.      *)
Stepped(c, how, rev) ==
    CASE how = "undo"    -> [c EXCEPT !.index = @ - 1]
      [] how = "redo"    -> [c EXCEPT !.index = @ + 1]
      [] how = "restore" -> PushCheckpoint(c, rev)

Restored ==
    /\ undoing.st = "restored"
    /\ desk' = [AdoptRevision(desk, undoing.rev, Doc(undoing.rev)) EXCEPT
                   !.checkpoints = Stepped(@, undoing.how, undoing.rev)]
    /\ undoing' = None
    /\ UNCHANGED <<cut, send, refetch, tally>>

(* A conflict is recovered from like one of an edit; another error is only *)
(* told to the person.                                                     *)
RestoreConflicts ==
    /\ undoing.st = "conflict" /\ refetch = None
    /\ undoing' = [st |-> "recovering"]
    /\ refetch' = [st |-> "asked", by |-> "restore"]
    /\ UNCHANGED <<cut, desk, send, tally>>

RestoreFails ==
    /\ \/ undoing.st = "denied" /\ UNCHANGED tally
       \/ undoing.st \in {"sent", "restored"} /\ Upset
    /\ undoing' = None
    /\ UNCHANGED <<cut, desk, send, refetch>>

-----------------------------------------------------------------------------
(* The lease *)

(* A heartbeat refused or unanswered: the editor turns read-only.          *)
HeartbeatFails ==
    /\ desk.token # 0
    /\ \/ desk.token # cut.token /\ UNCHANGED tally
       \/ Upset
    /\ desk' = [desk EXCEPT !.token = 0]
    /\ UNCHANGED <<cut, send, undoing, refetch>>

(* reclaim, or the quiet retry: the same browser's lease is rotated.       *)
Reclaim ==
    /\ desk.token = 0
    /\ cut' = [cut EXCEPT !.token = @ + 1]
    /\ desk' = [desk EXCEPT !.token = cut.token + 1]
    /\ UNCHANGED <<send, undoing, refetch, tally>>

(* No heartbeat reached the server for the lease's time to live.           *)
LeaseLapses ==
    /\ Upset
    /\ cut' = [cut EXCEPT !.token = @ + 1]
    /\ UNCHANGED <<desk, send, undoing, refetch>>

(* Or it was let go, and another browser writes under its own before it    *)
(* lets go too.                                                            *)
AnotherWrites ==
    /\ Upset
    /\ cut' = [revs |-> Append(cut.revs, Append(Doc(cut.head), -1)),
               head |-> Len(cut.revs) + 1, token |-> cut.token + 1]
    /\ UNCHANGED <<desk, send, undoing, refetch>>

EditorNext ==
    \/ Apply \/ ApplyCommands \/ LoseSend \/ Applied \/ ApplyFails
    \/ GetCut \/ Refetched \/ LoseRefetch \/ PlanApplied
    \/ \E how \in {"undo", "redo"} : PerformRestore(how)
    \/ \E rev \in 1 .. Len(cut.revs) : RestoreFromHistory(rev)
    \/ Flushed \/ RestoreRevision \/ Restored
    \/ RestoreConflicts \/ RestoreFails
    \/ HeartbeatFails \/ Reclaim \/ LeaseLapses \/ AnotherWrites

EditorSpec == EditorInit /\ [][EditorNext]_editorVars

EditorTypeOK ==
    /\ cut.head \in DOMAIN cut.revs /\ cut.token >= 1
    /\ desk.head \in DOMAIN cut.revs /\ desk.token \in 0 .. cut.token
    /\ Range(desk.checkpoints.stack) \subseteq DOMAIN cut.revs
    /\ Len(desk.checkpoints.stack) \in 1 .. MaxCheckpoints
    /\ Len(desk.queue) <= MaxEdits
    /\ send.st \in {"none", "sent", "applied", "refused", "recovering"}
    /\ undoing.st \in {"none", "flushing", "sent", "restored", "conflict",
                       "denied", "recovering"}
    /\ refetch.st \in {"none", "asked", "read"}

(* With nothing queued and nothing under way, an editor that is on the     *)
(* cut's head shows that revision's document: confirmations that come      *)
(* while newer edits wait, conflicts, undos and reloads leave the screen   *)
(* with what is saved.                                                     *)
InSync == Still /\ ~desk.adrift /\ desk.head = cut.head => desk.doc = Doc(cut.head)

(* The document of the checkpoint the index points at is the one shown.    *)
CheckpointIsHead ==
    Still => /\ desk.checkpoints.index \in DOMAIN desk.checkpoints.stack
             /\ Doc(desk.checkpoints.stack[desk.checkpoints.index]) = Doc(desk.head)

(* And it is, through every edit, undo, redo, restore and recovery, in an  *)
(* editor whose undos never overlapped anything: undo then goes back by    *)
(* exactly one step.                                                       *)
UndoGoesOneBack == desk.crossed \/ CheckpointIsHead
=============================================================================
