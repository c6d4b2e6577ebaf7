---------------------------- MODULE BlockingSave ----------------------------
(***************************************************************************)
(* The blocking studio: manual edits that features/blocking/use-blocking-  *)
(* save debounces into one request each, against chat turns that mint a    *)
(* new version in this tab or elsewhere, and domain/blocking/service, which*)
(* checks the version an edit was made on.                                 *)
(*                                                                         *)
(* A document is the set of chat turns it has in it; what edits change in  *)
(* it is left out.  A turn takes longer than the debounce.  Rendering is a *)
(* part of the step that sets the state.                                   *)
(***************************************************************************)
EXTENDS Integers, FiniteSets

CONSTANT MaxDoings   \* bound: edits, turns and faults

VARIABLES
    head,      \* the episode's latest version
    scene,     \* what is shown, and the refs of the hook
    patches,   \* saves on their way or answered, given up or not
    fetches,   \* reloads under way
    chat,      \* the turn this tab streams
    lost,      \* history: turns a save took out of the document it had checked
    doings
blockingVars == <<head, scene, patches, fetches, chat, lost, doings>>

Does == doings < MaxDoings /\ doings' = doings + 1

Version(no, doc, manual) == [no |-> no, doc |-> doc, manual |-> manual]

(* pend is the document that waits to be saved, if any; rev counts edits,  *)
(* ver is the version a save is sent against, and waits the save awaited.  *)
(* heard is history: the last edit whose saving or failing was reported.   *)
BlockingInit ==
    /\ head = Version(1, {}, FALSE)
    /\ scene = [view |-> head, ver |-> 1, pend |-> {}, rev |-> 0, timer |-> FALSE,
                waits |-> 0, sent |-> 0, heard |-> 0]
    /\ patches = {}
    /\ fetches = {}
    /\ chat = [st |-> "idle", view |-> head]
    /\ lost = {}
    /\ doings = 0

-----------------------------------------------------------------------------
(* The page *)

(* The version a save is sent against follows the one shown when that      *)
(* changes.                                                                *)
Shows(d, v) ==
    [d EXCEPT !.view = v, !.ver = IF v.no # d.view.no THEN v.no ELSE @]

EditBlocks ==
    /\ Does /\ chat.st = "idle"
    /\ scene' = [scene EXCEPT !.pend = {scene.view.doc}, !.rev = @ + 1, !.timer = TRUE]
    /\ UNCHANGED <<head, patches, fetches, chat, lost>>

Patch(d) == [id |-> d.sent + 1, docs |-> d.pend, base |-> d.ver, rev |-> d.rev,
            st |-> "sent", found |-> d.view]

(* The queue is drained: what waits goes out against the latest version    *)
(* known, and is not waiting any more.                                     *)
Drain(d, others) ==
    IF d.pend = {} THEN scene' = d /\ patches' = others
    ELSE /\ scene' = [d EXCEPT !.pend = {}, !.sent = @ + 1, !.waits = d.sent + 1]
         /\ patches' = others \cup {Patch(d)}

Flush ==
    /\ scene.timer
    /\ LET d == [scene EXCEPT !.timer = FALSE] IN
       IF scene.waits # 0 THEN scene' = d /\ UNCHANGED patches
       ELSE Drain(d, patches)
    /\ UNCHANGED <<head, fetches, chat, lost, doings>>

Awaits(p) == p \in patches /\ p.id = scene.waits

SavedView(d, p) ==
    LET e == [d EXCEPT !.ver = p.found.no, !.waits = 0, !.heard = p.rev]
    IN  IF d.rev = p.rev THEN [e EXCEPT !.view = p.found] ELSE e

(* As it would be if the edit behind a save waited for another.          *)
PatchSavedAlone(p) ==
    /\ Awaits(p) /\ p.st = "saved"
    /\ scene' = SavedView(scene, p)
    /\ patches' = patches \ {p}
    /\ UNCHANGED <<head, fetches, chat, lost, doings>>

(* The answer replaces the document only when no newer edit was made; one  *)
(* that was goes out right after it.                                       *)
PatchSaved(p) ==
    /\ Awaits(p) /\ p.st = "saved"
    /\ Drain(SavedView(scene, p), patches \ {p})
    /\ UNCHANGED <<head, fetches, chat, lost, doings>>

(* A save that failed takes the edit behind it along.                      *)
DropsPending(d) == [d EXCEPT !.waits = 0, !.pend = {}, !.heard = d.rev]

PatchRefused(p) ==
    /\ Awaits(p) /\ p.st = "refused"
    /\ scene' = DropsPending(scene)
    /\ patches' = patches \ {p}
    /\ fetches' = fetches \cup {[id |-> p.id, st |-> "sent", view |-> scene.view]}
    /\ UNCHANGED <<head, chat, lost, doings>>

(* The network fails; the save may still be served.                        *)
PatchLost(p) ==
    /\ Does /\ Awaits(p)
    /\ scene' = DropsPending(scene)
    /\ \E gone \in {{}, {p}} : patches' = patches \ gone
    /\ UNCHANGED <<head, fetches, chat, lost>>

PatchFails(p) ==
    /\ Awaits(p) /\ p.st = "failed"
    /\ scene' = DropsPending(scene)
    /\ patches' = patches \ {p}
    /\ UNCHANGED <<head, fetches, chat, lost, doings>>

FetchAnswered(f) ==
    /\ f.st = "read"
    /\ scene' = Shows(scene, f.view)
    /\ fetches' = fetches \ {f}
    /\ UNCHANGED <<head, patches, chat, lost, doings>>

FetchFails(f) ==
    /\ Does
    /\ fetches' = fetches \ {f}
    /\ UNCHANGED <<head, scene, patches, chat, lost>>

(* An edit is saved or on its way before a turn of this tab completes.     *)
CompleteTurn ==
    /\ chat.st = "read" /\ ~scene.timer
    /\ scene' = Shows(scene, chat.view)
    /\ chat' = [chat EXCEPT !.st = "idle"]
    /\ UNCHANGED <<head, patches, fetches, lost, doings>>

TurnFails ==
    /\ Does /\ chat.st # "idle"
    /\ chat' = [chat EXCEPT !.st = "idle"]
    /\ UNCHANGED <<head, scene, patches, fetches, lost>>

-----------------------------------------------------------------------------
(* The server *)

Marks(p, q) == patches' = (patches \ {p}) \cup {q}

(* The version an edit was made on is compared with the latest; the row is *)
(* written later in the transaction, and nothing is locked.                *)
CheckBase(p) ==
    /\ p.st = "sent"
    /\ Marks(p, [p EXCEPT !.st = IF p.base = head.no THEN "checked" ELSE "refused",
                            !.found = head])
    /\ UNCHANGED <<head, scene, fetches, chat, lost, doings>>

(* A recent manual version is written over, any other gets a successor,    *)
(* whose number may have been taken since.                                 *)
SaveManual(p) ==
    /\ p.st = "checked"
    /\ \/ /\ p.found.manual
          /\ \E doc \in p.docs : head' = [head EXCEPT !.doc = doc]
       \/ /\ p.found.no = head.no
          /\ \E doc \in p.docs : head' = Version(head.no + 1, doc, TRUE)
    /\ Marks(p, [p EXCEPT !.st = "saved", !.found = head'])
    /\ lost' = lost \cup (p.found.doc \ head'.doc)
    /\ UNCHANGED <<scene, fetches, chat, doings>>

NumberTaken(p) ==
    /\ p.st = "checked" /\ p.found.no # head.no
    /\ Marks(p, [p EXCEPT !.st = "failed"])
    /\ UNCHANGED <<head, scene, fetches, chat, lost, doings>>

ReadScript(f) ==
    /\ f.st = "sent"
    /\ fetches' = (fetches \ {f}) \cup {[f EXCEPT !.st = "read", !.view = head]}
    /\ UNCHANGED <<head, scene, patches, chat, lost, doings>>

(* A turn is made of the document it started from, and appended whatever   *)
(* has been saved since; its number is read and taken in one step.         *)
StartTurn ==
    /\ Does /\ chat.st = "idle"
    /\ chat' = [st |-> "streaming", view |-> head]
    /\ UNCHANGED <<head, scene, patches, fetches, lost>>

AppendVersion(from) == head' = Version(head.no + 1, from \cup {head.no}, FALSE)

CommitTurn ==
    /\ chat.st = "streaming"
    /\ AppendVersion(chat.view.doc)
    /\ chat' = [chat EXCEPT !.st = "committed"]
    /\ UNCHANGED <<scene, patches, fetches, lost, doings>>

ReadTurn ==
    /\ chat.st = "committed"
    /\ chat' = [st |-> "read", view |-> head]
    /\ UNCHANGED <<head, scene, patches, fetches, lost, doings>>

TurnElsewhere ==
    /\ Does
    /\ AppendVersion(head.doc)
    /\ UNCHANGED <<scene, patches, fetches, chat, lost>>

BlockingNext ==
    \/ EditBlocks \/ Flush \/ CompleteTurn \/ TurnFails
    \/ StartTurn \/ CommitTurn \/ ReadTurn \/ TurnElsewhere
    \/ \E p \in patches : PatchSaved(p) \/ PatchRefused(p) \/ PatchFails(p) \/ PatchLost(p)
                          \/ CheckBase(p) \/ SaveManual(p) \/ NumberTaken(p)
    \/ \E f \in fetches : FetchAnswered(f) \/ FetchFails(f) \/ ReadScript(f)

BlockingSpec == BlockingInit /\ [][BlockingNext]_blockingVars

BlockingTypeOK ==
    /\ scene.view.no <= head.no /\ scene.ver <= head.no
    /\ head.doc \subseteq 1 .. (head.no - 1)
    /\ Cardinality(scene.pend) <= 1
    /\ \A p \in patches : Cardinality(p.docs) = 1 /\ p.base <= head.no
    /\ chat.st \in {"idle", "streaming", "committed", "read"}

(* Every edit is heard of: one that waits is going out, by its timer or    *)
(* behind the save under way, and when none waits the last one was saved   *)
(* or the author was told that it failed.                                  *)
EditsGoOut ==
    IF scene.pend = {} THEN scene.waits = 0 => scene.heard = scene.rev
    ELSE scene.timer \/ scene.waits # 0

(* "reports a 409 so the studio can reload instead of overwriting a newer  *)
(* chat turn" (use-blocking-save.ts:19-20): a save never takes out a turn  *)
(* that was there when its version was checked.                            *)
TurnsSurvive == lost = {}
=============================================================================
