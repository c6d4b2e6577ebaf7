----------------------------- MODULE SubmitOnce -----------------------------
(***************************************************************************)
(* A studio's generate button: the draft and the idempotency key that      *)
(* lib/use-generation-submit keeps across failed attempts, against         *)
(* domain/jobs/service.submit, where a request may be served long after    *)
(* the browser has given it up and a second one with its key has come.     *)
(*                                                                         *)
(* Prices, validation and the login wall are left out; a job is the key it *)
(* was submitted under and what was asked for.                             *)
(***************************************************************************)
EXTENDS Integers, FiniteSets

CONSTANT MaxClicks   \* bound: attempts to submit
ASSUME SubmitAssumption == MaxClicks \in Nat

VARIABLES
    studio,   \* the inputs on screen and the refs of the hook
    posts,    \* requests on their way or being served, given up or not
    orders,   \* the jobs there are, by idempotency key
    drafts,   \* how many drafts were written
    clicks
submitVars == <<studio, posts, orders, drafts, clicks>>

Inputs == {"first", "second"}   \* what the author may ask for
Keys   == 1 .. MaxClicks

SubmitInit ==
    /\ studio = [asked |-> "first", draft |-> 0, key |-> 0, waits |-> 0,
                 minted |-> 0, told |-> {}, denied |-> 0]
    /\ posts = {}
    /\ orders = [k \in {} |-> "first"]
    /\ drafts = 0
    /\ clicks = 0

-----------------------------------------------------------------------------
(* The hook.  waits is the click whose request is awaited, 0 when the      *)
(* button is free.                                                         *)

ChangeInputs ==
    /\ studio.waits = 0
    /\ \E inputs \in Inputs \ {studio.asked} : studio' = [studio EXCEPT !.asked = inputs]
    /\ UNCHANGED <<posts, orders, drafts, clicks>>

DraftPost(n) == [click |-> n, kind |-> "draft", st |-> "sent", code |-> ""]
JobPost(n, key) == [click |-> n, kind |-> "job", st |-> "sent", code |-> "",
                    key |-> key, asked |-> studio.asked]

(* The key is minted once and kept until a job or a refusal of it comes    *)
(* back.                                                                   *)
PostJob(s, n) ==
    LET new == s.key = 0
        key == IF new THEN s.minted + 1 ELSE s.key
    IN  /\ studio' = [s EXCEPT !.key = key, !.minted = IF new THEN key ELSE @]
        /\ posts' = {p \in posts : p.click # n} \cup {JobPost(n, key)}

Submit ==
    /\ studio.waits = 0 /\ clicks < MaxClicks
    /\ clicks' = clicks + 1
    /\ LET s == [studio EXCEPT !.waits = clicks'] IN
       IF studio.draft = 0
       THEN studio' = s /\ posts' = posts \cup {DraftPost(clicks')}
       ELSE PostJob(s, clicks')
    /\ UNCHANGED <<orders, drafts>>

Awaited(p) == p \in posts /\ p.click = studio.waits

DraftAnswered(p) ==
    /\ Awaited(p) /\ p.kind = "draft" /\ p.st = "served"
    /\ PostJob([studio EXCEPT !.draft = drafts], p.click)
    /\ UNCHANGED <<orders, drafts, clicks>>

JobAnswered(p) ==
    /\ Awaited(p) /\ p.kind = "job" /\ p.st = "served"
    /\ posts' = posts \ {p}
    /\ studio' =
         CASE p.code = "ok" -> [studio EXCEPT !.waits = 0, !.draft = 0, !.key = 0,
                                              !.told = @ \cup {p.key}]
           [] p.code = "IDEMPOTENCY_CONFLICT" ->
                [studio EXCEPT !.waits = 0, !.key = 0, !.denied = @ + 1]
           [] p.code = "CONFLICT" -> [studio EXCEPT !.waits = 0]
    /\ UNCHANGED <<orders, drafts, clicks>>

(* As it would be if a failed attempt dropped its key.                   *)
ForgetsKey(p) ==
    /\ Awaited(p)
    /\ studio' = [studio EXCEPT !.waits = 0, !.key = 0]
    /\ \E gone \in {{}, {p}} : posts' = posts \ gone
    /\ UNCHANGED <<orders, drafts, clicks>>

(* The network fails: the request is lost, or may still be served.  What   *)
(* the server made of it is not known, so draft and key are kept.          *)
GivesUp(p) ==
    /\ Awaited(p)
    /\ studio' = [studio EXCEPT !.waits = 0]
    /\ \E gone \in {{}, {p}} : posts' = posts \ gone
    /\ UNCHANGED <<orders, drafts, clicks>>

-----------------------------------------------------------------------------
(* The server *)

Becomes(p, q) == posts' = (posts \ {p}) \cup {q}
Serves(p, code) == Becomes(p, [p EXCEPT !.st = "served", !.code = code])

CreateDraft(p) ==
    /\ p.kind = "draft" /\ p.st = "sent"
    /\ Serves(p, "ok")
    /\ drafts' = drafts + 1
    /\ UNCHANGED <<studio, orders, clicks>>

(* The key is looked up; the row is written later in the transaction.      *)
LookUp(p) ==
    /\ p.kind = "job" /\ p.st = "sent"
    /\ IF p.key \in DOMAIN orders
       THEN Serves(p, IF orders[p.key] = p.asked THEN "ok"
                      ELSE "IDEMPOTENCY_CONFLICT")
       ELSE Becomes(p, [p EXCEPT !.st = "new"])
    /\ UNCHANGED <<studio, orders, drafts, clicks>>

(* The unique key decides between two that both saw no job; the reserve    *)
(* follows the row in the same transaction.                                *)
InsertJob(p) ==
    /\ p.kind = "job" /\ p.st = "new"
    /\ IF p.key \in DOMAIN orders
       THEN Serves(p, "CONFLICT") /\ UNCHANGED orders
       ELSE /\ Serves(p, "ok")
            /\ orders' = [k \in DOMAIN orders \cup {p.key} |->
                             IF k = p.key THEN p.asked ELSE orders[k]]
    /\ UNCHANGED <<studio, drafts, clicks>>

SubmitNext ==
    \/ ChangeInputs \/ Submit
    \/ \E p \in posts : \/ DraftAnswered(p) \/ JobAnswered(p) \/ GivesUp(p)
                        \/ CreateDraft(p) \/ LookUp(p) \/ InsertJob(p)

SubmitSpec == SubmitInit /\ [][SubmitNext]_submitVars

SubmitTypeOK ==
    /\ studio.asked \in Inputs /\ studio.key \in 0 .. studio.minted
    /\ studio.draft \in 0 .. drafts /\ drafts <= clicks
    /\ DOMAIN orders \subseteq 1 .. studio.minted
    /\ Cardinality(posts) <= MaxClicks

(* However often the author presses the button again after an answer that  *)
(* never came, what they were not told of is one job: another is charged   *)
(* only when they asked for something else in between and were told so.    *)
ChargedOnce ==
    Cardinality(DOMAIN orders \ studio.told) <= 1 + studio.denied
=============================================================================
