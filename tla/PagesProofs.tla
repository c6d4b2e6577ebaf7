----------------------------- MODULE PagesProofs ----------------------------
(***************************************************************************)
(* Proofs about the pages of the browser, for any number of attempts,      *)
(* edits, events, requests and losses.                                     *)
(***************************************************************************)
EXTENDS Pages, ScriptBatchProofs, CanvasProofs, FiniteSetTheorems, TLAPS

HIDE BatchAssumption

-----------------------------------------------------------------------------
(* The generate button.                                                    *)

PostStates == {"sent", "new", "served"}
Codes      == {"", "ok", "CONFLICT", "IDEMPOTENCY_CONFLICT"}

DraftPosts == [click : Nat, kind : {"draft"}, st : PostStates, code : Codes]
JobPosts   == [click : Nat, kind : {"job"}, st : PostStates, code : Codes,
               key : Nat, asked : Inputs]

Studios == [asked : Inputs, draft : Nat, key : Nat, waits : Nat, minted : Nat,
            told : SUBSET Nat, denied : Nat]

StudioTypes ==
    /\ studio \in Studios
    /\ posts \subseteq DraftPosts \cup JobPosts
    /\ drafts \in Nat /\ clicks \in Nat

(* A request that is awaited bears the key the button holds; no request    *)
(* bears a key not minted yet, nor a click not made yet.                   *)
KeysAreHeld ==
    /\ studio.key <= studio.minted /\ studio.waits <= clicks
    /\ \A p \in posts :
          /\ p.click \in 1 .. clicks
          /\ p.kind = "job" => /\ p.key \in 1 .. studio.minted
                               /\ p.click = studio.waits => p.key = studio.key

AnswersSpeak == \A p \in posts : p.st = "served" => p.code # ""

(* The keys let go of without word of a job.                               *)
LetGo == {k \in 1 .. studio.minted : k \notin studio.told /\ k # studio.key}

(* A key is let go of only with its job, or with a refusal that is shown.  *)
SubmitInv ==
    /\ StudioTypes
    /\ KeysAreHeld /\ AnswersSpeak
    /\ DOMAIN orders \subseteq 1 .. studio.minted
    /\ Cardinality(LetGo) <= studio.denied

LEMMA LetGoFinite == ASSUME StudioTypes PROVE IsFiniteSet(LetGo)
<1>1. IsFiniteSet(1 .. studio.minted)
  BY FS_Interval DEF StudioTypes, Studios
<1> QED BY <1>1, FS_Subset DEF LetGo

(* The server changes the posts alone, and books orders under their keys.  *)
LEMMA Serving ==
    ASSUME SubmitInv, UNCHANGED <<studio, clicks>>, drafts' \in Nat,
           NEW p \in posts, NEW q \in DraftPosts \cup JobPosts,
           q.st = "served" => q.code # "",
           q.click = p.click, q.kind = p.kind, p.kind = "job" => q.key = p.key,
           posts' = (posts \ {p}) \cup {q},
           DOMAIN orders' \subseteq 1 .. studio.minted
    PROVE  SubmitInv'
<1>1. StudioTypes'
  BY DEF SubmitInv, StudioTypes
<1>2. ASSUME NEW r \in posts'
      PROVE  /\ r.click \in 1 .. clicks
             /\ r.kind = "job" => /\ r.key \in 1 .. studio.minted
                                  /\ r.click = studio.waits => r.key = studio.key
  BY DEF SubmitInv, KeysAreHeld
<1>3. KeysAreHeld'
  BY <1>2 DEF SubmitInv, KeysAreHeld
<1>4. LetGo' = LetGo
  BY DEF LetGo
<1>5. AnswersSpeak'
  BY DEF SubmitInv, AnswersSpeak
<1> QED BY <1>1, <1>3, <1>4, <1>5 DEF SubmitInv

LEMMA ServingKeeps ==
    ASSUME SubmitInv, NEW p \in posts, CreateDraft(p) \/ LookUp(p) \/ InsertJob(p)
    PROVE  SubmitInv'
<1>1. p \in DraftPosts \cup JobPosts
  BY DEF SubmitInv, StudioTypes
<1>2. p.kind = "job" => p \in JobPosts /\ p.key \in 1 .. studio.minted
  BY <1>1 DEF SubmitInv, KeysAreHeld, DraftPosts
<1>3. CASE CreateDraft(p)
  <2> DEFINE q == [p EXCEPT !.st = "served", !.code = "ok"]
  <2>1. p \in DraftPosts
    BY <1>1, <1>3 DEF CreateDraft, JobPosts
  <2>2. /\ q \in DraftPosts /\ q.click = p.click /\ q.kind = p.kind /\ p.kind # "job"
        /\ q.code # ""
    BY <2>1 DEF DraftPosts, PostStates, Codes
  <2>3. posts' = (posts \ {p}) \cup {q}
    BY <1>3 DEF CreateDraft, Serves, Becomes
  <2>4. drafts' \in Nat /\ UNCHANGED <<studio, orders, clicks>>
    BY <1>3 DEF CreateDraft, SubmitInv, StudioTypes, Studios
  <2> HIDE DEF q
  <2> QED BY <2>2, <2>3, <2>4, Serving DEF SubmitInv
<1>4. ASSUME p.kind = "job", NEW st \in PostStates, NEW code \in Codes,
             st = "served" => code # "",
             posts' = (posts \ {p}) \cup {[p EXCEPT !.st = st, !.code = code]},
             UNCHANGED <<studio, drafts, clicks>>,
             DOMAIN orders' \subseteq DOMAIN orders \cup {p.key}
      PROVE  SubmitInv'
  <2> DEFINE q == [p EXCEPT !.st = st, !.code = code]
  <2>1. /\ q \in JobPosts /\ q.click = p.click /\ q.kind = p.kind /\ q.key = p.key
        /\ q.st = "served" => q.code # ""
    BY <1>2, <1>4 DEF JobPosts
  <2>2. drafts' \in Nat /\ DOMAIN orders' \subseteq 1 .. studio.minted
    BY <1>2, <1>4 DEF SubmitInv, StudioTypes
  <2>3. posts' = (posts \ {p}) \cup {q}
    BY <1>4
  <2> HIDE DEF q
  <2> QED BY <1>4, <2>1, <2>2, <2>3, Serving
<1>5. CASE LookUp(p)
  <2>1. CASE p.key \in DOMAIN orders
    BY <1>4, <1>5, <2>1 DEF LookUp, Serves, Becomes, PostStates, Codes
  <2>2. CASE p.key \notin DOMAIN orders
    <3>1. [p EXCEPT !.st = "new"] = [p EXCEPT !.st = "new", !.code = p.code]
      BY <1>2, <1>5 DEF LookUp, JobPosts
    <3>2. p.code \in Codes
      BY <1>2, <1>5 DEF LookUp, JobPosts
    <3> QED BY <1>4, <1>5, <2>2, <3>1, <3>2 DEF LookUp, Becomes, PostStates
  <2> QED BY <2>1, <2>2
<1>6. CASE InsertJob(p)
  <2>1. CASE p.key \in DOMAIN orders
    BY <1>4, <1>6, <2>1 DEF InsertJob, Serves, Becomes, PostStates, Codes
  <2>2. CASE p.key \notin DOMAIN orders
    BY <1>4, <1>6, <2>2 DEF InsertJob, Serves, Becomes, PostStates, Codes
  <2> QED BY <2>1, <2>2
<1> QED BY <1>3, <1>5, <1>6

LEMMA Posting ==
    ASSUME SubmitInv, NEW s \in Studios, NEW n \in 1 .. clicks',
           s.key = studio.key, s.minted = studio.minted, s.told = studio.told,
           s.denied = studio.denied, s.waits = n, PostJob(s, n),
           clicks' \in Nat, clicks <= clicks', drafts' \in Nat, UNCHANGED orders
    PROVE  SubmitInv'
<1> DEFINE key == IF s.key = 0 THEN s.minted + 1 ELSE s.key
           job == JobPost(n, key)
<1>1. /\ studio.minted \in Nat /\ studio.key \in Nat /\ studio.key <= studio.minted
      /\ studio.asked \in Inputs /\ clicks \in Nat
  BY DEF SubmitInv, StudioTypes, Studios, KeysAreHeld
<1>2. key \in 1 .. studio'.minted /\ studio'.minted >= studio.minted
      /\ studio'.minted \in Nat
  BY <1>1 DEF PostJob, Studios
<1>3. /\ studio' \in Studios /\ studio'.key = key /\ studio'.waits = n
      /\ studio'.told = studio.told /\ studio'.denied = studio.denied
      /\ studio.key # 0 => key = studio.key /\ studio'.minted = studio.minted
      /\ studio.key = 0 => key = studio.minted + 1 /\ studio'.minted = key
  <2>1. studio' = [s EXCEPT !.key = key, !.minted = IF s.key = 0 THEN key ELSE s.minted]
    BY DEF PostJob
  <2>2. key \in Nat /\ (studio.key # 0 => key = studio.key)
        /\ (studio.key = 0 => key = studio.minted + 1)
    BY <1>1
  <2> HIDE DEF key
  <2>3. CASE studio.key = 0
    <3>1. studio' = [s EXCEPT !.key = key, !.minted = key]
      BY <2>1, <2>3
    <3> QED BY <2>2, <2>3, <3>1 DEF Studios
  <2>4. CASE studio.key # 0
    <3>1. studio' = [s EXCEPT !.key = key, !.minted = s.minted]
      BY <2>1, <2>4
    <3> QED BY <2>2, <2>4, <3>1 DEF Studios
  <2> QED BY <2>3, <2>4
<1>4. posts' = {p \in posts : p.click # n} \cup {job}
  BY DEF PostJob
<1> HIDE DEF key
<1>5. job \in JobPosts /\ job.click = n /\ job.key = key /\ job.st = "sent"
  BY <1>1, <1>2 DEF JobPost, JobPosts, PostStates, Codes
<1> HIDE DEF job
<1>6. StudioTypes'
  BY <1>3, <1>4, <1>5 DEF SubmitInv, StudioTypes, Studios
<1>7. KeysAreHeld'
  <2>1. ASSUME NEW p \in posts, p.click # n
        PROVE  /\ p.click \in 1 .. clicks'
               /\ p.kind = "job" => p.key \in 1 .. studio'.minted
    BY <1>1, <1>2, <2>1 DEF SubmitInv, KeysAreHeld
  <2>2. studio'.key <= studio'.minted /\ studio'.waits <= clicks'
    BY <1>2, <1>3
  <2>3. ASSUME NEW p \in posts'
        PROVE  /\ p.click \in 1 .. clicks'
               /\ p.kind = "job" => /\ p.key \in 1 .. studio'.minted
                                    /\ p.click = studio'.waits => p.key = studio'.key
    BY <1>2, <1>3, <1>4, <1>5, <2>1
  <2> QED BY <2>2, <2>3 DEF KeysAreHeld
<1>8. DOMAIN orders' \subseteq 1 .. studio'.minted
  BY <1>1, <1>2 DEF SubmitInv
<1>9. LetGo' = LetGo
  <2>1. CASE studio.key # 0
    BY <1>3, <2>1 DEF LetGo
  <2>2. CASE studio.key = 0
    <3>1. \A k \in 1 .. studio.minted : k \in 1 .. studio'.minted /\ k # key /\ k # studio.key
      BY <1>1, <1>3, <2>2
    <3>2. \A k \in 1 .. studio'.minted : k # key => k \in 1 .. studio.minted
      BY <1>1, <1>3, <2>2
    <3> QED BY <1>3, <3>1, <3>2 DEF LetGo
  <2> QED BY <2>1, <2>2
<1>10. AnswersSpeak'
  BY <1>4, <1>5 DEF SubmitInv, AnswersSpeak
<1> QED BY <1>3, <1>6, <1>7, <1>8, <1>9, <1>10 DEF SubmitInv

LEMMA SubmitKeeps == ASSUME SubmitInv, Submit PROVE SubmitInv'
<1> DEFINE s == [studio EXCEPT !.waits = clicks']
<1>1. /\ clicks' = clicks + 1 /\ clicks \in Nat /\ drafts' \in Nat /\ studio \in Studios
      /\ UNCHANGED <<orders, drafts>>
  BY DEF Submit, SubmitInv, StudioTypes, Studios
<1>2. /\ s \in Studios /\ s.waits = clicks' /\ s.key = studio.key /\ s.minted = studio.minted
      /\ s.told = studio.told /\ s.denied = studio.denied
  BY <1>1 DEF Studios
<1>3. CASE studio.draft # 0
  <2>1. PostJob(s, clicks')
    BY <1>3 DEF Submit
  <2> HIDE DEF s
  <2> QED BY <1>1, <1>2, <2>1, Posting
<1>4. CASE studio.draft = 0
  <2>1. studio' = s /\ posts' = posts \cup {DraftPost(clicks')}
    BY <1>4 DEF Submit
  <2>2. DraftPost(clicks') \in DraftPosts /\ DraftPost(clicks').click = clicks'
        /\ DraftPost(clicks').kind # "job" /\ DraftPost(clicks').st = "sent"
    BY <1>1 DEF DraftPost, DraftPosts, PostStates, Codes
  <2> HIDE DEF s
  <2>3. StudioTypes'
    BY <1>1, <1>2, <2>1, <2>2 DEF SubmitInv, StudioTypes, Studios
  <2>4. KeysAreHeld'
    <3>1. ASSUME NEW p \in posts'
          PROVE  /\ p.click \in 1 .. clicks'
                 /\ p.kind = "job" => /\ p.key \in 1 .. studio'.minted
                                      /\ p.click = studio'.waits => p.key = studio'.key
      <4>1. CASE p \in posts
        BY <1>1, <1>2, <2>1, <4>1 DEF SubmitInv, KeysAreHeld
      <4>2. CASE p = DraftPost(clicks')
        BY <1>1, <2>2, <4>2
      <4> QED BY <2>1, <4>1, <4>2
    <3> QED BY <1>1, <1>2, <2>1, <3>1 DEF SubmitInv, KeysAreHeld
  <2>5. LetGo' = LetGo
    BY <1>2, <2>1 DEF LetGo
  <2>6. AnswersSpeak'
    BY <2>1, <2>2 DEF SubmitInv, AnswersSpeak
  <2> QED BY <1>1, <1>2, <2>1, <2>3, <2>4, <2>5, <2>6 DEF SubmitInv
<1> QED BY <1>3, <1>4

LEMMA DraftAnsweredKeeps == ASSUME SubmitInv, NEW p \in posts, DraftAnswered(p) PROVE SubmitInv'
<1> DEFINE s == [studio EXCEPT !.draft = drafts]
<1>1. /\ studio \in Studios /\ drafts \in Nat /\ clicks \in Nat
      /\ p.click \in 1 .. clicks /\ p.click = studio.waits
      /\ PostJob(s, p.click) /\ UNCHANGED <<orders, drafts, clicks>>
  BY DEF DraftAnswered, Awaited, SubmitInv, StudioTypes, Studios, KeysAreHeld
<1>2. /\ s \in Studios /\ s.waits = p.click /\ s.key = studio.key
      /\ s.minted = studio.minted /\ s.told = studio.told /\ s.denied = studio.denied
  BY <1>1 DEF Studios
<1> HIDE DEF s
<1> QED BY <1>1, <1>2, Posting

(* An answer or the want of one: the button is free again.                 *)
LEMMA Freed ==
    ASSUME SubmitInv, studio' \in Studios, studio'.waits = 0,
           studio'.minted = studio.minted, studio'.key \in {studio.key, 0},
           posts' \subseteq posts, UNCHANGED <<orders, drafts, clicks>>,
           Cardinality(LetGo') <= studio'.denied
    PROVE  SubmitInv'
<1>1. StudioTypes'
  BY DEF SubmitInv, StudioTypes, Studios
<1>2. KeysAreHeld'
  <2>1. \A p \in posts : p.click # 0
    BY DEF SubmitInv, KeysAreHeld
  <2>2. studio'.key <= studio'.minted /\ studio'.waits <= clicks'
    BY DEF SubmitInv, StudioTypes, Studios, KeysAreHeld
  <2> QED BY <2>1, <2>2 DEF SubmitInv, KeysAreHeld
<1>3. AnswersSpeak'
  BY DEF SubmitInv, AnswersSpeak
<1> QED BY <1>1, <1>2, <1>3 DEF SubmitInv

LEMMA GivesUpKeeps == ASSUME SubmitInv, NEW p \in posts, GivesUp(p) PROVE SubmitInv'
<1>1. /\ studio' \in Studios /\ studio'.waits = 0 /\ studio'.minted = studio.minted
      /\ studio'.key = studio.key /\ studio'.told = studio.told
      /\ studio'.denied = studio.denied
  BY DEF GivesUp, SubmitInv, StudioTypes, Studios
<1>2. posts' \subseteq posts /\ UNCHANGED <<orders, drafts, clicks>>
  BY DEF GivesUp
<1>3. LetGo' = LetGo
  BY <1>1 DEF LetGo
<1> QED BY <1>1, <1>2, <1>3, Freed DEF SubmitInv

LEMMA JobAnsweredKeeps == ASSUME SubmitInv, NEW p \in posts, JobAnswered(p) PROVE SubmitInv'
<1>1. /\ posts' \subseteq posts /\ UNCHANGED <<orders, drafts, clicks>>
      /\ studio \in Studios /\ Cardinality(LetGo) <= studio.denied
  BY DEF JobAnswered, SubmitInv, StudioTypes, Studios
<1>2. p.key = studio.key /\ p.key \in 1 .. studio.minted
  BY DEF JobAnswered, Awaited, SubmitInv, KeysAreHeld
<1>3. IsFiniteSet(LetGo) /\ Cardinality(LetGo) \in Nat /\ studio.denied \in Nat
      /\ studio.minted \in Nat
  BY <1>1, LetGoFinite, FS_CardinalityType DEF SubmitInv, Studios
<1>4. CASE studio' = [studio EXCEPT !.waits = 0, !.draft = 0, !.key = 0,
                                    !.told = @ \cup {p.key}]
  <2>1. /\ studio' \in Studios /\ studio'.waits = 0 /\ studio'.key = 0
        /\ studio'.minted = studio.minted /\ studio'.denied = studio.denied
        /\ studio'.told = studio.told \cup {studio.key}
    BY <1>1, <1>2, <1>3, <1>4 DEF Studios
  <2>2. LetGo' = LetGo
    BY <1>3, <2>1 DEF LetGo
  <2> QED BY <1>1, <2>1, <2>2, Freed
<1>5. CASE studio' = [studio EXCEPT !.waits = 0, !.key = 0, !.denied = @ + 1]
  <2>1. /\ studio' \in Studios /\ studio'.waits = 0 /\ studio'.key = 0
        /\ studio'.minted = studio.minted /\ studio'.denied = studio.denied + 1
        /\ studio'.told = studio.told
    <3>1. studio' = [studio EXCEPT !.waits = 0, !.key = 0, !.denied = studio.denied + 1]
      BY <1>5
    <3>2. studio.denied + 1 \in Nat
      BY <1>3
    <3> QED BY <1>1, <3>1, <3>2 DEF Studios
  <2>2. LetGo' \subseteq LetGo \cup {studio.key}
    BY <1>3, <2>1 DEF LetGo
  <2>3. /\ IsFiniteSet(LetGo \cup {studio.key})
        /\ Cardinality(LetGo \cup {studio.key}) <= Cardinality(LetGo) + 1
    BY <1>3, FS_AddElement
  <2>4. Cardinality(LetGo') <= Cardinality(LetGo \cup {studio.key})
    BY <2>2, <2>3, FS_Subset
  <2>5. /\ Cardinality(LetGo') \in Nat /\ Cardinality(LetGo \cup {studio.key}) \in Nat
    BY <2>2, <2>3, FS_Subset, FS_CardinalityType
  <2>6. Cardinality(LetGo') <= studio'.denied
    BY <1>1, <1>3, <2>1, <2>3, <2>4, <2>5
  <2> QED BY <1>1, <2>1, <2>6, Freed
<1>6. CASE studio' = [studio EXCEPT !.waits = 0]
  <2>1. /\ studio' \in Studios /\ studio'.waits = 0 /\ studio'.key = studio.key
        /\ studio'.minted = studio.minted /\ studio'.denied = studio.denied
        /\ studio'.told = studio.told
    BY <1>1, <1>6 DEF Studios
  <2>2. LetGo' = LetGo
    BY <2>1 DEF LetGo
  <2> QED BY <1>1, <2>1, <2>2, Freed
<1>7. p.code \in {"ok", "CONFLICT", "IDEMPOTENCY_CONFLICT"}
  BY DEF JobAnswered, SubmitInv, AnswersSpeak, StudioTypes, DraftPosts, JobPosts, Codes
<1> QED BY <1>4, <1>5, <1>6, <1>7 DEF JobAnswered

LEMMA SubmitStarts == SubmitInit => SubmitInv
<1> SUFFICES ASSUME SubmitInit PROVE SubmitInv
  OBVIOUS
<1>1. /\ studio = [asked |-> "first", draft |-> 0, key |-> 0, waits |-> 0,
                   minted |-> 0, told |-> {}, denied |-> 0]
      /\ posts = {} /\ DOMAIN orders = {} /\ drafts = 0 /\ clicks = 0
  BY DEF SubmitInit
<1>2. StudioTypes
  BY <1>1 DEF StudioTypes, Studios, Inputs
<1>3. KeysAreHeld /\ AnswersSpeak
  BY <1>1 DEF KeysAreHeld, AnswersSpeak
<1>4. LetGo = {}
  BY <1>1 DEF LetGo
<1> QED BY <1>1, <1>2, <1>3, <1>4, FS_EmptySet DEF SubmitInv

LEMMA SubmitSteps == ASSUME SubmitInv, [SubmitNext]_submitVars PROVE SubmitInv'
<1>1. CASE UNCHANGED submitVars
  BY <1>1 DEF submitVars, SubmitInv, StudioTypes, KeysAreHeld, AnswersSpeak, LetGo
<1>2. CASE ChangeInputs
  <2>1. /\ studio' \in Studios /\ studio'.key = studio.key /\ studio'.waits = studio.waits
        /\ studio'.minted = studio.minted /\ studio'.told = studio.told
        /\ studio'.denied = studio.denied /\ UNCHANGED <<posts, orders, drafts, clicks>>
    BY <1>2 DEF ChangeInputs, SubmitInv, StudioTypes, Studios
  <2> QED BY <2>1 DEF SubmitInv, StudioTypes, KeysAreHeld, AnswersSpeak, LetGo
<1>3. CASE Submit
  BY <1>3, SubmitKeeps
<1>4. ASSUME NEW p \in posts,
             \/ DraftAnswered(p) \/ JobAnswered(p) \/ GivesUp(p)
             \/ CreateDraft(p) \/ LookUp(p) \/ InsertJob(p)
      PROVE  SubmitInv'
  BY <1>4, DraftAnsweredKeeps, JobAnsweredKeeps, GivesUpKeeps, ServingKeeps
<1> QED BY <1>1, <1>2, <1>3, <1>4 DEF SubmitNext

LEMMA ButtonInvariant == SubmitSpec => []SubmitInv
<1>1. SubmitInv /\ [SubmitNext]_submitVars => SubmitInv'
  BY SubmitSteps
<1> QED BY <1>1, SubmitStarts, PTL DEF SubmitSpec

(* However often the button is pressed again, and whenever a request given *)
(* up is served after all, the jobs the author was not told of are at most *)
(* one more than the refusals they were shown: a key is kept until its job *)
(* or its refusal comes back.                                              *)
THEOREM ButtonChargesOnce == SubmitSpec => []ChargedOnce
<1>1. SubmitInv => ChargedOnce
  <2> SUFFICES ASSUME SubmitInv PROVE ChargedOnce
    OBVIOUS
  <2>1. DOMAIN orders \ studio.told \subseteq LetGo \cup {studio.key}
    BY DEF SubmitInv, LetGo
  <2>2. /\ IsFiniteSet(LetGo) /\ IsFiniteSet(LetGo \cup {studio.key})
        /\ Cardinality(LetGo \cup {studio.key}) <= Cardinality(LetGo) + 1
    <3>1. IsFiniteSet(LetGo)
      BY LetGoFinite DEF SubmitInv
    <3>2. Cardinality(LetGo) \in Nat
      BY <3>1, FS_CardinalityType
    <3>3. /\ IsFiniteSet(LetGo \cup {studio.key})
          /\ \/ Cardinality(LetGo \cup {studio.key}) = Cardinality(LetGo)
             \/ Cardinality(LetGo \cup {studio.key}) = Cardinality(LetGo) + 1
      BY <3>1, FS_AddElement
    <3> QED BY <3>1, <3>2, <3>3
  <2>3. /\ IsFiniteSet(DOMAIN orders \ studio.told)
        /\ Cardinality(DOMAIN orders \ studio.told) <= Cardinality(LetGo \cup {studio.key})
    BY <2>1, <2>2, FS_Subset
  <2>4. /\ Cardinality(DOMAIN orders \ studio.told) \in Nat /\ Cardinality(LetGo) \in Nat
        /\ Cardinality(LetGo \cup {studio.key}) \in Nat /\ studio.denied \in Nat
    BY <2>2, <2>3, FS_CardinalityType DEF SubmitInv, StudioTypes, Studios
  <2>5. Cardinality(LetGo) <= studio.denied
    BY DEF SubmitInv
  <2> QED BY <2>2, <2>3, <2>4, <2>5 DEF ChargedOnce
<1> QED BY <1>1, ButtonInvariant, PTL

(* The clicks whose draft is still to be written.                          *)
Unwritten == {n \in 1 .. clicks : \E p \in posts : p.click = n /\ p.kind = "draft" /\ p.st = "sent"}

(* A click has one request at a time, and one draft at most.               *)
OnePerClick == \A p, q \in posts : p.click = q.click => p = q

DraftsInv ==
    /\ SubmitInv /\ OnePerClick
    /\ studio.draft <= drafts
    /\ drafts + Cardinality(Unwritten) <= clicks
    /\ clicks <= MaxClicks

LEMMA UnwrittenFinite ==
    ASSUME SubmitInv
    PROVE  IsFiniteSet(Unwritten) /\ Cardinality(Unwritten) \in Nat
<1>1. IsFiniteSet(1 .. clicks)
  BY FS_Interval DEF SubmitInv, StudioTypes
<1> QED BY <1>1, FS_Subset, FS_CardinalityType DEF Unwritten

LEMMA UnwrittenFiniteNext ==
    ASSUME SubmitInv'
    PROVE  IsFiniteSet(Unwritten') /\ Cardinality(Unwritten') \in Nat
<1>1. IsFiniteSet(1 .. clicks')
  BY FS_Interval DEF SubmitInv, StudioTypes
<1> QED BY <1>1, FS_Subset, FS_CardinalityType DEF Unwritten

(* No draft was written and none is asked for.                             *)
LEMMA DraftsStay ==
    ASSUME DraftsInv, SubmitInv', OnePerClick', UNCHANGED <<drafts, clicks>>,
           studio'.draft \in {studio.draft, 0, drafts},
           \A p \in posts' : p.kind = "draft" /\ p.st = "sent" => p \in posts
    PROVE  DraftsInv'
<1>1. Unwritten' \subseteq Unwritten
  BY DEF Unwritten
<1>2. IsFiniteSet(Unwritten) /\ Cardinality(Unwritten) \in Nat /\ Cardinality(Unwritten') \in Nat
  BY UnwrittenFinite, UnwrittenFiniteNext DEF DraftsInv
<1>3. Cardinality(Unwritten') <= Cardinality(Unwritten)
  BY <1>1, <1>2, FS_Subset
<1>4. drafts \in Nat /\ clicks \in Nat
  BY DEF DraftsInv, SubmitInv, StudioTypes
<1> QED BY <1>2, <1>3, <1>4 DEF DraftsInv

LEMMA PostedOnce ==
    ASSUME OnePerClick, NEW s, NEW n, PostJob(s, n)
    PROVE  OnePerClick' /\ \A p \in posts' : p.kind = "draft" => p \in posts
<1> DEFINE key == IF s.key = 0 THEN s.minted + 1 ELSE s.key
<1>1. posts' = {p \in posts : p.click # n} \cup {JobPost(n, key)}
  BY DEF PostJob
<1>2. JobPost(n, key).click = n /\ JobPost(n, key).kind = "job"
  BY DEF JobPost
<1> HIDE DEF key
<1> QED BY <1>1, <1>2 DEF OnePerClick

LEMMA ServedOnce ==
    ASSUME OnePerClick, NEW p \in posts, NEW q, Becomes(p, q), q.click = p.click
    PROVE  OnePerClick'
BY DEF OnePerClick, Becomes

LEMMA SubmitDrafts == ASSUME DraftsInv, Submit PROVE DraftsInv'
<1> DEFINE s == [studio EXCEPT !.waits = clicks']
<1>1. /\ SubmitInv' /\ clicks' = clicks + 1 /\ clicks \in Nat /\ clicks < MaxClicks
      /\ drafts \in Nat /\ drafts' = drafts /\ studio \in Studios
      /\ IsFiniteSet(Unwritten) /\ Cardinality(Unwritten) \in Nat
      /\ Cardinality(Unwritten') \in Nat
  <2>1. SubmitInv /\ SubmitInv'
    BY SubmitKeeps DEF DraftsInv
  <2>2. /\ IsFiniteSet(Unwritten) /\ Cardinality(Unwritten) \in Nat
        /\ Cardinality(Unwritten') \in Nat
    BY <2>1, UnwrittenFinite, UnwrittenFiniteNext
  <2> QED BY <2>1, <2>2 DEF SubmitInv, StudioTypes, Submit
<1>2. s.draft = studio.draft
  BY <1>1 DEF Studios
<1>3. \A p \in posts : p.click \in 1 .. clicks
  BY DEF DraftsInv, SubmitInv, KeysAreHeld
<1>4. CASE studio.draft # 0
  <2>1. PostJob(s, clicks')
    BY <1>4 DEF Submit
  <2>2. studio'.draft = studio.draft
    <3> DEFINE key == IF s.key = 0 THEN s.minted + 1 ELSE s.key
    <3>1. studio' = [s EXCEPT !.key = key, !.minted = IF s.key = 0 THEN key ELSE s.minted]
      BY <2>1 DEF PostJob
    <3> HIDE DEF key
    <3> QED BY <1>1, <3>1 DEF Studios
  <2> HIDE DEF s
  <2>3. OnePerClick' /\ \A p \in posts' : p.kind = "draft" => p \in posts
    BY <2>1, PostedOnce DEF DraftsInv
  <2>4. Unwritten' \subseteq Unwritten
    BY <1>1, <1>3, <2>3 DEF Unwritten
  <2>5. Cardinality(Unwritten') <= Cardinality(Unwritten)
    BY <1>1, <2>4, FS_Subset
  <2> QED BY <1>1, <2>2, <2>3, <2>5, SubmitAssumption DEF DraftsInv
<1>5. CASE studio.draft = 0
  <2>1. studio' = s /\ posts' = posts \cup {DraftPost(clicks')}
    BY <1>5 DEF Submit
  <2>2. DraftPost(clicks').click = clicks'
    BY DEF DraftPost
  <2>3. OnePerClick'
    BY <1>1, <1>3, <2>1, <2>2 DEF DraftsInv, OnePerClick
  <2>4. Unwritten' \subseteq Unwritten \cup {clicks'}
    BY <1>1, <1>3, <2>1, <2>2 DEF Unwritten
  <2>5. /\ IsFiniteSet(Unwritten \cup {clicks'})
        /\ Cardinality(Unwritten \cup {clicks'}) \in Nat
        /\ Cardinality(Unwritten \cup {clicks'}) <= Cardinality(Unwritten) + 1
    <3>1. /\ IsFiniteSet(Unwritten \cup {clicks'})
          /\ \/ Cardinality(Unwritten \cup {clicks'}) = Cardinality(Unwritten)
             \/ Cardinality(Unwritten \cup {clicks'}) = Cardinality(Unwritten) + 1
      BY <1>1, FS_AddElement
    <3> QED BY <1>1, <3>1
  <2>6. Cardinality(Unwritten') <= Cardinality(Unwritten \cup {clicks'})
    BY <2>4, <2>5, FS_Subset
  <2>7. Cardinality(Unwritten') <= Cardinality(Unwritten) + 1
    BY <1>1, <2>5, <2>6
  <2>8. studio'.draft = studio.draft
    BY <1>2, <2>1
  <2> QED BY <1>1, <2>3, <2>7, <2>8, SubmitAssumption DEF DraftsInv
<1> QED BY <1>4, <1>5

LEMMA CreateDraftDrafts == ASSUME DraftsInv, NEW p \in posts, CreateDraft(p) PROVE DraftsInv'
<1>1. PICK q : q = [p EXCEPT !.st = "served", !.code = "ok"]
  OBVIOUS
<1>2. p \in DraftPosts /\ p.click \in 1 .. clicks /\ clicks \in Nat /\ drafts \in Nat
  BY DEF CreateDraft, DraftsInv, SubmitInv, StudioTypes, KeysAreHeld, JobPosts
<1>3. q.click = p.click /\ q.st = "served"
  BY <1>1, <1>2 DEF DraftPosts
<1>4. /\ Becomes(p, q) /\ p.kind = "draft" /\ p.st = "sent"
      /\ drafts' = drafts + 1 /\ UNCHANGED <<studio, orders, clicks>>
  BY <1>1 DEF CreateDraft, Serves
<1>5. SubmitInv' /\ OnePerClick'
  BY <1>3, <1>4, ServingKeeps, ServedOnce DEF DraftsInv
<1>6. p.click \in Unwritten
  BY <1>2, <1>4 DEF Unwritten
<1>7. Unwritten' \subseteq Unwritten \ {p.click}
  BY <1>3, <1>4 DEF Unwritten, Becomes, DraftsInv, OnePerClick
<1>8. IsFiniteSet(Unwritten) /\ Cardinality(Unwritten) \in Nat /\ Cardinality(Unwritten') \in Nat
  BY <1>5, UnwrittenFinite, UnwrittenFiniteNext DEF DraftsInv
<1>9. /\ IsFiniteSet(Unwritten \ {p.click})
      /\ Cardinality(Unwritten \ {p.click}) = Cardinality(Unwritten) - 1
  BY <1>6, <1>8, FS_RemoveElement
<1>10. Cardinality(Unwritten') <= Cardinality(Unwritten \ {p.click})
  BY <1>7, <1>9, FS_Subset
<1>11. studio.draft <= drafts /\ studio.draft \in Nat
  BY DEF DraftsInv, SubmitInv, StudioTypes, Studios
<1> QED BY <1>2, <1>4, <1>5, <1>8, <1>9, <1>10, <1>11 DEF DraftsInv

LEMMA ServingDrafts ==
    ASSUME DraftsInv, NEW p \in posts, LookUp(p) \/ InsertJob(p)
    PROVE  DraftsInv'
<1>1. PICK st, code : posts' = (posts \ {p}) \cup {[p EXCEPT !.st = st, !.code = code]}
  <2>1. p \in JobPosts
    BY DEF LookUp, InsertJob, DraftsInv, SubmitInv, StudioTypes, DraftPosts
  <2>2. [p EXCEPT !.st = "new"] = [p EXCEPT !.st = "new", !.code = p.code]
    BY <2>1 DEF JobPosts
  <2>3. \/ posts' = (posts \ {p}) \cup {[p EXCEPT !.st = "new"]}
        \/ \E code : posts' = (posts \ {p}) \cup {[p EXCEPT !.st = "served", !.code = code]}
    <3>1. CASE LookUp(p)
      BY <3>1 DEF LookUp, Serves, Becomes
    <3>2. CASE InsertJob(p)
      BY <3>2 DEF InsertJob, Serves, Becomes
    <3> QED BY <3>1, <3>2
  <2> QED BY <2>2, <2>3
<1>2. PICK q : q = [p EXCEPT !.st = st, !.code = code]
  OBVIOUS
<1>3. q.click = p.click /\ q.kind = "job"
  BY <1>2 DEF LookUp, InsertJob, DraftsInv, SubmitInv, StudioTypes, DraftPosts, JobPosts
<1>4. Becomes(p, q) /\ UNCHANGED <<studio, drafts, clicks>>
  BY <1>1, <1>2 DEF Becomes, LookUp, InsertJob
<1>5. SubmitInv' /\ OnePerClick'
  BY <1>3, <1>4, ServingKeeps, ServedOnce DEF DraftsInv
<1>6. \A r \in posts' : r.kind = "draft" /\ r.st = "sent" => r \in posts
  BY <1>3, <1>4 DEF Becomes
<1> QED BY <1>4, <1>5, <1>6, DraftsStay

LEMMA AnsweredDrafts ==
    ASSUME DraftsInv, NEW p \in posts, DraftAnswered(p) \/ JobAnswered(p) \/ GivesUp(p)
    PROVE  DraftsInv'
<1>1. UNCHANGED <<drafts, clicks>> /\ studio \in Studios
  BY DEF DraftAnswered, JobAnswered, GivesUp, DraftsInv, SubmitInv, StudioTypes
<1>2. SubmitInv'
  BY DraftAnsweredKeeps, JobAnsweredKeeps, GivesUpKeeps DEF DraftsInv
<1>3. CASE DraftAnswered(p)
  <2>1. PICK s : s = [studio EXCEPT !.draft = drafts]
    OBVIOUS
  <2>2. PostJob(s, p.click)
    BY <1>3, <2>1 DEF DraftAnswered
  <2>3. OnePerClick' /\ \A q \in posts' : q.kind = "draft" => q \in posts
    BY <2>2, PostedOnce DEF DraftsInv
  <2>4. studio'.draft = drafts
    <3> DEFINE key == IF s.key = 0 THEN s.minted + 1 ELSE s.key
    <3>1. studio' = [s EXCEPT !.key = key, !.minted = IF s.key = 0 THEN key ELSE s.minted]
      BY <2>2 DEF PostJob
    <3> HIDE DEF key
    <3> QED BY <1>1, <2>1, <3>1 DEF Studios
  <2> QED BY <1>1, <1>2, <2>3, <2>4, DraftsStay
<1>4. CASE JobAnswered(p)
  <2>1. p.code \in {"ok", "CONFLICT", "IDEMPOTENCY_CONFLICT"}
    BY <1>4 DEF JobAnswered, DraftsInv, SubmitInv, AnswersSpeak, StudioTypes, DraftPosts,
                JobPosts, Codes
  <2>2. studio'.draft \in {studio.draft, 0}
    BY <1>1, <1>4, <2>1 DEF JobAnswered, Studios
  <2>3. posts' \subseteq posts
    BY <1>4 DEF JobAnswered
  <2>4. OnePerClick'
    BY <2>3 DEF OnePerClick, DraftsInv
  <2> QED BY <1>1, <1>2, <2>2, <2>3, <2>4, DraftsStay
<1>5. CASE GivesUp(p)
  <2>1. studio'.draft = studio.draft /\ posts' \subseteq posts
    BY <1>1, <1>5 DEF GivesUp, Studios
  <2>2. OnePerClick'
    BY <2>1 DEF OnePerClick, DraftsInv
  <2> QED BY <1>1, <1>2, <2>1, <2>2, DraftsStay
<1> QED BY <1>3, <1>4, <1>5

LEMMA DraftsStart == SubmitInit => DraftsInv
<1> SUFFICES ASSUME SubmitInit PROVE DraftsInv
  OBVIOUS
<1>1. posts = {} /\ studio.draft = 0 /\ drafts = 0 /\ clicks = 0
  BY DEF SubmitInit
<1>2. Unwritten = {}
  BY <1>1 DEF Unwritten
<1>3. Cardinality(Unwritten) = 0
  BY <1>2, FS_EmptySet
<1> QED BY <1>1, <1>3, SubmitStarts, SubmitAssumption DEF DraftsInv, OnePerClick

LEMMA DraftsStep == ASSUME DraftsInv, [SubmitNext]_submitVars PROVE DraftsInv'
<1>1. CASE UNCHANGED submitVars \/ ChangeInputs
  <2>1. UNCHANGED <<posts, drafts, clicks>> /\ studio'.draft = studio.draft
    BY <1>1 DEF submitVars, ChangeInputs, DraftsInv, SubmitInv, StudioTypes, Studios
  <2>2. SubmitInv'
    BY <1>1, SubmitSteps DEF SubmitNext, DraftsInv
  <2> QED BY <2>1, <2>2, DraftsStay DEF DraftsInv, OnePerClick
<1>2. CASE Submit
  BY <1>2, SubmitDrafts
<1>3. ASSUME NEW p \in posts,
             \/ DraftAnswered(p) \/ JobAnswered(p) \/ GivesUp(p)
             \/ CreateDraft(p) \/ LookUp(p) \/ InsertJob(p)
      PROVE  DraftsInv'
  BY <1>3, AnsweredDrafts, CreateDraftDrafts, ServingDrafts
<1> QED BY <1>1, <1>2, <1>3 DEF SubmitNext

(* The button's draft was written, a click writes one draft at most and    *)
(* has one request at a time, and the server's orders bear keys the page   *)
(* has minted.                                                             *)
LEMMA ButtonTypeCorrect == SubmitSpec => []SubmitTypeOK
<1>1. DraftsInv => SubmitTypeOK
  <2> SUFFICES ASSUME DraftsInv PROVE SubmitTypeOK
    OBVIOUS
  <2>1. /\ studio \in Studios /\ drafts \in Nat /\ clicks \in Nat /\ clicks <= MaxClicks
        /\ studio.key <= studio.minted /\ DOMAIN orders \subseteq 1 .. studio.minted
        /\ studio.draft <= drafts /\ drafts + Cardinality(Unwritten) <= clicks
        /\ Cardinality(Unwritten) \in Nat
    BY UnwrittenFinite DEF DraftsInv, SubmitInv, StudioTypes, KeysAreHeld
  <2>2. PICK f : f = [p \in posts |-> p.click]
    OBVIOUS
  <2>3. f \in Injection(posts, 1 .. clicks)
    <3>1. \A p \in posts : p.click \in 1 .. clicks
      BY DEF DraftsInv, SubmitInv, KeysAreHeld
    <3>2. f \in [posts -> 1 .. clicks]
      BY <2>2, <3>1
    <3>3. \A p, q \in posts : f[p] = f[q] => p = q
      BY <2>2 DEF DraftsInv, OnePerClick
    <3> QED BY <3>2, <3>3 DEF Injection, IsInjective
  <2>4. IsFiniteSet(1 .. clicks) /\ Cardinality(1 .. clicks) = clicks
    BY <2>1, FS_Interval
  <2>5. IsFiniteSet(posts) /\ Cardinality(posts) <= clicks
    BY <2>3, <2>4, FS_Injection
  <2>6. Cardinality(posts) \in Nat
    BY <2>5, FS_CardinalityType
  <2>7. /\ studio.key \in Nat /\ studio.draft \in Nat /\ studio.minted \in Nat
        /\ studio.asked \in Inputs
    BY <2>1 DEF Studios
  <2> QED BY <2>1, <2>5, <2>6, <2>7, SubmitAssumption DEF SubmitTypeOK
<1>2. DraftsInv /\ [SubmitNext]_submitVars => DraftsInv'
  BY DraftsStep
<1> QED BY <1>1, <1>2, DraftsStart, PTL DEF SubmitSpec

-----------------------------------------------------------------------------
(* The blocking studio.                                                    *)

SceneFields == {"view", "ver", "pend", "rev", "timer", "waits", "sent", "heard"}
PatchFields == {"id", "docs", "base", "rev", "st", "found"}

(* A save that is awaited with no edit behind it carries the last edit.    *)
SavesTheLast ==
    \A p \in patches :
        /\ DOMAIN p = PatchFields
        /\ p.id \in 1 .. scene.sent
        /\ scene.pend = {} /\ p.id = scene.waits => p.rev = scene.rev

BlockingInv ==
    /\ DOMAIN scene = SceneFields
    /\ scene.sent \in Nat /\ scene.waits \in 0 .. scene.sent /\ scene.rev \in Nat
    /\ SavesTheLast
    /\ EditsGoOut

(* What the queue's drain does, whatever the page has just taken in.       *)
LEMMA Drained ==
    ASSUME NEW d, NEW others, Drain(d, others), DOMAIN d = SceneFields,
           d.sent \in Nat, d.waits = 0, d.rev \in Nat,
           \A p \in others : DOMAIN p = PatchFields /\ p.id \in 1 .. d.sent,
           d.pend = {} => d.heard = d.rev
    PROVE  BlockingInv'
<1>1. CASE d.pend = {}
  BY <1>1 DEF Drain, BlockingInv, SavesTheLast, EditsGoOut
<1>2. CASE d.pend # {}
  <2>1. /\ scene' = [d EXCEPT !.pend = {}, !.sent = d.sent + 1, !.waits = d.sent + 1]
        /\ patches' = others \cup {Patch(d)}
    BY <1>2 DEF Drain
  <2>2. /\ DOMAIN scene' = SceneFields /\ scene'.pend = {} /\ scene'.sent = d.sent + 1
        /\ scene'.waits = d.sent + 1 /\ scene'.rev = d.rev
    BY <2>1 DEF SceneFields
  <2>3. DOMAIN Patch(d) = PatchFields /\ Patch(d).id = d.sent + 1 /\ Patch(d).rev = d.rev
    BY DEF Patch, PatchFields
  <2>4. SavesTheLast'
    BY <2>1, <2>2, <2>3 DEF SavesTheLast
  <2> QED BY <2>2, <2>4 DEF BlockingInv, EditsGoOut
<1> QED BY <1>1, <1>2

(* A save that failed is told of, with every edit made so far.             *)
LEMMA Dropped ==
    ASSUME BlockingInv, scene' = DropsPending(scene), patches' \subseteq patches
    PROVE  BlockingInv'
<1>1. /\ DOMAIN scene' = SceneFields /\ scene'.pend = {} /\ scene'.waits = 0
      /\ scene'.heard = scene.rev /\ scene'.rev = scene.rev /\ scene'.sent = scene.sent
  BY DEF DropsPending, BlockingInv, SceneFields
<1>2. SavesTheLast'
  BY <1>1 DEF BlockingInv, SavesTheLast
<1> QED BY <1>1, <1>2 DEF BlockingInv, EditsGoOut

(* What the server makes of a save, and what is shown, is not the queue's. *)
LEMMA Aside ==
    ASSUME BlockingInv, DOMAIN scene' = SceneFields,
           scene'.pend = scene.pend, scene'.rev = scene.rev, scene'.timer = scene.timer,
           scene'.waits = scene.waits, scene'.sent = scene.sent, scene'.heard = scene.heard,
           \A q \in patches' : \E p \in patches :
               DOMAIN q = DOMAIN p /\ q.id = p.id /\ q.rev = p.rev
    PROVE  BlockingInv'
<1>1. SavesTheLast'
  BY DEF BlockingInv, SavesTheLast
<1> QED BY <1>1 DEF BlockingInv, EditsGoOut

LEMMA BlockingStarts == BlockingInit => BlockingInv
BY DEF BlockingInit, BlockingInv, SavesTheLast, EditsGoOut, SceneFields

LEMMA BlockingSteps == ASSUME BlockingInv, [BlockingNext]_blockingVars PROVE BlockingInv'
<1>1. CASE UNCHANGED <<scene, patches>>
  BY <1>1, Aside DEF BlockingInv
<1>2. CASE EditBlocks
  <2>1. scene' = [scene EXCEPT !.pend = {scene.view.doc}, !.rev = scene.rev + 1, !.timer = TRUE]
        /\ patches' = patches
    BY <1>2 DEF EditBlocks
  <2>2. /\ DOMAIN scene' = SceneFields /\ scene'.pend # {} /\ scene'.timer
        /\ scene'.rev = scene.rev + 1 /\ scene'.waits = scene.waits /\ scene'.sent = scene.sent
    BY <2>1 DEF BlockingInv, SceneFields
  <2>3. SavesTheLast'
    BY <2>1, <2>2 DEF BlockingInv, SavesTheLast
  <2> QED BY <2>2, <2>3 DEF BlockingInv, EditsGoOut
<1>3. CASE Flush
  <2> DEFINE d == [scene EXCEPT !.timer = FALSE]
  <2>1. /\ DOMAIN d = SceneFields /\ ~d.timer /\ d.pend = scene.pend /\ d.rev = scene.rev
        /\ d.waits = scene.waits /\ d.sent = scene.sent /\ d.heard = scene.heard
    BY DEF BlockingInv, SceneFields
  <2>2. IF scene.waits # 0 THEN scene' = d /\ patches' = patches ELSE Drain(d, patches)
    BY <1>3 DEF Flush
  <2> HIDE DEF d
  <2>3. CASE scene.waits # 0
    BY <2>1, <2>2, <2>3 DEF BlockingInv, SavesTheLast, EditsGoOut
  <2>4. CASE scene.waits = 0
    BY <2>1, <2>2, <2>4, Drained DEF BlockingInv, SavesTheLast, EditsGoOut
  <2> QED BY <2>3, <2>4
<1>4. ASSUME NEW p \in patches, PatchSaved(p) PROVE BlockingInv'
  <2> DEFINE d == SavedView(scene, p)
  <2>1. /\ DOMAIN d = SceneFields /\ d.pend = scene.pend /\ d.rev = scene.rev
        /\ d.waits = 0 /\ d.sent = scene.sent /\ d.heard = p.rev
    BY DEF SavedView, BlockingInv, SceneFields
  <2>2. Drain(d, patches \ {p}) /\ p.id = scene.waits
    BY <1>4 DEF PatchSaved, Awaits
  <2> HIDE DEF d
  <2> QED BY <2>1, <2>2, Drained DEF BlockingInv, SavesTheLast
<1>5. ASSUME NEW p \in patches, PatchRefused(p) \/ PatchLost(p) \/ PatchFails(p)
      PROVE  BlockingInv'
  <2>1. scene' = DropsPending(scene) /\ patches' \subseteq patches
    BY <1>5 DEF PatchRefused, PatchLost, PatchFails
  <2> QED BY <2>1, Dropped
<1>6. ASSUME NEW p \in patches, CheckBase(p) \/ SaveManual(p) \/ NumberTaken(p)
      PROVE  BlockingInv'
  <2>1. PICK q : /\ patches' = (patches \ {p}) \cup {q}
                 /\ DOMAIN q = DOMAIN p /\ q.id = p.id /\ q.rev = p.rev
    <3>1. DOMAIN p = PatchFields
      BY DEF BlockingInv, SavesTheLast
    <3>2. PICK st, found : patches' = (patches \ {p}) \cup {[p EXCEPT !.st = st, !.found = found]}
      <4>1. CASE CheckBase(p)
        BY <4>1 DEF CheckBase, Marks
      <4>2. CASE SaveManual(p)
        BY <4>2 DEF SaveManual, Marks
      <4>3. CASE NumberTaken(p)
        <5>1. [p EXCEPT !.st = "failed"] = [p EXCEPT !.st = "failed", !.found = p.found]
          BY <3>1 DEF PatchFields
        <5> QED BY <4>3, <5>1 DEF NumberTaken, Marks
      <4> QED BY <1>6, <4>1, <4>2, <4>3
    <3> DEFINE q == [p EXCEPT !.st = st, !.found = found]
    <3>3. DOMAIN q = DOMAIN p /\ q.id = p.id /\ q.rev = p.rev
      BY <3>1 DEF PatchFields
    <3>4. patches' = (patches \ {p}) \cup {q}
      BY <3>2
    <3> QED BY <3>3, <3>4
  <2>2. scene' = scene
    BY <1>6 DEF CheckBase, SaveManual, NumberTaken
  <2> QED BY <2>1, <2>2, Aside DEF BlockingInv
<1>7. ASSUME NEW v, scene' = Shows(scene, v), patches' = patches PROVE BlockingInv'
  <2>1. /\ DOMAIN scene' = SceneFields
        /\ scene'.pend = scene.pend /\ scene'.rev = scene.rev /\ scene'.timer = scene.timer
        /\ scene'.waits = scene.waits /\ scene'.sent = scene.sent
        /\ scene'.heard = scene.heard
    BY <1>7 DEF Shows, BlockingInv, SceneFields
  <2> QED BY <1>7, <2>1, Aside
<1>8. ASSUME NEW f \in fetches, FetchAnswered(f) PROVE BlockingInv'
  BY <1>7, <1>8 DEF FetchAnswered
<1>9. CASE CompleteTurn
  BY <1>7, <1>9 DEF CompleteTurn
<1>10. ASSUME NEW f \in fetches, FetchFails(f) \/ ReadScript(f) PROVE BlockingInv'
  BY <1>1, <1>10 DEF FetchFails, ReadScript
<1>11. CASE UNCHANGED blockingVars \/ TurnFails \/ StartTurn \/ CommitTurn \/ ReadTurn
            \/ TurnElsewhere
  BY <1>1, <1>11 DEF blockingVars, TurnFails, StartTurn, CommitTurn, ReadTurn, TurnElsewhere
<1> QED BY <1>2, <1>3, <1>4, <1>5, <1>6, <1>8, <1>9, <1>10, <1>11 DEF BlockingNext

(* No edit is left behind in the queue, whatever is saved, refused, lost   *)
(* or reloaded, and however many are made meanwhile: one that waits has a  *)
(* timer or a save under way to follow, and when none waits the last was   *)
(* saved, or its author heard that it was not.                             *)
THEOREM BlockingEditsGoOut == BlockingSpec => []EditsGoOut
<1>1. BlockingInv /\ [BlockingNext]_blockingVars => BlockingInv'
  BY BlockingSteps
<1>2. BlockingInv => EditsGoOut
  BY DEF BlockingInv
<1> QED BY <1>1, <1>2, BlockingStarts, PTL DEF BlockingSpec

(* A version there was, and a document that may be saved: the turns in it  *)
(* were made of earlier versions.                                          *)
Past(v) == v.no \in 1 .. head.no /\ v.doc \subseteq 1 .. (v.no - 1)
Savable(docs) == docs = {} \/ \E doc \in SUBSET (1 .. (head.no - 1)) : docs = {doc}

SceneWell(d) ==
    DOMAIN d = SceneFields /\ Past(d.view) /\ d.ver \in 1 .. head.no /\ Savable(d.pend)
PatchWell(p) ==
    /\ DOMAIN p = PatchFields /\ Past(p.found) /\ p.base \in 1 .. head.no
    /\ p.docs # {} /\ Savable(p.docs)
FetchWell(f) == DOMAIN f = {"id", "st", "view"} /\ Past(f.view)
ChatWell(c) ==
    /\ DOMAIN c = {"st", "view"} /\ Past(c.view)
    /\ c.st \in {"idle", "streaming", "committed", "read"}

HeadWell ==
    /\ DOMAIN head = {"no", "doc", "manual"}
    /\ head.no \in Nat \ {0} /\ head.doc \subseteq 1 .. (head.no - 1)

VersionsInv ==
    /\ HeadWell /\ SceneWell(scene) /\ ChatWell(chat)
    /\ \A p \in patches : PatchWell(p)
    /\ \A f \in fetches : FetchWell(f)

(* The numbers only grow: what was a version stays one.                    *)
HeadGoesOn == HeadWell' /\ head.no <= head'.no

LEMMA VersionsStay ==
    ASSUME VersionsInv, HeadGoesOn
    PROVE  /\ Past(head)'
           /\ \A v : Past(v) => v.no \in 1 .. head'.no /\ v.doc \subseteq 1 .. (v.no - 1)
           /\ UNCHANGED scene => SceneWell(scene)'
           /\ UNCHANGED chat => ChatWell(chat)'
           /\ \A p \in patches : PatchWell(p)'
           /\ \A f \in fetches : FetchWell(f)'
<1>1. head.no \in Nat /\ head'.no \in Nat /\ head.no <= head'.no
  BY DEF HeadGoesOn, HeadWell, VersionsInv
<1>2. \A v : Past(v) => v.no \in 1 .. head'.no /\ v.doc \subseteq 1 .. (v.no - 1)
  BY <1>1 DEF Past
<1>3. \A docs : Savable(docs) => docs = {} \/ \E doc \in SUBSET (1 .. (head'.no - 1)) : docs = {doc}
  <2>1. 1 .. (head.no - 1) \subseteq 1 .. (head'.no - 1)
    BY <1>1
  <2> QED BY <2>1 DEF Savable
<1>4. \A n \in 1 .. head.no : n \in 1 .. head'.no
  BY <1>1
<1>5. Past(head)'
  BY DEF Past, HeadGoesOn, HeadWell
<1>6. UNCHANGED scene => SceneWell(scene)'
  BY <1>2, <1>3, <1>4 DEF VersionsInv, SceneWell, Past, Savable
<1>7. UNCHANGED chat => ChatWell(chat)'
  BY <1>2 DEF VersionsInv, ChatWell, Past
<1>8. \A p \in patches : PatchWell(p)'
  BY <1>2, <1>3, <1>4 DEF VersionsInv, PatchWell, Past, Savable
<1>9. \A f \in fetches : FetchWell(f)'
  BY <1>2 DEF VersionsInv, FetchWell, Past
<1> QED BY <1>2, <1>5, <1>6, <1>7, <1>8, <1>9

LEMMA HeadStays == ASSUME VersionsInv, UNCHANGED head PROVE HeadGoesOn
BY DEF VersionsInv, HeadGoesOn, HeadWell

(* A turn appends a version made of an earlier one.                        *)
LEMMA TurnAppends == ASSUME VersionsInv, NEW v, Past(v), AppendVersion(v.doc) PROVE HeadGoesOn
<1>1. /\ head' = [no |-> head.no + 1, doc |-> v.doc \cup {head.no}, manual |-> FALSE]
      /\ head.no \in Nat \ {0} /\ v.no \in 1 .. head.no /\ v.doc \subseteq 1 .. (v.no - 1)
  BY DEF AppendVersion, Version, VersionsInv, HeadWell, Past
<1>2. head'.no = head.no + 1 /\ head'.doc = v.doc \cup {head.no}
  BY <1>1
<1>3. head'.doc \subseteq 1 .. (head'.no - 1)
  BY <1>1, <1>2
<1> QED BY <1>1, <1>2, <1>3 DEF HeadGoesOn, HeadWell

LEMMA DrainedWell ==
    ASSUME VersionsInv, UNCHANGED <<head, fetches, chat>>, NEW d, SceneWell(d),
           NEW others, others \subseteq patches, Drain(d, others)
    PROVE  VersionsInv'
<1>1. HeadGoesOn
  BY HeadStays
<1>2. CASE d.pend = {}
  <2>1. scene' = d /\ patches' = others
    BY <1>2 DEF Drain
  <2>2. SceneWell(scene)'
    BY <2>1 DEF SceneWell, Past, Savable
  <2> QED BY <1>1, <2>1, <2>2, VersionsStay DEF VersionsInv, HeadGoesOn
<1>3. CASE d.pend # {}
  <2>1. /\ scene' = [d EXCEPT !.pend = {}, !.sent = d.sent + 1, !.waits = d.sent + 1]
        /\ patches' = others \cup {Patch(d)}
    BY <1>3 DEF Drain
  <2>2. /\ DOMAIN scene' = SceneFields /\ scene'.pend = {} /\ scene'.view = d.view
        /\ scene'.ver = d.ver
    BY <2>1 DEF SceneWell, SceneFields
  <2>3. SceneWell(scene)'
    BY <2>2 DEF SceneWell, Past, Savable
  <2>4. /\ DOMAIN Patch(d) = PatchFields /\ Patch(d).docs = d.pend /\ Patch(d).base = d.ver
        /\ Patch(d).found = d.view
    BY DEF Patch, PatchFields
  <2>5. PatchWell(Patch(d))
    BY <1>3, <2>4 DEF PatchWell, SceneWell
  <2>6. \A p \in patches' : PatchWell(p)
    BY <2>1, <2>5 DEF VersionsInv
  <2>7. \A p \in patches' : PatchWell(p)'
    BY <2>6 DEF PatchWell, Past, Savable
  <2> QED BY <1>1, <2>3, <2>7, VersionsStay DEF VersionsInv, HeadGoesOn
<1> QED BY <1>2, <1>3

(* The page: only the scene changes, and saves and reloads are taken up.   *)
LEMMA SceneMoves ==
    ASSUME VersionsInv, UNCHANGED head, SceneWell(scene'), patches' \subseteq patches,
           \A f \in fetches' : f \in fetches \/ FetchWell(f), ChatWell(chat')
    PROVE  VersionsInv'
<1>1. HeadGoesOn
  BY HeadStays
<1>2. SceneWell(scene)' /\ ChatWell(chat)'
  BY DEF SceneWell, ChatWell, Past, Savable
<1>3. \A f \in fetches' : FetchWell(f)'
  <2>1. \A f \in fetches' : FetchWell(f)
    BY DEF VersionsInv
  <2> QED BY <2>1 DEF FetchWell, Past
<1> QED BY <1>1, <1>2, <1>3, VersionsStay DEF VersionsInv, HeadGoesOn

(* The server: a version is written, or found.                             *)
LEMMA ServerMoves ==
    ASSUME VersionsInv, HeadGoesOn, UNCHANGED <<scene, fetches, chat>>,
           NEW p \in patches, NEW q, patches' = (patches \ {p}) \cup {q},
           DOMAIN q = PatchFields, q.docs = p.docs, q.base = p.base,
           q.found \in {p.found, head'}
    PROVE  VersionsInv'
<1>1. PatchWell(p)'
  BY VersionsStay
<1>2. Past(q.found)'
  BY <1>1, VersionsStay DEF PatchWell, Past
<1>3. PatchWell(q)'
  BY <1>1, <1>2 DEF PatchWell, Past, Savable
<1>4. \A r \in patches' : PatchWell(r)'
  BY <1>3, VersionsStay
<1> QED BY <1>4, VersionsStay DEF VersionsInv, HeadGoesOn

LEMMA SaveMoves ==
    ASSUME VersionsInv, NEW p \in patches, CheckBase(p) \/ SaveManual(p) \/ NumberTaken(p)
    PROVE  VersionsInv'
<1>1. PatchWell(p) /\ DOMAIN p = PatchFields
  BY DEF VersionsInv, PatchWell
<1>2. ASSUME NEW st, NEW found \in {p.found, head'}, HeadGoesOn,
             patches' = (patches \ {p}) \cup {[p EXCEPT !.st = st, !.found = found]},
             UNCHANGED <<scene, fetches, chat>>
      PROVE  VersionsInv'
  <2> DEFINE q == [p EXCEPT !.st = st, !.found = found]
  <2>1. DOMAIN q = PatchFields /\ q.docs = p.docs /\ q.base = p.base /\ q.found = found
    BY <1>1 DEF PatchFields
  <2>2. patches' = (patches \ {p}) \cup {q}
    BY <1>2
  <2> HIDE DEF q
  <2> QED BY <1>2, <2>1, <2>2, ServerMoves
<1>3. CASE CheckBase(p)
  <2>1. HeadGoesOn /\ head' = head
    BY <1>3, HeadStays DEF CheckBase
  <2> QED BY <1>2, <1>3, <2>1 DEF CheckBase, Marks
<1>4. CASE NumberTaken(p)
  <2>1. HeadGoesOn
    BY <1>4, HeadStays DEF NumberTaken
  <2>2. [p EXCEPT !.st = "failed"] = [p EXCEPT !.st = "failed", !.found = p.found]
    BY <1>1 DEF PatchFields
  <2> QED BY <1>2, <1>4, <2>1, <2>2 DEF NumberTaken, Marks
<1>5. CASE SaveManual(p)
  <2>1. PICK doc \in p.docs : \/ head' = [head EXCEPT !.doc = doc]
                              \/ head' = Version(head.no + 1, doc, TRUE)
    BY <1>5 DEF SaveManual
  <2>2. HeadWell /\ head.no \in Nat /\ doc \subseteq 1 .. (head.no - 1)
    BY <1>1, <2>1 DEF PatchWell, Savable, VersionsInv, HeadWell
  <2>3. HeadGoesOn
    <3>1. CASE head' = [head EXCEPT !.doc = doc]
      BY <2>2, <3>1 DEF HeadGoesOn, HeadWell
    <3>2. CASE head' = Version(head.no + 1, doc, TRUE)
      <4>1. /\ DOMAIN head' = {"no", "doc", "manual"} /\ head'.no = head.no + 1
            /\ head'.doc = doc
        BY <3>2 DEF Version
      <4>2. doc \subseteq 1 .. (head'.no - 1)
        BY <2>2, <4>1
      <4> QED BY <2>2, <4>1, <4>2 DEF HeadGoesOn, HeadWell
    <3> QED BY <2>1, <3>1, <3>2
  <2> QED BY <1>2, <1>5, <2>3 DEF SaveManual, Marks
<1> QED BY <1>3, <1>4, <1>5

LEMMA ShownWell ==
    ASSUME VersionsInv, NEW v, Past(v), NEW d, d = Shows(scene, v)
    PROVE  SceneWell(d)
<1>1. /\ DOMAIN d = SceneFields /\ d.view = v /\ d.pend = scene.pend
      /\ d.ver \in {v.no, scene.ver}
  BY DEF Shows, VersionsInv, SceneWell, SceneFields
<1> QED BY <1>1 DEF SceneWell, VersionsInv, Past

LEMMA VersionsStart == BlockingInit => VersionsInv
<1> SUFFICES ASSUME BlockingInit PROVE VersionsInv
  OBVIOUS
<1>1. /\ head = [no |-> 1, doc |-> {}, manual |-> FALSE]
      /\ patches = {} /\ fetches = {} /\ chat = [st |-> "idle", view |-> head]
  BY DEF BlockingInit, Version
<1>2. HeadWell /\ Past(head)
  BY <1>1 DEF HeadWell, Past
<1>3. SceneWell(scene)
  <2>1. /\ DOMAIN scene = SceneFields /\ scene.view = head /\ scene.ver = 1
        /\ scene.pend = {}
    BY DEF BlockingInit, SceneFields
  <2>2. 1 \in 1 .. head.no
    BY <1>1
  <2> QED BY <1>2, <2>1, <2>2 DEF SceneWell, Savable
<1> QED BY <1>1, <1>2, <1>3 DEF VersionsInv, ChatWell

LEMMA VersionsStep == ASSUME VersionsInv, [BlockingNext]_blockingVars PROVE VersionsInv'
<1>1. /\ DOMAIN scene = SceneFields /\ Past(scene.view) /\ scene.ver \in 1 .. head.no
      /\ Savable(scene.pend) /\ SceneWell(scene) /\ ChatWell(chat) /\ Past(chat.view)
      /\ head.no \in Nat /\ head.no # 0
  BY DEF VersionsInv, SceneWell, ChatWell, HeadWell
<1>2. CASE EditBlocks
  <2>1. scene' = [scene EXCEPT !.pend = {scene.view.doc}, !.rev = scene.rev + 1, !.timer = TRUE]
        /\ UNCHANGED <<head, patches, fetches, chat>>
    BY <1>2 DEF EditBlocks
  <2>2. /\ DOMAIN scene' = SceneFields /\ scene'.pend = {scene.view.doc}
        /\ scene'.view = scene.view /\ scene'.ver = scene.ver
    BY <1>1, <2>1 DEF SceneFields
  <2>3. scene.view.doc \subseteq 1 .. (head.no - 1)
    BY <1>1 DEF Past
  <2>4. SceneWell(scene')
    BY <1>1, <2>2, <2>3 DEF SceneWell, Savable
  <2> QED BY <1>1, <2>1, <2>4, SceneMoves
<1>3. CASE Flush
  <2> DEFINE d == [scene EXCEPT !.timer = FALSE]
  <2>1. DOMAIN d = SceneFields /\ d.pend = scene.pend /\ d.view = scene.view /\ d.ver = scene.ver
    BY <1>1 DEF SceneFields
  <2>2. /\ IF scene.waits # 0 THEN scene' = d /\ patches' = patches ELSE Drain(d, patches)
        /\ UNCHANGED <<head, fetches, chat>>
    BY <1>3 DEF Flush
  <2> HIDE DEF d
  <2>3. SceneWell(d)
    BY <1>1, <2>1 DEF SceneWell
  <2> QED BY <1>1, <2>2, <2>3, SceneMoves, DrainedWell
<1>4. ASSUME NEW p \in patches, PatchSaved(p) PROVE VersionsInv'
  <2> DEFINE d == SavedView(scene, p)
  <2>1. PatchWell(p)
    BY DEF VersionsInv
  <2>2. /\ DOMAIN d = SceneFields /\ d.pend = scene.pend /\ d.ver = p.found.no
        /\ d.view \in {scene.view, p.found}
    BY <1>1 DEF SavedView, SceneFields
  <2>3. Drain(d, patches \ {p}) /\ UNCHANGED <<head, fetches, chat>>
    BY <1>4 DEF PatchSaved
  <2> HIDE DEF d
  <2>4. SceneWell(d)
    BY <1>1, <2>1, <2>2 DEF SceneWell, PatchWell, Past
  <2> QED BY <2>3, <2>4, DrainedWell
<1>5. ASSUME NEW p \in patches, PatchRefused(p) \/ PatchLost(p) \/ PatchFails(p)
      PROVE  VersionsInv'
  <2>1. /\ scene' = DropsPending(scene) /\ patches' \subseteq patches
        /\ UNCHANGED <<head, chat>>
        /\ \/ fetches' = fetches
           \/ fetches' = fetches \cup {[id |-> p.id, st |-> "sent", view |-> scene.view]}
    BY <1>5 DEF PatchRefused, PatchLost, PatchFails
  <2>2. /\ DOMAIN scene' = SceneFields /\ scene'.pend = {}
        /\ scene'.view = scene.view /\ scene'.ver = scene.ver
    BY <1>1, <2>1 DEF DropsPending, SceneFields
  <2>3. SceneWell(scene')
    BY <1>1, <2>2 DEF SceneWell, Savable
  <2>4. FetchWell([id |-> p.id, st |-> "sent", view |-> scene.view])
    BY <1>1 DEF FetchWell
  <2> QED BY <1>1, <2>1, <2>3, <2>4, SceneMoves
<1>6. ASSUME NEW p \in patches, CheckBase(p) \/ SaveManual(p) \/ NumberTaken(p)
      PROVE  VersionsInv'
  BY <1>6, SaveMoves
<1>7. ASSUME NEW f \in fetches, FetchAnswered(f) PROVE VersionsInv'
  <2>1. /\ scene' = Shows(scene, f.view) /\ fetches' = fetches \ {f} /\ Past(f.view)
        /\ UNCHANGED <<head, patches, chat>>
    BY <1>7 DEF FetchAnswered, VersionsInv, FetchWell
  <2> QED BY <1>1, <2>1, ShownWell, SceneMoves
<1>8. ASSUME NEW f \in fetches, FetchFails(f) PROVE VersionsInv'
  <2>1. fetches' = fetches \ {f} /\ UNCHANGED <<head, scene, patches, chat>>
    BY <1>8 DEF FetchFails
  <2> QED BY <1>1, <2>1, SceneMoves
<1>9. ASSUME NEW f \in fetches, ReadScript(f) PROVE VersionsInv'
  <2>1. fetches' = (fetches \ {f}) \cup {[f EXCEPT !.st = "read", !.view = head]}
        /\ UNCHANGED <<head, scene, patches, chat>>
    BY <1>9 DEF ReadScript
  <2>2. DOMAIN f = {"id", "st", "view"} /\ Past(head)
    BY <1>1 DEF VersionsInv, FetchWell, Past, HeadWell
  <2>3. FetchWell([f EXCEPT !.st = "read", !.view = head])
    BY <2>2 DEF FetchWell
  <2> QED BY <1>1, <2>1, <2>3, SceneMoves
<1>10. CASE CompleteTurn
  <2>1. /\ scene' = Shows(scene, chat.view) /\ chat' = [chat EXCEPT !.st = "idle"]
        /\ UNCHANGED <<head, patches, fetches>>
    BY <1>10 DEF CompleteTurn
  <2>2. ChatWell(chat')
    BY <1>1, <2>1 DEF ChatWell
  <2> QED BY <1>1, <2>1, <2>2, ShownWell, SceneMoves
<1>11. CASE TurnFails \/ StartTurn \/ ReadTurn
  <2>1. /\ UNCHANGED <<head, scene, patches, fetches>>
        /\ chat' \in {[chat EXCEPT !.st = "idle"], [st |-> "streaming", view |-> head],
                      [st |-> "read", view |-> head]}
    BY <1>11 DEF TurnFails, StartTurn, ReadTurn
  <2>2. Past(head)
    BY <1>1 DEF VersionsInv, Past, HeadWell
  <2>3. ChatWell(chat')
    BY <1>1, <2>1, <2>2 DEF ChatWell
  <2> QED BY <1>1, <2>1, <2>3, SceneMoves
<1>12. CASE CommitTurn
  <2>1. HeadGoesOn
    BY <1>1, <1>12, TurnAppends DEF CommitTurn
  <2>2. chat' = [chat EXCEPT !.st = "committed"] /\ UNCHANGED <<scene, patches, fetches>>
    BY <1>12 DEF CommitTurn
  <2>3. DOMAIN chat' = {"st", "view"} /\ chat'.st = "committed" /\ chat'.view = chat.view
    BY <1>1, <2>2 DEF ChatWell
  <2>4. ChatWell(chat)'
    BY <1>1, <2>1, <2>3, VersionsStay DEF ChatWell, Past
  <2> QED BY <2>1, <2>2, <2>4, VersionsStay DEF VersionsInv, HeadGoesOn
<1>13. CASE TurnElsewhere
  <2>1. Past(head)
    BY <1>1 DEF VersionsInv, Past, HeadWell
  <2>2. HeadGoesOn
    BY <1>13, <2>1, TurnAppends DEF TurnElsewhere
  <2>3. UNCHANGED <<scene, patches, fetches, chat>>
    BY <1>13 DEF TurnElsewhere
  <2> QED BY <2>2, <2>3, VersionsStay DEF VersionsInv, HeadGoesOn
<1>14. CASE UNCHANGED blockingVars
  <2>1. UNCHANGED <<head, scene, patches, fetches, chat>>
    BY <1>14 DEF blockingVars
  <2> QED BY <1>1, <2>1, SceneMoves
<1> QED BY <1>2, <1>3, <1>4, <1>5, <1>6, <1>7, <1>8, <1>9, <1>10, <1>11, <1>12, <1>13,
           <1>14 DEF BlockingNext

(* No one in the studio holds a version ahead of the episode's, and a      *)
(* version is made of the turns before it.                                 *)
LEMMA BlockingTypeCorrect == BlockingSpec => []BlockingTypeOK
<1>1. VersionsInv => BlockingTypeOK
  <2> SUFFICES ASSUME VersionsInv PROVE BlockingTypeOK
    OBVIOUS
  <2>1. \A docs : Savable(docs) => Cardinality(docs) <= 1
    <3>1. Cardinality({}) = 0 /\ \A doc : Cardinality({doc}) = 1
      BY FS_EmptySet, FS_Singleton
    <3> SUFFICES ASSUME NEW docs, Savable(docs) PROVE Cardinality(docs) <= 1
      OBVIOUS
    <3>2. CASE docs = {}
      BY <3>1, <3>2
    <3>3. CASE docs # {}
      <4>1. PICK doc : docs = {doc}
        BY <3>3 DEF Savable
      <4>2. Cardinality(docs) = 1
        BY <3>1, <4>1
      <4> QED BY <4>2
    <3> QED BY <3>2, <3>3
  <2>2. \A docs : Savable(docs) /\ docs # {} => Cardinality(docs) = 1
    BY FS_Singleton DEF Savable
  <2>3. HeadWell /\ SceneWell(scene) /\ ChatWell(chat) /\ \A p \in patches : PatchWell(p)
    BY DEF VersionsInv
  <2>4. \A p \in patches : Cardinality(p.docs) = 1 /\ p.base <= head.no
    BY <2>2, <2>3 DEF PatchWell, HeadWell
  <2>5. Cardinality(scene.pend) <= 1
    BY <2>1, <2>3 DEF SceneWell
  <2>6. scene.view.no <= head.no /\ scene.ver <= head.no
    BY <2>3 DEF SceneWell, Past, HeadWell
  <2> QED BY <2>3, <2>4, <2>5, <2>6 DEF BlockingTypeOK, HeadWell, ChatWell
<1>2. VersionsInv /\ [BlockingNext]_blockingVars => VersionsInv'
  BY VersionsStep
<1> QED BY <1>1, <1>2, VersionsStart, PTL DEF BlockingSpec

-----------------------------------------------------------------------------
(* The page that follows a job.                                            *)

(* The progress a job or its page may show.                                *)
Bars == {0, Full} \cup Levels

JobStates == {"running", "done", "cancelled"}
Events    == [st : JobStates, prog : Bars]
Undone    == [seq : 1 .. MaxLog, st : JobStates]
JobRows   == [st : JobStates, log : Seq(Events), ended : Nat, open : Seq(Events),
              undone : SUBSET Undone]
Frames    == [job : Jobs, seq : 1 .. MaxLog, st : JobStates, prog : Bars]
Records   == [st : JobStates, prog : Bars, events : 0 .. MaxLog]
Kinds     == {"poll", "reconnect", "cancel", "final"}
Requests  == [kind : Kinds, job : Jobs, st : {"asked", "held", "answered", "resumed"},
              rec : Records \cup {<<>>}, rest : Seq(Frames)]
JobShown  == [id : Jobs, st : JobStates, prog : Bars]

PageFields ==
    {"job", "shown", "events", "lastEventId", "stopped", "whole", "mixed"}

PageTypes ==
    /\ DOMAIN page = PageFields
    /\ page.job \in Jobs /\ page.shown \in JobShown /\ page.lastEventId \in 0 .. MaxLog
    /\ page.stopped \in BOOLEAN /\ page.whole \in BOOLEAN /\ page.mixed \in BOOLEAN

Waiting     == [st : {"ready", "dropped", "catching up"}, job : Jobs]
Open        == [st : {"open"}, job : Jobs, feed : {"backfill", "live", "over"},
                pipe : Seq(Frames), last : Int]
Connections == {Closed} \cup Waiting \cup Open

StreamTypes ==
    /\ jobs \in [Jobs -> JobRows]
    /\ airborne \subseteq Frames
    /\ PageTypes
    /\ conn \in Connections
    /\ reads \subseteq Requests

(* The numbers a row has given to events, and whether the page may have    *)
(* been told that it is over.                                              *)
RowHeard(w) == 1 .. Len(w.log) + Len(w.open) \cup {u.seq : u \in w.undone}
RowEnds(w)  == \/ Over(w.st)
               \/ \E i \in DOMAIN w.open : Over(w.open[i].st)
               \/ \E u \in w.undone : Over(u.st)

RowWell(w) ==
    /\ Len(w.open) <= 1 /\ Len(w.log) + Len(w.open) <= MaxLog
    /\ \A i \in DOMAIN w.open : Over(w.open[i].st) => ~Over(w.st)
    /\ \A i \in DOMAIN w.log : Over(w.log[i].st) => Over(w.st)
    /\ w.ended <= Len(w.log)

JobsWell == \A j \in Jobs : RowWell(jobs[j])

(* A frame is an event its job has, had published or had undone.           *)
FrameWell(f) == f.seq \in RowHeard(jobs[f.job]) /\ (Over(f.st) => RowEnds(jobs[f.job]))

FramesOf(j, frames) == \A i \in DOMAIN frames : frames[i].job = j /\ FrameWell(frames[i])

(* A connection is to the job shown, and so are the frames on it.          *)
ConnWell ==
    /\ conn.st # "closed" => conn.job = page.job
    /\ conn.st = "open" => FramesOf(conn.job, conn.pipe)

FramesWell == ConnWell /\ \A f \in airborne : FrameWell(f)

(* An answer that says the job is over counts every event it ended with.   *)
ReadWell(r) ==
    /\ FramesOf(r.job, r.rest)
    /\ r.st = "resumed" => r.rest # <<>>
    /\ r.st = "answered" =>
          /\ r.rec \in Records
          /\ r.rec.events <= Len(jobs[r.job].log)
          /\ Over(r.rec.st) => /\ Over(jobs[r.job].st)
                               /\ jobs[r.job].ended <= r.rec.events

PageWell ==
    /\ page.stopped => RowEnds(jobs[page.job])
    /\ ~page.mixed => DOMAIN page.events \subseteq RowHeard(jobs[page.job])
    /\ page.whole => /\ Over(jobs[page.job].st)
                     /\ 1 .. jobs[page.job].ended \subseteq DOMAIN page.events

(* What a job ended with stays as it is, so an answer that says it is over *)
(* is never out of date; whatever else is on the way is an event that was  *)
(* published.                                                              *)
StreamInv ==
    /\ StreamTypes
    /\ JobsWell /\ FramesWell
    /\ \A r \in reads : ReadWell(r)
    /\ PageWell

LEMMA BarsAreInts == Bars \subseteq Int /\ 0 \in Bars /\ Full \in Bars /\ Levels \subseteq Bars
BY StreamAssumption DEF Bars, Full

LEMMA RowOf ==
    ASSUME StreamInv, NEW j \in Jobs
    PROVE  jobs[j] \in JobRows /\ RowWell(jobs[j])
BY DEF StreamInv, StreamTypes, JobsWell

LEMMA RowParts ==
    ASSUME NEW w \in JobRows
    PROVE  /\ w.st \in JobStates /\ w.ended \in Nat /\ w.undone \subseteq Undone
           /\ w.log \in Seq(Events) /\ Len(w.log) \in Nat
           /\ w.open \in Seq(Events) /\ Len(w.open) \in Nat
BY DEF JobRows

LEMMA ProgressIsBar == ASSUME StreamInv, NEW j \in Jobs PROVE ProgressFor(j) \in Bars
<1>1. PICK w : w = jobs[j]
  OBVIOUS
<1>2. w.log \in Seq(Events)
  BY <1>1, RowOf, RowParts
<1>3. w.log # <<>> => w.log[Len(w.log)] \in Events
  BY <1>2
<1>4. w.log # <<>> => Last(w.log).prog \in Bars
  BY <1>3 DEF Last, Events
<1> QED BY <1>1, <1>4, BarsAreInts DEF ProgressFor

(* What holds of frames, answers and the page goes on holding as a row     *)
(* goes from w to x.                                                       *)
RowGoesOn(w, x) ==
    /\ RowHeard(w) \subseteq RowHeard(x)
    /\ Len(w.log) <= Len(x.log)
    /\ RowEnds(w) => RowEnds(x)
    /\ Over(w.st) => Over(x.st) /\ x.ended = w.ended

RowStep(w, x) == x \in JobRows /\ RowWell(x) /\ RowGoesOn(w, x)

Row(st, log, ended, op, undone) ==
    [st |-> st, log |-> log, ended |-> ended, open |-> op, undone |-> undone]

LEMMA NoEvents == <<>> \in Seq(Events) /\ Len(<<>>) = 0 /\ DOMAIN <<>> = {}
OBVIOUS

LEMMA RowIsWell ==
    ASSUME NEW x, NEW n \in Nat, NEW k \in {0, 1}, Len(x.log) = n, Len(x.open) = k,
           n + k <= MaxLog, x.ended <= n,
           \A i \in DOMAIN x.open : Over(x.open[i].st) => ~Over(x.st),
           \A i \in DOMAIN x.log : Over(x.log[i].st) => Over(x.st)
    PROVE  RowWell(x) /\ RowHeard(x) = 1 .. n + k \cup {u.seq : u \in x.undone}
<1>1. k <= 1
  OBVIOUS
<1> QED BY <1>1 DEF RowWell, RowHeard

LEMMA RowLengths ==
    ASSUME NEW w \in JobRows, RowWell(w)
    PROVE  /\ Len(w.log) \in Nat /\ Len(w.open) \in {0, 1}
           /\ Len(w.log) + Len(w.open) <= MaxLog /\ Len(w.log) <= MaxLog
           /\ w.open = <<>> => Len(w.open) = 0 /\ DOMAIN w.open = {}
           /\ w.open # <<>> => /\ Len(w.open) = 1 /\ DOMAIN w.open = {1}
                              /\ w.open[1] \in Events
           /\ w.ended \in Nat /\ w.ended <= Len(w.log)
<1>1. /\ w.ended \in Nat /\ w.log \in Seq(Events) /\ Len(w.log) \in Nat
      /\ w.open \in Seq(Events) /\ Len(w.open) \in Nat
  BY RowParts
<1>2. PICK n, op, k : n = Len(w.log) /\ op = w.open /\ k = Len(op)
  OBVIOUS
<1>3. k <= 1 /\ n + k <= MaxLog /\ w.ended <= n
  BY <1>2 DEF RowWell
<1>4. k \in {0, 1} /\ n <= MaxLog
  <2>1. n \in Nat /\ k \in Nat
    BY <1>1, <1>2
  <2> QED BY <1>3, <2>1, StreamAssumption
<1>5. op \in Seq(Events) /\ DOMAIN op = 1 .. k
  BY <1>1, <1>2
<1>6. op = <<>> => k = 0 /\ DOMAIN op = {}
  BY <1>2
<1>7. op # <<>> => k = 1 /\ DOMAIN op = {1} /\ op[1] \in Events
  BY <1>2, <1>4, <1>5
<1> QED BY <1>1, <1>2, <1>3, <1>4, <1>6, <1>7

(* An event is appended, one that was open or a new one; it may end the    *)
(* job.                                                                    *)
LEMMA RowTakes ==
    ASSUME NEW w \in JobRows, RowWell(w), NEW e \in Events,
           \/ w.open = <<>> /\ Len(w.log) + 1 <= MaxLog
           \/ w.open # <<>> /\ w.open[1] = e,
           Over(e.st) => ~Over(w.st),
           NEW x, x = Row(IF Over(e.st) THEN e.st ELSE w.st, Append(w.log, e),
                          IF Over(e.st) THEN Len(w.log) + 1 ELSE w.ended, <<>>, w.undone)
    PROVE  RowStep(w, x) /\ Len(w.log) + 1 \in RowHeard(x) /\ (Over(e.st) => RowEnds(x))
<1>1. /\ w.st \in JobStates /\ w.ended \in Nat /\ w.undone \subseteq Undone
      /\ w.log \in Seq(Events) /\ Len(w.log) \in Nat
      /\ w.open \in Seq(Events) /\ Len(w.open) \in Nat
  BY RowParts
<1>2. PICK log, n, st, ended, op : /\ log = Append(w.log, e) /\ n = Len(w.log)
                                   /\ st = (IF Over(e.st) THEN e.st ELSE w.st)
                                   /\ ended = (IF Over(e.st) THEN n + 1 ELSE w.ended)
                                   /\ op = Len(w.open)
  OBVIOUS
<1>3. /\ log \in Seq(Events) /\ Len(log) = n + 1 /\ log[n + 1] = e /\ n \in Nat
      /\ \A i \in DOMAIN log : i # n + 1 => i \in DOMAIN w.log /\ log[i] = w.log[i]
  BY <1>1, <1>2
<1>4. n + 1 <= MaxLog /\ op \in Nat /\ op <= 1
  <2>1. op \in {0, 1} /\ n + op <= MaxLog /\ (w.open # <<>> => op = 1)
    BY <1>2, RowLengths
  <2>2. w.open = <<>> \/ op = 1
    BY <2>1
  <2>3. w.open = <<>> => n + 1 <= MaxLog
    BY <1>2
  <2> QED BY <2>1, <2>2, <2>3
<1>5. st \in JobStates /\ ended \in Nat /\ ended <= n + 1
  <2>1. e.st \in JobStates
    BY DEF Events
  <2>2. w.ended <= n
    BY <1>2, RowLengths
  <2>3. ended \in Nat /\ ended <= n + 1
    BY <1>1, <1>2, <1>3, <2>2
  <2> QED BY <1>1, <1>2, <2>1, <2>3
<1>6. PICK none, undone : none = <<>> /\ undone = w.undone
  OBVIOUS
<1>15. none \in Seq(Events) /\ undone \subseteq Undone /\ x = Row(st, log, ended, none, undone)
  BY <1>1, <1>2, <1>6
<1>16. Row(st, log, ended, none, undone) \in JobRows
  BY <1>3, <1>5, <1>15 DEF Row, JobRows
<1>7. /\ x \in JobRows /\ x.st = st /\ x.log = log /\ x.ended = ended /\ x.open = <<>>
      /\ x.undone = w.undone
  BY <1>6, <1>15, <1>16 DEF Row
<1>8. RowWell(x) /\ RowHeard(x) = 1 .. n + 1 \cup {u.seq : u \in w.undone}
  <2>1. \A i \in DOMAIN log : Over(log[i].st) => Over(st)
    <3>1. \A i \in DOMAIN w.log : Over(w.log[i].st) => Over(st)
      BY <1>2 DEF RowWell
    <3>2. Over(e.st) => Over(st)
      BY <1>2
    <3> QED BY <1>3, <3>1, <3>2
  <2>2. Len(x.open) = 0 /\ DOMAIN x.open = {} /\ Len(x.log) = n + 1
    BY <1>3, <1>7, NoEvents
  <2>3. n + 1 \in Nat /\ (n + 1) + 0 <= MaxLog /\ (n + 1) + 0 = n + 1
    BY <1>3, <1>4
  <2> QED BY <1>5, <1>7, <2>1, <2>2, <2>3, RowIsWell
<1>9. RowHeard(w) \subseteq RowHeard(x)
  <2>1. 1 .. n + op \subseteq 1 .. n + 1
    BY <1>3, <1>4
  <2> QED BY <1>2, <1>8, <2>1 DEF RowHeard
<1>10. Over(e.st) => Over(st)
  BY <1>2
<1>11. RowEnds(w) => RowEnds(x)
  <2>1. Over(w.st) => Over(st)
    BY <1>2
  <2>2. (\E i \in DOMAIN w.open : Over(w.open[i].st)) => Over(e.st)
    <3>1. \A i \in DOMAIN w.open : i = 1 /\ w.open[i] = e
      BY <1>1, <1>2, <1>4
    <3> QED BY <3>1
  <2> QED BY <1>7, <1>10, <2>1, <2>2 DEF RowEnds
<1>13. Over(w.st) => Over(x.st) /\ x.ended = w.ended
  BY <1>2, <1>7
<1>14. Len(w.log) <= Len(x.log) /\ n + 1 \in RowHeard(x)
  BY <1>2, <1>3, <1>7, <1>8
<1> QED BY <1>2, <1>7, <1>8, <1>9, <1>10, <1>11, <1>13, <1>14 DEF RowStep, RowGoesOn, RowEnds

(* An event is published before it is committed.                           *)
LEMMA RowOpens ==
    ASSUME NEW w \in JobRows, RowWell(w), NEW e \in Events, w.open = <<>>,
           Len(w.log) + 1 <= MaxLog, Over(e.st) => ~Over(w.st),
           NEW x, x = Row(w.st, w.log, w.ended, <<e>>, w.undone)
    PROVE  RowStep(w, x) /\ Len(w.log) + 1 \in RowHeard(x) /\ (Over(e.st) => RowEnds(x))
<1>1. /\ w.st \in JobStates /\ w.ended \in Nat /\ w.undone \subseteq Undone
      /\ w.log \in Seq(Events) /\ Len(w.log) \in Nat
  BY RowParts
<1>2. PICK op, n : op = <<e>> /\ n = Len(w.log)
  OBVIOUS
<1>3. op \in Seq(Events) /\ Len(op) = 1 /\ DOMAIN op = {1} /\ op[1] = e /\ n \in Nat
  BY <1>1, <1>2
<1>4. /\ x \in JobRows /\ x.st = w.st /\ x.log = w.log /\ x.ended = w.ended /\ x.open = op
      /\ x.undone = w.undone
  BY <1>1, <1>2, <1>3 DEF JobRows, Row
<1>5. RowWell(x) /\ RowHeard(x) = 1 .. n + 1 \cup {u.seq : u \in w.undone}
  <2>1. Len(x.open) = 1 /\ Len(x.log) = n /\ x.ended <= n /\ n + 1 <= MaxLog
    BY <1>2, <1>3, <1>4, RowLengths
  <2>2. \A i \in DOMAIN x.open : Over(x.open[i].st) => ~Over(x.st)
    BY <1>3, <1>4
  <2>3. \A i \in DOMAIN x.log : Over(x.log[i].st) => Over(x.st)
    BY <1>4 DEF RowWell
  <2> QED BY <1>3, <1>4, <2>1, <2>2, <2>3, RowIsWell
<1>6. RowHeard(w) = 1 .. n \cup {u.seq : u \in w.undone}
  <2>1. Len(w.log) + Len(w.open) = n
    BY <1>2, <1>3
  <2> QED BY <2>1 DEF RowHeard
<1>7. RowHeard(w) \subseteq RowHeard(x) /\ n + 1 \in RowHeard(x)
  BY <1>3, <1>5, <1>6
<1>8. (RowEnds(w) => RowEnds(x)) /\ (Over(e.st) => RowEnds(x))
  BY <1>3, <1>4 DEF RowEnds
<1> QED BY <1>1, <1>2, <1>4, <1>5, <1>7, <1>8 DEF RowStep, RowGoesOn

(* What was published is rolled back: its number was heard of.             *)
LEMMA RowUndoes ==
    ASSUME NEW w \in JobRows, RowWell(w), w.open # <<>>,
           NEW x, x = Row(w.st, w.log, w.ended, <<>>,
                          w.undone \cup {[seq |-> Len(w.log) + 1, st |-> w.open[1].st]})
    PROVE  RowStep(w, x)
<1>1. /\ w.st \in JobStates /\ w.ended \in Nat /\ w.undone \subseteq Undone
      /\ w.log \in Seq(Events) /\ Len(w.log) \in Nat
      /\ w.open \in Seq(Events) /\ Len(w.open) \in Nat
  BY RowParts
<1>2. PICK n, e, u, undone : /\ n = Len(w.log) /\ e = w.open[1]
                             /\ u = [seq |-> n + 1, st |-> e.st]
                             /\ undone = w.undone \cup {u}
  OBVIOUS
<1>3. Len(w.open) = 1 /\ DOMAIN w.open = {1} /\ e \in Events /\ n \in Nat /\ n + 1 <= MaxLog
  BY <1>1, <1>2, RowLengths
<1>4. u \in Undone /\ u.seq = n + 1 /\ u.st = e.st
  BY <1>2, <1>3, StreamAssumption DEF Undone, Events
<1>5. /\ x \in JobRows /\ x.st = w.st /\ x.log = w.log /\ x.ended = w.ended /\ x.open = <<>>
      /\ x.undone = undone
  BY <1>1, <1>2, <1>4 DEF JobRows, Row
<1>6. RowWell(x) /\ RowHeard(x) = 1 .. n \cup {v.seq : v \in undone}
  <2>1. Len(x.open) = 0 /\ DOMAIN x.open = {} /\ Len(x.log) = n /\ x.ended <= n
    BY <1>2, <1>5, NoEvents, RowLengths
  <2>2. n + 0 <= MaxLog /\ n + 0 = n
    BY <1>3, StreamAssumption
  <2>3. \A i \in DOMAIN x.log : Over(x.log[i].st) => Over(x.st)
    BY <1>5 DEF RowWell
  <2> QED BY <1>3, <1>5, <2>1, <2>2, <2>3, RowIsWell
<1>8. RowHeard(w) = 1 .. n + 1 \cup {v.seq : v \in w.undone}
  BY <1>2, <1>3 DEF RowHeard
<1>9. RowHeard(w) \subseteq RowHeard(x)
  <2>1. 1 .. n + 1 \subseteq 1 .. n \cup {n + 1}
    BY <1>3
  <2> QED BY <1>2, <1>4, <1>6, <1>8, <2>1
<1>7. RowEnds(w) => RowEnds(x)
  <2>1. (\E i \in DOMAIN w.open : Over(w.open[i].st)) => Over(u.st)
    BY <1>2, <1>3, <1>4
  <2>2. u \in x.undone /\ w.undone \subseteq x.undone
    BY <1>2, <1>5
  <2>3. Over(u.st) => RowEnds(x)
    BY <2>2 DEF RowEnds
  <2> QED BY <1>5, <2>1, <2>2, <2>3 DEF RowEnds
<1>10. Len(w.log) <= Len(x.log) /\ (Over(w.st) => Over(x.st) /\ x.ended = w.ended)
  BY <1>1, <1>5
<1> QED BY <1>5, <1>6, <1>7, <1>9, <1>10 DEF RowStep, RowGoesOn

(* A job ends with no event to say so.                                     *)
LEMMA RowEndsUnsaid ==
    ASSUME NEW w \in JobRows, RowWell(w), ~Over(w.st),
           \A i \in DOMAIN w.open : w.open[i].st = "running",
           NEW x, x = Row("done", w.log, Len(w.log), w.open, w.undone)
    PROVE  RowStep(w, x)
<1>1. /\ w.undone \subseteq Undone /\ w.log \in Seq(Events) /\ Len(w.log) \in Nat
      /\ w.open \in Seq(Events) /\ Len(w.open) \in Nat
  BY RowParts
<1>2. /\ x \in JobRows /\ x.st = "done" /\ x.log = w.log /\ x.ended = Len(w.log)
      /\ x.open = w.open /\ x.undone = w.undone
  BY <1>1 DEF JobRows, Row, JobStates
<1>3. RowHeard(x) = RowHeard(w)
  BY <1>2 DEF RowHeard
<1>4. Over(x.st) /\ \A i \in DOMAIN x.open : ~Over(x.open[i].st)
  BY <1>2 DEF Over
<1>5. RowWell(x) /\ RowEnds(x)
  <2>1. PICK n, k : n = Len(w.log) /\ k = Len(w.open)
    OBVIOUS
  <2>2. Len(w.log) \in Nat /\ Len(w.open) \in {0, 1} /\ Len(w.log) + Len(w.open) <= MaxLog
    BY RowLengths
  <2>6. n \in Nat /\ k \in {0, 1}
    BY <2>1, <2>2
  <2>7. n + k <= MaxLog
    BY <2>1, <2>2
  <2>5. n \in Nat /\ k \in {0, 1} /\ n + k <= MaxLog /\ n <= n
    BY <2>6, <2>7
  <2>3. Over(x.st) => \A i \in DOMAIN x.log : Over(x.log[i].st) => Over(x.st)
    OBVIOUS
  <2>4. RowWell(x)
    BY <1>2, <1>4, <2>1, <2>5, <2>3, RowIsWell
  <2> QED BY <1>4, <2>4 DEF RowEnds
<1> QED BY <1>1, <1>2, <1>3, <1>5 DEF RowStep, RowGoesOn

LEMMA RowStays == ASSUME NEW w \in JobRows, RowWell(w) PROVE RowStep(w, w)
BY RowParts DEF RowStep, RowGoesOn

(* Each job's row goes on, so what is on the way stays well.               *)
JobsGoOn == \A k \in Jobs : RowGoesOn(jobs[k], jobs'[k])

LEMMA StaysWell ==
    ASSUME StreamInv, JobsGoOn, \A k \in Jobs : jobs'[k] \in JobRows
    PROVE  /\ \A f \in Frames : FrameWell(f) => FrameWell(f)'
           /\ \A k, s : s \in Seq(Frames) /\ FramesOf(k, s) => FramesOf(k, s)'
           /\ \A r \in Requests : ReadWell(r) => ReadWell(r)'
           /\ UNCHANGED page => PageWell'
<1>1. ASSUME NEW f \in Frames, FrameWell(f) PROVE FrameWell(f)'
  <2>1. f.job \in Jobs
    BY DEF Frames
  <2> QED BY <1>1, <2>1 DEF FrameWell, JobsGoOn, RowGoesOn
<1>2. ASSUME NEW k, NEW s \in Seq(Frames), FramesOf(k, s) PROVE FramesOf(k, s)'
  <2>1. ASSUME NEW i \in DOMAIN s PROVE s[i].job = k /\ FrameWell(s[i])'
    <3>1. PICK f : f = s[i]
      OBVIOUS
    <3>2. f \in Frames
      BY <3>1
    <3>3. f.job = k /\ FrameWell(f)
      BY <1>2, <3>1 DEF FramesOf
    <3>4. FrameWell(f)'
      BY <1>1, <3>2, <3>3
    <3> QED BY <3>1, <3>3, <3>4 DEF FrameWell
  <2> QED BY <2>1 DEF FramesOf
<1>3. ASSUME NEW r \in Requests, ReadWell(r) PROVE ReadWell(r)'
  <2>1. r.job \in Jobs /\ r.rest \in Seq(Frames)
    BY DEF Requests
  <2>2. FramesOf(r.job, r.rest)'
    BY <1>2, <1>3, <2>1 DEF ReadWell
  <2>3. RowGoesOn(jobs[r.job], jobs'[r.job])
    BY <2>1 DEF JobsGoOn
  <2>4. CASE r.st # "answered"
    BY <1>3, <2>2, <2>4 DEF ReadWell
  <2>5. CASE r.st = "answered"
    <3>1. PICK n, a, b : /\ n = r.rec.events /\ a = Len(jobs[r.job].log)
                         /\ b = Len(jobs'[r.job].log)
      OBVIOUS
    <3>2. r.rec \in Records /\ n \in Nat /\ n <= a
      BY <1>3, <2>5, <3>1 DEF ReadWell, Records
    <3>3. a \in Nat /\ b \in Nat /\ a <= b
      BY <2>1, <2>3, <3>1, RowOf, RowParts DEF RowGoesOn
    <3>4. n <= b
      BY <3>2, <3>3
    <3>5. Over(r.rec.st) => Over(jobs'[r.job].st) /\ jobs'[r.job].ended <= n
      BY <1>3, <2>3, <2>5, <3>1 DEF ReadWell, RowGoesOn
    <3> QED BY <2>2, <2>5, <3>1, <3>2, <3>4, <3>5 DEF ReadWell
  <2> QED BY <2>4, <2>5
<1>4. ASSUME UNCHANGED page PROVE PageWell'
  <2>1. page.job \in Jobs /\ page' = page
    BY <1>4 DEF StreamInv, StreamTypes, PageTypes
  <2>2. RowGoesOn(jobs[page.job], jobs'[page.job])
    BY <2>1 DEF JobsGoOn
  <2> QED BY <2>1, <2>2 DEF StreamInv, PageWell, RowGoesOn
<1> QED BY <1>1, <1>2, <1>3, <1>4

LEMMA NothingWritten ==
    ASSUME StreamInv, UNCHANGED jobs
    PROVE  JobsGoOn /\ JobsWell' /\ (\A k \in Jobs : jobs'[k] \in JobRows)
<1>1. \A k \in Jobs : jobs[k] \in JobRows /\ RowWell(jobs[k])
  BY RowOf
<1> QED BY <1>1, RowStays DEF JobsGoOn, RowStep, JobsWell

LEMMA OpenConnection ==
    ASSUME NEW c \in Connections, c.st = "open"
    PROVE  c \in Open /\ c.pipe \in Seq(Frames)
<1>1. c # Closed
  BY DEF Closed
<1>2. ASSUME c \in Waiting PROVE FALSE
  <2>1. c.st \in {"ready", "dropped", "catching up"}
    BY <1>2 DEF Waiting
  <2> QED BY <2>1
<1>3. c \in Open
  BY <1>1, <1>2 DEF Connections
<1> QED BY <1>3 DEF Open

LEMMA ConnOf ==
    ASSUME StreamInv
    PROVE  /\ conn \in Connections /\ page.job \in Jobs
           /\ conn.st # "closed" => conn.job = page.job
           /\ conn.st = "open" => /\ conn \in Open /\ conn.pipe \in Seq(Frames)
                                  /\ FramesOf(conn.job, conn.pipe)
BY OpenConnection DEF StreamInv, StreamTypes, PageTypes, FramesWell, ConnWell

LEMMA ConnStays ==
    ASSUME StreamInv, JobsGoOn, \A k \in Jobs : jobs'[k] \in JobRows, UNCHANGED conn,
           page'.job = page.job
    PROVE  conn' \in Connections /\ ConnWell'
<1>1. conn \in Connections /\ (conn.st # "closed" => conn.job = page.job)
  BY ConnOf
<1>2. ASSUME conn.st = "open" PROVE FramesOf(conn.job, conn.pipe)'
  <2>1. PICK k, s : k = conn.job /\ s = conn.pipe
    OBVIOUS
  <2>2. s \in Seq(Frames) /\ FramesOf(k, s)
    BY <1>2, <2>1, ConnOf
  <2>3. FramesOf(k, s)'
    BY <2>2, StaysWell
  <2> QED BY <2>1, <2>3 DEF FramesOf, FrameWell
<1> QED BY <1>1, <1>2 DEF ConnWell

(* What a step must show: the parts it does not touch stay.                *)
LEMMA StepKeeps ==
    ASSUME StreamInv, JobsGoOn, JobsWell', jobs' \in [Jobs -> JobRows],
           \A f \in airborne' : f \in airborne \/ (f \in Frames /\ FrameWell(f)'),
           PageTypes', PageWell', conn' \in Connections, ConnWell',
           \A r \in reads' : r \in reads \/ (r \in Requests /\ ReadWell(r)')
    PROVE  StreamInv'
<1>1. \A k \in Jobs : jobs'[k] \in JobRows
  OBVIOUS
<1>2. ASSUME NEW f \in airborne' PROVE f \in Frames /\ FrameWell(f)'
  <2>1. CASE f \in airborne
    BY <1>1, <2>1, StaysWell DEF StreamInv, StreamTypes, FramesWell
  <2> QED BY <2>1
<1>3. ASSUME NEW r \in reads' PROVE r \in Requests /\ ReadWell(r)'
  <2>1. CASE r \in reads
    BY <1>1, <2>1, StaysWell DEF StreamInv, StreamTypes
  <2> QED BY <2>1
<1> QED BY <1>2, <1>3 DEF StreamInv, StreamTypes, FramesWell

(* A write of one job, and what is published of it.                        *)
LEMMA WriteGoesOn ==
    ASSUME StreamInv, NEW j \in Jobs, NEW x, RowStep(jobs[j], x),
           jobs' = [jobs EXCEPT ![j] = x]
    PROVE  /\ JobsGoOn /\ JobsWell' /\ jobs' \in [Jobs -> JobRows] /\ jobs'[j] = x
           /\ \A k \in Jobs : jobs'[k] \in JobRows
<1>1. /\ jobs'[j] = x /\ x \in JobRows /\ RowWell(x) /\ RowGoesOn(jobs[j], x)
      /\ \A k \in Jobs \ {j} : jobs'[k] = jobs[k]
      /\ jobs' \in [Jobs -> JobRows]
  BY DEF StreamInv, StreamTypes, RowStep
<1>2. \A k \in Jobs : jobs'[k] \in JobRows /\ RowWell(jobs'[k])
  BY <1>1, RowOf
<1>3. JobsGoOn
  <2>1. ASSUME NEW k \in Jobs \ {j} PROVE RowGoesOn(jobs[k], jobs'[k])
    BY <1>1, <2>1, RowOf, RowStays DEF RowStep
  <2> QED BY <1>1, <2>1 DEF JobsGoOn
<1> QED BY <1>1, <1>2, <1>3 DEF JobsWell

LEMMA JobWrite ==
    ASSUME StreamInv, NEW j \in Jobs, NEW x, RowStep(jobs[j], x),
           jobs' = [jobs EXCEPT ![j] = x], UNCHANGED <<page, conn>>,
           \A f \in airborne' : \/ f \in airborne
                                \/ /\ f \in Frames /\ f.job = j /\ f.seq \in RowHeard(x)
                                   /\ Over(f.st) => RowEnds(x),
           \A r \in reads' : r \in reads \/ (r \in Requests /\ ReadWell(r)')
    PROVE  StreamInv'
<1>1. /\ JobsGoOn /\ JobsWell' /\ jobs' \in [Jobs -> JobRows] /\ jobs'[j] = x
      /\ \A k \in Jobs : jobs'[k] \in JobRows
  BY WriteGoesOn
<1>2. PageTypes' /\ PageWell'
  BY <1>1, StaysWell DEF StreamInv, StreamTypes, PageTypes
<1>3. conn' \in Connections /\ ConnWell'
  BY <1>1, ConnStays
<1>4. \A f \in airborne' : f \in airborne \/ (f \in Frames /\ FrameWell(f)')
  BY <1>1 DEF FrameWell
<1> QED BY <1>1, <1>2, <1>3, <1>4, StepKeeps

(* Nothing is written; frames and requests may be gone, and new requests   *)
(* are only asked, or are answered with the job as it is.                  *)
LEMMA ReadingKeeps ==
    ASSUME StreamInv, UNCHANGED jobs, airborne' \subseteq airborne,
           PageTypes', PageWell', conn' \in Connections, ConnWell',
           \A r \in reads' : r \in reads \/ (r \in Requests /\ ReadWell(r))
    PROVE  StreamInv'
<1>1. JobsGoOn /\ JobsWell' /\ (\A k \in Jobs : jobs'[k] \in JobRows)
      /\ jobs' \in [Jobs -> JobRows]
  BY NothingWritten DEF StreamInv, StreamTypes
<1>2. \A r \in reads' : r \in reads \/ (r \in Requests /\ ReadWell(r)')
  BY <1>1, StaysWell
<1> QED BY <1>1, <1>2, StepKeeps

LEMMA PageStays ==
    ASSUME StreamInv, UNCHANGED <<jobs, page>>
    PROVE  PageTypes' /\ PageWell'
BY DEF StreamInv, StreamTypes, PageTypes, PageWell

LEMMA FewerKeeps ==
    ASSUME StreamInv, UNCHANGED <<jobs, page, conn>>, airborne' \subseteq airborne,
           \A r \in reads' : r \in reads \/ (r \in Requests /\ ReadWell(r))
    PROVE  StreamInv'
BY PageStays, NothingWritten, ConnStays, ReadingKeeps

-----------------------------------------------------------------------------
(* What was rolled back of a job can be counted.                           *)
LEMMA WithdrawnIsNat ==
    ASSUME StreamInv, NEW j \in Jobs
    PROVE  Withdrawn(j) \in Nat
<1> DEFINE Pairs == (1 .. MaxLog) \X JobStates
           Pick == [p \in Pairs |-> [seq |-> p[1], st |-> p[2]]]
<1>1. IsFiniteSet(1 .. MaxLog)
  BY FS_Interval, StreamAssumption
<1>2. IsFiniteSet(JobStates)
  <2>1. IsFiniteSet({}) /\ IsFiniteSet({"running"})
    BY FS_EmptySet, FS_Singleton
  <2>2. IsFiniteSet({"running"} \cup {"done"})
    BY <2>1, FS_AddElement
  <2>3. IsFiniteSet(({"running"} \cup {"done"}) \cup {"cancelled"})
    BY <2>2, FS_AddElement
  <2>4. JobStates = ({"running"} \cup {"done"}) \cup {"cancelled"}
    BY DEF JobStates
  <2> QED BY <2>3, <2>4
<1>3. IsFiniteSet(Pairs)
  BY <1>1, <1>2, FS_Product
<1>4. Pick \in Surjection(Pairs, Undone)
  <2>1. ASSUME NEW p \in Pairs PROVE Pick[p] \in Undone
    BY DEF Undone
  <2>2. ASSUME NEW u \in Undone PROVE \E p \in Pairs : Pick[p] = u
    <3>1. <<u.seq, u.st>> \in Pairs /\ u = [seq |-> u.seq, st |-> u.st]
      BY DEF Undone
    <3>2. Pick[<<u.seq, u.st>>] = u
      BY <3>1
    <3> QED BY <3>1, <3>2
  <2> QED BY <2>1, <2>2 DEF Surjection
<1>5. IsFiniteSet(Undone)
  <2> HIDE DEF Pairs, Pick
  <2> QED BY <1>3, <1>4, FS_Surjection
<1>6. jobs[j].undone \subseteq Undone
  BY RowOf, RowParts
<1> QED BY <1>5, <1>6, FS_Subset, FS_CardinalityType DEF Withdrawn

LEMMA Room ==
    ASSUME StreamInv, NEW j \in Jobs, Writable(j)
    PROVE  jobs[j].open = <<>> /\ Len(jobs[j].log) \in Nat /\ Len(jobs[j].log) + 1 <= MaxLog
<1>1. PICK a, b, c, d, v, w : /\ a = Len(jobs[1].log) /\ b = Len(jobs[2].log)
                              /\ c = Len(jobs[1].open) /\ d = Len(jobs[2].open)
                              /\ v = Withdrawn(1) /\ w = Withdrawn(2)
  OBVIOUS
<1>2. a \in Nat /\ b \in Nat /\ c \in Nat /\ d \in Nat /\ v \in Nat /\ w \in Nat
  BY <1>1, RowOf, RowParts, WithdrawnIsNat DEF Jobs
<1>3. (a + c) + (b + d) + v + w < MaxLog
  BY <1>1 DEF Writable, Used
<1>4. a + 1 <= MaxLog /\ b + 1 <= MaxLog
  BY <1>2, <1>3, StreamAssumption
<1>5. j = 1 \/ j = 2
  BY DEF Jobs
<1> QED BY <1>1, <1>2, <1>4, <1>5 DEF Writable

LEMMA SentWell ==
    ASSUME NEW j \in Jobs, NEW w \in JobRows, NEW e \in Events, Len(w.log) + 1 <= MaxLog,
           NEW x, Len(w.log) + 1 \in RowHeard(x), Over(e.st) => RowEnds(x),
           NEW f, f = FrameOf(j, Len(w.log) + 1, e.st, e.prog)
    PROVE  /\ f \in Frames /\ f.job = j /\ f.seq \in RowHeard(x)
           /\ Over(f.st) => RowEnds(x)
<1>1. PICK n, st, prog : n = Len(w.log) + 1 /\ st = e.st /\ prog = e.prog
  OBVIOUS
<1>2. Len(w.log) \in Nat
  BY RowParts
<1>3. n \in 1 .. MaxLog /\ st \in JobStates /\ prog \in Bars
  BY <1>1, <1>2, StreamAssumption DEF Events
<1>4. f = [job |-> j, seq |-> n, st |-> st, prog |-> prog]
  BY <1>1 DEF FrameOf
<1>5. f \in Frames
  BY <1>3, <1>4 DEF Frames
<1> QED BY <1>1, <1>4, <1>5

(* An event is committed and then published, or not published at all.      *)
LEMMA EventKeeps ==
    ASSUME StreamInv, NEW j \in Jobs, Writable(j), NEW e \in Events,
           Over(e.st) => ~Over(jobs[j].st),
           NEW x, x = Row(IF Over(e.st) THEN e.st ELSE jobs[j].st, Append(jobs[j].log, e),
                          IF Over(e.st) THEN Len(jobs[j].log) + 1 ELSE jobs[j].ended,
                          <<>>, jobs[j].undone),
           jobs' = [jobs EXCEPT ![j] = x],
           airborne' \subseteq airborne \cup {FrameOf(j, NextSeq(j), e.st, e.prog)},
           UNCHANGED <<page, conn, reads>>
    PROVE  StreamInv'
<1>1. PICK w : w = jobs[j]
  OBVIOUS
<1>2. w \in JobRows /\ RowWell(w) /\ w.open = <<>> /\ Len(w.log) + 1 <= MaxLog
  BY <1>1, RowOf, Room
<1>3. RowStep(w, x) /\ Len(w.log) + 1 \in RowHeard(x) /\ (Over(e.st) => RowEnds(x))
  BY <1>1, <1>2, RowTakes
<1>4. PICK f : f = FrameOf(j, Len(w.log) + 1, e.st, e.prog)
  OBVIOUS
<1>5. /\ f \in Frames /\ f.job = j /\ f.seq \in RowHeard(x)
      /\ Over(f.st) => RowEnds(x)
  BY <1>2, <1>3, <1>4, SentWell
<1>6. airborne' \subseteq airborne \cup {f}
  BY <1>1, <1>4 DEF NextSeq
<1>7. \A g \in airborne' : \/ g \in airborne
                            \/ /\ g \in Frames /\ g.job = j /\ g.seq \in RowHeard(x)
                               /\ Over(g.st) => RowEnds(x)
  BY <1>5, <1>6
<1>8. RowStep(jobs[j], x)
  BY <1>1, <1>3
<1> QED BY <1>7, <1>8, JobWrite

LEMMA EmitKeeps ==
    ASSUME StreamInv, NEW j \in Jobs, NEW prog \in Levels, Emit(j, prog)
    PROVE  StreamInv'
<1>1. Writable(j) /\ UNCHANGED <<page, conn, reads>>
  BY DEF Emit
<1>2. PICK e, w, log, x : /\ e = [st |-> "running", prog |-> prog] /\ w = jobs[j]
                          /\ log = Append(w.log, e)
                          /\ x = Row(w.st, log, w.ended, <<>>, w.undone)
  OBVIOUS
<1>3. e \in Events /\ e.st = "running" /\ e.prog = prog /\ ~Over(e.st)
  BY <1>2, BarsAreInts DEF Events, JobStates, Over
<1>4. w.open = <<>> /\ AppendEvent(j, "running", prog) = log
  BY <1>1, <1>2, Room DEF AppendEvent
<1>5. jobs' = [jobs EXCEPT ![j].log = log]
  BY <1>4 DEF Emit
<1>6. jobs' = [jobs EXCEPT ![j] = Row(w.st, log, w.ended, w.open, w.undone)]
  <2>1. jobs \in [Jobs -> JobRows] /\ w \in JobRows /\ jobs[j] = w
    BY <1>2 DEF StreamInv, StreamTypes
  <2>2. PICK p, q, r, s, t : p = w.st /\ q = w.log /\ r = w.ended /\ s = w.open /\ t = w.undone
    OBVIOUS
  <2>3. w = Row(p, q, r, s, t)
    BY <2>1, <2>2 DEF JobRows, Row
  <2> DEFINE Set(y) == [jobs EXCEPT ![j] = y]
  <2>4. [Row(p, q, r, s, t) EXCEPT !.log = log] = Row(p, log, r, s, t)
    BY DEF Row
  <2>5. [jobs EXCEPT ![j].log = log] = Set(Row(p, log, r, s, t))
    BY <2>1, <2>3, <2>4
  <2> QED BY <1>5, <2>2, <2>5
<1>7. jobs' = [jobs EXCEPT ![j] = x]
  BY <1>2, <1>4, <1>6
<1>8. airborne' = airborne \cup {FrameOf(j, NextSeq(j), e.st, e.prog)}
  BY <1>3 DEF Emit, Publishes
<1>9. x = Row(IF Over(e.st) THEN e.st ELSE jobs[j].st, Append(jobs[j].log, e),
              IF Over(e.st) THEN Len(jobs[j].log) + 1 ELSE jobs[j].ended,
              <<>>, jobs[j].undone)
  BY <1>2, <1>3
<1>10. Over(e.st) => ~Over(jobs[j].st)
  BY <1>3
<1>11. airborne' \subseteq airborne \cup {FrameOf(j, NextSeq(j), e.st, e.prog)}
  BY <1>8
<1> QED BY <1>1, <1>3, <1>7, <1>9, <1>10, <1>11, EventKeeps

(* A job ends with an event of its own.                                    *)
LEMMA EndKeeps ==
    ASSUME StreamInv, NEW j \in Jobs, Writable(j), ~Over(jobs[j].st),
           jobs' = [jobs EXCEPT ![j].st = "done", ![j].ended = NextSeq(j),
                                ![j].log = AppendEvent(j, "done", Full)],
           airborne' \subseteq airborne \cup {FrameOf(j, NextSeq(j), "done", Full)},
           UNCHANGED <<page, conn, reads>>
    PROVE  StreamInv'
<1>1. PICK e, w, log, n, x : /\ e = [st |-> "done", prog |-> Full] /\ w = jobs[j]
                             /\ log = Append(w.log, e) /\ n = Len(w.log) + 1
                             /\ x = Row("done", log, n, <<>>, w.undone)
  OBVIOUS
<1>2. e \in Events /\ e.st = "done" /\ e.prog = Full /\ Over(e.st)
  BY <1>1, BarsAreInts DEF Events, JobStates, Over
<1>3. w.open = <<>> /\ AppendEvent(j, "done", Full) = log /\ NextSeq(j) = n
  BY <1>1, Room DEF AppendEvent, NextSeq
<1>4. jobs' = [jobs EXCEPT ![j].st = "done", ![j].ended = n, ![j].log = log]
  BY <1>3
<1>5. jobs' = [jobs EXCEPT ![j] = Row("done", log, n, w.open, w.undone)]
  <2>1. jobs \in [Jobs -> JobRows] /\ w \in JobRows /\ jobs[j] = w
    BY <1>1 DEF StreamInv, StreamTypes
  <2>2. PICK p, q, r, s, t : p = w.st /\ q = w.log /\ r = w.ended /\ s = w.open /\ t = w.undone
    OBVIOUS
  <2>3. w = Row(p, q, r, s, t)
    BY <2>1, <2>2 DEF JobRows, Row
  <2> DEFINE Set(y) == [jobs EXCEPT ![j] = y]
  <2>4. [Row(p, q, r, s, t) EXCEPT !.st = "done"] = Row("done", q, r, s, t)
    BY DEF Row
  <2>5. [jobs EXCEPT ![j].st = "done"] = Set(Row("done", q, r, s, t))
    BY <2>1, <2>3, <2>4
  <2>6. [Row("done", q, r, s, t) EXCEPT !.ended = n] = Row("done", q, n, s, t)
    BY DEF Row
  <2>7. [Set(Row("done", q, r, s, t)) EXCEPT ![j].ended = n] = Set(Row("done", q, n, s, t))
    BY <2>1, <2>6
  <2>8. [jobs EXCEPT ![j].st = "done", ![j].ended = n] = Set(Row("done", q, n, s, t))
    BY <2>5, <2>7
  <2>9. [Row("done", q, n, s, t) EXCEPT !.log = log] = Row("done", log, n, s, t)
    BY DEF Row
  <2>10. [Set(Row("done", q, n, s, t)) EXCEPT ![j].log = log] = Set(Row("done", log, n, s, t))
    BY <2>1, <2>9
  <2>11. [jobs EXCEPT ![j].st = "done", ![j].ended = n, ![j].log = log] = Set(Row("done", log, n, s, t))
    BY <2>8, <2>10
  <2> QED BY <1>4, <2>2, <2>11
<1>6. jobs' = [jobs EXCEPT ![j] = x]
  BY <1>1, <1>3, <1>5
<1>7. x = Row(IF Over(e.st) THEN e.st ELSE jobs[j].st, Append(jobs[j].log, e),
              IF Over(e.st) THEN Len(jobs[j].log) + 1 ELSE jobs[j].ended,
              <<>>, jobs[j].undone)
  BY <1>1, <1>2
<1>8. airborne' \subseteq airborne \cup {FrameOf(j, NextSeq(j), e.st, e.prog)}
  BY <1>2
<1> QED BY <1>2, <1>6, <1>7, <1>8, EventKeeps

LEMMA SettlesKeeps == ASSUME StreamInv, NEW j \in Jobs, Settles(j) PROVE StreamInv'
BY EndKeeps DEF Settles, Publishes

LEMMA EndsUnsaidKeeps == ASSUME StreamInv, NEW j \in Jobs, EndsUnsaid(j) PROVE StreamInv'
<1>1. ~Over(jobs[j].st) /\ UNCHANGED <<airborne, page, conn, reads>>
  BY DEF EndsUnsaid
<1>2. CASE /\ Writable(j)
           /\ jobs' = [jobs EXCEPT ![j].st = "done", ![j].ended = NextSeq(j),
                                   ![j].log = AppendEvent(j, "done", Full)]
  BY <1>1, <1>2, EndKeeps
<1>3. CASE /\ \A i \in DOMAIN jobs[j].open : jobs[j].open[i].st = "running"
           /\ jobs' = [jobs EXCEPT ![j].st = "done", ![j].ended = Len(jobs[j].log)]
  <2>1. PICK w, n, x : /\ w = jobs[j] /\ n = Len(w.log)
                       /\ x = Row("done", w.log, n, w.open, w.undone)
    OBVIOUS
  <2>2. w \in JobRows /\ RowWell(w) /\ ~Over(w.st)
        /\ \A i \in DOMAIN w.open : w.open[i].st = "running"
    BY <1>1, <1>3, <2>1, RowOf
  <2>3. RowStep(w, x)
    BY <2>1, <2>2, RowEndsUnsaid
  <2>4. jobs' = [jobs EXCEPT ![j].st = "done", ![j].ended = n]
    BY <1>3, <2>1
  <2>5. jobs' = [jobs EXCEPT ![j] = Row("done", w.log, n, w.open, w.undone)]
    <3>1. jobs \in [Jobs -> JobRows] /\ w \in JobRows /\ jobs[j] = w
      BY <2>1 DEF StreamInv, StreamTypes
    <3>2. PICK p, q, r, s, t : p = w.st /\ q = w.log /\ r = w.ended /\ s = w.open /\ t = w.undone
      OBVIOUS
    <3>3. w = Row(p, q, r, s, t)
      BY <3>1, <3>2 DEF JobRows, Row
    <3> DEFINE Set(y) == [jobs EXCEPT ![j] = y]
    <3>4. [Row(p, q, r, s, t) EXCEPT !.st = "done"] = Row("done", q, r, s, t)
      BY DEF Row
    <3>5. [jobs EXCEPT ![j].st = "done"] = Set(Row("done", q, r, s, t))
      BY <3>1, <3>3, <3>4
    <3>6. [Row("done", q, r, s, t) EXCEPT !.ended = n] = Row("done", q, n, s, t)
      BY DEF Row
    <3>7. [Set(Row("done", q, r, s, t)) EXCEPT ![j].ended = n] = Set(Row("done", q, n, s, t))
      BY <3>1, <3>6
    <3>8. [jobs EXCEPT ![j].st = "done", ![j].ended = n] = Set(Row("done", q, n, s, t))
      BY <3>5, <3>7
    <3> QED BY <2>4, <3>2, <3>8
  <2>7. jobs' = [jobs EXCEPT ![j] = x]
    BY <2>1, <2>5
  <2>6. RowStep(jobs[j], x)
    BY <2>1, <2>3
  <2> QED BY <1>1, <2>6, <2>7, JobWrite
<1> QED BY <1>2, <1>3 DEF EndsUnsaid

LEMMA OpensKeeps ==
    ASSUME StreamInv, NEW j \in Jobs, NEW st \in JobStates, NEW prog \in Bars,
           Opens(j, st, prog), Over(st) => ~Over(jobs[j].st), UNCHANGED <<page, conn>>,
           \A r \in reads' : \/ r \in reads
                             \/ r \in Requests /\ r.st = "held" /\ FramesOf(r.job, r.rest)
    PROVE  StreamInv'
<1>1. PICK e, w, x : /\ e = [st |-> st, prog |-> prog] /\ w = jobs[j]
                     /\ x = Row(w.st, w.log, w.ended, <<e>>, w.undone)
  OBVIOUS
<1>2. e \in Events /\ e.st = st /\ e.prog = prog
  BY <1>1 DEF Events
<1>3. /\ w \in JobRows /\ RowWell(w) /\ w.open = <<>> /\ Len(w.log) + 1 <= MaxLog
      /\ Over(e.st) => ~Over(w.st)
  BY <1>1, <1>2, RowOf, Room DEF Opens
<1>4. RowStep(w, x) /\ Len(w.log) + 1 \in RowHeard(x) /\ (Over(e.st) => RowEnds(x))
  BY <1>1, <1>2, <1>3, RowOpens
<1>5. PICK op : op = <<e>>
  OBVIOUS
<1>13. jobs' = [jobs EXCEPT ![j].open = op]
  BY <1>1, <1>5 DEF Opens
<1>14. jobs' = [jobs EXCEPT ![j] = Row(w.st, w.log, w.ended, op, w.undone)]
  <2>1. jobs \in [Jobs -> JobRows] /\ w \in JobRows /\ jobs[j] = w
    BY <1>1 DEF StreamInv, StreamTypes
  <2>2. PICK p, q, r, s, t : p = w.st /\ q = w.log /\ r = w.ended /\ s = w.open /\ t = w.undone
    OBVIOUS
  <2>3. w = Row(p, q, r, s, t)
    BY <2>1, <2>2 DEF JobRows, Row
  <2> DEFINE Set(y) == [jobs EXCEPT ![j] = y]
  <2>4. [Row(p, q, r, s, t) EXCEPT !.open = op] = Row(p, q, r, op, t)
    BY DEF Row
  <2>5. [jobs EXCEPT ![j].open = op] = Set(Row(p, q, r, op, t))
    BY <2>1, <2>3, <2>4
  <2> QED BY <1>13, <2>2, <2>5
<1>6. jobs' = [jobs EXCEPT ![j] = x]
  BY <1>1, <1>5, <1>14
<1>7. PICK f : f = FrameOf(j, Len(w.log) + 1, e.st, e.prog)
  OBVIOUS
<1>8. /\ f \in Frames /\ f.job = j /\ f.seq \in RowHeard(x)
      /\ Over(f.st) => RowEnds(x)
  BY <1>2, <1>3, <1>4, <1>7, SentWell
<1>9. airborne' \subseteq airborne \cup {f}
  BY <1>1, <1>2, <1>7 DEF Opens, NextSeq
<1>10. \A g \in airborne' : \/ g \in airborne
                            \/ /\ g \in Frames /\ g.job = j /\ g.seq \in RowHeard(x)
                               /\ Over(g.st) => RowEnds(x)
  BY <1>8, <1>9
<1>12. RowStep(jobs[j], x)
  BY <1>1, <1>4
<1>11. \A r \in reads' : r \in reads \/ (r \in Requests /\ ReadWell(r)')
  <2>1. JobsGoOn /\ \A k \in Jobs : jobs'[k] \in JobRows
    BY <1>6, <1>12, WriteGoesOn
  <2>2. ASSUME NEW r \in Requests, r.st = "held", FramesOf(r.job, r.rest)
        PROVE  ReadWell(r)'
    <3>1. ReadWell(r)
      BY <2>2 DEF ReadWell
    <3> QED BY <2>1, <3>1, StaysWell
  <2> QED BY <2>2
<1> QED BY <1>6, <1>10, <1>11, <1>12, JobWrite

LEMMA PublishedEarlyKeeps ==
    ASSUME StreamInv, NEW j \in Jobs,
           Honours(j) \/ \E p \in Levels : Heartbeat(j, p)
    PROVE  StreamInv'
<1>1. {"running", "cancelled"} \subseteq JobStates /\ ~Over("running")
  BY DEF JobStates, Over
<1>2. CASE Honours(j)
  BY <1>1, <1>2, BarsAreInts, OpensKeeps DEF Honours
<1>3. ASSUME NEW p \in Levels, Heartbeat(j, p) PROVE StreamInv'
  BY <1>1, <1>3, BarsAreInts, OpensKeeps DEF Heartbeat
<1> QED BY <1>2, <1>3

LEMMA CancelsKeeps == ASSUME StreamInv, NEW r \in reads, Cancels(r) PROVE StreamInv'
<1>1. PICK j : j = r.job
  OBVIOUS
<1>2. r \in Requests /\ j \in Jobs /\ UNCHANGED <<page, conn>>
  BY <1>1 DEF Cancels, StreamInv, StreamTypes, Requests
<1>3. CASE Over(jobs[j].st)
  <2>1. reads' \subseteq reads /\ UNCHANGED <<jobs, airborne>>
    BY <1>1, <1>3 DEF Cancels
  <2> QED BY <1>2, <2>1, FewerKeeps
<1>4. CASE ~Over(jobs[j].st)
  <2>1. {"running", "cancelled"} \subseteq JobStates /\ ~Over("running")
    BY DEF JobStates, Over
  <2>2. PICK q : q = [r EXCEPT !.st = "held"]
    OBVIOUS
  <2>3. q \in Requests /\ q.st = "held" /\ q.rest = r.rest /\ q.job = j
    BY <1>1, <1>2, <2>2 DEF Requests
  <2>4. reads' = (reads \ {r}) \cup {q}
    BY <1>1, <1>4, <2>2 DEF Cancels
  <2>5. FramesOf(q.job, q.rest)
    BY <1>1, <2>3 DEF StreamInv, ReadWell
  <2>6. \A p \in reads' : \/ p \in reads
                          \/ p \in Requests /\ p.st = "held" /\ FramesOf(p.job, p.rest)
    BY <2>3, <2>4, <2>5
  <2>7. \/ Opens(j, "cancelled", Full)
        \/ Opens(j, "running", ProgressFor(j))
    BY <1>1, <1>4 DEF Cancels
  <2> QED BY <1>2, <1>4, <2>1, <2>6, <2>7, BarsAreInts, ProgressIsBar, OpensKeeps
<1> QED BY <1>3, <1>4

LEMMA CommitEventKeeps == ASSUME StreamInv, NEW j \in Jobs, CommitEvent(j) PROVE StreamInv'
<1>1. jobs[j].open # <<>> /\ UNCHANGED <<airborne, page, conn>>
  BY DEF CommitEvent
<1>2. PICK w, e, n : w = jobs[j] /\ e = w.open[1] /\ n = Len(w.log) + 1
  OBVIOUS
<1>3. w \in JobRows /\ RowWell(w) /\ w.open # <<>>
  BY <1>1, <1>2, RowOf
<1>4. /\ DOMAIN w.open = {1} /\ e \in Events /\ Len(w.open) = 1
      /\ w.st \in JobStates /\ w.log \in Seq(Events)
  BY <1>2, <1>3, RowLengths, RowParts
<1>5. Over(e.st) => ~Over(w.st)
  BY <1>2, <1>3, <1>4 DEF RowWell
<1>6. PICK st, log, ended, none, x :
          /\ log = Append(w.log, e) /\ none = <<>>
          /\ st = (IF Over(e.st) THEN e.st ELSE w.st)
          /\ ended = (IF Over(e.st) THEN n ELSE w.ended)
          /\ x = Row(st, log, ended, none, w.undone)
  OBVIOUS
<1>7. AppendEvent(j, e.st, e.prog) = log
  <2>1. e = [st |-> e.st, prog |-> e.prog]
    BY <1>4 DEF Events
  <2> QED BY <1>2, <1>6, <2>1 DEF AppendEvent
<1>8. Len(log) = n /\ n \in Nat
  <2>1. Len(log) = Len(w.log) + 1 /\ Len(w.log) \in Nat
    BY <1>4, <1>6
  <2> QED BY <1>2, <2>1
<1>9. RowStep(w, x)
  BY <1>2, <1>3, <1>4, <1>5, <1>6, RowTakes
<1>10. jobs' = [jobs EXCEPT ![j].st = st, ![j].log = log, ![j].open = none,
                            ![j].ended = ended]
  <2>1. jobs' = [jobs EXCEPT ![j].st = st, ![j].log = log, ![j].open = none,
                             ![j].ended = IF Over(e.st) THEN n ELSE @]
    BY <1>2, <1>6, <1>7, <1>8 DEF CommitEvent
  <2>2. jobs \in [Jobs -> JobRows]
    BY DEF StreamInv, StreamTypes
  <2> QED BY <1>2, <1>6, <2>1, <2>2
<1>11. jobs' = [jobs EXCEPT ![j] = Row(st, log, ended, none, w.undone)]
  <2>1. jobs \in [Jobs -> JobRows] /\ w \in JobRows /\ jobs[j] = w
    BY <1>2 DEF StreamInv, StreamTypes
  <2>2. PICK p, q, r, s, t : p = w.st /\ q = w.log /\ r = w.ended /\ s = w.open /\ t = w.undone
    OBVIOUS
  <2>3. w = Row(p, q, r, s, t)
    BY <2>1, <2>2 DEF JobRows, Row
  <2> DEFINE Set(y) == [jobs EXCEPT ![j] = y]
  <2>4. [Row(p, q, r, s, t) EXCEPT !.st = st] = Row(st, q, r, s, t)
    BY DEF Row
  <2>5. [jobs EXCEPT ![j].st = st] = Set(Row(st, q, r, s, t))
    BY <2>1, <2>3, <2>4
  <2>6. [Row(st, q, r, s, t) EXCEPT !.log = log] = Row(st, log, r, s, t)
    BY DEF Row
  <2>7. [Set(Row(st, q, r, s, t)) EXCEPT ![j].log = log] = Set(Row(st, log, r, s, t))
    BY <2>1, <2>6
  <2>8. [jobs EXCEPT ![j].st = st, ![j].log = log] = Set(Row(st, log, r, s, t))
    BY <2>5, <2>7
  <2>9. [Row(st, log, r, s, t) EXCEPT !.open = none] = Row(st, log, r, none, t)
    BY DEF Row
  <2>10. [Set(Row(st, log, r, s, t)) EXCEPT ![j].open = none] = Set(Row(st, log, r, none, t))
    BY <2>1, <2>9
  <2>11. [jobs EXCEPT ![j].st = st, ![j].log = log, ![j].open = none] = Set(Row(st, log, r, none, t))
    BY <2>8, <2>10
  <2>12. [Row(st, log, r, none, t) EXCEPT !.ended = ended] = Row(st, log, ended, none, t)
    BY DEF Row
  <2>13. [Set(Row(st, log, r, none, t)) EXCEPT ![j].ended = ended] = Set(Row(st, log, ended, none, t))
    BY <2>1, <2>12
  <2>14. [jobs EXCEPT ![j].st = st, ![j].log = log, ![j].open = none, ![j].ended = ended] = Set(Row(st, log, ended, none, t))
    BY <2>11, <2>13
  <2> QED BY <1>10, <2>2, <2>14
<1>12. jobs' = [jobs EXCEPT ![j] = x] /\ RowStep(jobs[j], x)
  BY <1>2, <1>6, <1>9, <1>11
<1>13. PICK prog : prog = IF Over(st) THEN Full ELSE e.prog
  OBVIOUS
<1>14. PICK rec : rec = [st |-> st, prog |-> prog, events |-> n]
  OBVIOUS
<1>15. \A r \in reads' : r \in reads \/ (r \in Requests /\ ReadWell(r)')
  <2>1. reads' = {q \in reads : ~Waits(q, j)} \cup
                 {[q EXCEPT !.st = "answered", !.rec = rec] :
                     q \in {q \in reads : Waits(q, j)}}
    BY <1>2, <1>6, <1>7, <1>8, <1>13, <1>14 DEF CommitEvent
  <2>2. rec \in Records /\ rec.st = st /\ rec.events = n
    <3>1. st \in JobStates /\ prog \in Bars
      BY <1>4, <1>6, <1>13, BarsAreInts DEF Events
    <3>2. n \in 0 .. MaxLog
      <4>1. Len(w.log) + Len(w.open) <= MaxLog
        BY <1>3 DEF RowWell
      <4> QED BY <1>2, <1>4, <1>8, <4>1, StreamAssumption
    <3> QED BY <1>14, <3>1, <3>2 DEF Records
  <2>3. JobsGoOn /\ jobs'[j] = x /\ \A k \in Jobs : jobs'[k] \in JobRows
    BY <1>12, WriteGoesOn
  <2>4. x.st = st /\ x.log = log /\ x.ended <= n
    <3>1. x.st = st /\ x.log = log
      BY <1>6 DEF Row
    <3>2. x.ended <= Len(x.log)
      BY <1>9 DEF RowStep, RowWell
    <3> QED BY <1>8, <3>1, <3>2
  <2>5. ASSUME NEW q \in reads, Waits(q, j),
               NEW r, r = [q EXCEPT !.st = "answered", !.rec = rec]
        PROVE  r \in Requests /\ ReadWell(r)'
    <3>1. q \in Requests /\ ReadWell(q) /\ q.job = j
      BY <2>5 DEF StreamInv, StreamTypes, Waits
    <3>2. /\ r \in Requests /\ r.st = "answered" /\ r.job = j /\ r.rec = rec
          /\ r.rest = q.rest
      BY <2>2, <2>5, <3>1 DEF Requests
    <3>3. q.rest \in Seq(Frames) /\ FramesOf(j, q.rest)
      BY <3>1 DEF ReadWell, Requests
    <3>4. FramesOf(j, q.rest)'
      BY <2>3, <3>3, StaysWell
    <3>5. rec.events <= Len(jobs'[j].log)
      BY <1>8, <2>2, <2>3, <2>4
    <3>6. Over(rec.st) => Over(jobs'[j].st) /\ jobs'[j].ended <= rec.events
      BY <2>2, <2>3, <2>4
    <3> QED BY <2>2, <3>2, <3>4, <3>5, <3>6 DEF ReadWell
  <2> QED BY <2>1, <2>5
<1>16. \A f \in airborne' : \/ f \in airborne
                            \/ /\ f \in Frames /\ f.job = j /\ f.seq \in RowHeard(x)
                               /\ Over(f.st) => RowEnds(x)
  BY <1>1
<1> QED BY <1>1, <1>12, <1>15, <1>16, JobWrite

LEMMA RollsBackKeeps == ASSUME StreamInv, NEW j \in Jobs, RollsBack(j) PROVE StreamInv'
<1>1. jobs[j].open # <<>> /\ UNCHANGED <<airborne, page, conn>> /\ reads' \subseteq reads
  BY DEF RollsBack
<1>2. PICK w, none, undone, x :
          /\ w = jobs[j] /\ none = <<>>
          /\ undone = w.undone \cup {[seq |-> Len(w.log) + 1, st |-> w.open[1].st]}
          /\ x = Row(w.st, w.log, w.ended, none, undone)
  OBVIOUS
<1>3. w \in JobRows /\ RowWell(w) /\ w.open # <<>>
  BY <1>1, <1>2, RowOf
<1>4. RowStep(w, x)
  BY <1>2, <1>3, RowUndoes
<1>5. jobs' = [jobs EXCEPT ![j].open = none, ![j].undone = undone]
  <2>1. jobs' = [jobs EXCEPT ![j].open = none,
                             ![j].undone = @ \cup {[seq |-> Len(w.log) + 1,
                                                    st |-> w.open[1].st]}]
    BY <1>2 DEF RollsBack, NextSeq
  <2>2. jobs \in [Jobs -> JobRows]
    BY DEF StreamInv, StreamTypes
  <2> QED BY <1>2, <2>1, <2>2
<1>6. jobs' = [jobs EXCEPT ![j] = Row(w.st, w.log, w.ended, none, undone)]
  <2>1. jobs \in [Jobs -> JobRows] /\ w \in JobRows /\ jobs[j] = w
    BY <1>2 DEF StreamInv, StreamTypes
  <2>2. PICK p, q, r, s, t : p = w.st /\ q = w.log /\ r = w.ended /\ s = w.open /\ t = w.undone
    OBVIOUS
  <2>3. w = Row(p, q, r, s, t)
    BY <2>1, <2>2 DEF JobRows, Row
  <2> DEFINE Set(y) == [jobs EXCEPT ![j] = y]
  <2>4. [Row(p, q, r, s, t) EXCEPT !.open = none] = Row(p, q, r, none, t)
    BY DEF Row
  <2>5. [jobs EXCEPT ![j].open = none] = Set(Row(p, q, r, none, t))
    BY <2>1, <2>3, <2>4
  <2>6. [Row(p, q, r, none, t) EXCEPT !.undone = undone] = Row(p, q, r, none, undone)
    BY DEF Row
  <2>7. [Set(Row(p, q, r, none, t)) EXCEPT ![j].undone = undone] = Set(Row(p, q, r, none, undone))
    BY <2>1, <2>6
  <2>8. [jobs EXCEPT ![j].open = none, ![j].undone = undone] = Set(Row(p, q, r, none, undone))
    BY <2>5, <2>7
  <2> QED BY <1>5, <2>2, <2>8
<1>7. jobs' = [jobs EXCEPT ![j] = x] /\ RowStep(jobs[j], x)
  BY <1>2, <1>4, <1>6
<1> QED BY <1>1, <1>7, JobWrite

LEMMA AskWell ==
    ASSUME StreamInv, NEW kind \in Kinds, NEW j \in Jobs, NEW r, r = Request(kind, j)
    PROVE  r \in Requests /\ r.st = "asked" /\ r.job = j /\ r.rest = <<>> /\ ReadWell(r)
<1>1. PICK none : none = <<>>
  OBVIOUS
<1>2. none \in Seq(Frames) /\ DOMAIN none = {}
  BY <1>1
<1>3. r = [kind |-> kind, job |-> j, st |-> "asked", rec |-> none, rest |-> none]
  BY <1>1 DEF Request, Final
<1>4. r \in Requests /\ r.st = "asked" /\ r.job = j /\ r.rest = none
  BY <1>1, <1>2, <1>3 DEF Requests
<1>5. FramesOf(r.job, none)
  BY <1>2 DEF FramesOf
<1> QED BY <1>1, <1>4, <1>5 DEF ReadWell

LEMMA AskKeeps ==
    ASSUME StreamInv, NEW kind \in Kinds, NEW j \in Jobs,
           UNCHANGED <<jobs, airborne, page>>, conn' \in Connections, ConnWell',
           reads' = reads \cup {Request(kind, j)}
    PROVE  StreamInv'
<1>1. PICK r : r = Request(kind, j)
  OBVIOUS
<1>2. r \in Requests /\ ReadWell(r)
  BY <1>1, AskWell
<1>3. \A q \in reads' : q \in reads \/ (q \in Requests /\ ReadWell(q))
  BY <1>1, <1>2
<1> QED BY <1>3, PageStays, ReadingKeeps

LEMMA AsksKeep == ASSUME StreamInv, PollTimer \/ Reconnects \/ AskCancel PROVE StreamInv'
<1>1. page.job \in Jobs /\ {"poll", "reconnect", "cancel"} \subseteq Kinds
  BY DEF StreamInv, StreamTypes, PageTypes, Kinds
<1>2. ASSUME UNCHANGED <<jobs, page, conn>> PROVE conn' \in Connections /\ ConnWell'
  BY <1>2, ConnStays, NothingWritten
<1>3. CASE PollTimer
  BY <1>1, <1>2, <1>3, AskKeeps DEF PollTimer
<1>4. CASE AskCancel
  BY <1>1, <1>2, <1>4, AskKeeps DEF AskCancel
<1>5. CASE Reconnects
  <2>1. conn.job = page.job /\ UNCHANGED page
    BY <1>5 DEF Reconnects, StreamInv, FramesWell, ConnWell
  <2>2. conn' \in Waiting /\ conn'.st = "catching up" /\ conn'.job = page.job
    BY <1>1, <1>5, <2>1 DEF Reconnects, Waiting
  <2>3. conn' \in Connections /\ ConnWell'
    BY <2>1, <2>2 DEF Connections, ConnWell
  <2> QED BY <1>1, <1>5, <2>1, <2>3, AskKeeps DEF Reconnects
<1> QED BY <1>3, <1>4, <1>5

LEMMA GetJobKeeps == ASSUME StreamInv, NEW r \in reads, GetJob(r) PROVE StreamInv'
<1>1. PICK j, n, st, prog : /\ j = r.job /\ n = Len(jobs[j].log) /\ st = jobs[j].st
                            /\ prog = ProgressFor(j)
  OBVIOUS
<1>2. /\ r \in Requests /\ j \in Jobs /\ ReadWell(r) /\ r.rest \in Seq(Frames)
  BY <1>1 DEF StreamInv, StreamTypes, Requests
<1>3. jobs[j] \in JobRows /\ RowWell(jobs[j])
  BY <1>2, RowOf
<1>4. st \in JobStates /\ prog \in Bars /\ n \in 0 .. MaxLog /\ jobs[j].ended <= n
  <2>1. st \in JobStates /\ prog \in Bars
    BY <1>1, <1>2, <1>3, ProgressIsBar, RowParts
  <2>2. PICK w : w = jobs[j]
    OBVIOUS
  <2>3. Len(w.log) \in Nat /\ Len(w.log) <= MaxLog /\ w.ended <= Len(w.log)
    BY <1>3, <2>2, RowLengths
  <2>4. n \in Nat /\ n <= MaxLog /\ jobs[j].ended <= n
    BY <1>1, <2>2, <2>3
  <2> QED BY <2>1, <2>4, StreamAssumption
<1>5. PICK rec : rec = [st |-> st, prog |-> prog, events |-> n]
  OBVIOUS
<1>6. rec \in Records /\ rec.st = st /\ rec.events = n
  BY <1>4, <1>5 DEF Records
<1>7. PICK q : q = [[r EXCEPT !.st = "answered"] EXCEPT !.rec = rec]
  OBVIOUS
<1>8. /\ q \in Requests /\ q.st = "answered" /\ q.job = j /\ q.rec = rec
      /\ q.rest = r.rest
  BY <1>1, <1>2, <1>6, <1>7 DEF Requests
<1>9. ReadWell(q)
  <2>1. FramesOf(q.job, q.rest)
    BY <1>1, <1>2, <1>8 DEF ReadWell
  <2>2. rec.events <= Len(jobs[j].log)
    BY <1>1, <1>4, <1>6
  <2>3. Over(rec.st) => Over(jobs[j].st) /\ jobs[j].ended <= rec.events
    BY <1>1, <1>4, <1>6
  <2> QED BY <1>6, <1>8, <2>1, <2>2, <2>3 DEF ReadWell
<1>10. reads' = (reads \ {r}) \cup {q}
  BY <1>1, <1>2, <1>5, <1>7 DEF GetJob, Requests
<1>11. \A e \in reads' : e \in reads \/ (e \in Requests /\ ReadWell(e))
  BY <1>8, <1>9, <1>10
<1> QED BY <1>11, FewerKeeps DEF GetJob

(* A connection that is not open needs only to be the shown job's.         *)
LEMMA IdleConn ==
    ASSUME StreamInv, page'.job \in Jobs,
           conn' = Closed \/ (conn' = Ready(page'.job)) \/
                (conn' = [st |-> "dropped", job |-> page'.job])
    PROVE  conn' \in Connections /\ ConnWell'
<1>1. CASE conn' = Closed
  <2>1. conn'.st = "closed"
    BY <1>1 DEF Closed
  <2> QED BY <1>1, <2>1 DEF Connections, ConnWell
<1>2. CASE conn' # Closed
  <2>1. conn'.st \in {"ready", "dropped"} /\ conn'.job = page'.job /\ conn' \in Waiting
    <3>1. PICK k \in {"ready", "dropped"} : conn' = [st |-> k, job |-> page'.job]
      BY <1>2 DEF Ready
    <3> QED BY <3>1 DEF Waiting
  <2> QED BY <2>1 DEF Connections, ConnWell
<1> QED BY <1>1, <1>2

LEMMA CaughtUpKeeps ==
    ASSUME StreamInv, NEW r \in reads, UNCHANGED jobs, page'.job = page.job,
           CaughtUp(r) \/ UNCHANGED conn
    PROVE  conn' \in Connections /\ ConnWell'
<1>1. CASE conn' = conn
  BY <1>1, ConnStays, NothingWritten
<1>2. CASE conn' # conn
  <2>1. conn.st = "catching up" /\ conn' = Ready(conn.job)
    BY <1>2 DEF CaughtUp
  <2>2. conn.job = page.job /\ page.job \in Jobs
    BY <2>1 DEF StreamInv, FramesWell, ConnWell, StreamTypes, PageTypes
  <2> QED BY <2>1, <2>2, IdleConn
<1> QED BY <1>1, <1>2

(* What is left of a read whose record was had, or was not.                *)
LEMMA ResumedWell ==
    ASSUME StreamInv, NEW r \in reads, NEW q \in Resumed(r)
    PROVE  q \in Requests /\ ReadWell(q)
<1>1. r \in Requests /\ ReadWell(r)
  BY DEF StreamInv, StreamTypes
<1>2. PICK none : none = <<>>
  OBVIOUS
<1>3. r.rest # none /\ q = [[r EXCEPT !.st = "resumed"] EXCEPT !.rec = none]
  BY <1>1, <1>2 DEF Resumed, Requests
<1>4. /\ q \in Requests /\ q.st = "resumed" /\ q.job = r.job /\ q.rest = r.rest
  BY <1>1, <1>2, <1>3 DEF Requests
<1> QED BY <1>1, <1>2, <1>3, <1>4 DEF ReadWell

LEMMA LossesKeep ==
    ASSUME StreamInv,
           \/ \E f \in airborne : DeliverFails(f)
           \/ \E r \in reads : LoseAnswer(r)
           \/ DropEvents
    PROVE  StreamInv'
<1>1. ASSUME NEW f \in airborne, DeliverFails(f) PROVE StreamInv'
  BY <1>1, FewerKeeps DEF DeliverFails
<1>2. ASSUME NEW r \in reads, LoseAnswer(r) PROVE StreamInv'
  <2>1. UNCHANGED <<jobs, airborne, page>> /\ reads' = (reads \ {r}) \cup Resumed(r)
    BY <1>2 DEF LoseAnswer
  <2>2. CaughtUp(r) \/ UNCHANGED conn
    BY <1>2 DEF LoseAnswer
  <2>3. \A q \in reads' : q \in reads \/ (q \in Requests /\ ReadWell(q))
    BY <2>1, ResumedWell
  <2> QED BY <2>1, <2>2, <2>3, CaughtUpKeeps, PageStays, ReadingKeeps
<1>3. CASE DropEvents
  <2>1. UNCHANGED <<jobs, airborne, page, reads>> /\ conn.st = "open"
    BY <1>3 DEF DropEvents
  <2>2. conn.job = page.job /\ page.job \in Jobs
    BY <2>1 DEF StreamInv, FramesWell, ConnWell, StreamTypes, PageTypes
  <2>3. conn' = [st |-> "dropped", job |-> page'.job]
    BY <1>3, <2>1, <2>2 DEF DropEvents
  <2> QED BY <2>1, <2>2, <2>3, IdleConn, PageStays, ReadingKeeps
<1> QED BY <1>1, <1>2, <1>3

(* An open connection with other frames on it.                             *)
LEMMA OpenKeeps ==
    ASSUME StreamInv, UNCHANGED jobs, page'.job = page.job, NEW j, j = page.job,
           NEW frames \in Seq(Frames), FramesOf(j, frames),
           NEW feed \in {"backfill", "live", "over"}, NEW last \in Int,
           conn' = [st |-> "open", job |-> j, feed |-> feed, pipe |-> frames,
                    last |-> last]
    PROVE  conn' \in Connections /\ ConnWell'
<1>1. page.job \in Jobs
  BY DEF StreamInv, StreamTypes, PageTypes
<1>2. /\ conn' \in Open /\ conn'.st = "open" /\ conn'.job = j /\ conn'.pipe = frames
  BY <1>1 DEF Open
<1>3. FramesOf(j, frames)'
  BY NothingWritten, StaysWell
<1> QED BY <1>2, <1>3 DEF Connections, ConnWell, FramesOf, FrameWell

LEMMA FeedStates ==
    ASSUME NEW frames, NEW else \in {"backfill", "live", "over"}
    PROVE  FeedAfter(frames, else) \in {"backfill", "live", "over"}
BY DEF FeedAfter

LEMMA DeliverKeeps == ASSUME StreamInv, NEW f \in airborne, Deliver(f) PROVE StreamInv'
<1>1. UNCHANGED <<jobs, page, reads>> /\ airborne' \subseteq airborne
  BY DEF Deliver
<1>2. CASE conn' = conn
  BY <1>1, <1>2, FewerKeeps
<1>3. CASE conn' # conn
  <2>1. PICK c, j, old, pipe, feed :
            /\ c = conn /\ j = page.job /\ old = conn.pipe
            /\ pipe = Append(old, f) /\ feed = FeedAfter(<<f>>, conn.feed)
    OBVIOUS
  <2>2. /\ Listens(f.job)
        /\ conn' = [c EXCEPT !.pipe = Append(@, f), !.last = f.seq,
                             !.feed = FeedAfter(<<f>>, @)]
    BY <1>3, <2>1 DEF Deliver
  <2>3. conn.st = "open" /\ f.job = conn.job
    BY <2>2 DEF Listens
  <2>4. /\ c \in Open /\ old \in Seq(Frames) /\ c.job = j /\ f.job = j
        /\ FramesOf(j, old) /\ c.feed \in {"backfill", "live", "over"}
    BY <2>1, <2>3, ConnOf DEF Open
  <2>5. f \in Frames /\ FrameWell(f) /\ f.seq \in Int
    BY DEF StreamInv, StreamTypes, FramesWell, Frames
  <2>6. conn' = [st |-> "open", job |-> j, feed |-> feed, pipe |-> pipe, last |-> f.seq]
    BY <2>1, <2>2, <2>4 DEF Open
  <2>7. /\ pipe \in Seq(Frames)
        /\ \A i \in DOMAIN pipe : pipe[i] = f \/ (i \in DOMAIN old /\ pipe[i] = old[i])
    BY <2>1, <2>4, <2>5
  <2>8. FramesOf(j, pipe)
    BY <2>4, <2>5, <2>7 DEF FramesOf
  <2>9. feed \in {"backfill", "live", "over"}
    BY <2>1, <2>4, FeedStates
  <2>10. conn' \in Connections /\ ConnWell'
    BY <1>1, <2>1, <2>5, <2>6, <2>7, <2>8, <2>9, OpenKeeps
  <2> QED BY <1>1, <2>10, PageStays, ReadingKeeps
<1> QED BY <1>2, <1>3

(* The backfill is the events after the last one seen, in order.           *)
LEMMA BackfillIsWell ==
    ASSUME StreamInv, NEW j \in Jobs, NEW after \in Nat
    PROVE  LET missed == Backfill(j, after) IN
           missed \in Seq(Frames) /\ Len(missed) \in Nat /\ FramesOf(j, missed)
<1>1. PICK w, log, m : w = jobs[j] /\ log = w.log /\ m = Len(log)
  OBVIOUS
<1>2. /\ w \in JobRows /\ RowWell(w) /\ log \in Seq(Events) /\ m \in Nat
      /\ m <= MaxLog /\ DOMAIN log = 1 .. m
  <2>1. w \in JobRows /\ RowWell(w)
    BY <1>1, RowOf
  <2>2. log \in Seq(Events) /\ m \in Nat
    BY <1>1, <2>1, RowParts
  <2>3. m <= MaxLog
    BY <1>1, <2>1, RowLengths
  <2>4. DOMAIN log = 1 .. m
    BY <1>1, <2>2
  <2> QED BY <2>1, <2>2, <2>3, <2>4
<1>3. PICK n \in Nat : 1 .. n = 1 .. (m - after) /\ (n = 0 \/ n = m - after)
  <2>1. CASE m - after > 0
    <3>1. m - after \in Nat
      BY <1>2, <2>1
    <3> QED BY <3>1
  <2>2. CASE ~(m - after > 0)
    <3>1. 1 .. (m - after) = 1 .. 0
      BY <1>2, <2>2
    <3> QED BY <3>1
  <2> QED BY <2>1, <2>2
<1>4. ASSUME NEW i \in 1 .. n,
             NEW g, g = FrameOf(j, after + i, log[after + i].st, log[after + i].prog)
      PROVE  g \in Frames /\ FrameWell(g) /\ g.job = j
  <2>1. PICK k, st, prog : k = after + i /\ st = log[k].st /\ prog = log[k].prog
    OBVIOUS
  <2>2. k \in 1 .. m
    BY <1>2, <1>3, <2>1
  <2>3. log[k] \in Events /\ (Over(st) => Over(w.st))
    BY <1>1, <1>2, <2>1, <2>2 DEF RowWell
  <2>4. st \in JobStates /\ prog \in Bars
    BY <2>1, <2>3 DEF Events
  <2>5. g = [job |-> j, seq |-> k, st |-> st, prog |-> prog]
    BY <1>4, <2>1 DEF FrameOf
  <2>6. k \in 1 .. MaxLog
    BY <1>2, <2>2, StreamAssumption
  <2>7. k \in RowHeard(w)
    <3>1. PICK o : o = Len(w.open)
      OBVIOUS
    <3>2. o \in Nat
      BY <1>2, <3>1, RowParts
    <3>3. k \in 1 .. m + o
      BY <1>2, <2>2, <3>2
    <3> QED BY <1>1, <3>1, <3>3 DEF RowHeard
  <2>8. Over(st) => RowEnds(w)
    BY <2>3 DEF RowEnds
  <2>9. g \in Frames /\ g.job = j /\ g.seq = k /\ g.st = st
    BY <2>4, <2>5, <2>6 DEF Frames
  <2> QED BY <1>1, <2>7, <2>8, <2>9 DEF FrameWell
<1>5. Backfill(j, after)
         = [i \in 1 .. n |-> FrameOf(j, after + i, log[after + i].st, log[after + i].prog)]
  BY <1>1, <1>3 DEF Backfill
<1>6. PICK missed : missed = Backfill(j, after)
  OBVIOUS
<1>7. /\ DOMAIN missed = 1 .. n /\ missed \in [1 .. n -> Frames]
      /\ \A i \in 1 .. n : missed[i].job = j /\ FrameWell(missed[i])
  BY <1>4, <1>5, <1>6
<1>8. missed \in Seq(Frames) /\ Len(missed) \in Nat
  BY <1>7
<1> QED BY <1>6, <1>7, <1>8 DEF FramesOf

LEMMA OpenEventsKeeps == ASSUME StreamInv, OpenEvents PROVE StreamInv'
<1>1. UNCHANGED <<jobs, airborne, page, reads>> /\ conn.st = "ready"
  BY DEF OpenEvents
<1>2. conn.job = page.job /\ page.job \in Jobs /\ page.lastEventId \in Nat
  BY <1>1 DEF StreamInv, FramesWell, ConnWell, StreamTypes, PageTypes
<1>3. PICK missed, after, j, n, feed :
          /\ missed = Backfill(conn.job, page.lastEventId) /\ after = page.lastEventId
          /\ j = page.job /\ n = after + Len(missed) /\ feed = FeedAfter(missed, "backfill")
  OBVIOUS
<1>4. /\ missed \in Seq(Frames) /\ Len(missed) \in Nat /\ j \in Jobs /\ after \in Nat
      /\ FramesOf(j, missed)
  BY <1>2, <1>3, BackfillIsWell
<1>5. n \in Int /\ feed \in {"backfill", "live", "over"}
  BY <1>3, <1>4, FeedStates
<1>6. conn' = [st |-> "open", job |-> j, feed |-> feed, pipe |-> missed, last |-> n]
  BY <1>2, <1>3 DEF OpenEvents
<1>7. conn' \in Connections /\ ConnWell'
  BY <1>1, <1>3, <1>4, <1>5, <1>6, OpenKeeps
<1> QED BY <1>1, <1>7, PageStays, ReadingKeeps

LEMMA SubscribesKeeps == ASSUME StreamInv, Subscribes PROVE StreamInv'
<1>1. PICK c, j, frames, last : /\ c = conn /\ j = page.job /\ frames = conn.pipe
                                /\ last = conn.last
  OBVIOUS
<1>2. /\ UNCHANGED <<jobs, airborne, page, reads>> /\ c.st = "open"
      /\ conn' = [c EXCEPT !.feed = "live"]
  BY <1>1 DEF Subscribes
<1>3. /\ c \in Open /\ frames \in Seq(Frames) /\ FramesOf(j, frames) /\ c.job = j
      /\ last \in Int
  BY <1>1, <1>2, ConnOf DEF Open
<1>4. conn' = [st |-> "open", job |-> j, feed |-> "live", pipe |-> frames, last |-> last]
  BY <1>1, <1>2, <1>3 DEF Open
<1>5. conn' \in Connections /\ ConnWell'
  BY <1>1, <1>2, <1>3, <1>4, OpenKeeps
<1> QED BY <1>2, <1>5, PageStays, ReadingKeeps

LEMMA HigherBar == \A a, b \in Bars : HigherOf(a, b) \in Bars
BY DEF HigherOf

(* The highest number seen, after an answer's.                             *)
LEMMA HighestIs ==
    ASSUME NEW n \in 0 .. MaxLog, NEW low \in 0 .. MaxLog
    PROVE  Highest(1 .. n, low) \in 0 .. MaxLog
<1>1. CASE n = 0
  BY <1>1 DEF Highest
<1>2. CASE n # 0
  <2> DEFINE Top(s) == \A t \in 1 .. n : s >= t
  <2>1. n \in 1 .. n /\ Top(n) /\ 1 .. n # {}
    BY <1>2
  <2>2. PICK top : top = CHOOSE s \in 1 .. n : Top(s)
    OBVIOUS
  <2>3. top \in 1 .. n
    <3> HIDE DEF Top
    <3> QED BY <2>1, <2>2
  <2>4. top \in 0 .. MaxLog
    BY <2>3, StreamAssumption
  <2> QED BY <2>1, <2>2, <2>4 DEF Highest
<1> QED BY <1>1, <1>2

(* What a frame makes of the page.                                         *)
LEMMA FrameApplied ==
    ASSUME StreamTypes, NEW f \in Frames, NEW next, next = ApplyFrame(f)
    PROVE  /\ DOMAIN next = PageFields
           /\ next.job = page.job /\ next.shown \in JobShown /\ next.shown.id = page.shown.id
           /\ next.lastEventId \in 0 .. MaxLog
           /\ next.stopped = page.stopped /\ next.whole = page.whole
           /\ next.mixed \in BOOLEAN /\ next.mixed = (page.mixed \/ f.job # page.job)
           /\ DOMAIN next.events = DOMAIN page.events \cup {f.seq}
           /\ ~Over(next.shown.st) => next.shown.prog >= page.shown.prog
<1>1. PageTypes /\ f.seq \in 0 .. MaxLog /\ f.st \in JobStates /\ f.prog \in Bars
  BY StreamAssumption DEF StreamTypes, Frames
<1>2. PICK shown : shown = IF f.seq < page.lastEventId THEN page.shown
                           ELSE PatchJobFromEvent(page.shown, f)
  OBVIOUS
<1>3. PICK events : events = MergeEvents(page.events, {f.seq}, f.job)
  OBVIOUS
<1>4. PICK seen : seen = HigherOf(page.lastEventId, f.seq)
  OBVIOUS
<1>10. PICK mixed : mixed = (page.mixed \/ f.job # page.job)
  OBVIOUS
<1>5. next = [[[[page EXCEPT !.lastEventId = seen] EXCEPT !.mixed = mixed]
                  EXCEPT !.events = events] EXCEPT !.shown = shown]
  BY <1>1, <1>2, <1>3, <1>4, <1>10 DEF ApplyFrame, PageTypes, PageFields
<1>6. /\ DOMAIN next = PageFields
      /\ next.job = page.job /\ next.shown = shown /\ next.lastEventId = seen
      /\ next.events = events
      /\ next.stopped = page.stopped /\ next.whole = page.whole
  BY <1>1, <1>5 DEF PageTypes, PageFields
<1>11. next.mixed = mixed
  BY <1>1, <1>5 DEF PageTypes, PageFields
<1>12. mixed \in BOOLEAN
  BY <1>1, <1>10 DEF PageTypes
<1>7. DOMAIN events = DOMAIN page.events \cup {f.seq}
  BY <1>3 DEF MergeEvents
<1>8. seen \in 0 .. MaxLog
  BY <1>1, <1>4 DEF HigherOf, PageTypes
<1>9. /\ shown \in JobShown /\ shown.id = page.shown.id
      /\ ~Over(shown.st) => shown.prog >= page.shown.prog
  <2>1. PICK now : now = page.shown
    OBVIOUS
  <2>2. now \in JobShown /\ now.st \in JobStates /\ now.prog \in Bars /\ now.prog \in Int
        /\ f.prog \in Int
    BY <1>1, <2>1, BarsAreInts DEF PageTypes, JobShown
  <2>3. CASE f.seq < page.lastEventId
    BY <1>2, <2>1, <2>2, <2>3
  <2>4. CASE ~(f.seq < page.lastEventId)
    <3>1. PICK st : st = IF Over(now.st) THEN now.st ELSE f.st
      OBVIOUS
    <3>2. PICK prog : prog = IF Over(f.st) THEN Full ELSE HigherOf(now.prog, f.prog)
      OBVIOUS
    <3>3. st \in JobStates /\ (Over(f.st) => Over(st))
      BY <1>1, <2>2, <3>1
    <3>4. prog \in Bars
      BY <1>1, <2>2, <3>2, BarsAreInts, HigherBar
    <3>7. ~Over(f.st) => prog >= now.prog
      BY <2>2, <3>2 DEF HigherOf
    <3>5. shown = [[now EXCEPT !.st = st] EXCEPT !.prog = prog]
      BY <1>2, <2>1, <2>2, <2>4, <3>1, <3>2 DEF PatchJobFromEvent, JobShown
    <3>6. shown \in JobShown /\ shown.id = now.id /\ shown.st = st /\ shown.prog = prog
      BY <2>2, <3>3, <3>4, <3>5 DEF JobShown
    <3> QED BY <2>1, <3>3, <3>6, <3>7
  <2> QED BY <2>3, <2>4
<1> QED BY <1>6, <1>7, <1>8, <1>9, <1>10, <1>11, <1>12

(* What an answer makes of the page.                                       *)
LEMMA AnswerApplied ==
    ASSUME StreamTypes, NEW j \in Jobs, NEW rec \in Records, NEW next,
           next = ApplyLatest(j, rec)
    PROVE  /\ DOMAIN next = PageFields
           /\ next.job = page.job /\ next.shown \in JobShown /\ next.shown.id = j
           /\ next.lastEventId \in 0 .. MaxLog
           /\ next.stopped = page.stopped
           /\ next.whole \in BOOLEAN /\ next.mixed \in BOOLEAN
           /\ next.whole => page.whole \/ (j = page.job /\ Over(rec.st))
           /\ page.mixed => next.mixed
           /\ ~next.mixed => j = page.job
           /\ DOMAIN next.events = DOMAIN page.events \cup 1 .. rec.events
           /\ page.shown.id = j /\ ~Over(next.shown.st) =>
                 next.shown.prog >= page.shown.prog
<1>1. PageTypes /\ rec.st \in JobStates /\ rec.prog \in Bars /\ rec.events \in 0 .. MaxLog
  BY DEF StreamTypes, Records
<1>2. PICK new : new = [id |-> j, st |-> rec.st, prog |-> rec.prog]
  OBVIOUS
<1>3. PICK shown : shown = ClampProgress(page.shown, new)
  OBVIOUS
<1>4. PICK events : events = MergeEvents(page.events, 1 .. rec.events, j)
  OBVIOUS
<1>5. PICK seen : seen = Highest(1 .. rec.events, page.lastEventId)
  OBVIOUS
<1>8. next = [page EXCEPT !.shown = shown, !.events = events, !.lastEventId = seen,
                          !.whole = page.whole \/ (j = page.job /\ Over(rec.st)),
                          !.mixed = page.mixed \/ j # page.job]
  BY <1>1, <1>2, <1>3, <1>4, <1>5 DEF ApplyLatest, PageTypes, PageFields
<1>9. /\ DOMAIN next = PageFields
      /\ next.job = page.job /\ next.shown = shown /\ next.events = events
      /\ next.lastEventId = seen /\ next.stopped = page.stopped
  BY <1>1, <1>8 DEF PageTypes, PageFields
<1>10. next.whole = (page.whole \/ (j = page.job /\ Over(rec.st)))
  BY <1>1, <1>8 DEF PageTypes, PageFields
<1>11. next.mixed = (page.mixed \/ j # page.job)
  BY <1>1, <1>8 DEF PageTypes, PageFields
<1>12. DOMAIN events = DOMAIN page.events \cup 1 .. rec.events
  BY <1>4 DEF MergeEvents
<1>13. seen \in 0 .. MaxLog
  BY <1>1, <1>5, HighestIs DEF PageTypes
<1>14. /\ shown \in JobShown /\ shown.id = j
       /\ page.shown.id = j /\ ~Over(shown.st) => shown.prog >= page.shown.prog
  <2>1. PICK now : now = page.shown
    OBVIOUS
  <2>2. now \in JobShown /\ now.prog \in Bars
    BY <1>1, <2>1 DEF PageTypes, JobShown
  <2>3. new \in JobShown /\ new.id = j /\ new.st = rec.st /\ new.prog = rec.prog
    BY <1>1, <1>2 DEF JobShown
  <2>4. CASE now.id # j \/ Over(rec.st)
    <3>1. shown = new
      BY <1>3, <2>1, <2>3, <2>4 DEF ClampProgress
    <3> QED BY <2>1, <2>3, <2>4, <3>1
  <2>5. CASE now.id = j /\ ~Over(rec.st)
    <3>1. PICK prog : prog = HigherOf(now.prog, new.prog)
      OBVIOUS
    <3>2. prog \in Bars
      BY <1>1, <2>2, <2>3, <3>1, HigherBar
    <3>5. now.prog \in Int /\ new.prog \in Int
      BY <1>1, <2>2, <2>3, BarsAreInts
    <3>6. prog >= now.prog
      BY <3>1, <3>5 DEF HigherOf
    <3>3. shown = [new EXCEPT !.prog = prog]
      BY <1>3, <2>1, <2>3, <2>5, <3>1 DEF ClampProgress
    <3>4. shown \in JobShown /\ shown.id = j /\ shown.prog = prog
      BY <2>3, <3>2, <3>3 DEF JobShown
    <3> QED BY <2>1, <3>6, <3>4
  <2> QED BY <2>4, <2>5
<1>15. next.whole \in BOOLEAN /\ next.mixed \in BOOLEAN
  BY <1>1, <1>10, <1>11 DEF PageTypes
<1>16. /\ next.whole => page.whole \/ (j = page.job /\ Over(rec.st))
       /\ page.mixed => next.mixed
       /\ ~next.mixed => j = page.job
  BY <1>10, <1>11
<1> QED BY <1>9, <1>12, <1>13, <1>14, <1>15, <1>16

LEMMA StoppedPage ==
    ASSUME NEW next, DOMAIN next = PageFields, NEW p, p = [next EXCEPT !.stopped = TRUE]
    PROVE  /\ DOMAIN p = PageFields
           /\ p.job = next.job /\ p.shown = next.shown /\ p.events = next.events
           /\ p.lastEventId = next.lastEventId /\ p.whole = next.whole
           /\ p.mixed = next.mixed /\ p.stopped \in BOOLEAN
BY DEF PageFields

(* A frame of its job is shown, or one of another's: it says so.           *)
LEMMA FrameShown ==
    ASSUME StreamInv, UNCHANGED jobs, NEW f \in Frames, FrameWell(f),
           page' = ApplyFrame(f) \/
               (f.job = page.job /\ Over(f.st) /\
                page' = [ApplyFrame(f) EXCEPT !.stopped = TRUE])
    PROVE  PageTypes' /\ PageWell' /\ page'.job = page.job
<1>1. PICK next : next = ApplyFrame(f)
  OBVIOUS
<1>2. StreamTypes /\ PageTypes /\ PageWell /\ page.job \in Jobs
  BY DEF StreamInv, StreamTypes, PageTypes
<1>3. /\ DOMAIN next = PageFields
      /\ next.job = page.job /\ next.shown \in JobShown
      /\ next.lastEventId \in 0 .. MaxLog
      /\ next.stopped = page.stopped /\ next.whole = page.whole
      /\ next.mixed \in BOOLEAN /\ next.mixed = (page.mixed \/ f.job # page.job)
      /\ DOMAIN next.events = DOMAIN page.events \cup {f.seq}
  BY <1>1, <1>2, FrameApplied
<1>4. /\ DOMAIN page' = PageFields
      /\ page'.job = next.job /\ page'.shown = next.shown /\ page'.events = next.events
      /\ page'.lastEventId = next.lastEventId /\ page'.whole = next.whole
      /\ page'.mixed = next.mixed /\ page'.stopped \in BOOLEAN
  <2>1. CASE page' = next
    BY <1>2, <1>3, <2>1 DEF PageTypes
  <2>2. CASE page' = [next EXCEPT !.stopped = TRUE]
    BY <1>3, <2>2, StoppedPage
  <2> QED BY <1>1, <2>1, <2>2
<1>5. page'.stopped => page.stopped \/ (f.job = page.job /\ Over(f.st))
  BY <1>1, <1>3
<1>6. FrameWell(f) /\ f.seq \in RowHeard(jobs[f.job])
      /\ (Over(f.st) => RowEnds(jobs[f.job]))
  BY DEF FrameWell
<1>7. PageTypes' /\ page'.job = page.job
  BY <1>2, <1>3, <1>4 DEF PageTypes
<1>8. PICK w : w = jobs[page.job] /\ w = jobs'[page'.job]
  BY <1>7
<1>9. page'.stopped => RowEnds(w)
  BY <1>2, <1>5, <1>6, <1>8 DEF PageWell
<1>10. ~page'.mixed => DOMAIN page'.events \subseteq RowHeard(w)
  BY <1>2, <1>3, <1>4, <1>6, <1>8 DEF PageWell
<1>11. page'.whole => Over(w.st) /\ 1 .. w.ended \subseteq DOMAIN page'.events
  BY <1>2, <1>3, <1>4, <1>8 DEF PageWell
<1> QED BY <1>7, <1>8, <1>9, <1>10, <1>11 DEF PageWell

(* The frames behind the first.                                            *)
LEMMA Behind ==
    ASSUME NEW j, NEW s \in Seq(Frames), s # <<>>, FramesOf(j, s)
    PROVE  /\ Head(s) \in Frames /\ Head(s).job = j /\ FrameWell(Head(s))
           /\ Tail(s) \in Seq(Frames) /\ FramesOf(j, Tail(s))
           /\ \A n \in 1 .. Len(s) :
                 SubSeq(s, 2, n) \in Seq(Frames) /\ FramesOf(j, SubSeq(s, 2, n))
<1>1. 1 \in DOMAIN s /\ Len(s) \in Nat /\ DOMAIN s = 1 .. Len(s)
  OBVIOUS
<1>2. PICK f : f = Head(s) /\ f = s[1]
  BY <1>1
<1>3. f \in Frames /\ f.job = j /\ FrameWell(f)
  BY <1>1, <1>2 DEF FramesOf
<1>4. PICK t : t = Tail(s)
  OBVIOUS
<1>5. /\ t \in Seq(Frames)
      /\ \A i \in DOMAIN t : i + 1 \in DOMAIN s /\ t[i] = s[i + 1]
  BY <1>1, <1>4
<1>6. FramesOf(j, t)
  BY <1>5 DEF FramesOf
<1>7. ASSUME NEW n \in 1 .. Len(s), NEW u, u = SubSeq(s, 2, n)
      PROVE  u \in Seq(Frames) /\ FramesOf(j, u)
  <2>1. PICK m \in Nat : n = m + 1
    <3>1. n - 1 \in Nat /\ n = (n - 1) + 1
      BY <1>1
    <3> QED BY <3>1
  <2>2. u = [i \in 1 .. m |-> s[i + 1]]
    BY <1>1, <1>7, <2>1
  <2>3. \A i \in 1 .. m : i + 1 \in DOMAIN s
    BY <1>1, <2>1
  <2>4. u \in [1 .. m -> Frames] /\ DOMAIN u = 1 .. m /\ \A i \in 1 .. m : u[i] = s[i + 1]
    BY <2>2, <2>3
  <2>5. u \in Seq(Frames)
    BY <2>4
  <2> QED BY <2>3, <2>4, <2>5 DEF FramesOf
<1> QED BY <1>2, <1>3, <1>4, <1>5, <1>6, <1>7

LEMMA FinalWell ==
    ASSUME NEW j \in Jobs, NEW rest \in Seq(Frames), FramesOf(j, rest),
           NEW r, r = Final(j, rest)
    PROVE  r \in Requests /\ r.st = "asked" /\ ReadWell(r)
<1>1. PICK none : none = <<>>
  OBVIOUS
<1>2. r = [kind |-> "final", job |-> j, st |-> "asked", rec |-> none, rest |-> rest]
  BY <1>1 DEF Final
<1>3. r \in Requests /\ r.st = "asked" /\ r.job = j /\ r.rest = rest
  BY <1>1, <1>2 DEF Requests, Kinds
<1> QED BY <1>3 DEF ReadWell

LEMMA ReadFrameKeeps == ASSUME StreamInv, ReadFrame PROVE StreamInv'
<1>1. PICK c, j, pipe, f : c = conn /\ j = page.job /\ pipe = conn.pipe /\ f = Head(pipe)
  OBVIOUS
<1>2. /\ UNCHANGED <<jobs, airborne>> /\ c.st = "open" /\ pipe # <<>>
      /\ c \in Open /\ pipe \in Seq(Frames) /\ FramesOf(j, pipe) /\ c.job = j /\ j \in Jobs
  BY <1>1, ConnOf DEF ReadFrame
<1>3. f \in Frames /\ f.job = j /\ FrameWell(f)
  BY <1>1, <1>2, Behind
<1>4. page' = ApplyFrame(f) \/
        (f.job = page.job /\ Over(f.st) /\ page' = [ApplyFrame(f) EXCEPT !.stopped = TRUE])
  BY <1>1, <1>3 DEF ReadFrame
<1>5. PageTypes' /\ PageWell' /\ page'.job = page.job
  BY <1>2, <1>3, <1>4, FrameShown
<1>6. CASE Over(f.st)
  <2>1. PICK n \in 1 .. Len(pipe) :
            reads' = reads \cup {Final(c.job, SubSeq(pipe, 2, n))}
    BY <1>1, <1>6 DEF ReadFrame
  <2>2. PICK rest, r : rest = SubSeq(pipe, 2, n) /\ r = Final(j, rest)
    OBVIOUS
  <2>3. rest \in Seq(Frames) /\ FramesOf(j, rest)
    BY <1>2, <2>2, Behind
  <2>4. r \in Requests /\ ReadWell(r)
    BY <1>2, <2>2, <2>3, FinalWell
  <2>5. \A q \in reads' : q \in reads \/ (q \in Requests /\ ReadWell(q))
    BY <1>2, <2>1, <2>2, <2>4
  <2>6. conn' = Closed
    BY <1>1, <1>6 DEF ReadFrame
  <2>7. conn' \in Connections /\ ConnWell'
    BY <1>1, <1>2, <1>5, <2>6, IdleConn
  <2> QED BY <1>2, <1>5, <2>5, <2>7, ReadingKeeps
<1>7. CASE ~Over(f.st)
  <2>1. PICK tail, feed, last : tail = Tail(pipe) /\ feed = c.feed /\ last = c.last
    OBVIOUS
  <2>2. conn' = [c EXCEPT !.pipe = tail] /\ UNCHANGED reads
    <3>1. conn' = [conn EXCEPT !.pipe = Tail(@)] /\ UNCHANGED reads
      BY <1>1, <1>7 DEF ReadFrame
    <3> QED BY <1>1, <1>2, <2>1, <3>1 DEF Open
  <2>3. conn' = [st |-> "open", job |-> j, feed |-> feed, pipe |-> tail, last |-> last]
    BY <1>2, <2>1, <2>2 DEF Open
  <2>4. tail \in Seq(Frames) /\ FramesOf(j, tail)
    BY <1>2, <2>1, Behind
  <2>5. feed \in {"backfill", "live", "over"} /\ last \in Int
    BY <1>2, <2>1 DEF Open
  <2>6. conn' \in Connections /\ ConnWell'
    BY <1>1, <1>2, <1>5, <2>3, <2>4, <2>5, OpenKeeps
  <2> QED BY <1>2, <1>5, <2>2, <2>6, ReadingKeeps
<1> QED BY <1>6, <1>7

LEMMA ReadRestKeeps == ASSUME StreamInv, NEW r \in reads, ReadRest(r) PROVE StreamInv'
<1>1. PICK j, s, f, tail : j = r.job /\ s = r.rest /\ f = Head(s) /\ tail = Tail(s)
  OBVIOUS
<1>2. /\ UNCHANGED <<jobs, airborne, conn>> /\ r.st = "resumed" /\ page' = ApplyFrame(f)
      /\ r \in Requests /\ ReadWell(r)
  BY <1>1 DEF ReadRest, StreamInv, StreamTypes
<1>3. j \in Jobs /\ s \in Seq(Frames) /\ s # <<>> /\ FramesOf(j, s)
  BY <1>1, <1>2 DEF Requests, ReadWell
<1>4. f \in Frames /\ FrameWell(f) /\ tail \in Seq(Frames) /\ FramesOf(j, tail)
  BY <1>1, <1>3, Behind
<1>5. PageTypes' /\ PageWell' /\ page'.job = page.job
  BY <1>2, <1>4, FrameShown
<1>6. conn' \in Connections /\ ConnWell'
  BY <1>2, <1>5, ConnStays, NothingWritten
<1>7. PICK more, last : more = [r EXCEPT !.rest = tail] /\ last = Final(j, tail)
  OBVIOUS
<1>8. /\ more \in Requests /\ more.st = "resumed" /\ more.job = j /\ more.rest = tail
  BY <1>1, <1>2, <1>4, <1>7 DEF Requests
<1>9. tail # <<>> => ReadWell(more)
  BY <1>4, <1>8 DEF ReadWell
<1>10. last \in Requests /\ ReadWell(last)
  BY <1>3, <1>4, <1>7, FinalWell
<1>11. more = [r EXCEPT !.rest = Tail(@)]
  BY <1>1, <1>2, <1>7 DEF Requests
<1>12. \A q \in reads' : q \in reads \/ q = last \/ (q = more /\ tail # <<>>)
  BY <1>1, <1>7, <1>8, <1>11 DEF ReadRest
<1>13. \A q \in reads' : q \in reads \/ (q \in Requests /\ ReadWell(q))
  BY <1>8, <1>9, <1>10, <1>12
<1> QED BY <1>2, <1>5, <1>6, <1>13, ReadingKeeps

LEMMA AnsweredKeeps == ASSUME StreamInv, NEW r \in reads, Answered(r) PROVE StreamInv'
<1>1. PICK j, rec, next : j = r.job /\ rec = r.rec /\ next = ApplyLatest(j, rec)
  OBVIOUS
<1>2. /\ UNCHANGED <<jobs, airborne>> /\ reads' = (reads \ {r}) \cup Resumed(r)
      /\ r.st = "answered" /\ ReadWell(r) /\ r \in Requests /\ j \in Jobs
      /\ StreamTypes /\ PageTypes /\ PageWell /\ page.job \in Jobs
  BY <1>1 DEF Answered, StreamInv, StreamTypes, PageTypes, Requests
<1>3. PICK n, m, w : n = rec.events /\ w = jobs[j] /\ m = Len(w.log)
  OBVIOUS
<1>4. /\ rec \in Records /\ n \in Nat /\ n <= m
      /\ Over(rec.st) => Over(w.st) /\ w.ended <= n
  BY <1>1, <1>2, <1>3 DEF ReadWell, Records
<1>5. /\ DOMAIN next = PageFields
      /\ next.job = page.job /\ next.shown \in JobShown
      /\ next.lastEventId \in 0 .. MaxLog
      /\ next.stopped = page.stopped
      /\ next.whole \in BOOLEAN /\ next.mixed \in BOOLEAN
      /\ next.whole => page.whole \/ (j = page.job /\ Over(rec.st))
      /\ page.mixed => next.mixed
      /\ ~next.mixed => j = page.job
      /\ DOMAIN next.events = DOMAIN page.events \cup 1 .. n
  BY <1>1, <1>2, <1>3, <1>4, AnswerApplied
<1>6. 1 .. n \subseteq RowHeard(w)
  <2>1. PICK o : o = Len(w.open)
    OBVIOUS
  <2>2. m \in Nat /\ o \in Nat
    BY <1>2, <1>3, <2>1, RowOf, RowParts
  <2>3. 1 .. n \subseteq 1 .. m + o
    BY <1>4, <2>2
  <2> QED BY <1>3, <2>1, <2>3 DEF RowHeard
<1>7. page' = next \/ (Over(rec.st) /\ j = page.job /\ page' = [next EXCEPT !.stopped = TRUE])
  BY <1>1 DEF Answered
<1>8. /\ DOMAIN page' = PageFields
      /\ page'.job = next.job /\ page'.shown = next.shown /\ page'.events = next.events
      /\ page'.lastEventId = next.lastEventId /\ page'.whole = next.whole
      /\ page'.mixed = next.mixed /\ page'.stopped \in BOOLEAN
  <2>1. CASE page' = next
    BY <1>2, <1>5, <2>1 DEF PageTypes
  <2>2. CASE page' = [next EXCEPT !.stopped = TRUE]
    BY <1>5, <2>2, StoppedPage
  <2> QED BY <1>7, <2>1, <2>2
<1>9. page'.stopped => page.stopped \/ (j = page.job /\ Over(rec.st))
  BY <1>5, <1>7
<1>10. PageTypes' /\ page'.job = page.job
  BY <1>2, <1>5, <1>8 DEF PageTypes
<1>11. PageWell'
  <2>1. PICK v : v = jobs[page.job] /\ v = jobs'[page'.job]
    BY <1>2, <1>10
  <2>2. page'.stopped => RowEnds(v)
    BY <1>2, <1>3, <1>4, <1>9, <2>1 DEF PageWell, RowEnds
  <2>3. ~page'.mixed => DOMAIN page'.events \subseteq RowHeard(v)
    BY <1>2, <1>3, <1>5, <1>6, <1>8, <2>1 DEF PageWell
  <2>4. page'.whole => Over(v.st) /\ 1 .. v.ended \subseteq DOMAIN page'.events
    <3>1. CASE page.whole
      BY <1>2, <1>5, <1>8, <2>1, <3>1 DEF PageWell
    <3>2. CASE j = page.job /\ Over(rec.st)
      <4>1. v = w /\ w.ended <= n /\ w.ended \in Nat
        BY <1>2, <1>3, <1>4, <2>1, <3>2, RowOf, RowParts
      <4>2. 1 .. w.ended \subseteq 1 .. n
        BY <1>4, <4>1
      <4> QED BY <1>3, <1>4, <1>5, <1>8, <3>2, <4>1, <4>2
    <3> QED BY <1>5, <1>8, <3>1, <3>2
  <2> QED BY <2>1, <2>2, <2>3, <2>4 DEF PageWell
<1>12. conn' = Closed \/ CaughtUp(r) \/ UNCHANGED conn
  BY DEF Answered
<1>13. conn' \in Connections /\ ConnWell'
  BY <1>2, <1>10, <1>12, CaughtUpKeeps, IdleConn
<1>14. \A q \in reads' : q \in reads \/ (q \in Requests /\ ReadWell(q))
  BY <1>2, ResumedWell
<1> QED BY <1>2, <1>10, <1>11, <1>13, <1>14, ReadingKeeps

LEMMA TurnKeeps == ASSUME StreamInv, Turn PROVE StreamInv'
<1>1. PICK w, prog : w = jobs[2] /\ prog = ProgressFor(2)
  OBVIOUS
<1>2. /\ UNCHANGED <<jobs, reads>> /\ airborne' \subseteq airborne /\ 2 \in Jobs
      /\ w \in JobRows /\ w.st \in JobStates /\ prog \in Bars
  BY <1>1, RowOf, RowParts, ProgressIsBar DEF Turn, Jobs
<1>3. page' = [job |-> 2, shown |-> [id |-> 2, st |-> w.st, prog |-> prog],
               events |-> <<>>, lastEventId |-> 0, stopped |-> Over(w.st),
               whole |-> FALSE, mixed |-> FALSE]
  BY <1>1 DEF Turn, Turned
<1>4. /\ DOMAIN page' = PageFields /\ page'.job = 2
      /\ page'.shown = [id |-> 2, st |-> w.st, prog |-> prog]
      /\ page'.events = <<>> /\ page'.lastEventId = 0
  BY <1>3 DEF PageFields
<1>5. /\ page'.stopped = Over(w.st) /\ ~page'.whole /\ ~page'.mixed
      /\ page'.whole \in BOOLEAN /\ page'.mixed \in BOOLEAN /\ page'.stopped \in BOOLEAN
  BY <1>3 DEF Over
<1>6. PageTypes'
  <2>1. page'.shown \in JobShown
    BY <1>2, <1>4 DEF JobShown
  <2> QED BY <1>2, <1>4, <1>5, <2>1, StreamAssumption DEF PageTypes
<1>7. PageWell'
  <2>1. DOMAIN page'.events = {} /\ jobs'[page'.job] = w
    BY <1>1, <1>2, <1>4
  <2>2. Over(w.st) => RowEnds(w)
    BY DEF RowEnds
  <2> QED BY <1>5, <2>1, <2>2 DEF PageWell
<1>8. conn' = Closed \/ conn' = Ready(page'.job)
  BY <1>4 DEF Turn
<1>9. conn' \in Connections /\ ConnWell'
  BY <1>2, <1>4, <1>8, IdleConn
<1> QED BY <1>2, <1>6, <1>7, <1>9, ReadingKeeps

LEMMA StreamStarts == StreamInit => StreamInv
<1> SUFFICES ASSUME StreamInit PROVE StreamInv
  OBVIOUS
<1>1. PICK w, none : w = NewJob /\ none = <<>>
  OBVIOUS
<1>2. none \in Seq(Events) /\ Len(none) = 0 /\ DOMAIN none = {}
  BY <1>1
<1>3. w = [st |-> "running", log |-> none, ended |-> 0, open |-> none, undone |-> {}]
  BY <1>1 DEF NewJob
<1>4. /\ w \in JobRows /\ w.log = none /\ w.open = none /\ w.ended = 0
  BY <1>2, <1>3 DEF JobRows, JobStates
<1>5. RowWell(w)
  BY <1>2, <1>4, StreamAssumption DEF RowWell
<1>6. jobs = [j \in Jobs |-> w]
  BY <1>1 DEF StreamInit
<1>7. jobs \in [Jobs -> JobRows] /\ JobsWell
  BY <1>4, <1>5, <1>6 DEF JobsWell
<1>8. /\ DOMAIN page = PageFields /\ page.job = 1 /\ 1 \in Jobs
      /\ page.shown = [id |-> 1, st |-> "running", prog |-> 0]
      /\ page.lastEventId = 0 /\ page.events = <<>>
      /\ ~page.stopped /\ ~page.whole /\ ~page.mixed
      /\ page.stopped \in BOOLEAN /\ page.whole \in BOOLEAN /\ page.mixed \in BOOLEAN
  BY DEF StreamInit, PageFields, Jobs
<1>9. page.shown \in JobShown
  BY <1>8, BarsAreInts DEF JobShown, JobStates
<1>10. conn \in Waiting /\ conn.st = "ready" /\ conn.job = page.job
  BY <1>8 DEF StreamInit, Ready, Waiting
<1>11. StreamTypes
  BY <1>7, <1>8, <1>9, <1>10, StreamAssumption
     DEF StreamInit, StreamTypes, PageTypes, Connections
<1>12. FramesWell /\ \A r \in reads : ReadWell(r)
  BY <1>10 DEF StreamInit, FramesWell, ConnWell
<1>13. PageWell
  <2>1. DOMAIN page.events = {}
    BY <1>8
  <2> QED BY <1>8, <2>1 DEF PageWell
<1> QED BY <1>7, <1>11, <1>12, <1>13 DEF StreamInv

LEMMA StreamSteps == StreamInv /\ [StreamNext]_streamVars => StreamInv'
<1> SUFFICES ASSUME StreamInv, [StreamNext]_streamVars PROVE StreamInv'
  OBVIOUS
<1>1. page.job \in Jobs
  BY DEF StreamInv, StreamTypes, PageTypes
<1>2. CASE Settles(page.job) \/ EndsUnsaid(page.job) \/ Honours(page.job)
  BY <1>1, <1>2, SettlesKeeps, EndsUnsaidKeeps, PublishedEarlyKeeps
<1>3. ASSUME NEW p \in Levels, Emit(page.job, p) \/ Heartbeat(page.job, p) PROVE StreamInv'
  BY <1>1, <1>3, EmitKeeps, PublishedEarlyKeeps
<1>4. ASSUME NEW j \in Jobs, CommitEvent(j) \/ RollsBack(j) PROVE StreamInv'
  BY <1>4, CommitEventKeeps, RollsBackKeeps
<1>5. ASSUME NEW f \in airborne, Deliver(f) \/ DeliverFails(f) PROVE StreamInv'
  BY <1>5, DeliverKeeps, LossesKeep
<1>6. CASE PollTimer \/ Reconnects \/ AskCancel
  BY <1>6, AsksKeep
<1>7. ASSUME NEW r \in reads,
             GetJob(r) \/ Cancels(r) \/ Answered(r) \/ LoseAnswer(r) \/ ReadRest(r)
      PROVE  StreamInv'
  BY <1>7, GetJobKeeps, CancelsKeeps, AnsweredKeeps, LossesKeep, ReadRestKeeps
<1>8. CASE OpenEvents \/ Subscribes \/ ReadFrame \/ DropEvents \/ Turn
  BY <1>8, OpenEventsKeeps, SubscribesKeeps, ReadFrameKeeps, LossesKeep, TurnKeeps
<1>9. CASE UNCHANGED streamVars
  BY <1>9, FewerKeeps DEF streamVars
<1> QED BY <1>2, <1>3, <1>4, <1>5, <1>6, <1>7, <1>8, <1>9 DEF StreamNext

LEMMA StreamInvariant == StreamSpec => []StreamInv
BY StreamStarts, StreamSteps, PTL DEF StreamSpec

(* The watch of a job ends only when the job is over or its cancellation   *)
(* was published, whichever of a frame, a poll, a reconnect and a late     *)
(* answer about another job brought the news.  A cancellation that was     *)
(* published and rolled back ends it too: that the job is then over is     *)
(* not so, and is not claimed.                                             *)
THEOREM WatchEndsWithTheJob == StreamSpec => []StopsOnlyWhenOver
<1>1. StreamInv => StopsOnlyWhenOver
  BY DEF StreamInv, PageWell, RowEnds, StopsOnlyWhenOver, CancelOpen, CancelUndone
<1> QED BY <1>1, StreamInvariant, PTL

(* Once a page has had the record of a job that is over, it holds all the  *)
(* events the job had when it ended, whatever was lost or overtaken, and   *)
(* none whose number the job never published: not even if a walk goes on   *)
(* after the end, or a publication is rolled back.                         *)
THEOREM RecordsAreWhole == StreamSpec => []RecordIsWhole
<1>1. ASSUME NEW j PROVE RowHeard(jobs[j]) = Heard(j)
  BY DEF RowHeard, Heard, Used
<1>2. StreamInv => RecordIsWhole
  BY <1>1 DEF StreamInv, PageWell, RecordIsWhole
<1> QED BY <1>2, StreamInvariant, PTL

(* No step lowers the bar of a job that is not over: neither a frame nor   *)
(* an answer, though the server's own progress goes back.                  *)
THEOREM BarNeverGoesBack == StreamSpec => ProgressNeverDrops
<1> DEFINE Rises == /\ page'.job = page.job
                    /\ page'.shown.id = page.shown.id
                    /\ ~Over(page'.shown.st)
                    => page'.shown.prog >= page.shown.prog
<1>1. StreamInv /\ [StreamNext]_streamVars => [Rises]_streamVars
  <2> SUFFICES ASSUME StreamInv, StreamNext, page'.job = page.job,
                      page'.shown.id = page.shown.id, ~Over(page'.shown.st)
               PROVE  page'.shown.prog >= page.shown.prog
    OBVIOUS
  <2>1. StreamTypes /\ page.shown \in JobShown /\ page.shown.prog \in Int
    BY BarsAreInts DEF StreamInv, StreamTypes, PageTypes, JobShown
  <2>2. CASE page' = page
    BY <2>1, <2>2
  <2>3. CASE Turn
    BY <2>3 DEF Turn, Turned
  <2>4. ASSUME NEW f \in Frames,
               page' = ApplyFrame(f) \/ page' = [ApplyFrame(f) EXCEPT !.stopped = TRUE]
        PROVE  page'.shown.prog >= page.shown.prog
    <3>1. PICK next : next = ApplyFrame(f)
      OBVIOUS
    <3>2. /\ DOMAIN next = PageFields
          /\ ~Over(next.shown.st) => next.shown.prog >= page.shown.prog
      BY <2>1, <3>1, FrameApplied
    <3>3. page'.shown = next.shown
      BY <2>4, <3>1, <3>2, StoppedPage
    <3> QED BY <3>2, <3>3
  <2>5. ASSUME NEW r \in reads, Answered(r) PROVE page'.shown.prog >= page.shown.prog
    <3>1. r.job \in Jobs /\ r.rec \in Records
      BY <2>5 DEF Answered, StreamInv, StreamTypes, Requests, ReadWell
    <3>2. PICK next : next = ApplyLatest(r.job, r.rec)
      OBVIOUS
    <3>3. /\ DOMAIN next = PageFields /\ next.shown.id = r.job
          /\ page.shown.id = r.job /\ ~Over(next.shown.st) =>
                next.shown.prog >= page.shown.prog
      BY <2>1, <3>1, <3>2, AnswerApplied
    <3>4. page' = next \/ page' = [next EXCEPT !.stopped = TRUE]
      BY <2>5, <3>2 DEF Answered
    <3>5. page'.shown = next.shown
      BY <3>3, <3>4, StoppedPage
    <3> QED BY <3>3, <3>5
  <2>6. CASE ReadFrame
    <3>1. PICK s, f : s = conn.pipe /\ f = Head(s)
      OBVIOUS
    <3>2. s \in Seq(Frames) /\ s # <<>>
      BY <2>6, <3>1, ConnOf DEF ReadFrame
    <3>3. f \in Frames
      BY <3>1, <3>2
    <3> QED BY <2>4, <2>6, <3>1, <3>3 DEF ReadFrame
  <2>7. ASSUME NEW r \in reads, ReadRest(r) PROVE page'.shown.prog >= page.shown.prog
    <3>1. PICK s, f : s = r.rest /\ f = Head(s)
      OBVIOUS
    <3>2. s \in Seq(Frames) /\ s # <<>>
      BY <2>7, <3>1 DEF ReadRest, StreamInv, StreamTypes, ReadWell, Requests
    <3>3. f \in Frames
      BY <3>1, <3>2
    <3> QED BY <2>4, <2>7, <3>1, <3>3 DEF ReadRest
  <2>8. \/ page' = page \/ Turn \/ ReadFrame
        \/ \E r \in reads : Answered(r) \/ ReadRest(r)
    BY DEF StreamNext, Settles, EndsUnsaid, Honours, Emit, Heartbeat, CommitEvent, RollsBack,
           Deliver, DeliverFails, PollTimer, Reconnects, AskCancel, GetJob, Cancels,
           LoseAnswer, OpenEvents, Subscribes, DropEvents
  <2> QED BY <2>2, <2>3, <2>5, <2>6, <2>7, <2>8
<1> QED BY <1>1, StreamInvariant, PTL DEF StreamSpec, ProgressNeverDrops

(* The end of each watch asks for the record once more, over the bound.    *)
LastReads == (IF page.stopped THEN 1 ELSE 0) + (IF page.job = 2 THEN 1 ELSE 0)

ReadsInv ==
    /\ conn.st # "closed" => ~page.stopped
    /\ IsFiniteSet(reads) /\ Cardinality(reads) <= MaxReads + LastReads

WatchInv == StreamInv /\ ReadsInv

LEMMA ReadsCount ==
    ASSUME ReadsInv
    PROVE  Cardinality(reads) \in Nat /\ LastReads \in Nat /\ MaxReads \in Nat
BY FS_CardinalityType, StreamAssumption DEF ReadsInv, LastReads

(* As many requests or fewer: they are answered, lost, refused or resumed. *)
NoMore ==
    \/ reads' \subseteq reads
    \/ \E r \in reads : \E q : reads' = (reads \ {r}) \cup {q}
    \/ \E g : g \in Surjection(reads, reads')

(* New ones are asked for while there is room.                             *)
LEMMA ReadsStay ==
    ASSUME ReadsInv, LastReads' \in Nat, LastReads <= LastReads',
           conn'.st # "closed" => ~page'.stopped,
           NoMore \/ ((MayAsk \/ LastReads < LastReads') /\ \E q : reads' = reads \cup {q})
    PROVE  ReadsInv'
<1>1. IsFiniteSet(reads) /\ Cardinality(reads) <= MaxReads + LastReads
      /\ Cardinality(reads) \in Nat /\ LastReads \in Nat /\ MaxReads \in Nat
  BY ReadsCount DEF ReadsInv
<1>2. ASSUME IsFiniteSet(reads'), Cardinality(reads') <= Cardinality(reads)
      PROVE  ReadsInv'
  <2>1. Cardinality(reads') \in Nat
    BY <1>2, FS_CardinalityType
  <2> QED BY <1>1, <1>2, <2>1 DEF ReadsInv
<1>3. ASSUME NEW S, IsFiniteSet(S), Cardinality(S) \in Nat, NEW q
      PROVE  /\ IsFiniteSet(S \cup {q}) /\ Cardinality(S \cup {q}) \in Nat
             /\ Cardinality(S \cup {q}) <= Cardinality(S) + 1
  <2>1. /\ IsFiniteSet(S \cup {q})
        /\ \/ Cardinality(S \cup {q}) = Cardinality(S)
           \/ Cardinality(S \cup {q}) = Cardinality(S) + 1
    BY <1>3, FS_AddElement
  <2> QED BY <1>3, <2>1
<1>4. CASE reads' \subseteq reads
  BY <1>1, <1>2, <1>4, FS_Subset
<1>5. ASSUME NEW r \in reads, NEW q, reads' = (reads \ {r}) \cup {q} PROVE ReadsInv'
  <2>1. IsFiniteSet(reads \ {r}) /\ Cardinality(reads \ {r}) = Cardinality(reads) - 1
    BY <1>1, FS_RemoveElement
  <2>2. Cardinality(reads \ {r}) \in Nat
    BY <2>1, FS_CardinalityType
  <2>3. /\ IsFiniteSet(reads') /\ Cardinality(reads') \in Nat
        /\ Cardinality(reads') <= Cardinality(reads \ {r}) + 1
    BY <1>3, <1>5, <2>1, <2>2
  <2> QED BY <1>1, <1>2, <2>1, <2>3
<1>6. ASSUME NEW g \in Surjection(reads, reads') PROVE ReadsInv'
  BY <1>1, <1>2, FS_Surjection
<1>7. ASSUME NEW q, reads' = reads \cup {q}, MayAsk \/ LastReads < LastReads' PROVE ReadsInv'
  <2>1. /\ IsFiniteSet(reads') /\ Cardinality(reads') \in Nat
        /\ Cardinality(reads') <= Cardinality(reads) + 1
    BY <1>1, <1>3, <1>7
  <2> QED BY <1>1, <1>7, <2>1 DEF ReadsInv, MayAsk
<1> QED BY <1>4, <1>5, <1>6, <1>7 DEF NoMore

(* The page watches the job it did, if it does.                            *)
LEMMA SameWatch ==
    ASSUME ReadsInv, page'.stopped = page.stopped, page'.job = page.job,
           conn'.st # "closed" => conn.st # "closed",
           NoMore \/ (MayAsk /\ \E q : reads' = reads \cup {q})
    PROVE  ReadsInv'
<1>1. LastReads' = LastReads /\ LastReads' \in Nat /\ LastReads \in Nat
  BY DEF LastReads
<1>2. LastReads <= LastReads'
  BY <1>1
<1>3. conn'.st # "closed" => ~page'.stopped
  BY DEF ReadsInv
<1> QED BY <1>1, <1>2, <1>3, ReadsStay

LEMMA CommitCounts ==
    ASSUME NEW j, CommitEvent(j) PROVE \E g : g \in Surjection(reads, reads')
<1>3. PICK e, log, st : /\ e = jobs[j].open[1] /\ log = AppendEvent(j, e.st, e.prog)
                        /\ st = (IF Over(e.st) THEN e.st ELSE jobs[j].st)
  OBVIOUS
<1>4. PICK rec : rec = [st |-> st, prog |-> IF Over(st) THEN Full ELSE e.prog,
                        events |-> Len(log)]
  OBVIOUS
<1>1. reads' = {q \in reads : ~Waits(q, j)} \cup
               {[q EXCEPT !.st = "answered", !.rec = rec] :
                   q \in {q \in reads : Waits(q, j)}}
  BY <1>3, <1>4 DEF CommitEvent
<1> DEFINE Told(q) == IF Waits(q, j) THEN [q EXCEPT !.st = "answered", !.rec = rec] ELSE q
           g == [q \in reads |-> Told(q)]
<1>2. reads' = {Told(q) : q \in reads}
  BY <1>1
<1> HIDE DEF Told
<1>5. g \in [reads -> reads'] /\ \A t \in reads' : \E q \in reads : g[q] = t
  BY <1>2
<1>6. g \in Surjection(reads, reads')
  BY <1>5 DEF Surjection
<1> QED BY <1>6

LEMMA ResumedCounts ==
    ASSUME NEW r \in reads, reads' = (reads \ {r}) \cup Resumed(r) PROVE NoMore
<1>1. CASE Resumed(r) = {}
  BY <1>1 DEF NoMore
<1>2. CASE Resumed(r) # {}
  <2>1. PICK q : Resumed(r) = {q}
    BY <1>2 DEF Resumed
  <2> QED BY <2>1 DEF NoMore
<1> QED BY <1>1, <1>2

(* A step of the server, of the channel or of a request: the page waits.   *)
LEMMA WaitingCounts ==
    ASSUME WatchInv,
           \/ Settles(page.job) \/ EndsUnsaid(page.job) \/ Honours(page.job)
           \/ \E p \in Levels : Emit(page.job, p) \/ Heartbeat(page.job, p)
           \/ \E j \in Jobs : CommitEvent(j) \/ RollsBack(j)
           \/ \E f \in airborne : Deliver(f) \/ DeliverFails(f)
           \/ PollTimer \/ Reconnects \/ AskCancel
           \/ \E r \in reads : GetJob(r) \/ Cancels(r) \/ LoseAnswer(r)
           \/ OpenEvents \/ Subscribes \/ DropEvents
    PROVE  ReadsInv'
<1>1. StreamInv /\ ReadsInv
  BY DEF WatchInv
<1>2. UNCHANGED page
  BY DEF Settles, EndsUnsaid, Honours, Emit, Heartbeat, CommitEvent, RollsBack,
         Deliver, DeliverFails, PollTimer, Reconnects, AskCancel, GetJob, Cancels,
         LoseAnswer, OpenEvents, Subscribes, DropEvents
<1>3. ASSUME conn'.st # "closed" => conn.st # "closed",
             NoMore \/ (MayAsk /\ \E q : reads' = reads \cup {q})
      PROVE  ReadsInv'
  BY <1>1, <1>2, <1>3, SameWatch
<1>4. CASE \/ Settles(page.job) \/ EndsUnsaid(page.job) \/ Honours(page.job)
           \/ \E p \in Levels : Emit(page.job, p) \/ Heartbeat(page.job, p)
  <2>1. UNCHANGED <<conn, reads>>
    BY <1>4 DEF Settles, EndsUnsaid, Honours, Emit, Heartbeat
  <2> QED BY <1>3, <2>1 DEF NoMore
<1>5. ASSUME NEW j \in Jobs, CommitEvent(j) \/ RollsBack(j) PROVE ReadsInv'
  <2>1. UNCHANGED conn
    BY <1>5 DEF CommitEvent, RollsBack
  <2>2. CASE CommitEvent(j)
    BY <1>3, <2>1, <2>2, CommitCounts DEF NoMore
  <2>3. CASE RollsBack(j)
    <3>1. reads' \subseteq reads
      BY <2>3 DEF RollsBack
    <3> QED BY <1>3, <2>1, <3>1 DEF NoMore
  <2> QED BY <1>5, <2>2, <2>3
<1>6. ASSUME NEW f \in airborne, Deliver(f) \/ DeliverFails(f) PROVE ReadsInv'
  <2>1. UNCHANGED reads
    BY <1>6 DEF Deliver, DeliverFails
  <2>2. conn' = conn \/ conn.st = "open"
    BY <1>6 DEF Deliver, DeliverFails, Listens
  <2> QED BY <1>3, <2>1, <2>2 DEF NoMore
<1>7. CASE PollTimer \/ Reconnects \/ AskCancel
  <2>1. MayAsk /\ \E q : reads' = reads \cup {q}
    BY <1>7 DEF PollTimer, Reconnects, AskCancel
  <2>2. conn' = conn \/ conn.st = "dropped"
    BY <1>7 DEF PollTimer, Reconnects, AskCancel
  <2> QED BY <1>3, <2>1, <2>2
<1>8. ASSUME NEW r \in reads, GetJob(r) \/ Cancels(r) PROVE ReadsInv'
  <2>1. UNCHANGED conn
    BY <1>8 DEF GetJob, Cancels
  <2>2. reads' \subseteq reads \/ \E q : reads' = (reads \ {r}) \cup {q}
    BY <1>8 DEF GetJob, Cancels
  <2> QED BY <1>3, <2>1, <2>2 DEF NoMore
<1>9. ASSUME NEW r \in reads, LoseAnswer(r) PROVE ReadsInv'
  <2>1. NoMore
    BY <1>9, ResumedCounts DEF LoseAnswer
  <2>2. conn' = conn \/ conn.st = "catching up"
    BY <1>9 DEF LoseAnswer, CaughtUp
  <2> QED BY <1>3, <2>1, <2>2
<1>10. CASE OpenEvents \/ Subscribes \/ DropEvents
  <2>1. UNCHANGED reads /\ conn.st \in {"ready", "open"}
    BY <1>10 DEF OpenEvents, Subscribes, DropEvents
  <2> QED BY <1>3, <2>1 DEF NoMore
<1> QED BY <1>4, <1>5, <1>6, <1>7, <1>8, <1>9, <1>10

LEMMA ReadFrameCounts == ASSUME WatchInv, ReadFrame PROVE ReadsInv'
<1>1. StreamInv /\ ReadsInv /\ StreamTypes /\ conn.st = "open" /\ ~page.stopped
  BY DEF WatchInv, StreamInv, ReadsInv, ReadFrame
<1>2. PICK s, f, next : s = conn.pipe /\ f = Head(s) /\ next = ApplyFrame(f)
  OBVIOUS
<1>3. f \in Frames
  <2>1. s \in Seq(Frames) /\ s # <<>>
    BY <1>1, <1>2, ConnOf DEF ReadFrame
  <2> QED BY <1>2, <2>1
<1>4. DOMAIN next = PageFields /\ next.job = page.job /\ next.stopped = page.stopped
  BY <1>1, <1>2, <1>3, FrameApplied
<1>5. CASE Over(f.st)
  <2>1. page' = [next EXCEPT !.stopped = TRUE] /\ conn' = Closed
        /\ \E q : reads' = reads \cup {q}
    BY <1>2, <1>5 DEF ReadFrame
  <2>2. page'.job = page.job /\ page'.stopped
    BY <1>4, <2>1 DEF PageFields
  <2>3. LastReads' = LastReads + 1 /\ LastReads' \in Nat /\ LastReads \in Nat
    BY <1>1, <2>2 DEF LastReads
  <2>4. LastReads <= LastReads' /\ LastReads < LastReads'
    BY <2>3
  <2>5. conn'.st = "closed"
    BY <2>1 DEF Closed
  <2> QED BY <1>1, <2>1, <2>3, <2>4, <2>5, ReadsStay
<1>6. CASE ~Over(f.st)
  <2>1. page' = next /\ UNCHANGED reads
    BY <1>2, <1>6 DEF ReadFrame
  <2> QED BY <1>1, <1>4, <2>1, SameWatch DEF NoMore
<1> QED BY <1>5, <1>6

LEMMA ReadRestCounts == ASSUME WatchInv, NEW r \in reads, ReadRest(r) PROVE ReadsInv'
<1>1. StreamInv /\ ReadsInv /\ StreamTypes
  BY DEF WatchInv, StreamInv
<1>2. PICK s, f, next : s = r.rest /\ f = Head(s) /\ next = ApplyFrame(f)
  OBVIOUS
<1>3. f \in Frames
  <2>1. s \in Seq(Frames) /\ s # <<>>
    BY <1>1, <1>2 DEF ReadRest, StreamInv, StreamTypes, ReadWell, Requests
  <2> QED BY <1>2, <2>1
<1>4. next.job = page.job /\ next.stopped = page.stopped
  BY <1>1, <1>2, <1>3, FrameApplied
<1>5. page' = next /\ UNCHANGED conn
  BY <1>2 DEF ReadRest
<1>6. NoMore
  <2>1. PICK q : \/ reads' = (reads \ {r}) \cup {q}
                 \/ reads' = reads \ {r}
    <3>1. PICK more : more = [r EXCEPT !.rest = Tail(@)]
      OBVIOUS
    <3>2. CASE Over(f.st)
      BY <1>2, <3>2 DEF ReadRest
    <3>3. CASE ~Over(f.st)
      <4>1. reads' = (reads \ {r}) \cup {q \in {more} : q.rest # <<>>}
        BY <1>2, <3>1, <3>3 DEF ReadRest
      <4>2. {q \in {more} : q.rest # <<>>} = {} \/ {q \in {more} : q.rest # <<>>} = {more}
        OBVIOUS
      <4> QED BY <4>1, <4>2
    <3> QED BY <3>2, <3>3
  <2> QED BY <2>1 DEF NoMore
<1> QED BY <1>1, <1>4, <1>5, <1>6, SameWatch

LEMMA AnsweredCounts == ASSUME WatchInv, NEW r \in reads, Answered(r) PROVE ReadsInv'
<1>1. StreamInv /\ ReadsInv /\ StreamTypes /\ r.job \in Jobs /\ r.rec \in Records
  BY DEF WatchInv, StreamInv, StreamTypes, Answered, Requests, ReadWell
<1>2. PICK next : next = ApplyLatest(r.job, r.rec)
  OBVIOUS
<1>3. DOMAIN next = PageFields /\ next.job = page.job /\ next.stopped = page.stopped
  BY <1>1, <1>2, AnswerApplied
<1>4. NoMore
  BY ResumedCounts DEF Answered
<1>5. CASE page' = [next EXCEPT !.stopped = TRUE] /\ conn' = Closed
  <2>1. page'.job = page.job /\ page'.stopped
    BY <1>3, <1>5 DEF PageFields
  <2>2. LastReads' \in Nat /\ LastReads <= LastReads'
    BY <2>1 DEF LastReads
  <2>3. conn'.st = "closed"
    BY <1>5 DEF Closed
  <2> QED BY <1>1, <1>4, <2>2, <2>3, ReadsStay
<1>6. CASE page' = next /\ (CaughtUp(r) \/ UNCHANGED conn)
  <2>1. conn' = conn \/ conn.st = "catching up"
    BY <1>6 DEF CaughtUp
  <2> QED BY <1>1, <1>3, <1>4, <1>6, <2>1, SameWatch
<1> QED BY <1>2, <1>5, <1>6 DEF Answered

LEMMA TurnCounts == ASSUME WatchInv, Turn PROVE ReadsInv'
<1>1. /\ UNCHANGED reads /\ page.job = 1 /\ page' = Turned(2) /\ ReadsInv
      /\ conn' = IF page'.stopped THEN Closed ELSE Ready(2)
  BY DEF Turn, WatchInv
<1>2. page'.job = 2
  BY <1>1 DEF Turned
<1>3. LastReads' \in Nat /\ LastReads <= LastReads'
  BY <1>1, <1>2 DEF LastReads
<1>4. conn'.st # "closed" => ~page'.stopped
  BY <1>1 DEF Closed
<1> QED BY <1>1, <1>3, <1>4, ReadsStay DEF NoMore

LEMMA WatchStarts == StreamInit => WatchInv
<1> SUFFICES ASSUME StreamInit PROVE WatchInv
  OBVIOUS
<1>1. IsFiniteSet(reads) /\ Cardinality(reads) = 0 /\ ~page.stopped /\ page.job = 1
  BY FS_EmptySet DEF StreamInit
<1>2. LastReads = 0
  BY <1>1 DEF LastReads
<1> QED BY <1>1, <1>2, StreamStarts, StreamAssumption DEF WatchInv, ReadsInv

LEMMA WatchSteps == WatchInv /\ [StreamNext]_streamVars => WatchInv'
<1> SUFFICES ASSUME WatchInv, [StreamNext]_streamVars PROVE WatchInv'
  OBVIOUS
<1>1. StreamInv'
  BY StreamSteps DEF WatchInv
<1>2. CASE UNCHANGED streamVars
  <2>1. UNCHANGED <<page, conn, reads>> /\ ReadsInv
    BY <1>2 DEF streamVars, WatchInv
  <2>2. ReadsInv'
    BY <2>1, SameWatch DEF NoMore
  <2> QED BY <1>1, <2>2 DEF WatchInv
<1>3. CASE StreamNext
  <2>1. ReadsInv'
    <3>1. CASE ReadFrame
      BY <3>1, ReadFrameCounts
    <3>2. CASE Turn
      BY <3>2, TurnCounts
    <3>3. CASE \E r \in reads : Answered(r) \/ ReadRest(r)
      BY <3>3, AnsweredCounts, ReadRestCounts
    <3> QED BY <1>3, <3>1, <3>2, <3>3, WaitingCounts DEF StreamNext
  <2> QED BY <1>1, <2>1 DEF WatchInv
<1> QED BY <1>2, <1>3

LEMMA WatchTyped == WatchInv => StreamTypeOK
<1> SUFFICES ASSUME WatchInv PROVE StreamTypeOK
  OBVIOUS
<1>1. StreamInv /\ StreamTypes /\ PageTypes /\ ReadsInv
  BY DEF WatchInv, StreamInv, StreamTypes
<1>2. ASSUME NEW j \in Jobs PROVE jobs[j].st \in JobStates /\ Len(jobs[j].log) <= MaxLog
  BY <1>1, RowOf, RowParts, RowLengths
<1>3. ASSUME NEW f \in airborne PROVE f.job \in Jobs /\ f.seq \in 1 .. MaxLog
  BY <1>1 DEF StreamTypes, Frames
<1>4. /\ page.job \in Jobs /\ page.shown.id \in Jobs /\ page.shown.prog \in Bars
      /\ page.lastEventId \in 0 .. MaxLog
  BY <1>1 DEF PageTypes, JobShown
<1>5. conn.st \in {"ready", "open", "dropped", "catching up", "closed"}
  <2>1. CASE conn = Closed
    BY <2>1 DEF Closed
  <2>2. CASE conn \in Waiting \cup Open
    BY <2>2 DEF Waiting, Open
  <2> QED BY <1>1, <2>1, <2>2 DEF StreamTypes, Connections
<1>6. Cardinality(reads) <= MaxReads + 2
  <2>1. LastReads <= 2 /\ LastReads \in Nat
    BY DEF LastReads
  <2>2. Cardinality(reads) <= MaxReads + LastReads /\ Cardinality(reads) \in Nat
    BY <1>1, ReadsCount DEF ReadsInv
  <2> QED BY <2>1, <2>2, StreamAssumption
<1> QED BY <1>2, <1>3, <1>4, <1>5, <1>6 DEF StreamTypeOK, JobStates, Bars

(* The page that follows a job is well formed: its log, its bar, its       *)
(* connection and its requests stay within their bounds.                   *)
LEMMA StreamTypeCorrect == StreamSpec => []StreamTypeOK
<1>1. StreamInit => WatchInv
  BY WatchStarts
<1>2. WatchInv /\ [StreamNext]_streamVars => WatchInv'
  BY WatchSteps
<1>3. WatchInv => StreamTypeOK
  BY WatchTyped
<1> QED BY <1>1, <1>2, <1>3, PTL DEF StreamSpec

-----------------------------------------------------------------------------
(* The editor.                                                             *)

DeskFields ==
    {"head", "doc", "queue", "token", "checkpoints", "adrift", "crossed"}

Revs == DOMAIN cut.revs

CutTypes ==
    /\ DOMAIN cut = {"revs", "head", "token"}
    /\ cut.revs \in Seq(Seq(Int)) /\ cut.head \in Revs

Stacked(c) ==
    DOMAIN c = {"stack", "index"} /\ c.stack \in Seq(Revs) /\ c.index \in Int

DeskTypes ==
    /\ DOMAIN desk = DeskFields
    /\ desk.head \in Revs /\ desk.queue \in Seq(Int) /\ Stacked(desk.checkpoints)
    /\ desk.adrift \in BOOLEAN /\ desk.crossed \in BOOLEAN

SendTypes ==
    /\ send.st \in {"none", "sent", "applied", "refused", "recovering"}
    /\ send.st = "none" => send = None
    /\ send.st = "sent" => send.edit \in Int
    /\ send.st = "applied" => send.rev \in Revs

RefetchTypes ==
    /\ refetch.st \in {"none", "asked", "read"}
    /\ refetch.st = "none" => refetch = None
    /\ refetch.st # "none" => refetch.by \in {"send", "restore", "plan"}
    /\ refetch.st = "read" => refetch.rev \in Revs

UndoingTypes ==
    /\ undoing.st = "none" => undoing = None
    /\ undoing.st \in {"flushing", "sent", "restored"} =>
          /\ {"st", "how", "rev"} \subseteq DOMAIN undoing
          /\ undoing.how \in {"undo", "redo", "restore"}
          /\ undoing.rev \in Revs

TallyTypes == tally \in [{"edits", "restores", "upsets"} -> Nat]

EditorTypes ==
    CutTypes /\ DeskTypes /\ SendTypes /\ RefetchTypes /\ UndoingTypes /\ TallyTypes

(* An editor with nothing to send shows the revision it is on.             *)
Saved ==
    send.st = "none" /\ desk.queue = <<>> /\ ~desk.adrift => desk.doc = Doc(desk.head)

(* The checkpoint an undo or a redo is on its way to.                      *)
Aim(c) == IF undoing.how = "undo" THEN c.index - 1 ELSE c.index + 1

Checkpointed(c) ==
    c.index \in DOMAIN c.stack /\ Doc(c.stack[c.index]) = Doc(desk.head)

(* While an undo is under way nothing else is, and the revision it asked   *)
(* for, or the copy the server made of it, reads as the checkpoint does.   *)
AloneWithUndo ==
    undoing.st # "none" =>
        /\ send.st = "none" /\ desk.queue = <<>>
        /\ refetch.st # "none" => refetch.by = "restore" /\ undoing.st = "recovering"

Aims ==
    LET c == desk.checkpoints IN
    undoing.st \in {"flushing", "sent", "restored"} /\ undoing.how # "restore" =>
        /\ Aim(c) \in DOMAIN c.stack
        /\ Doc(c.stack[Aim(c)]) = Doc(undoing.rev)

Undoable == desk.crossed \/ (Checkpointed(desk.checkpoints) /\ AloneWithUndo /\ Aims)

EditorInv == EditorTypes /\ Saved /\ Undoable

(* A stack of revisions whose index is at one of them.                     *)
Tops(p, R, rev) ==
    /\ DOMAIN p = {"stack", "index"} /\ p.stack \in Seq(R) /\ p.index \in Int
    /\ p.index \in DOMAIN p.stack /\ p.stack[p.index] = rev

LEMMA PushedCheckpoint ==
    ASSUME NEW R, NEW c, c.stack \in Seq(R), c.index \in Int, NEW rev \in R
    PROVE  Tops(PushCheckpoint(c, rev), R, rev)
<1>1. PICK i : i = IF c.index < Len(c.stack) THEN c.index ELSE Len(c.stack)
  OBVIOUS
<1>2. i \in Int /\ i <= Len(c.stack)
  BY <1>1
<1>3. PICK cut0, n, t : /\ cut0 = SubSeq(c.stack, 1, i) /\ n = Len(cut0)
                        /\ t = Append(cut0, rev)
  OBVIOUS
<1>4. cut0 \in Seq(R) /\ n \in Nat
  <2>1. CASE i >= 1
    BY <1>2, <1>3, <2>1
  <2>2. CASE ~(i >= 1)
    <3>1. cut0 = <<>>
      BY <1>2, <1>3, <2>2
    <3>2. <<>> \in Seq(R) /\ Len(<<>>) = 0
      OBVIOUS
    <3> QED BY <1>3, <3>1, <3>2
  <2> QED BY <2>1, <2>2
<1>5. t \in Seq(R) /\ Len(t) = n + 1 /\ t[n + 1] = rev
  BY <1>3, <1>4
<1>6. PICK over : over = Len(t) - MaxCheckpoints
  OBVIOUS
<1>7. over \in Int /\ over < n + 1
  BY <1>4, <1>5, <1>6, EditorAssumption
<1>8. PICK kept : kept = IF over > 0 THEN SubSeq(t, over + 1, Len(t)) ELSE t
  OBVIOUS
<1>9. kept \in Seq(R) /\ Len(kept) >= 1 /\ kept[Len(kept)] = rev
  <2>1. CASE over > 0
    <3>1. /\ SubSeq(t, over + 1, n + 1) \in Seq(R)
          /\ Len(SubSeq(t, over + 1, n + 1)) = n + 1 - over
      BY <1>4, <1>5, <1>7, <2>1
    <3>2. SubSeq(t, over + 1, n + 1)[n + 1 - over] = t[n + 1]
      BY <1>4, <1>5, <1>7, <2>1
    <3> QED BY <1>4, <1>5, <1>7, <1>8, <2>1, <3>1, <3>2
  <2>2. CASE ~(over > 0)
    BY <1>4, <1>5, <1>8, <2>2
  <2> QED BY <2>1, <2>2
<1>10. PushCheckpoint(c, rev) = [stack |-> kept, index |-> Len(kept)]
  BY <1>1, <1>3, <1>6, <1>8 DEF PushCheckpoint, At
<1>11. PICK p : p = [stack |-> kept, index |-> Len(kept)]
  OBVIOUS
<1>12. DOMAIN p = {"stack", "index"} /\ p.stack = kept /\ p.index = Len(kept)
  BY <1>11
<1>13. Tops(p, R, rev)
  BY <1>9, <1>12 DEF Tops
<1> QED BY <1>10, <1>11, <1>13

LEMMA FreshStack ==
    ASSUME NEW R, NEW rev \in R
    PROVE  Tops(At(<<rev>>), R, rev)
BY DEF At, Tops

(* Revisions are only ever added.                                          *)
CutGoesOn ==
    /\ CutTypes' /\ Revs \subseteq Revs'
    /\ \A r \in Revs : Doc(r)' = Doc(r)

LEMMA CutStays == ASSUME EditorTypes, UNCHANGED cut PROVE CutGoesOn
BY DEF EditorTypes, CutTypes, CutGoesOn, Revs, Doc

LEMMA TokenTurns ==
    ASSUME EditorTypes, NEW token, cut' = [cut EXCEPT !.token = token]
    PROVE  CutGoesOn
BY DEF EditorTypes, CutTypes, CutGoesOn, Revs, Doc

LEMMA RevisionAdded ==
    ASSUME EditorTypes, NEW doc \in Seq(Int), DOMAIN cut' = {"revs", "head", "token"},
           cut'.revs = Append(cut.revs, doc), cut'.head = Len(cut.revs) + 1
    PROVE  /\ CutGoesOn
           /\ Len(cut.revs) + 1 \in Revs' /\ cut'.revs[Len(cut.revs) + 1] = doc
<1>1. cut.revs \in Seq(Seq(Int)) /\ Len(cut.revs) \in Nat
  BY DEF EditorTypes, CutTypes
<1>2. PICK revs, n : revs = Append(cut.revs, doc) /\ n = Len(cut.revs)
  OBVIOUS
<1>3. /\ revs \in Seq(Seq(Int)) /\ Len(revs) = n + 1 /\ revs[n + 1] = doc
      /\ \A r \in 1 .. n : revs[r] = cut.revs[r]
      /\ DOMAIN revs = 1 .. (n + 1) /\ DOMAIN cut.revs = 1 .. n
  BY <1>1, <1>2
<1>4. CutTypes' /\ Revs \subseteq Revs'
  BY <1>1, <1>2, <1>3 DEF CutTypes, Revs
<1>5. \A r \in Revs : Doc(r)' = Doc(r)
  BY <1>2, <1>3 DEF Revs, Doc
<1> QED BY <1>1, <1>2, <1>3, <1>4, <1>5 DEF CutGoesOn, Revs

LEMMA HeadDoc == ASSUME EditorTypes, NEW e \in Int PROVE Append(Doc(cut.head), e) \in Seq(Int)
<1>1. cut.revs[cut.head] \in Seq(Int)
  BY DEF EditorTypes, CutTypes, Revs
<1> QED BY <1>1 DEF Doc

(* The desk and its stack stay, and whatever else there is stays good.     *)
LEMMA UndoableStays ==
    ASSUME EditorInv, CutGoesOn, desk'.checkpoints = desk.checkpoints,
           desk'.head = desk.head, desk.crossed => desk'.crossed,
           ~desk'.crossed => AloneWithUndo' /\ Aims'
    PROVE  Undoable'
<1>1. CASE desk'.crossed
  BY <1>1 DEF Undoable
<1>2. CASE ~desk'.crossed
  <2>1. Checkpointed(desk.checkpoints) /\ desk.head \in Revs
    BY <1>2 DEF EditorInv, Undoable, EditorTypes, DeskTypes
  <2>2. PICK stack, i : stack = desk.checkpoints.stack /\ i = desk.checkpoints.index
    OBVIOUS
  <2>3. stack \in Seq(Revs) /\ i \in DOMAIN stack /\ stack[i] \in Revs
    BY <2>1, <2>2 DEF Checkpointed, EditorInv, EditorTypes, DeskTypes, Stacked
  <2>5. Doc(stack[i]) = Doc(desk.head)
    BY <2>1, <2>2 DEF Checkpointed
  <2>6. cut'.revs[stack[i]] = cut.revs[stack[i]] /\ cut'.revs[desk.head] = cut.revs[desk.head]
    BY <2>1, <2>3 DEF CutGoesOn, Doc
  <2>7. cut'.revs[stack[i]] = cut'.revs[desk'.head]
    BY <2>5, <2>6 DEF Doc
  <2>8. Checkpointed(desk.checkpoints)'
    BY <2>1, <2>2, <2>3, <2>7 DEF Checkpointed, Doc
  <2> QED BY <1>2, <2>8 DEF Undoable
<1> QED BY <1>1, <1>2

LEMMA AimsStay ==
    ASSUME EditorInv, CutGoesOn, desk'.checkpoints = desk.checkpoints, ~desk.crossed,
           undoing'.st \in {"flushing", "sent", "restored"} =>
               /\ undoing.st \in {"flushing", "sent", "restored"}
               /\ undoing'.how = undoing.how /\ undoing'.rev = undoing.rev
    PROVE  Aims'
<1> SUFFICES ASSUME undoing'.st \in {"flushing", "sent", "restored"}, undoing'.how # "restore"
             PROVE  /\ Aim(desk.checkpoints)' \in DOMAIN desk'.checkpoints.stack
                    /\ Doc(desk.checkpoints.stack[Aim(desk.checkpoints)])' = Doc(undoing.rev)'
  BY DEF Aims
<1>1. PICK stack, k, rev : /\ stack = desk.checkpoints.stack /\ rev = undoing.rev
                           /\ k = Aim(desk.checkpoints)
  OBVIOUS
<1>2. k \in DOMAIN stack /\ Doc(stack[k]) = Doc(rev) /\ rev \in Revs /\ stack \in Seq(Revs)
  BY <1>1 DEF EditorInv, Undoable, Aims, EditorTypes, UndoingTypes, DeskTypes, Stacked
<1>3. stack[k] \in Revs
  BY <1>2
<1>4. cut'.revs[stack[k]] = cut'.revs[rev]
  BY <1>2, <1>3 DEF CutGoesOn, Doc
<1>5. Aim(desk.checkpoints)' = k /\ undoing'.rev = rev
  BY <1>1 DEF Aim
<1> QED BY <1>1, <1>2, <1>4, <1>5 DEF Doc

LEMMA Counted ==
    ASSUME EditorInv,
           Edits \/ Upset \/ Counts("restores", MaxRestores) \/ UNCHANGED tally
    PROVE  TallyTypes'
BY DEF EditorInv, EditorTypes, TallyTypes, Edits, Upset, Counts

LEMMA TypesStay ==
    ASSUME EditorInv, CutGoesOn
    PROVE  /\ UNCHANGED send => SendTypes'
           /\ UNCHANGED refetch => RefetchTypes'
           /\ UNCHANGED undoing => UndoingTypes'
           /\ send' = None => SendTypes'
           /\ refetch' = None => RefetchTypes'
           /\ undoing' = None => UndoingTypes'
           /\ \A c : Stacked(c) => /\ DOMAIN c = {"stack", "index"}
                                   /\ c.stack \in Seq(Revs') /\ c.index \in Int
<1>1. Revs \subseteq Revs' /\ SendTypes /\ RefetchTypes /\ UndoingTypes
  BY DEF CutGoesOn, EditorInv, EditorTypes
<1>2. UNCHANGED send => SendTypes'
  BY <1>1 DEF SendTypes
<1>3. UNCHANGED refetch => RefetchTypes'
  BY <1>1 DEF RefetchTypes
<1>4. UNCHANGED undoing => UndoingTypes'
  BY <1>1 DEF UndoingTypes
<1>5. None.st = "none"
  BY DEF None
<1>6. \A c : Stacked(c) => /\ DOMAIN c = {"stack", "index"}
                           /\ c.stack \in Seq(Revs') /\ c.index \in Int
  BY <1>1 DEF Stacked
<1> QED BY <1>2, <1>3, <1>4, <1>5, <1>6 DEF SendTypes, RefetchTypes, UndoingTypes

(* A step that leaves the document, its queue and its checkpoints alone.   *)
LEMMA DeskKeeps ==
    ASSUME EditorInv, CutGoesOn, TallyTypes', SendTypes', RefetchTypes', UndoingTypes',
           DOMAIN desk' = DeskFields, desk'.head = desk.head, desk'.doc = desk.doc,
           desk'.queue = desk.queue, desk'.checkpoints = desk.checkpoints,
           desk'.adrift \in BOOLEAN, desk'.crossed \in BOOLEAN,
           desk.crossed => desk'.crossed, desk.adrift => desk'.adrift,
           send'.st = "none" => send.st = "none" \/ desk'.adrift,
           ~desk'.crossed => AloneWithUndo' /\ Aims'
    PROVE  EditorInv'
<1>1. DeskTypes /\ desk.head \in Revs'
  BY DEF EditorInv, EditorTypes, DeskTypes, CutGoesOn
<1>2. DeskTypes'
  <2>1. Stacked(desk.checkpoints)'
    BY <1>1, TypesStay DEF DeskTypes, Stacked
  <2> QED BY <1>1, <2>1 DEF DeskTypes
<1>3. EditorTypes'
  BY <1>2 DEF EditorTypes, CutGoesOn
<1>4. Saved'
  <2> SUFFICES ASSUME send'.st = "none", desk'.queue = <<>>, ~desk'.adrift
               PROVE  desk'.doc = Doc(desk.head)'
    BY DEF Saved
  <2>1. desk.doc = Doc(desk.head) /\ desk.head \in Revs
    BY <1>1 DEF EditorInv, Saved, DeskTypes
  <2> QED BY <2>1 DEF CutGoesOn, Doc
<1>5. Undoable'
  BY UndoableStays
<1> QED BY <1>3, <1>4, <1>5 DEF EditorInv

(* And one that leaves the desk alone altogether.                          *)
LEMMA DeskStays ==
    ASSUME EditorInv, CutGoesOn, TallyTypes', SendTypes', RefetchTypes', UndoingTypes',
           UNCHANGED desk, send'.st = "none" => send.st = "none",
           ~desk.crossed => AloneWithUndo' /\ Aims'
    PROVE  EditorInv'
BY DeskKeeps DEF EditorInv, EditorTypes, DeskTypes

LEMMA Alone ==
    ASSUME EditorInv, ~desk.crossed
    PROVE  /\ AloneWithUndo /\ Aims /\ Checkpointed(desk.checkpoints)
           /\ send.st # "none" \/ desk.queue # <<>> => undoing.st = "none" /\ undoing = None
BY DEF EditorInv, EditorTypes, UndoingTypes, Undoable, AloneWithUndo

LEMMA NoUndo ==
    ASSUME undoing' = None \/ undoing'.st = "none"
    PROVE  AloneWithUndo' /\ Aims'
<1>1. undoing'.st = "none"
  BY DEF None
<1> QED BY <1>1 DEF AloneWithUndo, Aims

(* pump takes the head of the queue, if there is one.                      *)
LEMMA Sent ==
    ASSUME NEW d, DOMAIN d = DeskFields, d.queue \in Seq(Int), d.adrift \in BOOLEAN,
           SendNext(d)
    PROVE  /\ DOMAIN desk' = DeskFields /\ desk'.queue \in Seq(Int)
           /\ desk'.head = d.head /\ desk'.doc = d.doc /\ desk'.crossed = d.crossed
           /\ desk'.checkpoints = d.checkpoints
           /\ desk'.adrift \in BOOLEAN /\ SendTypes'
           /\ d.queue = <<>> => desk' = d /\ send' = None
           /\ send'.st = "none" /\ ~desk'.adrift => desk' = d /\ d.queue = <<>>
<1>0. None.st = "none"
  BY DEF None
<1>1. CASE d.queue = <<>>
  BY <1>0, <1>1 DEF SendNext, SendTypes
<1>2. CASE d.queue # <<>>
  <2>1. PICK rest : rest = [d EXCEPT !.queue = Tail(d.queue)]
    OBVIOUS
  <2>2. Tail(d.queue) \in Seq(Int) /\ Head(d.queue) \in Int
    BY <1>2
  <2>3. /\ DOMAIN rest = DeskFields /\ rest.queue \in Seq(Int) /\ rest.head = d.head
        /\ rest.doc = d.doc /\ rest.crossed = d.crossed /\ rest.adrift = d.adrift
        /\ rest.checkpoints = d.checkpoints
    BY <2>1, <2>2 DEF DeskFields
  <2>4. CASE d.token = 0
    <3>1. desk' = [rest EXCEPT !.adrift = TRUE] /\ send' = None
      BY <1>2, <2>1, <2>4 DEF SendNext
    <3>2. /\ DOMAIN desk' = DeskFields /\ desk'.queue = rest.queue /\ desk'.head = rest.head
          /\ desk'.doc = rest.doc /\ desk'.crossed = rest.crossed
          /\ desk'.checkpoints = rest.checkpoints /\ desk'.adrift
      BY <2>3, <3>1 DEF DeskFields
    <3>3. desk'.adrift \in BOOLEAN
      BY <2>3, <3>1 DEF DeskFields
    <3> QED BY <1>0, <1>2, <2>3, <3>1, <3>2, <3>3 DEF SendTypes
  <2>5. CASE d.token # 0
    <3>1. desk' = rest /\ send' = [st |-> "sent", edit |-> Head(d.queue),
                                   expected |-> d.head, token |-> d.token]
      BY <1>2, <2>1, <2>5 DEF SendNext
    <3>2. send'.st = "sent" /\ send'.edit \in Int
      BY <2>2, <3>1
    <3> QED BY <1>2, <2>3, <3>1, <3>2 DEF SendTypes
  <2> QED BY <2>4, <2>5
<1> QED BY <1>1, <1>2

LEMMA ApplyKeeps == ASSUME EditorInv, Apply PROVE EditorInv'
<1>1. UNCHANGED <<cut, undoing, refetch>> /\ TallyTypes' /\ DeskTypes /\ tally.edits + 1 \in Int
  BY Counted DEF Apply, EditorInv, EditorTypes, TallyTypes
<1>2. PICK crosses : crosses = Crosses
  OBVIOUS
<1>3. /\ DOMAIN crosses = DeskFields /\ crosses.head = desk.head
      /\ crosses.queue = desk.queue /\ crosses.checkpoints = desk.checkpoints
      /\ crosses.adrift = desk.adrift
  BY <1>1, <1>2 DEF Crosses, DeskTypes, DeskFields
<1>4. crosses.crossed = (desk.crossed \/ undoing # None)
  BY <1>1, <1>2 DEF Crosses, DeskTypes, DeskFields
<1>5. PICK edit, doc, queue : /\ edit = tally.edits + 1 /\ doc = Append(crosses.doc, edit)
                              /\ queue = Append(crosses.queue, edit)
  OBVIOUS
<1>6. queue \in Seq(Int) /\ queue # <<>>
  BY <1>1, <1>3, <1>5 DEF DeskTypes
<1>7. PICK drawn : drawn = [[crosses EXCEPT !.doc = doc] EXCEPT !.queue = queue]
  OBVIOUS
<1>8. /\ DOMAIN drawn = DeskFields /\ drawn.head = desk.head /\ drawn.queue = queue
      /\ drawn.checkpoints = desk.checkpoints /\ drawn.adrift = desk.adrift
      /\ drawn.crossed = crosses.crossed
  BY <1>3, <1>7 DEF DeskFields
<1>9. IF send.st = "none" THEN SendNext(drawn) ELSE desk' = drawn /\ UNCHANGED send
  <2>1. [Crosses EXCEPT !.doc = Append(@, edit), !.queue = Append(@, edit)] = drawn
    BY <1>2, <1>3, <1>5, <1>7 DEF DeskFields
  <2> QED BY <1>5, <2>1 DEF Apply
<1>10. CutGoesOn
  BY <1>1, CutStays DEF EditorInv
<1>11. /\ DOMAIN desk' = DeskFields /\ desk'.queue \in Seq(Int) /\ desk'.head = desk.head
       /\ desk'.checkpoints = desk.checkpoints /\ desk'.crossed = crosses.crossed
       /\ desk'.adrift \in BOOLEAN /\ SendTypes'
       /\ ~(send'.st = "none" /\ desk'.queue = <<>> /\ ~desk'.adrift)
  <2>1. CASE send.st = "none"
    BY <1>1, <1>6, <1>8, <1>9, <2>1, Sent DEF DeskTypes
  <2>2. CASE send.st # "none"
    BY <1>1, <1>6, <1>8, <1>9, <1>10, <2>2, TypesStay DEF DeskTypes
  <2> QED BY <2>1, <2>2
<1>12. desk'.crossed \in BOOLEAN
  BY <1>1, <1>4, <1>11 DEF DeskTypes
<1>13. EditorTypes'
  <2>1. DeskTypes'
    <3>1. Stacked(desk.checkpoints)'
      BY <1>1, <1>10, <1>11, TypesStay DEF DeskTypes, Stacked
    <3> QED BY <1>1, <1>10, <1>11, <1>12, <3>1 DEF DeskTypes, CutGoesOn
  <2>2. RefetchTypes' /\ UndoingTypes'
    BY <1>1, <1>10, TypesStay
  <2> QED BY <1>1, <1>10, <1>11, <2>1, <2>2 DEF EditorTypes, CutGoesOn
<1>14. Undoable'
  <2>1. /\ desk.crossed => desk'.crossed
        /\ ~desk'.crossed => undoing' = None
    BY <1>1, <1>4, <1>11
  <2> QED BY <1>10, <1>11, <2>1, NoUndo, UndoableStays
<1> QED BY <1>11, <1>13, <1>14 DEF EditorInv, Saved

LEMMA ApplyCommandsKeeps == ASSUME EditorInv, ApplyCommands PROVE EditorInv'
<1>1. UNCHANGED <<desk, undoing, refetch, tally>> /\ send.st = "sent" /\ send.edit \in Int
  BY DEF ApplyCommands, EditorInv, EditorTypes, SendTypes
<1>2. CutGoesOn /\ SendTypes' /\ send'.st # "none"
  <2>1. CASE Accepts(send.expected, send.token)
    <3>1. PICK doc : doc = Append(Doc(cut.head), send.edit)
      OBVIOUS
    <3>2. Write(doc) /\ send' = [st |-> "applied", rev |-> Len(cut.revs) + 1]
      BY <2>1, <3>1 DEF ApplyCommands
    <3>3. /\ DOMAIN cut' = {"revs", "head", "token"} /\ cut'.revs = Append(cut.revs, doc)
          /\ cut'.head = Len(cut.revs) + 1
      BY <3>2 DEF Write, EditorInv, EditorTypes, CutTypes
    <3>4. doc \in Seq(Int)
      BY <1>1, <3>1, HeadDoc DEF EditorInv
    <3>5. CutGoesOn /\ Len(cut.revs) + 1 \in Revs'
      BY <3>3, <3>4, RevisionAdded DEF EditorInv
    <3> QED BY <3>2, <3>5 DEF SendTypes
  <2>2. CASE ~Accepts(send.expected, send.token)
    <3>1. send' = [st |-> "refused"] /\ UNCHANGED cut
      BY <2>2 DEF ApplyCommands
    <3>2. CutGoesOn
      BY <3>1, CutStays DEF EditorInv
    <3> QED BY <3>1, <3>2 DEF SendTypes
  <2> QED BY <2>1, <2>2
<1>3. RefetchTypes' /\ UndoingTypes' /\ TallyTypes'
  BY <1>1, <1>2, TypesStay, Counted
<1>4. ~desk.crossed => undoing'.st = "none"
  BY <1>1, Alone
<1> QED BY <1>1, <1>2, <1>3, <1>4, NoUndo, DeskStays

LEMMA LoseSendKeeps == ASSUME EditorInv, LoseSend PROVE EditorInv'
<1>1. /\ UNCHANGED <<cut, desk, undoing, refetch>> /\ send.st # "none"
      /\ send' = [st |-> "refused"]
  BY DEF LoseSend
<1>2. CutGoesOn /\ SendTypes' /\ send'.st # "none"
  BY <1>1, CutStays DEF EditorInv, SendTypes
<1>3. RefetchTypes' /\ UndoingTypes' /\ TallyTypes'
  BY <1>1, <1>2, TypesStay, Counted DEF LoseSend
<1>4. ~desk.crossed => undoing'.st = "none"
  BY <1>1, Alone
<1> QED BY <1>1, <1>2, <1>3, <1>4, NoUndo, DeskStays

(* A desk on a new head, with a stack that ends there.                     *)
LEMMA SettledDesk ==
    ASSUME EditorInv, CutGoesOn, TallyTypes', SendTypes', RefetchTypes', UndoingTypes',
           NEW d, DOMAIN d = DeskFields, d.head \in Revs', d.queue \in Seq(Int),
           d.adrift \in BOOLEAN, d.crossed \in BOOLEAN,
           d.queue = <<>> /\ ~d.adrift => d.doc = cut'.revs[d.head],
           DOMAIN d.checkpoints = {"stack", "index"}, d.checkpoints.stack \in Seq(Revs'),
           d.checkpoints.index \in Int,
           ~d.crossed => /\ d.checkpoints.index \in DOMAIN d.checkpoints.stack
                         /\ cut'.revs[d.checkpoints.stack[d.checkpoints.index]]
                               = cut'.revs[d.head],
           ~d.crossed => AloneWithUndo' /\ Aims',
           DOMAIN desk' = DeskFields, desk'.head = d.head, desk'.doc = d.doc,
           desk'.queue \in Seq(Int), desk'.checkpoints = d.checkpoints,
           desk'.adrift \in BOOLEAN, desk'.crossed = d.crossed,
           send'.st = "none" /\ ~desk'.adrift => desk'.queue # <<>> \/ desk' = d
    PROVE  EditorInv'
<1>1. DeskTypes'
  BY DEF DeskTypes, Stacked
<1>2. EditorTypes'
  BY <1>1 DEF EditorTypes, CutGoesOn
<1>3. Saved'
  BY DEF Saved, Doc
<1>4. Undoable'
  <2>1. CASE d.crossed
    BY <2>1 DEF Undoable
  <2>2. CASE ~d.crossed
    <3>1. Checkpointed(desk.checkpoints)'
      BY <2>2 DEF Checkpointed, Doc
    <3> QED BY <2>2, <3>1 DEF Undoable
  <2> QED BY <2>1, <2>2
<1> QED BY <1>2, <1>3, <1>4 DEF EditorInv

LEMMA AppliedKeeps == ASSUME EditorInv, Applied PROVE EditorInv'
<1>1. /\ UNCHANGED <<cut, undoing, refetch, tally>> /\ send.st = "applied" /\ send.rev \in Revs
      /\ DeskTypes
  BY DEF Applied, EditorInv, EditorTypes, SendTypes
<1>2. CutGoesOn /\ RefetchTypes' /\ UndoingTypes' /\ TallyTypes' /\ Revs' = Revs
  <2>1. CutGoesOn
    BY <1>1, CutStays DEF EditorInv
  <2> QED BY <1>1, <2>1, TypesStay, Counted DEF Revs
<1>3. PICK doc, rev, checkpoints :
          /\ rev = send.rev /\ doc = IF desk.queue = <<>> THEN Doc(rev) ELSE desk.doc
          /\ checkpoints = PushCheckpoint(desk.checkpoints, rev)
  OBVIOUS
<1>4. PICK confirmed : confirmed = [desk EXCEPT !.head = rev, !.doc = doc,
            !.adrift = desk.adrift /\ desk.queue # <<>>, !.checkpoints = checkpoints]
  OBVIOUS
<1>5. /\ DOMAIN confirmed = DeskFields /\ confirmed.head = rev /\ confirmed.doc = doc
      /\ confirmed.checkpoints = checkpoints /\ confirmed.queue = desk.queue
      /\ confirmed.crossed = desk.crossed
  BY <1>1, <1>4 DEF DeskTypes, DeskFields
<1>6. confirmed.adrift \in BOOLEAN
  BY <1>1, <1>4 DEF DeskTypes, DeskFields
<1>7. SendNext(confirmed)
  BY <1>1, <1>3, <1>4 DEF Applied, DeskTypes, DeskFields
<1>8. /\ DOMAIN desk' = DeskFields /\ desk'.queue \in Seq(Int)
      /\ desk'.head = rev /\ desk'.doc = doc /\ desk'.crossed = desk.crossed
      /\ desk'.checkpoints = checkpoints /\ desk'.adrift \in BOOLEAN /\ SendTypes'
      /\ send'.st = "none" /\ ~desk'.adrift => desk' = confirmed
  BY <1>1, <1>5, <1>6, <1>7, Sent DEF DeskTypes
<1>9. ~desk.crossed => undoing' = None
  BY <1>1, Alone
<1>10. /\ DOMAIN checkpoints = {"stack", "index"}
       /\ checkpoints.stack \in Seq(Revs) /\ checkpoints.index \in Int
       /\ checkpoints.index \in DOMAIN checkpoints.stack
       /\ checkpoints.stack[checkpoints.index] = rev
  <2>1. desk.checkpoints.stack \in Seq(Revs) /\ desk.checkpoints.index \in Int /\ rev \in Revs
    BY <1>1, <1>3 DEF DeskTypes, Stacked
  <2>2. Tops(PushCheckpoint(desk.checkpoints, rev), Revs, rev)
    BY <2>1, PushedCheckpoint
  <2> QED BY <1>3, <2>2 DEF Tops
<1>11. desk.queue = <<>> => doc = cut'.revs[rev]
  BY <1>1, <1>3 DEF Doc
<1>12. ~desk.crossed => AloneWithUndo' /\ Aims'
  BY <1>9, NoUndo
<1>13. confirmed.queue \in Seq(Int) /\ confirmed.crossed \in BOOLEAN /\ rev \in Revs'
  BY <1>1, <1>2, <1>3, <1>5 DEF DeskTypes
<1> QED BY <1>2, <1>5, <1>6, <1>8, <1>10, <1>11, <1>12, <1>13, SettledDesk

LEMMA ApplyFailsKeeps == ASSUME EditorInv, ApplyFails PROVE EditorInv'
<1>1. /\ UNCHANGED <<cut, undoing, tally>> /\ send.st = "refused"
      /\ desk' = [desk EXCEPT !.queue = <<>>] /\ send' = [st |-> "recovering"]
      /\ refetch' = [st |-> "asked", by |-> "send"] /\ DeskTypes
  BY DEF ApplyFails, EditorInv, EditorTypes
<1>2. CutGoesOn /\ UndoingTypes' /\ TallyTypes'
  <2>1. CutGoesOn
    BY <1>1, CutStays DEF EditorInv
  <2> QED BY <1>1, <2>1, TypesStay, Counted
<1>3. SendTypes' /\ RefetchTypes'
  BY <1>1 DEF SendTypes, RefetchTypes
<1>4. /\ DOMAIN desk' = DeskFields /\ desk'.head = desk.head /\ desk'.queue = <<>>
      /\ desk'.checkpoints = desk.checkpoints /\ desk'.adrift = desk.adrift
      /\ desk'.crossed = desk.crossed
  BY <1>1 DEF DeskTypes, DeskFields
<1>5. DeskTypes'
  <2>1. Stacked(desk.checkpoints)'
    BY <1>1, <1>2, <1>4, TypesStay DEF DeskTypes, Stacked
  <2> QED BY <1>1, <1>2, <1>4, <2>1 DEF DeskTypes, CutGoesOn
<1>6. EditorTypes'
  BY <1>2, <1>3, <1>5 DEF EditorTypes, CutGoesOn
<1>7. Saved'
  BY <1>1 DEF Saved
<1>8. ~desk.crossed => undoing'.st = "none"
  BY <1>1, Alone
<1>9. Undoable'
  BY <1>2, <1>4, <1>8, NoUndo, UndoableStays
<1> QED BY <1>6, <1>7, <1>9 DEF EditorInv

LEMMA GetCutKeeps == ASSUME EditorInv, GetCut PROVE EditorInv'
<1>1. /\ UNCHANGED <<cut, desk, send, undoing, tally>> /\ refetch.st = "asked"
      /\ refetch' = [st |-> "read", by |-> refetch.by, rev |-> cut.head]
      /\ refetch.by \in {"send", "restore", "plan"} /\ cut.head \in Revs
  BY DEF GetCut, EditorInv, EditorTypes, RefetchTypes, CutTypes
<1>2. CutGoesOn /\ SendTypes' /\ UndoingTypes' /\ TallyTypes'
  <2>1. CutGoesOn
    BY <1>1, CutStays DEF EditorInv
  <2> QED BY <1>1, <2>1, TypesStay, Counted
<1>3. RefetchTypes' /\ refetch'.st = "read" /\ refetch'.by = refetch.by
  BY <1>1, <1>2 DEF RefetchTypes, CutGoesOn
<1>4. ~desk.crossed => AloneWithUndo' /\ Aims'
  <2> SUFFICES ASSUME ~desk.crossed PROVE AloneWithUndo' /\ Aims'
    OBVIOUS
  <2>1. AloneWithUndo'
    BY <1>1, <1>3, Alone DEF AloneWithUndo
  <2>2. Aims'
    BY <1>1, <1>2, AimsStay
  <2> QED BY <2>1, <2>2
<1> QED BY <1>1, <1>2, <1>3, <1>4, DeskStays

(* The end of a fetch, in which the desk became d.                         *)
LEMMA FetchEnds ==
    ASSUME EditorInv, UNCHANGED cut, TallyTypes', refetch.st # "none", NEW d, GoesOn(d),
           DOMAIN d = DeskFields, d.head \in Revs, d.queue \in Seq(Int),
           d.adrift \in BOOLEAN, d.crossed = desk.crossed,
           Stacked(d.checkpoints),
           \/ d.head = desk.head /\ d.checkpoints = desk.checkpoints
           \/ /\ d.checkpoints.index \in DOMAIN d.checkpoints.stack
              /\ d.checkpoints.stack[d.checkpoints.index] = d.head,
           d.queue = <<>> /\ ~d.adrift =>
              \/ d.doc = Doc(d.head)
              \/ /\ refetch.by # "send" /\ d.doc = desk.doc /\ d.head = desk.head
                 /\ desk.queue = <<>> /\ ~desk.adrift
    PROVE  EditorInv'
<1>1. /\ refetch' = None /\ undoing' \in {undoing, None} /\ DeskTypes
      /\ refetch.by = "restore" => undoing' = None
  BY DEF GoesOn, EditorInv, EditorTypes
<1>2. CutGoesOn /\ Revs' = Revs
  BY CutStays DEF EditorInv, Revs
<1>3. RefetchTypes' /\ UndoingTypes'
  BY <1>1, <1>2, TypesStay
<1>4. /\ DOMAIN desk' = DeskFields /\ desk'.queue \in Seq(Int)
      /\ desk'.head = d.head /\ desk'.doc = d.doc /\ desk'.crossed = d.crossed
      /\ desk'.checkpoints = d.checkpoints /\ desk'.adrift \in BOOLEAN /\ SendTypes'
      /\ send'.st = "none" /\ ~desk'.adrift => desk' = d
  <2>1. CASE refetch.by = "send"
    BY <2>1, Sent DEF GoesOn
  <2>2. CASE refetch.by # "send"
    BY <1>2, <2>2, TypesStay DEF GoesOn
  <2> QED BY <2>1, <2>2
<1>5. EditorTypes'
  BY <1>1, <1>2, <1>3, <1>4 DEF EditorTypes, DeskTypes, Stacked, CutGoesOn
<1>6. Saved'
  <2> SUFFICES ASSUME send'.st = "none", desk'.queue = <<>>, ~desk'.adrift
               PROVE  d.doc = Doc(d.head)
    BY <1>4 DEF Saved, Doc
  <2>1. d.queue = <<>> /\ ~d.adrift
    BY <1>4
  <2>2. CASE refetch.by = "send"
    BY <2>1, <2>2
  <2>3. CASE refetch.by # "send"
    <3>1. send.st = "none"
      BY <2>3 DEF GoesOn
    <3> QED BY <2>1, <3>1 DEF EditorInv, Saved
  <2> QED BY <2>2, <2>3
<1>7. Undoable'
  <2>1. CASE desk.crossed
    BY <1>4, <2>1 DEF Undoable
  <2>2. CASE ~desk.crossed
    <3>1. undoing'.st = "none"
      <4>1. undoing.st # "none" => refetch.by = "restore"
        BY <2>2, Alone DEF AloneWithUndo
      <4>2. None.st = "none"
        BY DEF None
      <4> QED BY <1>1, <4>1, <4>2
    <3>2. Checkpointed(d.checkpoints)'
      <4>1. CASE d.head = desk.head /\ d.checkpoints = desk.checkpoints
        BY <1>2, <1>4, <2>2, <4>1, Alone DEF Checkpointed, Doc
      <4>2. CASE /\ d.checkpoints.index \in DOMAIN d.checkpoints.stack
                 /\ d.checkpoints.stack[d.checkpoints.index] = d.head
        BY <1>2, <1>4, <4>2 DEF Checkpointed, Doc
      <4> QED BY <4>1, <4>2
    <3>3. Checkpointed(desk.checkpoints)'
      BY <1>4, <3>2 DEF Checkpointed, Doc
    <3> QED BY <3>1, <3>3, NoUndo DEF Undoable
  <2> QED BY <2>1, <2>2
<1> QED BY <1>5, <1>6, <1>7 DEF EditorInv

LEMMA RefetchedKeeps == ASSUME EditorInv, Refetched PROVE EditorInv'
<1>1. /\ UNCHANGED <<cut, tally>> /\ refetch.st = "read" /\ refetch.rev \in Revs /\ DeskTypes
      /\ GoesOn(ReloadWith(desk, refetch.rev, Doc(refetch.rev)))
  BY DEF Refetched, EditorInv, EditorTypes, RefetchTypes
<1>2. PICK rev, doc, checkpoints :
          rev = refetch.rev /\ doc = Doc(refetch.rev) /\ checkpoints = At(<<refetch.rev>>)
  OBVIOUS
<1>3. /\ Stacked(checkpoints)
      /\ checkpoints.index \in DOMAIN checkpoints.stack
      /\ checkpoints.stack[checkpoints.index] = rev
  BY <1>1, <1>2, FreshStack DEF Stacked, Tops
<1>4. PICK d : d = ReloadWith(desk, rev, doc)
  OBVIOUS
<1>5. d = [desk EXCEPT !.head = rev, !.doc = doc, !.adrift = FALSE, !.queue = <<>>,
                       !.checkpoints = checkpoints]
  BY <1>1, <1>2, <1>4 DEF ReloadWith, AdoptRevision, DeskTypes, DeskFields
<1>6. /\ DOMAIN d = DeskFields /\ d.head = rev /\ d.doc = doc /\ d.queue = <<>>
      /\ d.checkpoints = checkpoints /\ d.crossed = desk.crossed
  BY <1>1, <1>5 DEF DeskTypes, DeskFields
<1>7. d.adrift \in BOOLEAN
  BY <1>1, <1>5 DEF DeskTypes, DeskFields
<1>8. TallyTypes' /\ GoesOn(d) /\ refetch.st # "none" /\ d.doc = Doc(d.head)
  BY <1>1, <1>2, <1>4, <1>6, Counted
<1>9. d.head \in Revs /\ d.queue \in Seq(Int)
  BY <1>1, <1>2, <1>6
<1>10. /\ Stacked(d.checkpoints)
       /\ d.checkpoints.index \in DOMAIN d.checkpoints.stack
       /\ d.checkpoints.stack[d.checkpoints.index] = d.head
  BY <1>3, <1>6
<1> QED BY <1>1, <1>6, <1>7, <1>8, <1>9, <1>10, FetchEnds

LEMMA LoseRefetchKeeps == ASSUME EditorInv, LoseRefetch PROVE EditorInv'
<1>1. /\ UNCHANGED cut /\ refetch.st # "none" /\ DeskTypes /\ TallyTypes'
      /\ GoesOn([desk EXCEPT !.adrift = @ \/ refetch.by = "send"])
  BY Counted DEF LoseRefetch, EditorInv, EditorTypes
<1>2. PICK d : d = [desk EXCEPT !.adrift = @ \/ refetch.by = "send"]
  OBVIOUS
<1>3. /\ DOMAIN d = DeskFields /\ d.head = desk.head /\ d.doc = desk.doc
      /\ d.queue = desk.queue /\ d.checkpoints = desk.checkpoints
      /\ d.crossed = desk.crossed
  BY <1>1, <1>2 DEF DeskTypes, DeskFields
<1>4. d.adrift = (desk.adrift \/ refetch.by = "send")
  BY <1>1, <1>2 DEF DeskTypes, DeskFields
<1>5. /\ d.adrift \in BOOLEAN
      /\ ~d.adrift => ~desk.adrift /\ refetch.by # "send"
  BY <1>1, <1>4 DEF DeskTypes
<1>6. GoesOn(d) /\ d.head \in Revs /\ d.queue \in Seq(Int) /\ Stacked(d.checkpoints)
  BY <1>1, <1>2, <1>3 DEF DeskTypes
<1> QED BY <1>1, <1>3, <1>5, <1>6, FetchEnds

LEMMA PlanAppliedKeeps == ASSUME EditorInv, PlanApplied PROVE EditorInv'
<1>1. /\ UNCHANGED <<send, undoing>> /\ DeskTypes /\ TallyTypes' /\ desk' = Crosses
      /\ refetch' = [st |-> "asked", by |-> "plan"]
      /\ Write(Append(Doc(cut.head), -1))
  BY Counted DEF PlanApplied, EditorInv, EditorTypes
<1>2. CutGoesOn
  <2>1. PICK doc : doc = Append(Doc(cut.head), -1)
    OBVIOUS
  <2>2. /\ DOMAIN cut' = {"revs", "head", "token"} /\ cut'.revs = Append(cut.revs, doc)
        /\ cut'.head = Len(cut.revs) + 1
    BY <1>1, <2>1 DEF Write, EditorInv, EditorTypes, CutTypes
  <2>3. doc \in Seq(Int)
    BY <2>1, HeadDoc DEF EditorInv
  <2> QED BY <2>2, <2>3, RevisionAdded DEF EditorInv
<1>3. SendTypes' /\ UndoingTypes' /\ RefetchTypes'
  BY <1>1, <1>2, TypesStay DEF RefetchTypes
<1>4. /\ DOMAIN desk' = DeskFields /\ desk'.head = desk.head /\ desk'.doc = desk.doc
      /\ desk'.queue = desk.queue /\ desk'.checkpoints = desk.checkpoints
      /\ desk'.adrift = desk.adrift
  BY <1>1 DEF Crosses, DeskTypes, DeskFields
<1>5. desk'.crossed = (desk.crossed \/ undoing # None)
  BY <1>1 DEF Crosses, DeskTypes, DeskFields
<1>6. /\ desk'.crossed \in BOOLEAN /\ desk'.adrift \in BOOLEAN
      /\ desk.crossed => desk'.crossed
      /\ ~desk'.crossed => undoing' = None
  BY <1>1, <1>4, <1>5 DEF DeskTypes
<1>7. ~desk'.crossed => AloneWithUndo' /\ Aims'
  BY <1>6, NoUndo
<1> QED BY <1>1, <1>2, <1>3, <1>4, <1>6, <1>7, DeskKeeps

(* An undo under way is not disturbed by what leaves it and the desk be.   *)
LEMMA UndoStays ==
    ASSUME EditorInv, CutGoesOn, UNCHANGED <<send, undoing, refetch>>, ~desk.crossed,
           desk'.checkpoints = desk.checkpoints, desk'.queue = desk.queue
    PROVE  AloneWithUndo' /\ Aims'
<1>1. AloneWithUndo'
  BY Alone DEF AloneWithUndo
<1> QED BY <1>1, AimsStay

(* An undo, a redo or a restore is asked for.                              *)
LEMMA RestoreAsked ==
    ASSUME EditorInv, Counts("restores", MaxRestores), UNCHANGED <<cut, send, refetch>>,
           NEW how \in {"undo", "redo", "restore"}, NEW rev \in Revs,
           undoing' = [st |-> "flushing", how |-> how, rev |-> rev],
           desk' = [desk EXCEPT !.crossed = @ \/ ~Still],
           how # "restore" =>
               LET target == desk.checkpoints.index + (IF how = "undo" THEN -1 ELSE 1)
               IN  /\ target \in DOMAIN desk.checkpoints.stack
                   /\ desk.checkpoints.stack[target] = rev
    PROVE  EditorInv'
<1>1. DeskTypes /\ CutGoesOn
  BY CutStays DEF EditorInv, EditorTypes
<1>2. /\ DOMAIN desk' = DeskFields /\ desk'.head = desk.head /\ desk'.doc = desk.doc
      /\ desk'.queue = desk.queue /\ desk'.checkpoints = desk.checkpoints
      /\ desk'.adrift = desk.adrift
  BY <1>1 DEF DeskTypes, DeskFields
<1>3. desk'.crossed = (desk.crossed \/ ~Still)
  BY <1>1 DEF DeskTypes, DeskFields
<1>4. /\ desk'.crossed \in BOOLEAN /\ desk.crossed => desk'.crossed
      /\ ~desk'.crossed => Still
  BY <1>1, <1>3 DEF DeskTypes
<1>5. undoing'.st = "flushing" /\ undoing'.how = how /\ undoing'.rev = rev
  OBVIOUS
<1>6. UndoingTypes'
  <2>1. DOMAIN undoing' = {"st", "how", "rev"}
    OBVIOUS
  <2> QED BY <1>1, <1>5, <2>1 DEF UndoingTypes, CutGoesOn
<1>7. SendTypes' /\ RefetchTypes' /\ TallyTypes'
  BY <1>1, TypesStay, Counted
<1>8. ~desk'.crossed => AloneWithUndo'
  BY <1>2, <1>4 DEF Still, AloneWithUndo, None
<1>9. Aims'
  <2> SUFFICES ASSUME how # "restore"
               PROVE  /\ Aim(desk.checkpoints)' \in DOMAIN desk'.checkpoints.stack
                      /\ Doc(desk.checkpoints.stack[Aim(desk.checkpoints)])'
                            = Doc(undoing.rev)'
    BY <1>5 DEF Aims
  <2>1. Aim(desk.checkpoints)'
           = desk.checkpoints.index + (IF how = "undo" THEN -1 ELSE 1)
    <3>1. desk.checkpoints.index \in Int
      BY <1>1 DEF DeskTypes, Stacked
    <3> QED BY <1>2, <1>5, <3>1 DEF Aim
  <2> QED BY <1>2, <1>5, <2>1 DEF Doc
<1> QED BY <1>1, <1>2, <1>4, <1>6, <1>7, <1>8, <1>9, DeskKeeps DEF DeskTypes

LEMMA PerformRestoreKeeps ==
    ASSUME EditorInv, NEW how \in {"undo", "redo"}, PerformRestore(how)
    PROVE  EditorInv'
<1>1. PICK target : target = desk.checkpoints.index + (IF how = "undo" THEN -1 ELSE 1)
  OBVIOUS
<1>2. PICK rev : rev = desk.checkpoints.stack[target]
  OBVIOUS
<1>3. /\ Counts("restores", MaxRestores) /\ UNCHANGED <<cut, send, refetch>>
      /\ target \in DOMAIN desk.checkpoints.stack
      /\ undoing' = [st |-> "flushing", how |-> how, rev |-> rev]
      /\ desk' = [desk EXCEPT !.crossed = @ \/ ~Still]
  BY <1>1, <1>2 DEF PerformRestore
<1>4. rev \in Revs
  BY <1>2, <1>3 DEF EditorInv, EditorTypes, DeskTypes, Stacked
<1> QED BY <1>1, <1>2, <1>3, <1>4, RestoreAsked

LEMMA RestoreFromHistoryKeeps ==
    ASSUME EditorInv, NEW rev \in 1 .. Len(cut.revs), RestoreFromHistory(rev)
    PROVE  EditorInv'
<1>1. rev \in Revs
  BY DEF EditorInv, EditorTypes, CutTypes, Revs
<1>2. PICK how : how = "restore"
  OBVIOUS
<1> QED BY <1>1, <1>2, RestoreAsked DEF RestoreFromHistory

LEMMA FlushedKeeps == ASSUME EditorInv, Flushed PROVE EditorInv'
<1>1. UNCHANGED <<cut, desk, send, refetch, tally>> /\ undoing.st = "flushing"
  BY DEF Flushed
<1>2. CutGoesOn /\ SendTypes' /\ RefetchTypes' /\ TallyTypes'
  <2>1. CutGoesOn
    BY <1>1, CutStays DEF EditorInv
  <2> QED BY <1>1, <2>1, TypesStay, Counted
<1>3. CASE desk.token = 0
  <2>1. undoing' = None
    BY <1>3 DEF Flushed
  <2> QED BY <1>1, <1>2, <2>1, TypesStay, NoUndo, DeskStays
<1>4. CASE desk.token # 0
  <2>1. undoing' = [st |-> "sent", how |-> undoing.how, rev |-> undoing.rev,
                    expected |-> desk.head, token |-> desk.token]
    BY <1>4 DEF Flushed
  <2>2. undoing.how \in {"undo", "redo", "restore"} /\ undoing.rev \in Revs
    BY <1>1 DEF EditorInv, EditorTypes, UndoingTypes
  <2>3. DOMAIN undoing' = {"st", "how", "rev", "expected", "token"}
    BY <2>1
  <2>4. undoing'.st = "sent" /\ undoing'.how = undoing.how /\ undoing'.rev = undoing.rev
    BY <2>1
  <2>7. UndoingTypes'
    BY <1>2, <2>2, <2>3, <2>4 DEF UndoingTypes, CutGoesOn
  <2>8. ~desk.crossed => AloneWithUndo' /\ Aims'
    <3> SUFFICES ASSUME ~desk.crossed PROVE AloneWithUndo' /\ Aims'
      OBVIOUS
    <3>1. AloneWithUndo'
      BY <1>1, <2>4, Alone DEF AloneWithUndo
    <3> QED BY <1>1, <1>2, <2>4, <3>1, AimsStay
  <2> QED BY <1>1, <1>2, <2>7, <2>8, DeskStays
<1> QED BY <1>3, <1>4

LEMMA RestoreRevisionKeeps == ASSUME EditorInv, RestoreRevision PROVE EditorInv'
<1>1. /\ UNCHANGED <<desk, send, refetch, tally>> /\ undoing.st = "sent"
      /\ {"st", "how", "rev"} \subseteq DOMAIN undoing
      /\ undoing.how \in {"undo", "redo", "restore"} /\ undoing.rev \in Revs
      /\ DeskTypes
  BY DEF RestoreRevision, EditorInv, EditorTypes, UndoingTypes
<1>2. ~desk.crossed /\ undoing'.st \notin {"none", "recovering"} => AloneWithUndo'
  BY <1>1, Alone DEF AloneWithUndo
<1>3. CASE ~Accepts(undoing.expected, undoing.token)
  <2>1. PICK st \in {"conflict", "denied"} : undoing' = [undoing EXCEPT !.st = st]
    BY <1>3 DEF RestoreRevision
  <2>2. undoing'.st = st /\ UNCHANGED cut
    BY <1>1, <1>3, <2>1 DEF RestoreRevision
  <2>3. CutGoesOn /\ UndoingTypes' /\ Aims'
    BY <2>2, CutStays DEF EditorInv, UndoingTypes, Aims
  <2>4. SendTypes' /\ RefetchTypes' /\ TallyTypes'
    BY <1>1, <2>3, TypesStay, Counted
  <2> QED BY <1>1, <1>2, <2>2, <2>3, <2>4, DeskStays
<1>4. CASE Accepts(undoing.expected, undoing.token) /\ undoing.rev = cut.head
  <2>1. undoing' = [undoing EXCEPT !.st = "restored"] /\ UNCHANGED cut
    BY <1>4 DEF RestoreRevision
  <2>2. /\ undoing'.st = "restored" /\ undoing'.how = undoing.how
        /\ undoing'.rev = undoing.rev /\ DOMAIN undoing' = DOMAIN undoing
    BY <1>1, <2>1
  <2>3. CutGoesOn
    BY <2>1, CutStays DEF EditorInv
  <2>4. UndoingTypes'
    BY <1>1, <2>2, <2>3 DEF UndoingTypes, CutGoesOn
  <2>5. SendTypes' /\ RefetchTypes' /\ TallyTypes'
    BY <1>1, <2>3, TypesStay, Counted
  <2>6. ~desk.crossed => Aims'
    BY <1>1, <2>2, <2>3, AimsStay
  <2> QED BY <1>1, <1>2, <2>2, <2>3, <2>4, <2>5, <2>6, DeskStays
<1>5. CASE Accepts(undoing.expected, undoing.token) /\ undoing.rev # cut.head
  <2>1. PICK doc, n : doc = Doc(undoing.rev) /\ n = Len(cut.revs) + 1
    OBVIOUS
  <2>2. Write(doc) /\ undoing' = [undoing EXCEPT !.st = "restored", !.rev = n]
    BY <1>5, <2>1 DEF RestoreRevision
  <2>3. doc \in Seq(Int)
    BY <1>1, <2>1 DEF EditorInv, EditorTypes, CutTypes, Doc, Revs
  <2>4. /\ DOMAIN cut' = {"revs", "head", "token"} /\ cut'.revs = Append(cut.revs, doc)
        /\ cut'.head = n
    BY <2>1, <2>2 DEF Write, EditorInv, EditorTypes, CutTypes
  <2>5. CutGoesOn /\ n \in Revs' /\ cut'.revs[n] = doc
    BY <2>1, <2>3, <2>4, RevisionAdded DEF EditorInv
  <2>6. /\ undoing'.st = "restored" /\ undoing'.how = undoing.how
        /\ undoing'.rev = n /\ DOMAIN undoing' = DOMAIN undoing
    BY <1>1, <2>2
  <2>7. UndoingTypes'
    BY <1>1, <2>5, <2>6 DEF UndoingTypes
  <2>8. SendTypes' /\ RefetchTypes' /\ TallyTypes'
    BY <1>1, <2>5, TypesStay, Counted
  <2>9. ~desk.crossed => Aims'
    <3> SUFFICES ASSUME ~desk.crossed, undoing.how # "restore"
                 PROVE  /\ Aim(desk.checkpoints)' \in DOMAIN desk'.checkpoints.stack
                        /\ Doc(desk.checkpoints.stack[Aim(desk.checkpoints)])'
                              = Doc(undoing.rev)'
      BY <2>6 DEF Aims
    <3>1. PICK stack, k : stack = desk.checkpoints.stack /\ k = Aim(desk.checkpoints)
      OBVIOUS
    <3>2. k \in DOMAIN stack /\ Doc(stack[k]) = doc /\ stack \in Seq(Revs)
      BY <1>1, <2>1, <3>1, Alone DEF Aims, DeskTypes, Stacked
    <3>3. stack[k] \in Revs
      BY <3>2
    <3>4. cut'.revs[stack[k]] = cut'.revs[n]
      BY <2>5, <3>2, <3>3 DEF CutGoesOn, Doc
    <3>5. Aim(desk.checkpoints)' = k
      BY <1>1, <2>6, <3>1 DEF Aim
    <3> QED BY <1>1, <2>6, <3>1, <3>2, <3>4, <3>5 DEF Doc
  <2> QED BY <1>1, <1>2, <2>5, <2>6, <2>7, <2>8, <2>9, DeskStays
<1> QED BY <1>3, <1>4, <1>5

LEMMA RestoredKeeps == ASSUME EditorInv, Restored PROVE EditorInv'
<1>1. PICK how, rev : how = undoing.how /\ rev = undoing.rev
  OBVIOUS
<1>2. /\ UNCHANGED <<cut, send, refetch, tally>> /\ undoing.st = "restored"
      /\ undoing' = None /\ how \in {"undo", "redo", "restore"} /\ rev \in Revs
      /\ DeskTypes
  BY <1>1 DEF Restored, EditorInv, EditorTypes, UndoingTypes
<1>3. PICK doc, c, checkpoints : /\ doc = Doc(rev) /\ c = desk.checkpoints
                                 /\ checkpoints = Stepped(c, how, rev)
  OBVIOUS
<1>4. PICK adopted : adopted = [desk EXCEPT !.head = rev, !.doc = doc, !.adrift = FALSE]
  OBVIOUS
<1>5. /\ DOMAIN adopted = DeskFields /\ adopted.head = rev /\ adopted.doc = doc
      /\ adopted.queue = desk.queue /\ adopted.checkpoints = c /\ ~adopted.adrift
      /\ adopted.crossed = desk.crossed
  BY <1>2, <1>3, <1>4 DEF DeskTypes, DeskFields
<1>6. desk' = [adopted EXCEPT !.checkpoints = checkpoints]
  BY <1>1, <1>3, <1>4, <1>5 DEF Restored, AdoptRevision, DeskFields
<1>7. /\ DOMAIN desk' = DeskFields /\ desk'.head = rev /\ desk'.doc = doc
      /\ desk'.queue = desk.queue /\ desk'.checkpoints = checkpoints
      /\ desk'.crossed = desk.crossed
  BY <1>5, <1>6 DEF DeskFields
<1>8. desk'.adrift = FALSE
  <2>1. adopted.adrift = FALSE
    BY <1>2, <1>4 DEF DeskTypes, DeskFields
  <2> QED BY <1>5, <1>6, <2>1 DEF DeskFields
<1>9. CutGoesOn /\ Revs' = Revs /\ SendTypes' /\ RefetchTypes' /\ UndoingTypes' /\ TallyTypes'
  <2>1. CutGoesOn
    BY <1>2, CutStays DEF EditorInv
  <2> QED BY <1>2, <2>1, TypesStay, Counted DEF Revs
<1>10. c.stack \in Seq(Revs) /\ c.index \in Int /\ DOMAIN c = {"stack", "index"}
  BY <1>2, <1>3 DEF DeskTypes, Stacked
<1>11. /\ DOMAIN checkpoints = {"stack", "index"} /\ checkpoints.stack \in Seq(Revs)
       /\ checkpoints.index \in Int
       /\ ~desk.crossed => /\ checkpoints.index \in DOMAIN checkpoints.stack
                           /\ Doc(checkpoints.stack[checkpoints.index]) = Doc(rev)
  <2>1. CASE how = "restore"
    <3>1. checkpoints = PushCheckpoint(c, rev)
      BY <1>3, <2>1 DEF Stepped
    <3>2. Tops(checkpoints, Revs, rev)
      BY <1>2, <1>10, <3>1, PushedCheckpoint
    <3> QED BY <3>2 DEF Tops
  <2>2. CASE how # "restore"
    <3>1. PICK k : k = Aim(c)
      OBVIOUS
    <3>2. k = (IF how = "undo" THEN c.index - 1 ELSE c.index + 1)
      BY <1>1, <3>1 DEF Aim
    <3>3. checkpoints = [c EXCEPT !.index = k]
      BY <1>2, <1>3, <2>2, <3>2 DEF Stepped
    <3>4. /\ DOMAIN checkpoints = {"stack", "index"} /\ checkpoints.stack = c.stack
          /\ checkpoints.index = k /\ k \in Int
      BY <1>10, <3>2, <3>3
    <3>5. ~desk.crossed => k \in DOMAIN c.stack /\ Doc(c.stack[k]) = Doc(rev)
      BY <1>1, <1>2, <1>3, <2>2, <3>1, Alone DEF Aims
    <3> QED BY <1>10, <3>4, <3>5
  <2> QED BY <2>1, <2>2
<1>12. AloneWithUndo' /\ Aims'
  BY <1>2, NoUndo
<1>13. /\ desk'.head \in Revs' /\ desk'.queue \in Seq(Int) /\ desk'.adrift \in BOOLEAN
       /\ desk'.crossed \in BOOLEAN /\ desk'.doc = cut'.revs[desk'.head]
  BY <1>2, <1>3, <1>7, <1>8, <1>9 DEF DeskTypes, Doc
<1>14. ~desk'.crossed =>
          /\ desk'.checkpoints.index \in DOMAIN desk'.checkpoints.stack
          /\ cut'.revs[desk'.checkpoints.stack[desk'.checkpoints.index]]
                = cut'.revs[desk'.head]
  BY <1>2, <1>7, <1>11 DEF Doc
<1> QED BY <1>7, <1>9, <1>11, <1>12, <1>13, <1>14, SettledDesk

LEMMA RestoreConflictsKeeps == ASSUME EditorInv, RestoreConflicts PROVE EditorInv'
<1>1. /\ UNCHANGED <<cut, desk, send, tally>> /\ undoing.st = "conflict"
      /\ undoing'.st = "recovering" /\ refetch'.st = "asked" /\ refetch'.by = "restore"
  BY DEF RestoreConflicts
<1>2. CutGoesOn /\ SendTypes' /\ TallyTypes' /\ RefetchTypes' /\ UndoingTypes' /\ Aims'
  <2>1. CutGoesOn
    BY <1>1, CutStays DEF EditorInv
  <2> QED BY <1>1, <2>1, TypesStay, Counted DEF RefetchTypes, UndoingTypes, Aims
<1>3. ~desk.crossed => AloneWithUndo'
  BY <1>1, Alone DEF AloneWithUndo
<1> QED BY <1>1, <1>2, <1>3, DeskStays

LEMMA RestoreFailsKeeps == ASSUME EditorInv, RestoreFails PROVE EditorInv'
<1>1. UNCHANGED <<cut, desk, send, refetch>> /\ undoing' = None
  BY DEF RestoreFails
<1>2. CutGoesOn /\ SendTypes' /\ TallyTypes' /\ RefetchTypes' /\ UndoingTypes'
  <2>1. CutGoesOn
    BY <1>1, CutStays DEF EditorInv
  <2> QED BY <1>1, <2>1, TypesStay, Counted DEF RestoreFails
<1> QED BY <1>1, <1>2, NoUndo, DeskStays

(* A step that is only about the lease.                                    *)
LEMMA LeaseKeeps ==
    ASSUME EditorInv, CutGoesOn, UNCHANGED <<send, undoing, refetch>>, TallyTypes',
           UNCHANGED desk \/ \E token : desk' = [desk EXCEPT !.token = token]
    PROVE  EditorInv'
<1>1. DeskTypes
  BY DEF EditorInv, EditorTypes
<1>2. /\ DOMAIN desk' = DeskFields /\ desk'.head = desk.head /\ desk'.doc = desk.doc
      /\ desk'.queue = desk.queue /\ desk'.checkpoints = desk.checkpoints
      /\ desk'.adrift = desk.adrift /\ desk'.crossed = desk.crossed
  BY <1>1 DEF DeskTypes, DeskFields
<1>3. SendTypes' /\ RefetchTypes' /\ UndoingTypes'
  BY TypesStay
<1>4. ~desk'.crossed => AloneWithUndo' /\ Aims'
  BY <1>2, UndoStays
<1> QED BY <1>1, <1>2, <1>3, <1>4, DeskKeeps DEF DeskTypes

LEMMA HeartbeatFailsKeeps == ASSUME EditorInv, HeartbeatFails PROVE EditorInv'
<1>1. UNCHANGED <<cut, send, undoing, refetch>> /\ desk' = [desk EXCEPT !.token = 0]
  BY DEF HeartbeatFails
<1>2. CutGoesOn /\ TallyTypes'
  BY <1>1, CutStays, Counted DEF EditorInv, HeartbeatFails
<1> QED BY <1>1, <1>2, LeaseKeeps

LEMMA ReclaimKeeps == ASSUME EditorInv, Reclaim PROVE EditorInv'
<1>1. PICK token : token = cut.token + 1
  OBVIOUS
<1>2. /\ UNCHANGED <<send, undoing, refetch, tally>>
      /\ desk' = [desk EXCEPT !.token = token] /\ cut' = [cut EXCEPT !.token = token]
  BY <1>1 DEF Reclaim
<1>3. CutGoesOn /\ TallyTypes'
  BY <1>2, TokenTurns, Counted DEF EditorInv
<1> QED BY <1>2, <1>3, LeaseKeeps

LEMMA LeaseLapsesKeeps == ASSUME EditorInv, LeaseLapses PROVE EditorInv'
<1>1. PICK token : token = cut.token + 1
  OBVIOUS
<1>2. /\ UNCHANGED <<desk, send, undoing, refetch>>
      /\ cut' = [cut EXCEPT !.token = token]
  BY <1>1 DEF LeaseLapses
<1>3. CutGoesOn /\ TallyTypes'
  BY <1>2, TokenTurns, Counted DEF EditorInv, LeaseLapses
<1> QED BY <1>2, <1>3, LeaseKeeps

LEMMA AnotherWritesKeeps == ASSUME EditorInv, AnotherWrites PROVE EditorInv'
<1>1. PICK doc : doc = Append(Doc(cut.head), -1)
  OBVIOUS
<1>2. /\ UNCHANGED <<desk, send, undoing, refetch>>
      /\ cut' = [revs |-> Append(cut.revs, doc), head |-> Len(cut.revs) + 1,
                 token |-> cut.token + 1]
  BY <1>1 DEF AnotherWrites
<1>3. doc \in Seq(Int)
  BY <1>1, HeadDoc DEF EditorInv
<1>4. CutGoesOn
  BY <1>2, <1>3, RevisionAdded DEF EditorInv
<1>5. TallyTypes'
  BY Counted DEF AnotherWrites
<1> QED BY <1>2, <1>4, <1>5, LeaseKeeps

LEMMA EditorStarts == EditorInit => EditorInv
<1> SUFFICES ASSUME EditorInit PROVE EditorInv
  OBVIOUS
<1>1. /\ cut.revs = <<<<>>>> /\ cut.head = 1 /\ DOMAIN cut = {"revs", "head", "token"}
      /\ send = None /\ undoing = None /\ refetch = None
  BY DEF EditorInit
<1>2. CutTypes
  BY <1>1 DEF CutTypes, Revs
<1>3. 1 \in Revs /\ Doc(1) = <<>>
  BY <1>1 DEF Revs, Doc
<1>4. PICK checkpoints : checkpoints = At(<<1>>)
  OBVIOUS
<1>5. /\ DOMAIN checkpoints = {"stack", "index"} /\ checkpoints.stack \in Seq(Revs)
      /\ checkpoints.index \in Int /\ checkpoints.index \in DOMAIN checkpoints.stack
      /\ checkpoints.stack[checkpoints.index] = 1
  BY <1>3, <1>4, FreshStack DEF Tops
<1>6. desk = [head |-> 1, doc |-> <<>>, queue |-> <<>>, token |-> 1,
              checkpoints |-> checkpoints, adrift |-> FALSE, crossed |-> FALSE]
  BY <1>4 DEF EditorInit
<1>7. /\ DOMAIN desk = DeskFields /\ desk.head = 1 /\ desk.doc = <<>>
      /\ desk.queue = <<>> /\ desk.checkpoints = checkpoints
  BY <1>6 DEF DeskFields
<1>8. desk.adrift \in BOOLEAN /\ desk.crossed \in BOOLEAN
  BY <1>6
<1>9. <<>> \in Seq(Int)
  OBVIOUS
<1>10. DeskTypes
  BY <1>3, <1>5, <1>7, <1>8, <1>9 DEF DeskTypes, Stacked
<1>11. SendTypes /\ RefetchTypes /\ UndoingTypes
  BY <1>1 DEF None, SendTypes, RefetchTypes, UndoingTypes
<1>12. TallyTypes
  BY DEF EditorInit, TallyTypes
<1>13. Saved
  BY <1>3, <1>7 DEF Saved
<1>14. Checkpointed(desk.checkpoints)
  BY <1>3, <1>5, <1>7 DEF Checkpointed
<1>15. AloneWithUndo /\ Aims
  BY <1>1 DEF None, AloneWithUndo, Aims
<1> QED BY <1>2, <1>10, <1>11, <1>12, <1>13, <1>14, <1>15
        DEF EditorInv, EditorTypes, Undoable

LEMMA EditorKeeps == EditorInv /\ [EditorNext]_editorVars => EditorInv'
<1> SUFFICES ASSUME EditorInv, [EditorNext]_editorVars PROVE EditorInv'
  OBVIOUS
<1>1. CASE EditorNext
  <2> QED BY <1>1, ApplyKeeps, ApplyCommandsKeeps, LoseSendKeeps, AppliedKeeps,
             ApplyFailsKeeps, GetCutKeeps, RefetchedKeeps, LoseRefetchKeeps,
             PlanAppliedKeeps, PerformRestoreKeeps, RestoreFromHistoryKeeps,
             FlushedKeeps, RestoreRevisionKeeps, RestoredKeeps,
             RestoreConflictsKeeps, RestoreFailsKeeps, HeartbeatFailsKeeps,
             ReclaimKeeps, LeaseLapsesKeeps, AnotherWritesKeeps DEF EditorNext
<1>2. CASE UNCHANGED editorVars
  <2>1. UNCHANGED <<cut, desk, send, undoing, refetch, tally>>
    BY <1>2 DEF editorVars
  <2>2. CutGoesOn /\ TallyTypes'
    BY <2>1, CutStays, Counted DEF EditorInv
  <2> QED BY <2>1, <2>2, LeaseKeeps
<1> QED BY <1>1, <1>2

LEMMA EditorInvariant == EditorSpec => []EditorInv
BY EditorStarts, EditorKeeps, PTL DEF EditorSpec

(* InSync: with nothing queued and nothing under way, an editor that gave  *)
(* nothing up and is on the cut's head shows what is saved there: pump,    *)
(* recoverFromConflict and reload of drama-editor.                         *)
THEOREM ScreenShowsWhatIsSaved == EditorSpec => []InSync
<1>1. EditorInv => InSync
  <2> SUFFICES ASSUME EditorInv, Still, ~desk.adrift, desk.head = cut.head
               PROVE  desk.doc = Doc(cut.head)
    BY DEF InSync
  <2>1. send.st = "none" /\ desk.queue = <<>>
    BY DEF Still, None
  <2> QED BY <2>1 DEF EditorInv, Saved
<1> QED BY <1>1, EditorInvariant, PTL

(* UndoGoesOneBack: while no undo, redo or restore was ever under way with *)
(* anything else, the checkpoint the index points at reads as the revision *)
(* shown, through edits, conflicts, reloads, the cap of the stack and the  *)
(* copies restore_revision makes: performRestore and pushCheckpoint.       *)
THEOREM UndoTakesTheLastStepBack == EditorSpec => []UndoGoesOneBack
<1>1. EditorInv => UndoGoesOneBack
  BY DEF EditorInv, Undoable, Checkpointed, UndoGoesOneBack, CheckpointIsHead
<1> QED BY <1>1, EditorInvariant, PTL

(* What the desk holds is no more than was given to it: the lease is one   *)
(* of the cut's, the stack is capped, an edit is queued once.              *)
UndoStates == {"none", "flushing", "sent", "restored", "conflict", "denied", "recovering"}

Capped(c) == Len(c.stack) \in 1 .. MaxCheckpoints

GivenInv ==
    /\ EditorInv
    /\ cut.token \in Nat \ {0} /\ desk.token \in 0 .. cut.token
    /\ undoing.st \in UndoStates
    /\ Capped(desk.checkpoints)
    /\ Len(desk.queue) <= tally.edits /\ tally.edits <= MaxEdits

LEMMA CappedPush ==
    ASSUME NEW R, NEW c, c.stack \in Seq(R), c.index \in Int, NEW rev \in R
    PROVE  Capped(PushCheckpoint(c, rev))
<1>1. PICK i : i = IF c.index < Len(c.stack) THEN c.index ELSE Len(c.stack)
  OBVIOUS
<1>2. i \in Int /\ i <= Len(c.stack)
  BY <1>1
<1>3. PICK cut0, n, t : /\ cut0 = SubSeq(c.stack, 1, i) /\ n = Len(cut0)
                        /\ t = Append(cut0, rev)
  OBVIOUS
<1>4. cut0 \in Seq(R) /\ n \in Nat
  <2>1. CASE i >= 1
    BY <1>2, <1>3, <2>1
  <2>2. CASE ~(i >= 1)
    <3>1. cut0 = <<>>
      BY <1>2, <1>3, <2>2
    <3>2. <<>> \in Seq(R) /\ Len(<<>>) = 0
      OBVIOUS
    <3> QED BY <1>3, <3>1, <3>2
  <2> QED BY <2>1, <2>2
<1>5. t \in Seq(R) /\ Len(t) = n + 1
  BY <1>3, <1>4
<1>6. PICK over : over = Len(t) - MaxCheckpoints
  OBVIOUS
<1>7. over \in Int /\ over < n + 1 /\ MaxCheckpoints \in Nat /\ MaxCheckpoints >= 1
  BY <1>4, <1>5, <1>6, EditorAssumption
<1>8. PICK kept : kept = IF over > 0 THEN SubSeq(t, over + 1, Len(t)) ELSE t
  OBVIOUS
<1>9. Len(kept) \in 1 .. MaxCheckpoints
  <2>1. CASE over > 0
    <3>1. Len(SubSeq(t, over + 1, n + 1)) = n + 1 - over
      BY <1>4, <1>5, <1>7, <2>1
    <3> QED BY <1>4, <1>5, <1>6, <1>7, <1>8, <2>1, <3>1
  <2>2. CASE ~(over > 0)
    BY <1>4, <1>5, <1>6, <1>7, <1>8, <2>2
  <2> QED BY <2>1, <2>2
<1>10. PushCheckpoint(c, rev) = [stack |-> kept, index |-> Len(kept)]
  BY <1>1, <1>3, <1>6, <1>8 DEF PushCheckpoint, At
<1> QED BY <1>9, <1>10 DEF Capped

(* pump takes one from the queue at most, and leaves the rest alone.       *)
LEMMA SentGiven ==
    ASSUME NEW d, DOMAIN d = DeskFields, d.queue \in Seq(Int), SendNext(d)
    PROVE  /\ desk'.token = d.token /\ desk'.checkpoints = d.checkpoints
           /\ Len(desk'.queue) <= Len(d.queue)
<1>1. CASE d.queue = <<>>
  <2>1. desk' = d
    BY <1>1 DEF SendNext
  <2>2. Len(d.queue) \in Nat
    OBVIOUS
  <2> QED BY <2>1, <2>2
<1>2. CASE d.queue # <<>>
  <2>1. PICK rest : rest = [d EXCEPT !.queue = Tail(d.queue)]
    OBVIOUS
  <2>2. Len(Tail(d.queue)) <= Len(d.queue)
    BY <1>2
  <2>3. /\ DOMAIN rest = DeskFields /\ rest.token = d.token
        /\ rest.checkpoints = d.checkpoints /\ Len(rest.queue) <= Len(d.queue)
    BY <2>1, <2>2 DEF DeskFields
  <2>4. desk' = [rest EXCEPT !.adrift = TRUE] \/ desk' = rest
    BY <1>2, <2>1 DEF SendNext
  <2> QED BY <2>3, <2>4 DEF DeskFields
<1> QED BY <1>1, <1>2

LEMMA Given ==
    ASSUME GivenInv, EditorInv',
           cut'.token \in {cut.token, cut.token + 1},
           desk'.token \in {desk.token, 0, cut'.token},
           undoing'.st \in UndoStates, Capped(desk'.checkpoints),
           tally'.edits \in {tally.edits, tally.edits + 1}, tally'.edits <= MaxEdits,
           Len(desk'.queue) <= Len(desk.queue) + tally'.edits - tally.edits
    PROVE  GivenInv'
<1>1. /\ tally.edits \in Nat /\ Len(desk.queue) \in Nat /\ Len(desk'.queue) \in Nat
      /\ cut.token \in Nat
  BY DEF GivenInv, EditorInv, EditorTypes, TallyTypes, DeskTypes
<1>2. cut'.token \in Nat \ {0} /\ desk'.token \in 0 .. cut'.token
  BY <1>1 DEF GivenInv
<1>3. Len(desk'.queue) <= tally'.edits
  BY <1>1 DEF GivenInv
<1> QED BY <1>2, <1>3 DEF GivenInv, Capped

(* No edit is made.                                                        *)
LEMMA NothingGiven ==
    ASSUME GivenInv, EditorInv',
           UNCHANGED tally \/ Upset \/ Counts("restores", MaxRestores),
           cut'.token \in {cut.token, cut.token + 1},
           desk'.token \in {desk.token, 0, cut'.token},
           undoing'.st \in UndoStates, Capped(desk'.checkpoints),
           Len(desk'.queue) <= Len(desk.queue)
    PROVE  GivenInv'
<1>1. tally'.edits = tally.edits
  BY DEF Upset, Counts, GivenInv, EditorInv, EditorTypes, TallyTypes
<1>2. tally.edits \in Nat /\ Len(desk.queue) \in Nat /\ Len(desk'.queue) \in Nat
  BY DEF GivenInv, EditorInv, EditorTypes, TallyTypes, DeskTypes
<1>3. tally'.edits <= MaxEdits
  BY <1>1 DEF GivenInv
<1> QED BY <1>1, <1>2, <1>3, Given

LEMMA GivenFacts ==
    ASSUME GivenInv
    PROVE  /\ DeskTypes /\ DOMAIN desk = DeskFields /\ desk.queue \in Seq(Int)
           /\ Len(desk.queue) \in Nat /\ undoing.st \in UndoStates
           /\ Capped(desk.checkpoints) /\ DOMAIN cut = {"revs", "head", "token"}
           /\ None.st \in UndoStates /\ EditorInv
BY DEF GivenInv, EditorInv, EditorTypes, DeskTypes, CutTypes, None, UndoStates

LEMMA WriteGiven ==
    ASSUME GivenInv, NEW doc, Write(doc)
    PROVE  cut'.token = cut.token
BY GivenFacts DEF Write

(* Steps that leave the desk's queue, stack and lease alone.               *)
LEMMA DeskGiven ==
    ASSUME GivenInv, EditorInv',
           UNCHANGED tally \/ Upset \/ Counts("restores", MaxRestores),
           cut'.token \in {cut.token, cut.token + 1},
           \/ desk' = desk
           \/ \E b : desk' = [desk EXCEPT !.crossed = b]
           \/ \E t \in {0, cut'.token} : desk' = [desk EXCEPT !.token = t],
           undoing'.st \in UndoStates
    PROVE  GivenInv'
<1>1. /\ desk'.token \in {desk.token, 0, cut'.token} /\ desk'.checkpoints = desk.checkpoints
      /\ desk'.queue = desk.queue
  BY GivenFacts DEF DeskFields
<1>2. Len(desk'.queue) <= Len(desk.queue)
  BY <1>1, GivenFacts
<1> QED BY <1>1, <1>2, GivenFacts, NothingGiven

LEMMA GoesOnGiven ==
    ASSUME GivenInv, EditorInv', UNCHANGED cut, UNCHANGED tally \/ Upset,
           NEW d, DOMAIN d = DeskFields, d.queue \in Seq(Int), d.token = desk.token,
           Capped(d.checkpoints), Len(d.queue) <= Len(desk.queue), GoesOn(d)
    PROVE  GivenInv'
<1>1. undoing'.st \in UndoStates
  BY GivenFacts DEF GoesOn
<1>2. /\ desk'.token = d.token /\ desk'.checkpoints = d.checkpoints
      /\ Len(desk'.queue) <= Len(d.queue)
  <2>1. Len(d.queue) \in Nat
    OBVIOUS
  <2>2. CASE desk' = d
    BY <2>1, <2>2
  <2>3. CASE SendNext(d)
    BY <2>3, SentGiven
  <2> QED BY <2>2, <2>3 DEF GoesOn
<1>3. Len(desk'.queue) <= Len(desk.queue)
  <2>1. Len(d.queue) \in Nat /\ Len(desk.queue) \in Nat /\ Len(desk'.queue) \in Nat
    BY GivenFacts DEF EditorInv, EditorTypes, DeskTypes
  <2> QED BY <1>2, <2>1
<1> QED BY <1>1, <1>2, <1>3, NothingGiven

LEMMA ApplyGiven == ASSUME GivenInv, EditorInv', Apply PROVE GivenInv'
<1>1. /\ UNCHANGED <<cut, undoing>> /\ tally.edits < MaxEdits
      /\ tally' = [tally EXCEPT !["edits"] = tally.edits + 1]
  BY DEF Apply, Edits, Counts
<1>2. tally.edits \in Nat /\ tally'.edits = tally.edits + 1
  BY <1>1 DEF GivenInv, EditorInv, EditorTypes, TallyTypes
<1>3. PICK edit, doc, queue : /\ edit = tally.edits + 1 /\ doc = Append(desk.doc, edit)
                              /\ queue = Append(desk.queue, edit)
  OBVIOUS
<1>4. queue \in Seq(Int) /\ Len(queue) = Len(desk.queue) + 1
  BY <1>2, <1>3, GivenFacts
<1>5. PICK crosses : crosses = Crosses
  OBVIOUS
<1>6. /\ DOMAIN crosses = DeskFields /\ crosses.queue = desk.queue /\ crosses.doc = desk.doc
      /\ crosses.checkpoints = desk.checkpoints /\ crosses.token = desk.token
  BY <1>5, GivenFacts DEF Crosses, DeskFields
<1>7. PICK drawn : drawn = [[crosses EXCEPT !.doc = doc] EXCEPT !.queue = queue]
  OBVIOUS
<1>8. /\ DOMAIN drawn = DeskFields /\ drawn.queue = queue
      /\ drawn.checkpoints = desk.checkpoints /\ drawn.token = desk.token
  BY <1>6, <1>7 DEF DeskFields
<1>9. IF send.st = "none" THEN SendNext(drawn) ELSE desk' = drawn /\ UNCHANGED send
  <2>1. [Crosses EXCEPT !.doc = Append(@, edit), !.queue = Append(@, edit)] = drawn
    BY <1>3, <1>5, <1>6, <1>7 DEF DeskFields
  <2> QED BY <1>3, <2>1 DEF Apply
<1>10. /\ desk'.token = desk.token /\ desk'.checkpoints = desk.checkpoints
       /\ Len(desk'.queue) <= Len(queue)
  <2>1. Len(queue) \in Nat
    BY <1>4
  <2>2. CASE desk' = drawn
    BY <1>8, <2>1, <2>2
  <2>3. CASE SendNext(drawn)
    BY <1>4, <1>8, <2>3, SentGiven
  <2> QED BY <1>9, <2>2, <2>3
<1>11. Len(desk'.queue) <= Len(desk.queue) + tally'.edits - tally.edits
  BY <1>2, <1>4, <1>10, GivenFacts
<1>12. tally'.edits <= MaxEdits
  BY <1>1, <1>2, EditorAssumption
<1> QED BY <1>1, <1>2, <1>10, <1>11, <1>12, GivenFacts, Given

LEMMA AppliedGiven == ASSUME GivenInv, EditorInv', Applied PROVE GivenInv'
<1>1. /\ UNCHANGED <<cut, undoing, refetch, tally>> /\ send.rev \in Revs
  BY GivenFacts DEF Applied, EditorInv, EditorTypes, SendTypes
<1>2. PICK doc, checkpoints, adrift :
          /\ doc = IF desk.queue = <<>> THEN Doc(send.rev) ELSE desk.doc
          /\ checkpoints = PushCheckpoint(desk.checkpoints, send.rev)
          /\ adrift = (desk.adrift /\ desk.queue # <<>>)
  OBVIOUS
<1>3. PICK confirmed : confirmed = [desk EXCEPT !.head = send.rev, !.doc = doc,
            !.adrift = adrift, !.checkpoints = checkpoints]
  OBVIOUS
<1>4. /\ DOMAIN confirmed = DeskFields /\ confirmed.checkpoints = checkpoints
      /\ confirmed.queue = desk.queue /\ confirmed.token = desk.token
  BY <1>3, GivenFacts DEF DeskFields
<1>5. SendNext(confirmed)
  BY <1>2, <1>3, GivenFacts DEF Applied, DeskFields
<1>6. Capped(checkpoints)
  <2>1. desk.checkpoints.stack \in Seq(Revs) /\ desk.checkpoints.index \in Int
    BY GivenFacts DEF DeskTypes, Stacked
  <2> QED BY <1>1, <1>2, <2>1, CappedPush
<1>7. /\ desk'.token = desk.token /\ desk'.checkpoints = checkpoints
      /\ Len(desk'.queue) <= Len(desk.queue)
  BY <1>4, <1>5, GivenFacts, SentGiven
<1> QED BY <1>1, <1>6, <1>7, GivenFacts, NothingGiven

LEMMA ApplyFailsGiven == ASSUME GivenInv, EditorInv', ApplyFails PROVE GivenInv'
<1>1. UNCHANGED <<cut, undoing, tally>> /\ desk' = [desk EXCEPT !.queue = <<>>]
  BY DEF ApplyFails
<1>2. /\ desk'.token = desk.token /\ desk'.checkpoints = desk.checkpoints
      /\ desk'.queue = <<>>
  BY <1>1, GivenFacts DEF DeskFields
<1>3. Len(desk'.queue) <= Len(desk.queue)
  BY <1>2, GivenFacts
<1> QED BY <1>1, <1>2, <1>3, GivenFacts, NothingGiven

LEMMA FetchGiven == ASSUME GivenInv, EditorInv', Refetched \/ LoseRefetch PROVE GivenInv'
<1>1. CASE Refetched
  <2>1. PICK rev, doc : rev = refetch.rev /\ doc = Doc(rev)
    OBVIOUS
  <2>2. PICK d : d = [[desk EXCEPT !.head = rev, !.doc = doc, !.adrift = FALSE]
                        EXCEPT !.queue = <<>>, !.checkpoints = At(<<rev>>)]
    OBVIOUS
  <2>3. GoesOn(d) /\ UNCHANGED <<cut, tally>>
    BY <1>1, <2>1, <2>2 DEF Refetched, ReloadWith, AdoptRevision
  <2>4. /\ DOMAIN d = DeskFields /\ d.queue = <<>> /\ d.token = desk.token
        /\ d.checkpoints = At(<<rev>>)
    BY <2>2, GivenFacts DEF DeskFields
  <2>5. Capped(d.checkpoints)
    <3>1. At(<<rev>>).stack = <<rev>> /\ Len(<<rev>>) = 1
      BY DEF At
    <3>2. Len(d.checkpoints.stack) = 1
      BY <2>4, <3>1
    <3>3. 1 \in 1 .. MaxCheckpoints
      BY EditorAssumption
    <3> QED BY <3>2, <3>3 DEF Capped
  <2>6. d.queue \in Seq(Int) /\ Len(d.queue) <= Len(desk.queue)
    BY <2>4, GivenFacts
  <2> QED BY <2>3, <2>4, <2>5, <2>6, GoesOnGiven
<1>2. CASE LoseRefetch
  <2>1. PICK adrift : adrift = (desk.adrift \/ refetch.by = "send")
    OBVIOUS
  <2>2. PICK d : d = [desk EXCEPT !.adrift = adrift]
    OBVIOUS
  <2>3. GoesOn(d) /\ UNCHANGED cut /\ Upset
    BY <1>2, <2>1, <2>2, GivenFacts DEF LoseRefetch, DeskFields
  <2>4. /\ DOMAIN d = DeskFields /\ d.queue = desk.queue /\ d.token = desk.token
        /\ d.checkpoints = desk.checkpoints
    BY <2>2, GivenFacts DEF DeskFields
  <2>5. Len(d.queue) <= Len(desk.queue)
    BY <2>4, GivenFacts
  <2> QED BY <2>3, <2>4, <2>5, GivenFacts, GoesOnGiven
<1> QED BY <1>1, <1>2

LEMMA RestoredGiven == ASSUME GivenInv, EditorInv', Restored PROVE GivenInv'
<1>1. /\ UNCHANGED <<cut, tally>> /\ undoing' = None /\ undoing.rev \in Revs
      /\ undoing.how \in {"undo", "redo", "restore"}
  BY GivenFacts DEF Restored, EditorInv, EditorTypes, UndoingTypes
<1>2. PICK doc, checkpoints :
          /\ doc = Doc(undoing.rev)
          /\ checkpoints = Stepped(desk.checkpoints, undoing.how, undoing.rev)
  OBVIOUS
<1>3. desk' = [[desk EXCEPT !.head = undoing.rev, !.doc = doc, !.adrift = FALSE]
                 EXCEPT !.checkpoints = checkpoints]
  BY <1>2, GivenFacts DEF Restored, AdoptRevision, DeskFields
<1>4. /\ desk'.checkpoints = checkpoints /\ desk'.queue = desk.queue
      /\ desk'.token = desk.token
  BY <1>3, GivenFacts DEF DeskFields
<1>5. Capped(checkpoints)
  <2> PICK c : c = desk.checkpoints
    OBVIOUS
  <2>1. DOMAIN c = {"stack", "index"} /\ c.stack \in Seq(Revs) /\ c.index \in Int /\ Capped(c)
    BY GivenFacts DEF DeskTypes, Stacked
  <2>2. checkpoints \in {[c EXCEPT !.index = c.index - 1], [c EXCEPT !.index = c.index + 1],
                         PushCheckpoint(c, undoing.rev)}
    BY <1>1, <1>2 DEF Stepped
  <2>3. Capped(PushCheckpoint(c, undoing.rev))
    BY <1>1, <2>1, CappedPush
  <2> QED BY <2>1, <2>2, <2>3 DEF Capped
<1>6. Len(desk'.queue) <= Len(desk.queue)
  BY <1>4, GivenFacts
<1> QED BY <1>1, <1>4, <1>5, <1>6, GivenFacts, NothingGiven

LEMMA GivenStarts == EditorInit => GivenInv
<1> SUFFICES ASSUME EditorInit PROVE GivenInv
  OBVIOUS
<1>1. /\ cut.token = 1 /\ desk.token = 1 /\ undoing = None /\ desk.queue = <<>>
      /\ desk.checkpoints = At(<<1>>) /\ tally.edits = 0
  BY DEF EditorInit
<1>2. Capped(desk.checkpoints)
  <2>1. At(<<1>>).stack = <<1>> /\ Len(<<1>>) = 1
    BY DEF At
  <2>2. Len(desk.checkpoints.stack) = 1
    BY <1>1, <2>1
  <2>3. 1 \in 1 .. MaxCheckpoints
    BY EditorAssumption
  <2> QED BY <2>2, <2>3 DEF Capped
<1>3. Len(desk.queue) = 0
  BY <1>1
<1>4. undoing.st \in UndoStates
  BY <1>1 DEF None, UndoStates
<1> QED BY <1>1, <1>2, <1>3, <1>4, EditorStarts, EditorAssumption DEF GivenInv

LEMMA GivenStays == GivenInv /\ [EditorNext]_editorVars => GivenInv'
<1> SUFFICES ASSUME GivenInv, [EditorNext]_editorVars PROVE GivenInv'
  OBVIOUS
<1>0. EditorInv'
  BY EditorKeeps DEF GivenInv
<1>1. CASE Apply \/ Applied \/ ApplyFails \/ Refetched \/ LoseRefetch \/ Restored
  BY <1>0, <1>1, ApplyGiven, AppliedGiven, ApplyFailsGiven, FetchGiven, RestoredGiven
<1>2. CASE ApplyCommands
  <2>1. cut'.token = cut.token
    BY <1>2, WriteGiven DEF ApplyCommands
  <2> QED BY <1>0, <1>2, <2>1, GivenFacts, DeskGiven DEF ApplyCommands
<1>3. CASE LoseSend
  BY <1>0, <1>3, GivenFacts, DeskGiven DEF LoseSend
<1>4. CASE GetCut
  BY <1>0, <1>4, GivenFacts, DeskGiven DEF GetCut
<1>5. CASE PlanApplied
  <2>1. cut'.token = cut.token
    BY <1>5, WriteGiven DEF PlanApplied
  <2> QED BY <1>0, <1>5, <2>1, GivenFacts, DeskGiven DEF PlanApplied, Crosses
<1>6. ASSUME NEW how \in {"undo", "redo"}, PerformRestore(how) PROVE GivenInv'
  <2>1. undoing'.st = "flushing"
    BY <1>6 DEF PerformRestore
  <2> QED BY <1>0, <1>6, <2>1, DeskGiven DEF PerformRestore, UndoStates
<1>7. ASSUME NEW rev, RestoreFromHistory(rev) PROVE GivenInv'
  <2>1. undoing'.st = "flushing"
    BY <1>7 DEF RestoreFromHistory
  <2> QED BY <1>0, <1>7, <2>1, DeskGiven DEF RestoreFromHistory, UndoStates
<1>8. CASE Flushed
  <2>1. undoing'.st \in UndoStates
    BY <1>8 DEF Flushed, None, UndoStates
  <2> QED BY <1>0, <1>8, <2>1, DeskGiven DEF Flushed
<1>9. CASE RestoreRevision
  <2>1. cut'.token = cut.token
    BY <1>9, WriteGiven DEF RestoreRevision
  <2>2. undoing'.st \in UndoStates
    <3>1. {"st", "how", "rev"} \subseteq DOMAIN undoing
      BY <1>9, GivenFacts DEF RestoreRevision, EditorInv, EditorTypes, UndoingTypes
    <3>2. \/ \E st \in {"conflict", "denied", "restored"} : undoing' = [undoing EXCEPT !.st = st]
          \/ \E rev : undoing' = [undoing EXCEPT !.st = "restored", !.rev = rev]
      BY <1>9 DEF RestoreRevision
    <3> QED BY <3>1, <3>2 DEF UndoStates
  <2> QED BY <1>0, <1>9, <2>1, <2>2, DeskGiven DEF RestoreRevision
<1>10. CASE RestoreConflicts
  BY <1>0, <1>10, DeskGiven DEF RestoreConflicts, UndoStates
<1>11. CASE RestoreFails
  BY <1>0, <1>11, GivenFacts, DeskGiven DEF RestoreFails
<1>12. CASE HeartbeatFails
  BY <1>0, <1>12, GivenFacts, DeskGiven DEF HeartbeatFails
<1>13. CASE Reclaim
  <2>1. cut'.token = cut.token + 1
    BY <1>13, GivenFacts DEF Reclaim
  <2> QED BY <1>0, <1>13, <2>1, GivenFacts, DeskGiven DEF Reclaim
<1>14. CASE LeaseLapses \/ AnotherWrites
  <2>1. cut'.token = cut.token + 1
    BY <1>14, GivenFacts DEF LeaseLapses, AnotherWrites
  <2> QED BY <1>0, <1>14, <2>1, GivenFacts, DeskGiven DEF LeaseLapses, AnotherWrites
<1>15. CASE UNCHANGED editorVars
  BY <1>0, <1>15, GivenFacts, DeskGiven DEF editorVars
<1> QED BY <1>1, <1>2, <1>3, <1>4, <1>5, <1>6, <1>7, <1>8, <1>9, <1>10, <1>11, <1>12,
           <1>13, <1>14, <1>15 DEF EditorNext

(* The desk names revisions the cut has, under a lease the cut gave, and   *)
(* its undo stack stays within its cap.                                    *)
LEMMA EditorTypeCorrect == EditorSpec => []EditorTypeOK
<1>1. GivenInv => EditorTypeOK
  <2> SUFFICES ASSUME GivenInv PROVE EditorTypeOK
    OBVIOUS
  <2>1. EditorTypes /\ Len(desk.queue) \in Nat /\ tally.edits \in Nat
    BY GivenFacts DEF EditorInv, EditorTypes, TallyTypes
  <2>2. Range(desk.checkpoints.stack) \subseteq Revs
    <3>1. desk.checkpoints.stack \in Seq(Revs)
      BY <2>1 DEF EditorTypes, DeskTypes, Stacked
    <3> QED BY <3>1 DEF Range
  <2>3. Len(desk.queue) <= MaxEdits
    BY <2>1, EditorAssumption DEF GivenInv
  <2>4. cut.token >= 1 /\ desk.token \in 0 .. cut.token
    BY DEF GivenInv
  <2> QED BY <2>1, <2>2, <2>3, <2>4, GivenFacts
          DEF EditorTypeOK, EditorTypes, CutTypes, DeskTypes, SendTypes, RefetchTypes, Revs,
              Capped, UndoStates
<1> QED BY <1>1, GivenStarts, GivenStays, PTL DEF EditorSpec

-----------------------------------------------------------------------------
(* A tab shows one page and leaves the others alone, so that what holds of *)
(* every behaviour of a page holds in every tab.                           *)

LEMMA OnePageMoves ==
    ASSUME [PagesNext]_pagesVars
    PROVE  /\ [CanvasNext]_canvasVars
           /\ [SubmitNext]_submitVars /\ [StreamNext]_streamVars
           /\ [BatchNext]_batchVars /\ [EditorNext]_editorVars
           /\ [BlockingNext]_blockingVars
<1>1. CASE OnCanvas
  BY <1>1 DEF OnCanvas
<1>2. CASE OnStudio
  BY <1>2 DEF OnStudio
<1>3. CASE OnJob
  BY <1>3 DEF OnJob
<1>4. CASE OnScript
  BY <1>4 DEF OnScript
<1>5. CASE OnEditor
  BY <1>5 DEF OnEditor
<1>6. CASE OnBlocking
  BY <1>6 DEF OnBlocking
<1>7. CASE UNCHANGED pagesVars
  BY <1>7 DEF pagesVars
<1> QED BY <1>1, <1>2, <1>3, <1>4, <1>5, <1>6, <1>7 DEF PagesNext

LEMMA PagesBehave ==
    PagesSpec => /\ CanvasSpec /\ SubmitSpec /\ StreamSpec
                 /\ BatchSpec /\ EditorSpec /\ BlockingSpec
<1>1. PagesInit => CanvasInit /\ SubmitInit /\ StreamInit /\ BatchInit /\ EditorInit /\ BlockingInit
  BY DEF PagesInit
<1>2. [PagesNext]_pagesVars =>
          /\ [CanvasNext]_canvasVars
          /\ [SubmitNext]_submitVars /\ [StreamNext]_streamVars
          /\ [BatchNext]_batchVars /\ [EditorNext]_editorVars
          /\ [BlockingNext]_blockingVars
  BY OnePageMoves
<1> QED BY <1>1, <1>2, PTL
        DEF PagesSpec, CanvasSpec, SubmitSpec, StreamSpec, BatchSpec, EditorSpec,
            BlockingSpec

(* In a browser tab, whichever page it is opened on: a canvas is what its  *)
(* feed says, ends up as the server's, strands no save, and deletes no     *)
(* card but its person's, those blind to a waiting arrangement and those   *)
(* an old one put back was without; the button charges once; the watch of  *)
(* a job ends when the job is over or its cancellation was published, and  *)
(* its record holds all the job ended with on a bar that only rises; a     *)
(* batch has one live job an item, stops behind a failure and forgets      *)
(* nothing; the editor shows and takes back what was saved, and edits of a *)
(* scene go out.                                                           *)
THEOREM TabsAreSafe ==
    PagesSpec =>
        /\ []FeedIsTheCanvas /\ []Converged
        /\ []OnlyTheirOwn /\ []NothingIsStranded
        /\ []ChargedOnce
        /\ []StopsOnlyWhenOver /\ []RecordIsWhole /\ ProgressNeverDrops
        /\ []OneLiveJob /\ []StopsAtFailure /\ []NothingForgotten
        /\ []InSync /\ []UndoGoesOneBack
        /\ []EditsGoOut
<1>1. PagesSpec => []ChargedOnce
  BY PagesBehave, ButtonChargesOnce
<1>2. PagesSpec => []StopsOnlyWhenOver /\ []RecordIsWhole /\ ProgressNeverDrops
  BY PagesBehave, WatchEndsWithTheJob, RecordsAreWhole, BarNeverGoesBack
<1>3. PagesSpec => []OneLiveJob /\ []StopsAtFailure /\ []NothingForgotten
  BY PagesBehave, BatchOneLiveJob, BatchStopsAtFailure, BatchForgetsNothing
<1>4. PagesSpec => []InSync /\ []UndoGoesOneBack
  BY PagesBehave, ScreenShowsWhatIsSaved, UndoTakesTheLastStepBack
<1>5. PagesSpec => []EditsGoOut
  BY PagesBehave, BlockingEditsGoOut
<1>6. PagesSpec => []FeedIsTheCanvas /\ []Converged /\ []OnlyTheirOwn
                   /\ []NothingIsStranded
  BY PagesBehave, FeedReplays, TabConverges, DeletesOnlyTheirOwn, StrandsNothing
<1> QED BY <1>1, <1>2, <1>3, <1>4, <1>5, <1>6

LEMMA TabStaysOpen == PagesSpec => [](open \in OpenPages)
<1>1. PagesInit => open \in OpenPages
  BY DEF PagesInit
<1>2. open \in OpenPages /\ [PagesNext]_pagesVars => (open \in OpenPages)'
  <2>1. [PagesNext]_pagesVars => UNCHANGED open
    BY DEF PagesNext, OnCanvas, OnStudio, OnJob, OnScript, OnEditor, OnBlocking, pagesVars
  <2> QED BY <2>1
<1> QED BY <1>1, <1>2, PTL DEF PagesSpec

(* Whichever page a tab is opened on, the state of every page's hooks is   *)
(* what they can hold: no log, stack, queue or set of requests outgrows    *)
(* its bound, no bar shows a progress nobody reported, and no page names a *)
(* draft, key, job or revision that was never made.                        *)
THEOREM PagesTypeCorrect == PagesSpec => []PagesTypeOK
<1>1. PagesSpec => []CanvasTypeOK /\ []SubmitTypeOK /\ []StreamTypeOK
  BY PagesBehave, CanvasTypeCorrect, ButtonTypeCorrect, StreamTypeCorrect
<1>2. PagesSpec => []BatchTypeOK /\ []EditorTypeOK /\ []BlockingTypeOK
  BY PagesBehave, BatchTypes, EditorTypeCorrect, BlockingTypeCorrect
<1> QED BY <1>1, <1>2, TabStaysOpen, PTL DEF PagesTypeOK
=============================================================================
