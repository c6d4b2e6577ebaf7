---------------------------- MODULE CheckoutProofs ---------------------------
(***************************************************************************)
(* Proofs about Checkout, for any intents, events and requests at a time,  *)
(* any purging of the events, and any number of rival writes, killed       *)
(* requests and lost answers.                                              *)
(***************************************************************************)
EXTENDS Checkout, TLAPS

USE CheckoutAssumption

Reading == [pc: {"idle", "intent", "account", "record", "book"},
            intent: Intents, event: Events \cup {NoEvent}, version: Nat]

Types ==
    /\ intent \in [Intents -> {"none", "pending", "succeeded"}]
    /\ credited \in [Intents -> Nat] /\ version \in Nat
    /\ events \subseteq Events /\ unacked \subseteq Events
    /\ req \in [Requests -> Reading]
    /\ told \subseteq Intents
    /\ rivals \in 0..MaxRivals /\ losses \in 0..MaxLosses

(* What is told, delivered or served is about an intent that was created.  *)
AboutCreated ==
    /\ \A i \in told : intent[i] # "none"
    /\ \A e \in unacked : intent[IntentOf[e]] # "none"
    /\ \A r \in Requests : req[r].pc # "idle" => intent[req[r].intent] # "none"

(* A webhook works on the intent of its event, and one that has nothing    *)
(* left to book found the purchase there.                                  *)
ServesItsEvent ==
    \A r \in Requests :
        /\ req[r].pc \in {"intent", "record"} => req[r].event \in Events
        /\ req[r].pc # "idle" /\ req[r].event \in Events
             => req[r].intent = IntentOf[req[r].event]
        /\ req[r].pc = "record" /\ req[r].event \in Paid
             => intent[req[r].intent] = "succeeded"

RecordedSucceeded == \A e \in events \cap Paid : intent[IntentOf[e]] = "succeeded"

(* The strengthening every step preserves.                                 *)
Inv == Types /\ AboutCreated /\ ServesItsEvent /\ RecordedSucceeded /\ CreditedOnce

-----------------------------------------------------------------------------
LEMMA IdleReads == Idle \in Reading /\ Idle.pc = "idle"
<1>1. (CHOOSE i \in Intents : TRUE) \in Intents
  OBVIOUS
<1> QED BY <1>1 DEF Idle, Reading

(* The intents only move forward, and everything said of them stays true.  *)
LEMMA ReadersKeep ==
    ASSUME Inv, UNCHANGED <<intent, credited>>, Types', AboutCreated', ServesItsEvent',
           RecordedSucceeded'
    PROVE  Inv'
BY DEF Inv, CreditedOnce

(* A request that ends leaves the others as they were.                     *)
LEMMA Ends ==
    ASSUME Inv, NEW r \in Requests, End(r)
    PROVE  /\ req' \in [Requests -> Reading] /\ req'[r].pc = "idle"
           /\ \A q \in Requests \ {r} : req'[q] = req[q]
BY IdleReads DEF Inv, Types, End

LEMMA InvInit == Init => Inv
<1> SUFFICES ASSUME Init PROVE Inv
  OBVIOUS
<1>1. Types
  BY IdleReads DEF Init, Types
<1>2. \A r \in Requests : req[r].pc = "idle"
  BY IdleReads DEF Init
<1>3. AboutCreated /\ ServesItsEvent /\ RecordedSucceeded /\ CreditedOnce
  BY <1>2 DEF Init, AboutCreated, ServesItsEvent, RecordedSucceeded, CreditedOnce
<1> QED BY <1>1, <1>3 DEF Inv

LEMMA CreateKeeps ==
    ASSUME Inv, NEW i \in Intents, Create(i) PROVE Inv'
<1>1. Types'
  BY DEF Inv, Types, Create
<1>2. \A k \in Intents : intent[k] # "none" => intent'[k] = intent[k]
  BY DEF Inv, Types, Create
<1>3. AboutCreated' /\ ServesItsEvent' /\ RecordedSucceeded'
  BY <1>2 DEF Inv, Types, Create, AboutCreated, ServesItsEvent, RecordedSucceeded, Reading
<1>4. CreditedOnce'
  BY DEF Inv, Types, Create, CreditedOnce
<1> QED BY <1>1, <1>3, <1>4 DEF Inv

LEMMA ConfirmKeeps ==
    ASSUME Inv, NEW r \in Requests, NEW i \in Intents, Confirm(r, i) PROVE Inv'
<1> DEFINE new == [pc |-> "account", intent |-> i, event |-> NoEvent, version |-> 0]
<1>1. new \in Reading /\ new.pc = "account" /\ new.intent = i /\ new.event = NoEvent
  BY DEF Reading
<1>2. CASE UNCHANGED req
  BY <1>2, ReadersKeep DEF Confirm, Inv, Types, AboutCreated, ServesItsEvent,
                           RecordedSucceeded
<1>3. CASE req' = [req EXCEPT ![r] = new] /\ UNCHANGED told
  <2> HIDE DEF new
  <2>1. Types'
    BY <1>1, <1>3 DEF Confirm, Inv, Types
  <2>2. AboutCreated' /\ ServesItsEvent' /\ RecordedSucceeded'
    BY <1>1, <1>3 DEF Confirm, Inv, Types, AboutCreated, ServesItsEvent, RecordedSucceeded
  <2> QED BY <2>1, <2>2, ReadersKeep DEF Confirm
<1> QED BY <1>2, <1>3 DEF Confirm

LEMMA EmitKeeps ==
    ASSUME Inv, NEW e \in Events, Emit(e) \/ Purge(e) PROVE Inv'
<1>1. Types'
  BY DEF Inv, Types, Emit, Purge
<1>2. AboutCreated' /\ ServesItsEvent' /\ RecordedSucceeded'
  BY DEF Inv, Emit, Purge, AboutCreated, ServesItsEvent, RecordedSucceeded
<1> QED BY <1>1, <1>2, ReadersKeep DEF Emit, Purge

(* An acknowledgement stops a delivery or is lost.                         *)
LEMMA Acknowledges ==
    ASSUME Inv, NEW e, Acknowledge(e)
    PROVE  unacked' \subseteq unacked /\ losses' \in 0..MaxLosses
BY DEF Inv, Types, Acknowledge, Lose

LEMMA DeliverKeeps ==
    ASSUME Inv, NEW r \in Requests, NEW e \in Events, Deliver(r, e) PROVE Inv'
<1> DEFINE new == [pc |-> "intent", intent |-> IntentOf[e], event |-> e, version |-> 0]
<1>1. /\ new \in Reading /\ new.pc = "intent" /\ new.intent = IntentOf[e]
      /\ new.event = e
  BY DEF Reading
<1>2. CASE Acknowledge(e) /\ UNCHANGED req
  <2>1. Types'
    BY <1>2, Acknowledges DEF Deliver, Inv, Types
  <2>2. AboutCreated' /\ ServesItsEvent' /\ RecordedSucceeded'
    BY <1>2, Acknowledges DEF Deliver, Inv, AboutCreated, ServesItsEvent, RecordedSucceeded
  <2> QED BY <2>1, <2>2, ReadersKeep DEF Deliver
<1>3. CASE req' = [req EXCEPT ![r] = new] /\ UNCHANGED <<unacked, losses>>
  <2> HIDE DEF new
  <2>1. Types'
    BY <1>1, <1>3 DEF Deliver, Inv, Types
  <2>2. AboutCreated' /\ ServesItsEvent' /\ RecordedSucceeded'
    BY <1>1, <1>3 DEF Deliver, Inv, Types, AboutCreated, ServesItsEvent, RecordedSucceeded
  <2> QED BY <2>1, <2>2, ReadersKeep DEF Deliver
<1> QED BY <1>2, <1>3 DEF Deliver

LEMMA ReadKeeps ==
    ASSUME Inv, NEW r \in Requests, ReadIntent(r) \/ ReadAccount(r) PROVE Inv'
<1>1. /\ req' \in [Requests -> Reading]
      /\ \A q \in Requests \ {r} : req'[q] = req[q]
      /\ req'[r].intent = req[r].intent /\ req'[r].event = req[r].event
      /\ req[r].pc # "idle" /\ req'[r].pc # "intent"
      /\ req'[r].pc = "record" =>
           /\ req[r].pc = "intent"
           /\ req[r].event \in Paid => intent[req[r].intent] = "succeeded"
  <2>1. CASE ReadIntent(r)
    BY <2>1 DEF ReadIntent, Advance, Inv, Types, Reading
  <2>2. CASE ReadAccount(r)
    BY <2>2 DEF ReadAccount, Inv, Types, Reading
  <2> QED BY <2>1, <2>2
<1>2. UNCHANGED <<intent, credited, version, events, unacked, told, rivals, losses>>
  BY DEF ReadIntent, ReadAccount
<1>3. Types'
  BY <1>1, <1>2 DEF Inv, Types
<1>4. AboutCreated' /\ ServesItsEvent' /\ RecordedSucceeded'
  BY <1>1, <1>2 DEF Inv, AboutCreated, ServesItsEvent, RecordedSucceeded
<1> QED BY <1>2, <1>3, <1>4, ReadersKeep

LEMMA RecordKeeps ==
    ASSUME Inv, NEW r \in Requests, Record(r) PROVE Inv'
<1> DEFINE e == req[r].event
<1>1. /\ e \in Events /\ (e \in Paid => intent[IntentOf[e]] = "succeeded")
  BY DEF Record, Inv, ServesItsEvent
<1>2. /\ unacked' \subseteq unacked /\ losses' \in 0..MaxLosses
      /\ events' \subseteq events \cup {e}
  BY Acknowledges DEF Record, Inv, Types
<1>3. /\ req' \in [Requests -> Reading] /\ req'[r].pc = "idle"
      /\ \A q \in Requests \ {r} : req'[q] = req[q]
  BY Ends DEF Record
<1>4. Types'
  BY <1>1, <1>2, <1>3 DEF Record, Inv, Types
<1>5. AboutCreated' /\ ServesItsEvent' /\ RecordedSucceeded'
  BY <1>1, <1>2, <1>3 DEF Record, Inv, AboutCreated, ServesItsEvent, RecordedSucceeded
<1> QED BY <1>4, <1>5, ReadersKeep DEF Record

(* UNIQUE(payment_reference): the reference is free, so the status was not *)
(* "succeeded", and both move in the one commit that books the purchase.   *)
LEMMA BookKeeps ==
    ASSUME Inv, NEW r \in Requests, Book(r) PROVE Inv'
<1> DEFINE i == req[r].intent
           e == req[r].event
<1>1. /\ i \in Intents /\ e \in Events \cup {NoEvent} /\ credited[i] = 0
      /\ e \in Events => IntentOf[e] = i
  BY DEF Book, Bookable, Inv, Types, Reading, ServesItsEvent
<1>2. unacked' \subseteq unacked /\ losses' \in 0..MaxLosses
  BY Acknowledges DEF Book
<1>3. /\ req' \in [Requests -> Reading] /\ req'[r].pc = "idle"
      /\ \A q \in Requests \ {r} : req'[q] = req[q]
  BY Ends DEF Book
<1>4. /\ credited' = [credited EXCEPT ![i] = @ + 1]
      /\ intent' = [intent EXCEPT ![i] = "succeeded"]
      /\ version' = version + 1 /\ UNCHANGED rivals
      /\ told' \subseteq told \cup {i}
      /\ events' \subseteq IF e = NoEvent THEN events ELSE events \cup {e}
  BY DEF Book
<1> HIDE DEF i, e
<1>5. Types'
  BY <1>1, <1>2, <1>3, <1>4 DEF Inv, Types
<1>6. /\ intent'[i] = "succeeded"
      /\ \A k \in Intents \ {i} : intent'[k] = intent[k] /\ credited'[k] = credited[k]
      /\ credited'[i] = 1
  BY <1>1, <1>4 DEF Inv, Types
<1>7. \A k \in Intents : intent[k] # "none" => intent'[k] # "none"
  BY <1>6
<1>8. AboutCreated'
  BY <1>2, <1>3, <1>4, <1>6, <1>7 DEF Inv, Types, AboutCreated, Reading
<1>9. ServesItsEvent'
  BY <1>3, <1>6 DEF Inv, Types, ServesItsEvent, Reading
<1>10. RecordedSucceeded'
  BY <1>1, <1>4, <1>6 DEF Inv, Types, RecordedSucceeded
<1>11. CreditedOnce'
  BY <1>6 DEF Inv, CreditedOnce
<1> QED BY <1>5, <1>8, <1>9, <1>10, <1>11 DEF Inv

LEMMA RefuseKeeps ==
    ASSUME Inv, NEW r \in Requests, Refuse(r) \/ Kill(r) PROVE Inv'
<1>1. /\ req' \in [Requests -> Reading] /\ req'[r].pc = "idle"
      /\ \A q \in Requests \ {r} : req'[q] = req[q]
  BY Ends DEF Refuse, Kill
<1>2. /\ UNCHANGED <<intent, credited, version, events, unacked, rivals>>
      /\ told' \subseteq told \cup {req[r].intent} /\ losses' \in 0..MaxLosses
      /\ req[r].pc # "idle"
  BY DEF Refuse, Kill, Lose, Inv, Types
<1>3. Types'
  BY <1>1, <1>2 DEF Inv, Types, Reading
<1>4. AboutCreated' /\ ServesItsEvent' /\ RecordedSucceeded'
  BY <1>1, <1>2 DEF Inv, AboutCreated, ServesItsEvent, RecordedSucceeded
<1> QED BY <1>2, <1>3, <1>4, ReadersKeep

LEMMA RivalKeeps ==
    ASSUME Inv, RivalWrite PROVE Inv'
<1>1. Types'
  BY DEF RivalWrite, Inv, Types
<1>2. AboutCreated' /\ ServesItsEvent' /\ RecordedSucceeded'
  BY DEF RivalWrite, Inv, AboutCreated, ServesItsEvent, RecordedSucceeded
<1> QED BY <1>1, <1>2, ReadersKeep DEF RivalWrite

LEMMA AlwaysInv == Spec => []Inv
<1>1. Inv /\ [Next]_vars => Inv'
  <2> SUFFICES ASSUME Inv, [Next]_vars PROVE Inv'
    OBVIOUS
  <2>1. CASE UNCHANGED vars
    BY <2>1 DEF vars, Inv, Types, AboutCreated, ServesItsEvent, RecordedSucceeded,
                CreditedOnce
  <2> QED BY <2>1, CreateKeeps, ConfirmKeeps, EmitKeeps, DeliverKeeps, ReadKeeps,
             RecordKeeps, BookKeeps, RefuseKeeps, RivalKeeps DEF Next, Serve
<1> QED BY InvInit, <1>1, PTL DEF Spec

-----------------------------------------------------------------------------
(* Type correctness; and no request ever tells of, serves or acknowledges  *)
(* an intent that was not created.                                         *)
THEOREM TypeCorrect == Spec => []TypeOK
<1>1. Inv => TypeOK
  BY DEF Inv, Types, AboutCreated, TypeOK, Reading
<1> QED BY <1>1, AlwaysInv, PTL

(* An intent is credited once, exactly when its status says so: confirm,   *)
(* webhook and their retries book only against a free payment reference,   *)
(* and the status moves in the same commit.                                *)
THEOREM CreditedAtMostOnce == Spec => []CreditedOnce
<1>1. Inv => CreditedOnce
  BY DEF Inv
<1> QED BY <1>1, AlwaysInv, PTL

(* A payment event on record has been booked, so ignoring its redelivery   *)
(* loses nothing: it is recorded with the purchase, or by a webhook that   *)
(* read the intent as succeeded.                                           *)
THEOREM RecordedIsBooked == Spec => []RecordedIsCredited
<1>1. Inv => RecordedIsCredited
  BY DEF Inv, Types, RecordedSucceeded, CreditedOnce, RecordedIsCredited
<1> QED BY <1>1, AlwaysInv, PTL
=============================================================================
