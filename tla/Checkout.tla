------------------------------- MODULE Checkout -------------------------------
(***************************************************************************)
(* Buying credits: the checkout, the browser's confirm and the payment     *)
(* provider's webhook of app/api/v1/credits, for the intents of one user.  *)
(*                                                                         *)
(* A request reads the webhook event, the intent and the account in three  *)
(* statements, then books the purchase (CreditLedger's Purchase, kept here *)
(* to the account's version and the rows that carry the intent's payment   *)
(* reference) and commits.  The provider delivers an event until it is     *)
(* acknowledged.                                                           *)
(***************************************************************************)
EXTENDS Naturals

CONSTANTS
    Intents,    \* payment intents of the user
    Events,     \* the provider's external event ids
    Paid,       \* the events whose type is payment.succeeded
    IntentOf,   \* the intent an event is about
    Requests,   \* API requests being served at a time
    NoEvent,    \* what a confirm is about instead
    MaxRivals,  \* bound: other writes of the user's account
    MaxLosses   \* bound: requests killed and answers lost

ASSUME CheckoutAssumption ==
    /\ Intents # {} /\ Paid \subseteq Events
    /\ IntentOf \in [Events -> Intents]
    /\ NoEvent \notin Events
    /\ MaxRivals \in Nat /\ MaxLosses \in Nat

VARIABLES
    intent,    \* payment_intents.status
    credited,  \* PURCHASE rows with the intent's payment_reference
    version,   \* credit_accounts.version
    events,    \* webhook_events
    unacked,   \* events the provider goes on delivering
    req,       \* what each request has read
    told,      \* intents whose confirm answered "succeeded"
    rivals, losses
vars == <<intent, credited, version, events, unacked, req, told, rivals, losses>>

Idle == [pc |-> "idle", intent |-> CHOOSE i \in Intents : TRUE,
         event |-> NoEvent, version |-> 0]

Advance(r, pc) == req' = [req EXCEPT ![r].pc = pc]
End(r)         == req' = [req EXCEPT ![r] = Idle]
Lose           == losses < MaxLosses /\ losses' = losses + 1

(* 200 reaches the provider, or is lost on its way. *)
Acknowledge(e) ==
    \/ unacked' = unacked \ {e} /\ UNCHANGED losses
    \/ e # NoEvent /\ Lose /\ UNCHANGED unacked

-----------------------------------------------------------------------------
(* checkout: the intent of an idempotency key. *)
Create(i) ==
    /\ intent[i] = "none"
    /\ intent' = [intent EXCEPT ![i] = "pending"]
    /\ UNCHANGED <<credited, version, events, unacked, req, told, rivals, losses>>

(* As it would be without the look-up of the intent.                       *)
ConfirmUnknown(r, i) ==
    /\ req[r].pc = "idle"
    /\ told' = told \cup {i}
    /\ UNCHANGED <<intent, credited, version, events, unacked, req, rivals, losses>>

(* confirm_checkout reads the intent: one that succeeded is not booked.    *)
Confirm(r, i) ==
    /\ req[r].pc = "idle" /\ intent[i] # "none"
    /\ IF intent[i] = "succeeded"
       THEN told' = told \cup {i} /\ UNCHANGED req
       ELSE /\ req' = [req EXCEPT ![r] = [pc |-> "account", intent |-> i,
                                          event |-> NoEvent, version |-> 0]]
            /\ UNCHANGED told
    /\ UNCHANGED <<intent, credited, version, events, unacked, rivals, losses>>

(* The provider has something to say about an intent.                      *)
Emit(e) ==
    /\ intent[IntentOf[e]] # "none" /\ e \notin unacked /\ e \notin events
    /\ unacked' = unacked \cup {e}
    /\ UNCHANGED <<intent, credited, version, events, req, told, rivals, losses>>

(* payment_webhook looks the event up: a known one is acknowledged.        *)
Deliver(r, e) ==
    /\ req[r].pc = "idle" /\ e \in unacked
    /\ IF e \in events
       THEN Acknowledge(e) /\ UNCHANGED req
       ELSE /\ req' = [req EXCEPT ![r] = [pc |-> "intent", intent |-> IntentOf[e],
                                          event |-> e, version |-> 0]]
            /\ UNCHANGED <<unacked, losses>>
    /\ UNCHANGED <<intent, credited, version, events, told, rivals>>

(* The webhook's own look at the intent.                                   *)
ReadIntent(r) ==
    /\ req[r].pc = "intent"
    /\ Advance(r, IF req[r].event \in Paid /\ intent[req[r].intent] # "succeeded"
                  THEN "account" ELSE "record")
    /\ UNCHANGED <<intent, credited, version, events, unacked, told, rivals, losses>>

(* purchase: get_or_create_account. *)
ReadAccount(r) ==
    /\ req[r].pc = "account"
    /\ req' = [req EXCEPT ![r].pc = "book", ![r].version = version]
    /\ UNCHANGED <<intent, credited, version, events, unacked, told, rivals, losses>>

(* Nothing to book: the event alone is committed, or is there already, and *)
(* the request fails.                                                      *)
Record(r) ==
    LET e == req[r].event IN
    /\ req[r].pc = "record"
    /\ IF e \notin events
       THEN events' = events \cup {e} /\ Acknowledge(e)
       ELSE UNCHANGED <<events, unacked, losses>>
    /\ End(r)
    /\ UNCHANGED <<intent, credited, version, told, rivals>>

(* As it would be without UNIQUE(payment_reference).                       *)
BookableAgain(r) ==
    /\ version = req[r].version
    /\ req[r].event \notin events

(* The account's version, UNIQUE(payment_reference) and the event's unique *)
(* key: the UPDATE and the flush of _apply.                                *)
Bookable(r) ==
    /\ version = req[r].version
    /\ credited[req[r].intent] = 0
    /\ req[r].event \notin events

(* The purchase, the intent's status and the event are one commit.         *)
Book(r) ==
    LET i == req[r].intent
        e == req[r].event
    IN  /\ req[r].pc = "book" /\ Bookable(r)
        /\ version' = version + 1
        /\ credited' = [credited EXCEPT ![i] = @ + 1]
        /\ intent' = [intent EXCEPT ![i] = "succeeded"]
        /\ IF e = NoEvent
           THEN told' = told \cup {i} /\ UNCHANGED events
           ELSE events' = events \cup {e} /\ UNCHANGED told
        /\ Acknowledge(e)
        /\ End(r)
        /\ UNCHANGED rivals

(* As it would be if the event were committed before it was handled.       *)
RefuseRecorded(r) ==
    LET i == req[r].intent
        e == req[r].event
    IN  /\ req[r].pc = "book" /\ ~Bookable(r)
        /\ IF e = NoEvent
           THEN told' = told \cup {i} /\ UNCHANGED events
           ELSE events' = events \cup {e} /\ UNCHANGED told
        /\ End(r)
        /\ UNCHANGED <<intent, credited, version, unacked, rivals, losses>>

(* As it would be if the webhook took the Conflict for success, as the     *)
(* confirm does.                                                           *)
RefuseAcknowledged(r) ==
    LET i == req[r].intent
        e == req[r].event
    IN  /\ req[r].pc = "book" /\ ~Bookable(r)
        /\ told' = IF e = NoEvent THEN told \cup {i} ELSE told
        /\ unacked' = unacked \ {e}
        /\ End(r)
        /\ UNCHANGED <<intent, credited, version, events, rivals, losses>>

(* Conflict: the webhook fails, to be delivered again, and the confirm     *)
(* answers as if the purchase had been booked by another.                  *)
Refuse(r) ==
    LET i == req[r].intent IN
    /\ req[r].pc = "book" /\ ~Bookable(r)
    /\ told' = IF req[r].event = NoEvent THEN told \cup {i} ELSE told
    /\ End(r)
    /\ UNCHANGED <<intent, credited, version, events, unacked, rivals, losses>>

(* The process serving a request dies: nothing was committed.              *)
Kill(r) ==
    /\ req[r].pc # "idle" /\ Lose /\ End(r)
    /\ UNCHANGED <<intent, credited, version, events, unacked, told, rivals>>

(* reconcile_webhooks marks events, purge_webhook_events deletes them.     *)
Purge(e) ==
    /\ e \in events
    /\ events' = events \ {e}
    /\ UNCHANGED <<intent, credited, version, unacked, req, told, rivals, losses>>

(* A grant, a reserve or a settlement of the same account.                 *)
RivalWrite ==
    /\ rivals < MaxRivals /\ rivals' = rivals + 1
    /\ version' = version + 1
    /\ UNCHANGED <<intent, credited, events, unacked, req, told, losses>>

-----------------------------------------------------------------------------
Init ==
    /\ intent = [i \in Intents |-> "none"] /\ credited = [i \in Intents |-> 0]
    /\ version = 0 /\ events = {} /\ unacked = {}
    /\ req = [r \in Requests |-> Idle]
    /\ told = {} /\ rivals = 0 /\ losses = 0

Serve(r) == ReadIntent(r) \/ ReadAccount(r) \/ Record(r) \/ Book(r) \/ Refuse(r)

Next ==
    \/ \E i \in Intents : Create(i)
    \/ \E r \in Requests, i \in Intents : Confirm(r, i)
    \/ \E e \in Events : Emit(e) \/ Purge(e)
    \/ \E r \in Requests, e \in Events : Deliver(r, e)
    \/ \E r \in Requests : Serve(r) \/ Kill(r)
    \/ RivalWrite

Spec == Init /\ [][Next]_vars

(* The API serves what it has accepted, and the provider gets through again *)
(* and again with an event it has no acknowledgement for.                  *)
Fairness ==
    /\ \A r \in Requests : WF_vars(Serve(r))
    /\ \A e \in Events : SF_vars(\E r \in Requests : Deliver(r, e))

FairSpec == Spec /\ Fairness

-----------------------------------------------------------------------------
(* Only intents that exist are ever reported on.                           *)
TypeOK ==
    /\ intent \in [Intents -> {"none", "pending", "succeeded"}]
    /\ credited \in [Intents -> Nat] /\ version \in Nat
    /\ events \subseteq Events /\ unacked \subseteq Events
    /\ req \in [Requests -> [pc: {"idle", "intent", "account", "record", "book"},
                             intent: Intents, event: Events \cup {NoEvent},
                             version: Nat]]
    /\ told \subseteq {i \in Intents : intent[i] # "none"}
    /\ rivals \in 0..MaxRivals /\ losses \in 0..MaxLosses

(* "A replayed confirm or a race with the webhook can never double-credit":*)
(* an intent is credited once, exactly when its status says so, whichever  *)
(* requests race and although events are purged and delivered again.       *)
CreditedOnce ==
    \A i \in Intents : credited[i] = IF intent[i] = "succeeded" THEN 1 ELSE 0

(* A payment event that is on record has been booked: redelivery would do  *)
(* nothing for one that had not.                                           *)
RecordedIsCredited ==
    \A e \in events \cap Paid : credited[IntentOf[e]] = 1

(* No payment is lost: one the provider reports ends in credits, although  *)
(* requests are refused, killed and answered in vain.                      *)
PaymentIsCredited ==
    \A e \in Paid : e \in unacked ~> credited[IntentOf[e]] = 1

(* The comment in confirm_checkout, "Already booked by a concurrent        *)
(* confirm or the webhook": a user who is told that the payment succeeded  *)
(* has the credits.                                                        *)
ConfirmedIsCredited == \A i \in told : credited[i] = 1
=============================================================================
