------------------------------- MODULE Webhook -------------------------------
(***************************************************************************)
(* The acceptance of a provider's webhook (webhook.ts): the signed time is *)
(* compared with the clock, the signature is verified, then the keys of    *)
(* the event and of the nonce are reserved in the replay store until an    *)
(* expiry computed from the clock that was read at the start.              *)
(*                                                                         *)
(* An envelope is its event id, its nonce and its signed time; the same    *)
(* one may be delivered any number of times, to several processes.  The    *)
(* verifier and the durable replay store are external: the store reserves  *)
(* all keys or none, in one step, and forgets a key once it has expired.   *)
(***************************************************************************)
EXTENDS Naturals

CONSTANTS
  Envelopes,           \* [event, nonce, signedAt], each with a valid signature
  Deliveries,          \* acceptances that run concurrently
  AllowedClockSkew,
  ReplayRetention,
  MaxWebhookTime       \* bound: the clock

\* acceptVerifiedWebhook refuses any other configuration.
ASSUME WebhookAssumption ==
  /\ AllowedClockSkew \in Nat /\ ReplayRetention \in Nat \ {0}
  /\ ReplayRetention >= 2 * AllowedClockSkew
  /\ MaxWebhookTime \in Nat
  /\ \A e \in Envelopes : e.signedAt \in Nat

VARIABLES
  webhookTime,   \* the clock
  deliveries,    \* delivery -> where it is, with the time it read
  reservations,  \* external: key -> the time its reservation expires
  acceptances    \* receipts: the envelope, the time read and the time reserved

webhookVars == <<webhookTime, deliveries, reservations, acceptances>>

NotDelivered == [at |-> "none"]
KeysOf(e) == {<<"event", e.event>>, <<"nonce", e.nonce>>}

WebhookInit ==
  /\ webhookTime = 0
  /\ deliveries = [d \in Deliveries |-> NotDelivered]
  /\ reservations = [k \in UNION {KeysOf(e) : e \in Envelopes} |-> 0]
  /\ acceptances = {}

WebhookTick ==
  /\ webhookTime < MaxWebhookTime
  /\ webhookTime' = webhookTime + 1
  /\ UNCHANGED <<deliveries, reservations, acceptances>>

\* A defect: an envelope signed in the future is let through.
FreshIfNotOld(e, now) == now <= e.signedAt + AllowedClockSkew

\* |now - signedAt| <= allowedClockSkewMs
Fresh(e, now) ==
  /\ now <= e.signedAt + AllowedClockSkew
  /\ e.signedAt <= now + AllowedClockSkew

Deliver(d, e) ==
  /\ deliveries[d].at = "none"
  /\ Fresh(e, webhookTime)
  /\ deliveries' = [deliveries EXCEPT ![d] =
                      [at |-> "verifying", envelope |-> e, now |-> webhookTime]]
  /\ UNCHANGED <<webhookTime, reservations, acceptances>>

\* The verifier answers; an invalid signature or a failure of it ends the call.
Verified(d) ==
  /\ deliveries[d].at = "verifying"
  /\ deliveries' = [deliveries EXCEPT ![d].at = "reserving"]
  /\ UNCHANGED <<webhookTime, reservations, acceptances>>

Refuse(d) ==
  /\ deliveries[d].at = "verifying"
  /\ deliveries' = [deliveries EXCEPT ![d] = NotDelivered]
  /\ UNCHANGED <<webhookTime, reservations, acceptances>>

\* A key is free once its reservation has expired; zero is "never reserved".
Free(k) == reservations[k] = 0 \/ reservations[k] < webhookTime

ExpiryOf(d) == deliveries[d].now + ReplayRetention

ReserveKeys(d) ==
  reservations' = [k \in DOMAIN reservations |->
    IF k \in KeysOf(deliveries[d].envelope) THEN ExpiryOf(d) ELSE reservations[k]]

\* Accepted, or reserved with the answer lost: upstream_unavailable.
Reserve(d) ==
  /\ deliveries[d].at = "reserving"
  /\ \A k \in KeysOf(deliveries[d].envelope) : Free(k)
  /\ ReserveKeys(d)
  /\ \/ acceptances' = acceptances \cup
          {[envelope |-> deliveries[d].envelope, now |-> deliveries[d].now,
            reserved |-> webhookTime]}
     \/ UNCHANGED acceptances
  /\ deliveries' = [deliveries EXCEPT ![d] = NotDelivered]
  /\ UNCHANGED webhookTime

\* replay_detected, or the store cannot be reached.
NotReserved(d) ==
  /\ deliveries[d].at = "reserving"
  /\ deliveries' = [deliveries EXCEPT ![d] = NotDelivered]
  /\ UNCHANGED <<webhookTime, reservations, acceptances>>

WebhookNext ==
  \/ WebhookTick
  \/ \E d \in Deliveries :
       \/ \E e \in Envelopes : Deliver(d, e)
       \/ Verified(d) \/ Refuse(d) \/ Reserve(d) \/ NotReserved(d)

WebhookSpec == WebhookInit /\ [][WebhookNext]_webhookVars

-----------------------------------------------------------------------------
(* Properties.                                                             *)

\* What the retention covers (webhook.test.ts:138, "requires replay retention to
\* cover the full accepted signature window"): the same envelope is accepted
\* twice only when verifying the later delivery took longer than the retention exceeds
\* twice the skew (webhook.ts:60-87, 116-140).
ReplayNeedsASlowVerifier ==
  \A a, b \in acceptances :
    a # b /\ a.envelope = b.envelope /\ a.reserved <= b.reserved
    => b.reserved - b.now > ReplayRetention - 2 * AllowedClockSkew

=============================================================================
