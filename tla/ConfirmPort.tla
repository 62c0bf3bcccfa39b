----------------------------- MODULE ConfirmPort -----------------------------
(***************************************************************************)
(* ConfirmPort of apps/worker/src/rabbit-adapter.ts: a confirm channel     *)
(* shared by callers that publish concurrently.  A caller publishes, waits *)
(* for the write buffer to drain when the write filled it, waits for a     *)
(* confirm, and asks whether the broker returned the message.  The port    *)
(* matches confirms and returns with publications, not callers: a caller   *)
(* claims the first publication nobody has claimed, and takes back the     *)
(* first one with its message id that is claimed and confirmed.            *)
(*                                                                         *)
(* The module has no behaviour of its own: its operators are the parts of  *)
(* the steps of RabbitConsumer that run inside the port.                   *)
(***************************************************************************)
EXTENDS Naturals, Sequences, FiniteSets, SequencesExt

CONSTANTS
  Callers,      \* a caller publishes at most once; it names its publication
  MessageOf     \* the message id a caller publishes under: copies share one

VARIABLES
  portOpen,       \* the channel and its connection are open
  blocked,        \* the broker has blocked the connection
  backpressured,  \* the last write filled the buffer
  operations,     \* publications not yet taken back ...
  older,          \* ... in the order of the array: <<o, p>>, o before p
  claims,         \* <<caller, publication>>: who waits for which confirm
  confirmed, returned

port == <<portOpen, blocked, backpressured, operations, older, claims, confirmed, returned>>

PortTypeOK ==
  /\ portOpen \in BOOLEAN /\ blocked \in BOOLEAN /\ backpressured \in BOOLEAN
  /\ operations \in SUBSET Callers /\ older \in SUBSET (operations \X operations)
  /\ claims \in SUBSET (Callers \X Callers)
  /\ confirmed \in SUBSET Callers /\ returned \in SUBSET Callers

PortInit ==
  /\ portOpen = TRUE /\ blocked = FALSE /\ backpressured = FALSE
  /\ operations = {} /\ older = {} /\ claims = {}
  /\ confirmed = {} /\ returned = {}

PortHealthy == portOpen /\ ~blocked

Claimed == {c[2] : c \in claims}
Unclaimed == operations \ Claimed

\* The array: push, splice, and what find() stops at, nothing if nothing fits.
Push(o) ==
  /\ operations' = operations \cup {o}
  /\ older' = older \cup (operations \X {o})
Keep(ops) ==
  /\ operations' = ops
  /\ older' = older \cap (ops \X ops)
First(ops) == {o \in ops : \A p \in ops : <<p, o>> \notin older}

\* Publications that fail with the port: nobody will know if the broker took
\* them.
Uncertain == operations \ confirmed

\* The rejection of a publication nobody waits for.
Unseen == Uncertain \ Claimed

-----------------------------------------------------------------------------

\* publishMandatory: refused while the port is down or full.
Publishable == PortHealthy /\ ~backpressured

\* The write fits the buffer and the caller goes on to waitForConfirms at once.
PublishAndClaim(c) ==
  /\ Push(c)
  /\ claims' = claims \cup {<<c, o>> : o \in IF Unclaimed = {} THEN {c} ELSE First(Unclaimed)}
  /\ UNCHANGED <<portOpen, blocked, backpressured, confirmed, returned>>

\* The write fills the buffer: the caller goes to waitForDrain.
PublishAndFill(c) ==
  /\ Push(c)
  /\ backpressured' = TRUE
  /\ UNCHANGED <<portOpen, blocked, claims, confirmed, returned>>

\* waitForDrain sees the buffer drained.
PortDrained ==
  /\ backpressured' = FALSE
  /\ UNCHANGED <<portOpen, blocked, operations, older, claims, confirmed, returned>>

\* waitForConfirms after a drain.
Claim(c) ==
  /\ claims' = claims \cup {<<c, o>> : o \in First(Unclaimed)}
  /\ UNCHANGED <<portOpen, blocked, backpressured, operations, older, confirmed, returned>>

\* The broker confirms a publication, or returns it first as unroutable.
PortConfirm(o) ==
  /\ portOpen /\ o \in Uncertain
  /\ confirmed' = confirmed \cup {o}
  /\ UNCHANGED <<portOpen, blocked, backpressured, operations, older, claims, returned>>

PortReturn(o) ==
  /\ portOpen /\ o \in Uncertain \ returned
  /\ returned' = returned \cup {o}
  /\ UNCHANGED <<portOpen, blocked, backpressured, operations, older, claims, confirmed>>

\* The broker refuses a publication: the caller that waits for it drops it.
PortNack(o) ==
  /\ portOpen /\ o \in Uncertain
  /\ Keep(operations \ {o})
  /\ UNCHANGED <<portOpen, blocked, backpressured, claims, confirmed, returned>>

\* What takeReturned(message id of c) finds.
Found(c) ==
  First({o \in operations \cap Claimed \cap confirmed : MessageOf[o] = MessageOf[c]})

TakeReturned(c) ==
  /\ Keep(operations \ Found(c))
  /\ UNCHANGED <<portOpen, blocked, backpressured, claims, confirmed, returned>>

\* fail(): every confirm still owed is rejected, and whoever waits for it drops
\* the publication.
PortFails ==
  /\ portOpen' = FALSE
  /\ Keep(operations \cap confirmed)
  /\ UNCHANGED <<blocked, backpressured, claims, confirmed, returned>>

LosesItsConfirm(c) == \E o \in Uncertain : <<c, o>> \in claims
=============================================================================
