-------------------------- MODULE RabbitConnections --------------------------
(***************************************************************************)
(* How the worker gets and gives back a connection to RabbitMQ             *)
(* (rabbit-adapter.ts: acquireModel, abortable, cleanupFailedAcquisition,  *)
(* the three factories and closeResources).                                *)
(*                                                                         *)
(* The broker and amqplib are external: an answer may be late, fail or     *)
(* never come, a connection or a channel may be lost and the connection    *)
(* blocked at any time.  The start and each close have a signal that may   *)
(* be aborted at any time.  What the code does between two answers is one  *)
(* step.  WorkerResources knows this as a connection that is acquired,     *)
(* given up, closed.                                                       *)
(***************************************************************************)
EXTENDS Naturals

Kinds == {"probe", "publisher", "consumer"}

VARIABLES
  adapterKind,
  place,          \* the factory: connecting, channels, setup, cleaning, held or failed
  startAborted,
  model,          \* the connection: pending, open, closing, closed, lost or refused
  channels,       \* channels acquired
  usable,         \* what the listeners and close() make of open and blocked
  blocked,
  closer,         \* closeResources: none, channel, model, failing, done, failed
  closeAborted

connectionVars == <<adapterKind, place, startAborted, model, channels, usable, blocked,
                    closer, closeAborted>>
connectionStart == <<adapterKind, startAborted>>
connectionClose == <<closer, closeAborted>>

ConnectionInit ==
  /\ adapterKind \in Kinds
  /\ place = "connecting" /\ startAborted = FALSE /\ model = "pending" /\ channels = 0
  /\ usable = TRUE /\ blocked = FALSE
  /\ closer = "none" /\ closeAborted = FALSE

\* model.close() is called.
ModelAskedToClose == model' = IF model = "open" THEN "closing" ELSE model

-----------------------------------------------------------------------------
(* Acquisition.                                                            *)

Connects ==
  /\ place = "connecting" /\ model = "pending"
  /\ model' = "open" /\ place' = "channels"
  /\ UNCHANGED <<connectionStart, channels, usable, blocked, connectionClose>>

ConnectionRefused ==
  /\ model = "pending" /\ model' = "refused"
  /\ place' = IF place = "connecting" THEN "failed" ELSE place
  /\ UNCHANGED <<connectionStart, channels, usable, blocked, connectionClose>>

ChannelsNeeded == IF adapterKind = "consumer" THEN 2 ELSE 1

ChannelOpens ==
  /\ place = "channels" /\ model = "open"
  /\ channels' = channels + 1
  /\ place' = IF channels' < ChannelsNeeded THEN "channels"
              ELSE IF adapterKind = "consumer" THEN "setup" ELSE "held"
  /\ UNCHANGED <<connectionStart, model, usable, blocked, connectionClose>>

\* prefetch and assertConsumerTopology.
SetupEnds ==
  /\ place = "setup" /\ model = "open"
  /\ place' = "held"
  /\ UNCHANGED <<connectionStart, model, channels, usable, blocked, connectionClose>>

\* A channel or the topology is refused, or the connection went: all is closed.
AcquisitionFails ==
  /\ place \in {"channels", "setup"}
  /\ place' = "cleaning" /\ usable' = FALSE
  /\ ModelAskedToClose
  /\ UNCHANGED <<connectionStart, channels, blocked, connectionClose>>

GivenUp ==
  /\ place = "cleaning" /\ model # "closing"
  /\ place' = "failed"
  /\ UNCHANGED <<connectionStart, model, channels, usable, blocked, connectionClose>>

\* The abort wins every race: of the connector, of a channel, of the topology, in
\* which case all is closed, and of the clean-up; a factory that returned is over it.
AbortStart ==
  /\ ~startAborted /\ startAborted' = TRUE
  /\ place' = IF place = "held" THEN "held" ELSE "failed"
  /\ IF place \in {"channels", "setup"}
     THEN ModelAskedToClose /\ usable' = FALSE
     ELSE UNCHANGED <<model, usable>>
  /\ UNCHANGED <<adapterKind, channels, blocked, connectionClose>>

\* A defect: a connection that comes after the abort is nobody's.
LateConnectionKept ==
  /\ place = "failed" /\ model = "pending"
  /\ model' = "open"
  /\ UNCHANGED <<connectionStart, place, channels, usable, blocked, connectionClose>>

\* A connection that comes after the abort is closed.
LateConnection ==
  /\ place = "failed" /\ model = "pending"
  /\ model' = "closing"
  /\ UNCHANGED <<connectionStart, place, channels, usable, blocked, connectionClose>>

-----------------------------------------------------------------------------
(* The broker.                                                             *)

\* The connection goes, with or without an error; it may also be the answer to a close
\* that fails.  Whoever waits for the model's close is answered.
ConnectionLost ==
  /\ model \in {"open", "closing"} /\ model' = "lost"
  /\ usable' = FALSE
  /\ closer' = IF closer \in {"model", "failing"} THEN "failed" ELSE closer
  /\ UNCHANGED <<connectionStart, place, channels, blocked, closeAborted>>

ChannelLost ==
  /\ place = "held" /\ model = "open" /\ usable' = FALSE
  /\ UNCHANGED <<connectionStart, place, model, channels, blocked, connectionClose>>

BlocksOrUnblocks ==
  /\ model = "open" /\ blocked' = ~blocked
  /\ UNCHANGED <<connectionStart, place, model, channels, usable, connectionClose>>

ModelCloses ==
  /\ model = "closing" /\ model' = "closed"
  /\ usable' = FALSE
  /\ closer' = CASE closer = "model"   -> "done"
                 [] closer = "failing" -> "failed"
                 [] OTHER              -> closer
  /\ UNCHANGED <<connectionStart, place, channels, blocked, closeAborted>>

-----------------------------------------------------------------------------
(* closeResources.                                                         *)

\* A consumer's drain is one, for all who ask; others may try again with a new signal.
Close ==
  /\ place = "held"
  /\ closer \in IF adapterKind = "consumer" THEN {"none"} ELSE {"none", "failed"}
  /\ closer' = "channel" /\ closeAborted' = FALSE
  /\ usable' = FALSE
  /\ UNCHANGED <<connectionStart, place, model, channels, blocked>>

\* The channel has answered its close, or failed it; the model is closed after it.  A
\* model that is closing or gone refuses.
ChannelCloses ==
  /\ closer = "channel"
  /\ ModelAskedToClose
  /\ \E next \in {"model", "failing"} :
       closer' = IF model = "open" THEN next ELSE "failed"
  /\ UNCHANGED <<connectionStart, place, channels, usable, blocked, closeAborted>>

\* The abort ends the wait for the channel and, the model being asked all the same,
\* the wait for the model.
AbortClose ==
  /\ closer \in {"channel", "model", "failing"} /\ closer' = "failed"
  /\ closeAborted' = TRUE
  /\ IF closer = "channel" THEN ModelAskedToClose ELSE UNCHANGED model
  /\ UNCHANGED <<connectionStart, place, channels, usable, blocked>>

ConnectionNext ==
  \/ Connects \/ ConnectionRefused \/ ChannelOpens \/ SetupEnds \/ AcquisitionFails
  \/ GivenUp \/ AbortStart \/ LateConnection
  \/ ConnectionLost \/ ChannelLost \/ BlocksOrUnblocks \/ ModelCloses
  \/ Close \/ ChannelCloses \/ AbortClose

ConnectionSpec == ConnectionInit /\ [][ConnectionNext]_connectionVars

-----------------------------------------------------------------------------
(* Properties.                                                             *)

AdapterHealthy == place = "held" /\ usable /\ ~blocked

\* "It must not leave a model without an owner merely because cancellation won the
\* race" (rabbit-adapter.ts:175-176): an open connection is in the hands of its factory,
\* or of a caller whose close has not ended; every close that ended, well, badly or
\* aborted, has at least asked the connection to close, and said so of none it did
\* not; and an adapter that calls itself healthy has what it needs (231, 244, 362).
ConnectionsAreOwned ==
  /\ model = "open" => \/ place \in {"channels", "setup"}
                       \/ place = "held" /\ closer \in {"none", "channel"}
  /\ closer = "done" => model = "closed"
  /\ AdapterHealthy => model = "open" /\ closer = "none" /\ channels = ChannelsNeeded

=============================================================================
