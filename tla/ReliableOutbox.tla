--------------------------- MODULE ReliableOutbox ---------------------------
(***************************************************************************)
(* What the outbox promises to the rest of the system, without claims,     *)
(* leases, retries or crashes: only stored messages reach the broker, a    *)
(* message is reported published only after the broker took it, and only   *)
(* an isolated message can be queued a second time.                        *)
(***************************************************************************)
CONSTANT Messages

VARIABLES stage, taken

Init ==
  /\ stage = [m \in Messages |-> "absent"]
  /\ taken = {}

Store(m) ==
  /\ stage[m] = "absent"
  /\ stage' = [stage EXCEPT ![m] = "queued"]
  /\ UNCHANGED taken

\* The broker takes a copy: late copies of settled messages are allowed.
Take(m) ==
  /\ stage[m] # "absent"
  /\ taken' = taken \cup {m}
  /\ UNCHANGED stage

Publish(m) ==
  /\ stage[m] = "queued" /\ m \in taken
  /\ stage' = [stage EXCEPT ![m] = "published"]
  /\ UNCHANGED taken

Isolate(m) ==
  /\ stage[m] = "queued"
  /\ stage' = [stage EXCEPT ![m] = "isolated"]
  /\ UNCHANGED taken

Requeue(m) ==
  /\ stage[m] = "isolated"
  /\ stage' = [stage EXCEPT ![m] = "queued"]
  /\ UNCHANGED taken

Next == \E m \in Messages :
          Store(m) \/ Take(m) \/ Publish(m) \/ Isolate(m) \/ Requeue(m)

vars == <<stage, taken>>
Spec == Init /\ [][Next]_vars
=============================================================================
