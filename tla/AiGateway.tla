------------------------------ MODULE AiGateway ------------------------------
(***************************************************************************)
(* The AI gateway (ai-gateway/src/service.ts): invocations under an        *)
(* operation id, whose outcome, success or failure, is kept for the life   *)
(* of the process and shared by every caller; proposals that expire; and   *)
(* confirmations of them under ids of their own, whose failures are        *)
(* forgotten.  Everything is in the memory of one process; each await is a *)
(* step.  Authorization, budget, adapter and call records are external.    *)
(***************************************************************************)
EXTENDS Naturals

CONSTANTS
  AiOperations,      \* operation ids of invocations
  AiMeanings,        \* fingerprints of what an operation asks
  AiConfirmations,   \* operation ids of confirmations
  AiDecisions,       \* accepted, rejected: the fingerprint of a confirmation
  AiRequests,        \* requests that run concurrently
  ProposalTtl,
  MaxAiTime          \* bound: the clock

ASSUME AiAssumption == ProposalTtl \in Nat \ {0} /\ MaxAiTime \in Nat

VARIABLES
  aiTime,
  operations,      \* operation -> its entry, with the promise's outcome
  proposals,       \* operation -> when its proposal expires; 0: no proposal
  confirmations,   \* confirmation -> its entry
  aiRequests,      \* request -> where it is
  charges,         \* external: operation -> invocations the adapter was asked
  callRecords,     \* external: the safe call records
  confirmed        \* ghost: confirmations told, with the time they were asked

aiVars == <<aiTime, operations, proposals, confirmations, aiRequests,
            charges, callRecords, confirmed>>

NoEntry == [status |-> "absent"]
AtRest == [at |-> "idle"]

AiInit ==
  /\ aiTime = 1
  /\ operations = [o \in AiOperations |-> NoEntry]
  /\ proposals = [o \in AiOperations |-> 0]
  /\ confirmations = [c \in AiConfirmations |-> NoEntry]
  /\ aiRequests = [r \in AiRequests |-> AtRest]
  /\ charges = [o \in AiOperations |-> 0]
  /\ callRecords = {}
  /\ confirmed = {}

AiTick ==
  /\ aiTime < MaxAiTime
  /\ aiTime' = aiTime + 1
  /\ UNCHANGED <<operations, proposals, confirmations, aiRequests, charges,
                 callRecords, confirmed>>

Runs(r, place) == aiRequests[r].at = place
Goes(r, place) == aiRequests' = [aiRequests EXCEPT ![r].at = place]

\* The promise of an entry settles: its owner and every caller that shares it
\* have their answer.
Answered(kind, id) ==
  [q \in AiRequests |->
     IF aiRequests[q].at # "idle" /\ aiRequests[q].kind = kind /\ aiRequests[q].id = id
     THEN AtRest ELSE aiRequests[q]]

-----------------------------------------------------------------------------
(* invoke                                                                  *)

\* A first caller runs the operation; a later one with the same meaning shares
\* its promise while it runs and has its outcome at once afterwards.
Invoke(r, o, m) ==
  /\ Runs(r, "idle")
  /\ IF operations[o].status = "absent"
     THEN /\ operations' = [operations EXCEPT ![o] = [status |-> "running", means |-> m]]
          /\ aiRequests' = [aiRequests EXCEPT ![r] =
                              [at |-> "authorizing", kind |-> "invoke", id |-> o]]
     ELSE /\ operations[o].status = "running" /\ operations[o].means = m
          /\ aiRequests' = [aiRequests EXCEPT ![r] =
                              [at |-> "sharing", kind |-> "invoke", id |-> o]]
          /\ UNCHANGED operations
  /\ UNCHANGED <<aiTime, proposals, confirmations, charges, callRecords, confirmed>>

Authorized(r) ==
  /\ Runs(r, "authorizing") /\ aiRequests[r].kind = "invoke"
  /\ Goes(r, "reserving")
  /\ UNCHANGED <<aiTime, operations, proposals, confirmations, charges, callRecords, confirmed>>

\* The budget is reserved and the adapter is asked.
Reserved(r) ==
  /\ Runs(r, "reserving")
  /\ charges' = [charges EXCEPT ![aiRequests[r].id] = @ + 1]
  /\ Goes(r, "invoking")
  /\ UNCHANGED <<aiTime, operations, proposals, confirmations, callRecords, confirmed>>

\* A valid answer: the proposal's expiry is fixed before the call is recorded.
AdapterAnswers(r) ==
  /\ Runs(r, "invoking")
  /\ aiRequests' = [aiRequests EXCEPT ![r] =
       [at |-> "recording", kind |-> "invoke", id |-> @.id, expires |-> aiTime + ProposalTtl]]
  /\ UNCHANGED <<aiTime, operations, proposals, confirmations, charges, callRecords, confirmed>>

\* The record is stored: the proposal can be confirmed and the outcome is kept.
RecordSuccess(r) ==
  /\ Runs(r, "recording")
  /\ LET o == aiRequests[r].id IN
       /\ callRecords' = callRecords \cup {<<o, "proposal_created">>}
       /\ proposals' = [proposals EXCEPT ![o] = aiRequests[r].expires]
       /\ operations' = [operations EXCEPT ![o].status = "proposed"]
       /\ aiRequests' = Answered("invoke", o)
  /\ UNCHANGED <<aiTime, confirmations, charges, confirmed>>

\* Denied, over budget, a port or the adapter fails, an invalid output, or the
\* record of the success fails (and may be stored all the same).
InvocationFails(r) ==
  /\ aiRequests[r].at \in {"authorizing", "reserving", "invoking", "recording"}
  /\ aiRequests[r].kind = "invoke"
  /\ \/ /\ Runs(r, "recording")
        /\ callRecords' = callRecords \cup {<<aiRequests[r].id, "proposal_created">>}
     \/ UNCHANGED callRecords
  /\ Goes(r, "failing")
  /\ UNCHANGED <<aiTime, operations, proposals, confirmations, charges, confirmed>>

\* A defect: a failed invocation is forgotten, as a failed confirmation is.
RecordFailureForgets(r) ==
  /\ Runs(r, "failing")
  /\ callRecords' = callRecords \cup {<<aiRequests[r].id, "failed">>}
  /\ operations' = [operations EXCEPT ![aiRequests[r].id] = NoEntry]
  /\ aiRequests' = Answered("invoke", aiRequests[r].id)
  /\ UNCHANGED <<aiTime, proposals, confirmations, charges, confirmed>>

\* The failure is recorded, or that fails too; the outcome is kept.
RecordFailure(r) ==
  /\ Runs(r, "failing")
  /\ \/ callRecords' = callRecords \cup {<<aiRequests[r].id, "failed">>}
     \/ UNCHANGED callRecords
  /\ operations' = [operations EXCEPT ![aiRequests[r].id].status = "failed"]
  /\ aiRequests' = Answered("invoke", aiRequests[r].id)
  /\ UNCHANGED <<aiTime, proposals, confirmations, charges, confirmed>>

-----------------------------------------------------------------------------
(* confirm                                                                 *)

\* The proposal and its expiry are looked up before authorization is awaited.
ConfirmProposal(r, c, o, d) ==
  /\ Runs(r, "idle")
  /\ IF confirmations[c].status = "absent"
     THEN /\ aiTime < proposals[o]
          /\ confirmations' = [confirmations EXCEPT ![c] =
               [status |-> "running", of |-> o, decision |-> d, at |-> aiTime]]
          /\ aiRequests' = [aiRequests EXCEPT ![r] =
               [at |-> "authorizing", kind |-> "confirm", id |-> c]]
     ELSE /\ confirmations[c].of = o /\ confirmations[c].decision = d
          /\ confirmations[c].status = "running"
          /\ aiRequests' = [aiRequests EXCEPT ![r] =
               [at |-> "sharing", kind |-> "confirm", id |-> c]]
          /\ UNCHANGED confirmations
  /\ UNCHANGED <<aiTime, operations, proposals, charges, callRecords, confirmed>>

Confirmed(r) ==
  /\ Runs(r, "authorizing") /\ aiRequests[r].kind = "confirm"
  /\ LET c == aiRequests[r].id IN
       /\ confirmations' = [confirmations EXCEPT ![c].status = "confirmed"]
       /\ confirmed' = confirmed \cup
            {[id |-> c, of |-> confirmations[c].of, decision |-> confirmations[c].decision,
              at |-> confirmations[c].at]}
       /\ aiRequests' = Answered("confirm", c)
  /\ UNCHANGED <<aiTime, operations, proposals, charges, callRecords>>

ConfirmationFails(r) ==
  /\ Runs(r, "authorizing") /\ aiRequests[r].kind = "confirm"
  /\ confirmations' = [confirmations EXCEPT ![aiRequests[r].id] = NoEntry]
  /\ aiRequests' = Answered("confirm", aiRequests[r].id)
  /\ UNCHANGED <<aiTime, operations, proposals, charges, callRecords, confirmed>>

AiNext ==
  \/ AiTick
  \/ \E r \in AiRequests :
       \/ \E o \in AiOperations, m \in AiMeanings : Invoke(r, o, m)
       \/ Authorized(r) \/ Reserved(r) \/ AdapterAnswers(r)
       \/ RecordSuccess(r) \/ InvocationFails(r) \/ RecordFailure(r)
       \/ \E c \in AiConfirmations, o \in AiOperations, d \in AiDecisions : ConfirmProposal(r, c, o, d)
       \/ Confirmed(r) \/ ConfirmationFails(r)

AiSpec == AiInit /\ [][AiNext]_aiVars

-----------------------------------------------------------------------------
(* Properties.                                                             *)

\* README: "both success and failure become stable for that operation ID, so
\* an unknown or failed model attempt is never charged or invoked again
\* in-process"; and what is confirmed is a proposal whose call was charged and
\* recorded, that had not expired when it was asked, one decision per
\* confirmation id, whatever authorizations failed in between
\* (service.ts:88-204).
AiIsAccountable ==
  /\ \A o \in AiOperations : charges[o] <= 1
  /\ \A c \in confirmed :
       /\ c.at < proposals[c.of] /\ charges[c.of] = 1
       /\ <<c.of, "proposal_created">> \in callRecords
       /\ operations[c.of].status = "proposed"
  /\ \A b, c \in confirmed : b.id = c.id => b = c

=============================================================================
