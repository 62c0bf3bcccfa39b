----------------------------- MODULE FormSchema -----------------------------
(***************************************************************************)
(* The form registry (form-schema/service.ts over postgres-store.ts): the  *)
(* draft and the releases of one form definition.  As in the configuration *)
(* center a command is one transaction under the advisory locks of its     *)
(* operation and of the definition, with a receipt for its replay; but a   *)
(* publication computes the digest of the release from the draft it read   *)
(* before the transaction.                                                 *)
(*                                                                         *)
(* Contents are members of a set, a digest is the content it was taken of. *)
(* validateSubmission and getRelease only read one release.                *)
(***************************************************************************)
EXTENDS Naturals, Sequences

CONSTANTS
  FormOperations,     \* operation identities
  FormCommandsOf,     \* identity -> the commands that are sent under it
  FormCallers         \* requests that run concurrently

ASSUME FormSchemaAssumption ==
  \A o \in FormOperations : \A c \in FormCommandsOf[o] :
    /\ c.kind \in {"save", "publish", "active"}
    /\ c.kind = "save" => c.expected \in Nat
    /\ c.kind = "publish" => c.expected \in Nat \ {0}
    /\ c.kind = "active" => c.release \in Nat \ {0} /\ c.active \in BOOLEAN

VARIABLES
  drafts,         \* the draft's revisions so far; the last one is the draft
  formReleases,   \* the releases in order: content, digest, active
  formReceipts,   \* operation receipts
  formCalls,      \* caller -> where its request is
  formTold,       \* ghost: <<operation, command>> answered with success
  hurried         \* ghost: releases whose draft was not there when it was read

formVars == <<drafts, formReleases, formReceipts, formCalls, formTold, hurried>>
formFacts == <<drafts, formReleases, formReceipts, hurried>>

NoFormCall == [at |-> "idle"]

FormInit ==
  /\ drafts = <<>>
  /\ formReleases = <<>>
  /\ formReceipts = {}
  /\ formCalls = [r \in FormCallers |-> NoFormCall]
  /\ formTold = {}
  /\ hurried = {}

FormAt(r, place) == formCalls[r].at = place
FormCommand(r) == formCalls[r].command
FormGoes(r, place) == formCalls' = [formCalls EXCEPT ![r].at = place]
FormReceiptsOf(o) == {p \in formReceipts : p.operation = o}

-----------------------------------------------------------------------------
(* A request.                                                              *)

\* What the service reads before the transaction: a draft, or the release.
FormReadBefore(c) ==
  CASE c.kind = "save" -> c.expected = 0 \/ drafts # <<>>
    [] c.kind = "publish" -> drafts # <<>>
    [] c.kind = "active" -> c.release \in DOMAIN formReleases

\* Authorized, and the attempted fact audited; the digest is of the draft of
\* now.  A request that is refused until here has changed nothing.
SubmitForm(r, o, c) ==
  /\ FormAt(r, "idle")
  /\ FormReadBefore(c)
  /\ formCalls' = [formCalls EXCEPT ![r] =
       [at |-> "submitted", operation |-> o, command |-> c, read |-> Len(drafts)]]
  /\ UNCHANGED <<formFacts, formTold>>

\* The lock of the operation, and its receipt.
BeginForm(r) ==
  /\ FormAt(r, "submitted")
  /\ LET o == formCalls[r].operation IN
       /\ \A q \in FormCallers :
            formCalls[q].at \in {"locked", "checked"} => formCalls[q].operation # o
       /\ FormGoes(r,
            IF FormReceiptsOf(o) = {} THEN "locked"
            ELSE IF \E p \in FormReceiptsOf(o) : p.command = FormCommand(r)
            THEN "stored" ELSE "failing")
  /\ UNCHANGED <<formFacts, formTold>>

\* A defect: whatever draft is there is published.
PassesAnyDraft(c) ==
  CASE c.kind = "save" -> Len(drafts) = c.expected
    [] c.kind = "publish" -> drafts # <<>>
    [] c.kind = "active" -> c.release \in DOMAIN formReleases

PassesForm(c) ==
  CASE c.kind \in {"save", "publish"} -> Len(drafts) = c.expected
    [] c.kind = "active" -> c.release \in DOMAIN formReleases

\* The lock of the definition, and what the statements verify under it.
CheckForm(r) ==
  /\ FormAt(r, "locked")
  /\ \A q \in FormCallers : ~FormAt(q, "checked")
  /\ FormGoes(r, IF PassesForm(FormCommand(r)) THEN "checked" ELSE "failing")
  /\ UNCHANGED <<formFacts, formTold>>

\* The draft, the release or its status, the event and the receipt.
StoresForm(r) ==
  LET c == FormCommand(r) IN
    /\ drafts' = IF c.kind = "save" THEN Append(drafts, c.content) ELSE drafts
    /\ formReleases' =
         CASE c.kind = "save" -> formReleases
           [] c.kind = "publish" ->
                Append(formReleases, [content |-> drafts[Len(drafts)],
                  digest |-> drafts[formCalls[r].read], active |-> TRUE])
           [] c.kind = "active" -> [formReleases EXCEPT ![c.release].active = c.active]
    /\ formReceipts' = formReceipts \cup {[operation |-> formCalls[r].operation, command |-> c]}
    /\ hurried' = IF c.kind = "publish" /\ formCalls[r].read < c.expected
                  THEN hurried \cup {Len(formReleases) + 1} ELSE hurried

CommitForm(r) ==
  /\ FormAt(r, "checked")
  /\ StoresForm(r)
  /\ FormGoes(r, "stored")
  /\ UNCHANGED formTold

\* The transaction fails, or its answer is lost after it was committed.
CommitFormFails(r) ==
  /\ formCalls[r].at \in {"submitted", "locked", "checked"}
  /\ \/ FormAt(r, "checked") /\ StoresForm(r)
     \/ UNCHANGED formFacts
  /\ FormGoes(r, "failing")
  /\ UNCHANGED formTold

\* The failed fact is audited, and the caller gets the error.
FailForm(r) ==
  /\ FormAt(r, "failing")
  /\ formCalls' = [formCalls EXCEPT ![r] = NoFormCall]
  /\ UNCHANGED <<formFacts, formTold>>

\* The succeeded fact is audited and the result returned, or that audit fails.
FinishForm(r) ==
  /\ FormAt(r, "stored")
  /\ formTold' \in {formTold, formTold \cup
       {[operation |-> formCalls[r].operation, command |-> FormCommand(r)]}}
  /\ formCalls' = [formCalls EXCEPT ![r] = NoFormCall]
  /\ UNCHANGED formFacts

FormNext ==
  \E r \in FormCallers :
    \/ \E o \in FormOperations : \E c \in FormCommandsOf[o] : SubmitForm(r, o, c)
    \/ BeginForm(r) \/ CheckForm(r) \/ CommitForm(r)
    \/ CommitFormFails(r) \/ FailForm(r) \/ FinishForm(r)

FormSpec == FormInit /\ [][FormNext]_formVars

-----------------------------------------------------------------------------
(* Properties.                                                             *)

\* A release is told by its digest, unless its publication was sent before the
\* draft it names was saved (service.ts:86); every command was applied to what
\* it expected, so drafts and releases count the commands of the receipts; and
\* success is told only of what was applied (postgres-store.ts:45-72).
FormsAreExact ==
  /\ \A i \in DOMAIN formReleases :
       formReleases[i].digest # formReleases[i].content => i \in hurried
  /\ \A p, q \in formReceipts :
       /\ p.operation = q.operation => p = q
       /\ p.command.kind = "save" /\ q.command.kind = "save"
            /\ p.command.expected = q.command.expected => p = q
  /\ \A p \in formReceipts : p.command.kind = "publish" =>
       \E i \in DOMAIN formReleases, n \in DOMAIN drafts :
         n = p.command.expected /\ formReleases[i].content = drafts[n]
  /\ formTold \subseteq formReceipts

=============================================================================
