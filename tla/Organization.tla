----------------------------- MODULE Organization -----------------------------
(***************************************************************************)
(* The organization's effective-dated facts: people, employments, units    *)
(* and their placements in the hierarchy, positions, assignments, and the  *)
(* associations of a sign-in subject with a person.  A command             *)
(* (service.ts) checks what it read, then commits under its operation      *)
(* receipt (postgres-store.ts); the triggers of the migration take an      *)
(* advisory lock and check again, and hold it until the commit.  A subject *)
(* is resolved to its workforce context in several reads, between which    *)
(* facts are closed and created.                                           *)
(*                                                                         *)
(* An interval is [from, to) with to = Forever when it is open.  Ids are   *)
(* unique across the tables.                                               *)
(***************************************************************************)
EXTENDS Naturals, FiniteSets

CONSTANTS
  OrgUnits,          \* units of the hierarchy
  OrgSubjects,       \* sign-in subjects
  OrgOperations,     \* operation ids
  OrgCommandsOf,     \* operation -> the commands a caller may send under it
  OrgStories,        \* bound: sets of operations that are asked for together
  OrgCallers,        \* commands that run concurrently
  LastTime           \* bound: times are 0..LastTime

Forever == LastTime + 1
NoParent == "root"
OrgTimes == 0..LastTime

Closable == {"assignment", "employment", "placement", "association"}
FactKinds == Closable \cup {"person", "unit", "position", "close"}
Dated(row) == row.kind # "person"

\* The fields a command of a kind has besides its kind and its id.
OrgFields(kind) ==
  CASE kind = "person" -> {}
    [] kind = "unit" -> {"placement", "parent", "from", "to"}
    [] kind = "placement" -> {"unit", "parent", "from", "to"}
    [] kind = "position" -> {"unit", "from", "to"}
    [] kind = "employment" -> {"person", "from", "to"}
    [] kind = "assignment" -> {"person", "employment", "unit", "position", "from", "to"}
    [] kind = "association" -> {"subject", "person", "from", "to"}
    [] kind = "close" -> {"closes", "to"}

\* Commands are records of those fields, about finitely many units, and requireInterval
\* leaves no interval empty.
ASSUME OrgAssumption ==
  /\ LastTime \in Nat
  /\ IsFiniteSet(OrgUnits)
  /\ OrgStories \subseteq SUBSET OrgOperations
  /\ \A o \in OrgOperations : \A m \in OrgCommandsOf[o] :
       /\ m = [f \in DOMAIN m |-> m[f]]
       /\ m.kind \in FactKinds /\ {"kind", "id"} \cup OrgFields(m.kind) \subseteq DOMAIN m
       /\ m.kind = "unit" => m.id \in OrgUnits
       /\ m.kind = "placement" => m.unit \in OrgUnits
       /\ m.kind \in {"unit", "placement"} => m.parent \in OrgUnits \cup {NoParent}
       /\ m.kind = "close" => m.closes \in Closable /\ m.to \in OrgTimes
       /\ m.kind \notin {"person", "close"} =>
            m.from \in OrgTimes /\ m.to \in OrgTimes \cup {Forever} /\ m.from < m.to

VARIABLES
  orgFacts,      \* committed rows: id -> row
  orgReceipts,   \* committed receipts: operation -> the command it was for
  orgLocks,      \* advisory locks held: lock -> caller
  orgCalls,      \* caller -> where its command is
  orgReading     \* the workforce context being resolved; bound: one at a time

orgVars == <<orgFacts, orgReceipts, orgLocks, orgCalls, orgReading>>

OrgIdle == [at |-> "idle"]

\* What is new, and of everything else what there was.
Overlaid(new, old) ==
  [x \in DOMAIN new \cup DOMAIN old |-> IF x \in DOMAIN new THEN new[x] ELSE old[x]]

OrgInit ==
  /\ orgFacts = [i \in {} |-> <<>>]
  /\ orgReceipts = [o \in {} |-> <<>>]
  /\ orgLocks = [l \in {} |-> <<>>]
  /\ orgCalls = [c \in OrgCallers |-> OrgIdle]
  /\ orgReading = OrgIdle

-----------------------------------------------------------------------------
(* Effective facts.                                                        *)

ActiveAt(row, t) == row.from <= t /\ t < row.to
Overlapping(a, b) == a.from < b.to /\ b.from < a.to
Contains(outer, inner) == outer.from <= inner.from /\ inner.to <= outer.to

RowsOf(kind) == {i \in DOMAIN orgFacts : orgFacts[i].kind = kind}
OrgHas(kind, id) == id \in RowsOf(kind)
InForce(kind, t) == {i \in RowsOf(kind) : ActiveAt(orgFacts[i], t)}

ParentsAt(t) ==
  {<<orgFacts[i].unit, orgFacts[i].parent>> : i \in
     {p \in InForce("placement", t) : orgFacts[p].parent # NoParent}}

\* The units above one, however far, under the given parent pairs.
AncestorsIn(pairs, unit) ==
  LET reach[n \in 0..Cardinality(OrgUnits)] ==
        IF n = 0 THEN {p[2] : p \in {q \in pairs : q[1] = unit}}
        ELSE reach[n - 1] \cup {p[2] : p \in {q \in pairs : q[1] \in reach[n - 1]}}
  IN reach[Cardinality(OrgUnits)]

\* When a placement begins, and when another one begins while it lasts.
Checkpoints(row) ==
  {row.from} \cup
  {orgFacts[i].from : i \in {p \in RowsOf("placement") :
     row.from < orgFacts[p].from /\ orgFacts[p].from < row.to}}

ClosesCycle(row) ==
  /\ row.parent # NoParent
  /\ \E t \in Checkpoints(row) :
       row.unit \in {row.parent} \cup AncestorsIn(ParentsAt(t), row.parent)

\* What the triggers refuse; a closed row is checked like a new one, under its
\* own id.
Conflicts(id, row) ==
  \E p \in RowsOf(row.kind) \ {id} :
    /\ Overlapping(orgFacts[p], row)
    /\ IF row.kind = "placement" THEN orgFacts[p].unit = row.unit
       ELSE orgFacts[p].subject = row.subject \/ orgFacts[p].person = row.person

Refuses(id, row) ==
  CASE row.kind = "placement" -> Conflicts(id, row) \/ ClosesCycle(row)
    [] row.kind = "association" -> Conflicts(id, row)
    [] OTHER -> FALSE

\* The triggers' advisory locks: one for the hierarchy, one for the subject
\* and one for the person of an association.
LocksFor(row) ==
  CASE row.kind = "placement" -> {<<"hierarchy", NoParent>>}
    [] row.kind = "association" -> {<<"subject", row.subject>>, <<"person", row.person>>}
    [] OTHER -> {}

-----------------------------------------------------------------------------
(* What the service checks on what it read.                                *)

CallIs(c, place) == orgCalls[c].at = place

EndedCall(c) == orgCalls' = [orgCalls EXCEPT ![c] = OrgIdle]

\* A unit on the way up: in force, and with one placement.
OnPath(unit, t) ==
  /\ unit \in InForce("unit", t)
  /\ Cardinality({p \in InForce("placement", t) : orgFacts[p].unit = unit}) = 1

\* At every checkpoint the parent and all above it lead to the root, and the
\* unit is not among them.
PathToRoot(row) ==
  /\ ~ClosesCycle(row)
  /\ \A t \in Checkpoints(row) :
       \A u \in {row.parent} \cup AncestorsIn(ParentsAt(t), row.parent) : OnPath(u, t)

FitsIn(kind, id, m) == OrgHas(kind, id) /\ Contains(orgFacts[id], m)

FitsUnderParent(m, unit) ==
  m.parent # NoParent =>
    /\ FitsIn("unit", m.parent, m)
    /\ PathToRoot([unit |-> unit, parent |-> m.parent, from |-> m.from, to |-> m.to])

AssignmentFits(m) ==
  /\ FitsIn("employment", m.employment, m) /\ orgFacts[m.employment].person = m.person
  /\ FitsIn("unit", m.unit, m)
  /\ FitsIn("position", m.position, m) /\ orgFacts[m.position].unit = m.unit

ClosingFits(m) ==
  /\ OrgHas(m.closes, m.id)
  /\ orgFacts[m.id].from < m.to
  /\ orgFacts[m.id].to \in {Forever, m.to}

ServiceAccepts(m) ==
  CASE m.kind = "person" -> TRUE
    [] m.kind \in {"employment", "association"} -> OrgHas("person", m.person)
    [] m.kind = "unit" -> FitsUnderParent(m, m.id)
    [] m.kind = "placement" -> FitsIn("unit", m.unit, m) /\ FitsUnderParent(m, m.unit)
    [] m.kind = "position" -> FitsIn("unit", m.unit, m)
    [] m.kind = "assignment" -> AssignmentFits(m)
    [] m.kind = "close" -> ClosingFits(m)

-----------------------------------------------------------------------------
(* A command: the service, then one transaction.                           *)

OperationsUsed ==
  DOMAIN orgReceipts \cup {orgCalls[c].op : c \in {d \in OrgCallers : ~CallIs(d, "idle")}}

BeginCommand(c, o, m) ==
  /\ CallIs(c, "idle")
  /\ \E story \in OrgStories : OperationsUsed \cup {o} \subseteq story
  /\ ServiceAccepts(m)
  /\ orgCalls' = [orgCalls EXCEPT ![c] = [at |-> "claiming", op |-> o, command |-> m]]
  /\ UNCHANGED <<orgFacts, orgReceipts, orgLocks, orgReading>>

\* A defect: a receipt that is there is written over.
ClaimOver(c) ==
  /\ CallIs(c, "claiming")
  /\ \A d \in OrgCallers : orgCalls[d].at \in {"writing", "committing"} =>
       orgCalls[d].op # orgCalls[c].op
  /\ orgCalls' = [orgCalls EXCEPT ![c].at = "writing"]
  /\ UNCHANGED <<orgFacts, orgReceipts, orgLocks, orgReading>>

\* The insert of the receipt waits for an uncommitted one of the same id; one
\* that is there is a replay, or a conflict when it was for something else.
ClaimReceipt(c) ==
  /\ CallIs(c, "claiming")
  /\ \A d \in OrgCallers : orgCalls[d].at \in {"writing", "committing"} =>
       orgCalls[d].op # orgCalls[c].op
  /\ IF orgCalls[c].op \in DOMAIN orgReceipts THEN EndedCall(c)
     ELSE orgCalls' = [orgCalls EXCEPT ![c].at = "writing"]
  /\ UNCHANGED <<orgFacts, orgReceipts, orgLocks, orgReading>>

FirstPlacement(m) ==
  [kind |-> "placement", unit |-> m.id, parent |-> m.parent, from |-> m.from, to |-> m.to]

IdsOf(m) == IF m.kind = "unit" THEN {m.id, m.placement} ELSE {m.id}

\* The row a command leaves at an id.
WrittenAt(m, i) ==
  CASE m.kind = "close" -> [orgFacts[m.id] EXCEPT !.to = m.to]
    [] m.kind = "unit" /\ i = m.id -> [kind |-> "unit", from |-> m.from, to |-> m.to]
    [] m.kind = "unit" /\ i # m.id -> FirstPlacement(m)
    [] OTHER -> m

Written(m) == [i \in IdsOf(m) |-> WrittenAt(m, i)]

\* An id is inserted once; the update of a close matches only an open row, or
\* one closed at that time.
RowMatches(m) ==
  IF m.kind = "close" THEN ClosingFits(m)
  ELSE IdsOf(m) \cap DOMAIN orgFacts = {}

\* The statements wait for the rows of an uncommitted transaction; a trigger
\* takes its locks, then checks against what is committed by then.
WriteRows(c) ==
  /\ CallIs(c, "writing")
  /\ \A d \in OrgCallers \ {c} : CallIs(d, "committing") =>
       IdsOf(orgCalls[d].command) \cap IdsOf(orgCalls[c].command) = {}
  /\ RowMatches(orgCalls[c].command)
  /\ LET rows == Written(orgCalls[c].command)
         locks == UNION {LocksFor(rows[i]) : i \in DOMAIN rows}
     IN /\ locks \cap DOMAIN orgLocks = {}
        /\ \A i \in DOMAIN rows : ~Refuses(i, rows[i])
        /\ orgLocks' = Overlaid([l \in locks |-> c], orgLocks)
  /\ orgCalls' = [orgCalls EXCEPT ![c].at = "committing"]
  /\ UNCHANGED <<orgFacts, orgReceipts, orgReading>>

ReleaseLocks(c) ==
  orgLocks' = [l \in {k \in DOMAIN orgLocks : orgLocks[k] # c} |-> orgLocks[l]]

\* A conflict, or a failure: nothing of the transaction remains.
RollBack(c) ==
  /\ orgCalls[c].at \in {"writing", "committing"}
  /\ ReleaseLocks(c)
  /\ EndedCall(c)
  /\ UNCHANGED <<orgFacts, orgReceipts, orgReading>>

\* The rows, the receipt and the audit and event intents become visible at once
\* and the locks are free; whether the caller hears of it makes no difference.
CommitCommand(c) ==
  /\ CallIs(c, "committing")
  /\ orgFacts' = Overlaid(Written(orgCalls[c].command), orgFacts)
  /\ orgReceipts' = Overlaid([o \in {orgCalls[c].op} |-> orgCalls[c].command], orgReceipts)
  /\ ReleaseLocks(c)
  /\ EndedCall(c)
  /\ UNCHANGED orgReading

-----------------------------------------------------------------------------
(* resolveWorkforceContext: each step is one of its reads.  A refusal ends *)
(* it; "based" are the facts the answer rests on, "over" those that were   *)
(* already out of force at its time when it began.                         *)

ReadingIs(place) == orgReading.at = place

Stops == orgReading' = OrgIdle
Finds(more, next) ==
  orgReading' = [orgReading EXCEPT !.at = next, !.based = @ \cup more]

AssociationsOf(s, t) == {p \in InForce("association", t) : orgFacts[p].subject = s}

ResolveSubject(s, t) ==
  /\ ReadingIs("idle")
  /\ \E i \in DOMAIN orgFacts :
       /\ AssociationsOf(s, t) = {i}
       /\ orgReading' = [at |-> "associated", time |-> t, person |-> orgFacts[i].person,
            based |-> {i}, left |-> {}, unit |-> NoParent, visited |-> {},
            over |-> {p \in DOMAIN orgFacts : Dated(orgFacts[p]) /\ orgFacts[p].to <= t}]

HeldBy(kind) ==
  {i \in InForce(kind, orgReading.time) : orgFacts[i].person = orgReading.person}

ReadEmployments ==
  /\ ReadingIs("associated")
  /\ IF HeldBy("employment") = {} THEN Stops
     ELSE Finds(HeldBy("employment"), "employed")

\* Assignments under an employment that was read, all or the one asked for.
ReadAssignments ==
  /\ ReadingIs("employed")
  /\ LET under == {i \in HeldBy("assignment") : orgFacts[i].employment \in orgReading.based}
     IN \/ orgReading' = [orgReading EXCEPT !.at = "assigned", !.based = @ \cup under,
                                             !.left = under]
        \/ \E i \in under :
             orgReading' = [orgReading EXCEPT !.at = "assigned", !.based = @ \cup {i},
                                              !.left = {i}]
        \/ Stops

\* The next assignment: its unit and its position must be in force.
CheckAssignment(i) ==
  /\ ReadingIs("assigned") /\ i \in orgReading.left
  /\ IF /\ orgFacts[i].unit \in InForce("unit", orgReading.time)
        /\ orgFacts[i].position \in InForce("position", orgReading.time)
     THEN orgReading' = [orgReading EXCEPT !.at = "climbing", !.left = @ \ {i},
                                           !.unit = orgFacts[i].unit]
     ELSE Stops

\* One unit of the path to the root.
Climb ==
  /\ ReadingIs("climbing")
  /\ LET unit == orgReading.unit
         here == {p \in InForce("placement", orgReading.time) : orgFacts[p].unit = unit}
     IN IF unit \in orgReading.visited \/ ~OnPath(unit, orgReading.time) THEN Stops
        ELSE \E p \in here :
          LET up == orgFacts[p].parent IN
          orgReading' = [orgReading EXCEPT !.based = @ \cup {p},
            !.at = IF up = NoParent THEN "assigned" ELSE "climbing",
            !.unit = up,
            !.visited = IF up = NoParent THEN {} ELSE @ \cup {unit}]

AnswerContext ==
  /\ ReadingIs("assigned") /\ orgReading.left = {}
  /\ Stops

ResolveContext ==
  /\ \/ \E s \in OrgSubjects, t \in OrgTimes : ResolveSubject(s, t)
     \/ ReadEmployments \/ ReadAssignments
     \/ \E i \in DOMAIN orgFacts : CheckAssignment(i)
     \/ Climb \/ AnswerContext
  /\ UNCHANGED <<orgFacts, orgReceipts, orgLocks, orgCalls>>

OrgNext ==
  \/ \E c \in OrgCallers :
       \/ \E o \in OrgOperations : \E m \in OrgCommandsOf[o] : BeginCommand(c, o, m)
       \/ ClaimReceipt(c) \/ WriteRows(c) \/ RollBack(c) \/ CommitCommand(c)
  \/ ResolveContext

OrgSpec == OrgInit /\ [][OrgNext]_orgVars

-----------------------------------------------------------------------------
(* What the store promises, as the memory store of the tests does it: one  *)
(* command at a time, under its receipt.                                   *)

MemoryOverlaps(m) ==
  /\ m.kind = "association"
  /\ \E p \in RowsOf("association") :
       /\ orgFacts[p].subject = m.subject \/ orgFacts[p].person = m.person
       /\ Overlapping(orgFacts[p], m)

MemoryTakes(m) ==
  IF m.kind = "close"
  THEN /\ OrgHas(m.closes, m.id)
       /\ m.to > orgFacts[m.id].from /\ orgFacts[m.id].to \in {Forever, m.to}
  ELSE IdsOf(m) \cap DOMAIN orgFacts = {}

MemoryCommit(o, m) ==
  /\ o \notin DOMAIN orgReceipts
  /\ MemoryTakes(m) /\ ~MemoryOverlaps(m)
  /\ orgFacts' = Overlaid(Written(m), orgFacts)
  /\ orgReceipts' = Overlaid([p \in {o} |-> m], orgReceipts)

-----------------------------------------------------------------------------
(* Properties.                                                             *)

\* ADR-0008, the hierarchy cannot form a cycle, and README, one association
\* per subject and per person: at no time, past or scheduled, whatever
\* commands ran together, were retried or closed what others build on
\* (0000000002_organization_effective_dated_core.sql).
HierarchyIsSound ==
  \A t \in OrgTimes :
    /\ \A u \in OrgUnits : u \notin AncestorsIn(ParentsAt(t), u)
    /\ \A a, b \in InForce("placement", t) : orgFacts[a].unit = orgFacts[b].unit => a = b
    /\ \A a, b \in InForce("association", t) : a # b =>
         orgFacts[a].subject # orgFacts[b].subject /\ orgFacts[a].person # orgFacts[b].person

\* README, state mutation and receipt in one transaction: whatever was
\* committed since, what a receipt says was done is still to be seen
\* (postgres-store.ts commit, #close).
ReceiptsAreBacked ==
  \A o \in DOMAIN orgReceipts :
    LET m == orgReceipts[o] IN
    /\ IdsOf(m) \subseteq DOMAIN orgFacts
    /\ m.kind = "close" => orgFacts[m.id].to = m.to

\* Transfers close facts and create new ones, they never overwrite history:
\* a committed row stays, and only an open end may be closed, once
\* (README; postgres-store.ts close).
HistoryIsKept ==
  [][\A i \in DOMAIN orgFacts :
       /\ i \in DOMAIN orgFacts'
       /\ orgFacts'[i] # orgFacts[i] =>
            /\ orgFacts[i].to = Forever
            /\ orgFacts'[i] = [orgFacts[i] EXCEPT !.to = orgFacts'[i].to]]_orgVars

\* What the tests show of the memory store carries over: whatever runs together
\* in the database, each commit is one of the memory store's, on what was
\* committed before it (memory-store.ts, postgres-store.ts commit).
CommitsLikeMemory ==
  [][<<orgFacts, orgReceipts>>' # <<orgFacts, orgReceipts>> =>
       \E o \in OrgOperations : \E m \in OrgCommandsOf[o] : MemoryCommit(o, m)]_orgVars

BasedOn(kind) == orgReading.based \cap RowsOf(kind)

\* README, an inactive employment or association fails closed: a context that
\* is answered rests on nothing that was already over when it was asked for,
\* every assignment in it is held under an employment in it, and its unit leads
\* to the root (service.ts resolveWorkforceContext), though the facts change
\* between the reads.
ContextsAreEarned ==
  ReadingIs("assigned") /\ orgReading.left = {} =>
    /\ orgReading.based \cap orgReading.over = {}
    /\ BasedOn("employment") # {}
    /\ \A i \in BasedOn("employment") \cup BasedOn("association") :
         orgFacts[i].person = orgReading.person
    /\ \A i \in BasedOn("assignment") :
         /\ orgFacts[i].employment \in BasedOn("employment")
         /\ \E p \in BasedOn("placement") : orgFacts[p].unit = orgFacts[i].unit
    /\ \A p \in BasedOn("placement") : orgFacts[p].parent # NoParent =>
         \E q \in BasedOn("placement") : orgFacts[q].unit = orgFacts[p].parent

\* All of it: the organization at every time, the history it is made of, and the
\* contexts answered from it.
OrganizationIsSound ==
  /\ []HierarchyIsSound /\ []ReceiptsAreBacked /\ []ContextsAreEarned
  /\ HistoryIsKept /\ CommitsLikeMemory

=============================================================================
