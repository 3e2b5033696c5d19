-------------------------- MODULE ExecutionRecords --------------------------
(***************************************************************************)
(* The rows of an AgentExecution and of its append-only event log          *)
(* (app/agent_models.py), the completion gate computed from the log        *)
(* (app/agent_execution.py), and what each execution handler               *)
(* (app/execution_routes.py, app/github_verification.py) makes of a row it *)
(* has loaded.  No state here: AgentExecution runs these as concurrent     *)
(* handlers, ExecutionLedger as atomic steps.                              *)
(***************************************************************************)
EXTENDS Naturals

CONSTANTS
    Handoffs,       \* handoff ids; at most one execution each
    Criteria,       \* indexes of acceptance criteria
    CriteriaOf,     \* the criteria of each handoff's pack, fixed with the pack
    RefKinds,       \* the reference columns in use
    Refs, NoRef,    \* their values, and NULL
    Percents,       \* progress percentages a client reports
    MaxEvents       \* bound: events of one execution

ASSUME CriteriaOfAssumption == CriteriaOf \in [Handoffs -> SUBSET Criteria]
ASSUME RefKindsAssumption == RefKinds \subseteq {"branch_ref", "commit_sha", "pr_url"}
ASSUME NoRefAssumption == NoRef \notin Refs
ASSUME PercentsAssumption == Percents \subseteq 0..100
ASSUME MaxEventsAssumption == MaxEvents \in Nat

-----------------------------------------------------------------------------
TerminalExecutionStates == {"completed", "failed", "cancelled"}

ExecutionStatus == {"absent", "running"} \cup TerminalExecutionStates

RefColumns == [RefKinds -> Refs \cup {NoRef}]

NoRefs == [k \in RefKinds |-> NoRef]

Row == [status: ExecutionStatus, seq: Nat, progress: 0..100, refs: RefColumns]

\* The execution of a handoff that has none yet.
NoRow == [status |-> "absent", seq |-> 0, progress |-> 0, refs |-> NoRefs]

EventType ==
    {"started", "progress", "technical_refs", "external_verification",
     "criterion_evidence", "status", "note"}

\* A "note" is an event of the executor, worker or Git change routes, which
\* record what they did in the same log.  `about` is the set with the criterion
\* an evidence event is about, empty for other events; `says` its verdict, or the
\* status a status event announces; `refs` the references a technical_refs or
\* verification event carries.
Event ==
    [seq: Nat, type: EventType, about: SUBSET Criteria,
     says: {"", "passed", "failed"} \cup TerminalExecutionStates, refs: RefColumns]

EventOf(n, type, about, says, refs) ==
    [seq |-> n, type |-> type, about |-> about, says |-> says, refs |-> refs]

-----------------------------------------------------------------------------
(* The completion gate. *)

EvidenceOn(log, k) == {e \in log : e.type = "criterion_evidence" /\ e.about = {k}}

\* The evidence with the highest sequence decides a criterion.
Passed(log, k) ==
    \E e \in EvidenceOn(log, k) :
        /\ e.says = "passed"
        /\ \A f \in EvidenceOn(log, k) : f.seq <= e.seq

CompletionGate(log, criteria) ==
    /\ criteria # {}
    /\ \A k \in criteria : Passed(log, k)

-----------------------------------------------------------------------------
(* What the handlers make of a loaded row: the row they hold and the events *)
(* they add before the commit.  append_execution_event numbers each event   *)
(* with the sequence of the row in memory.                                  *)

Step == [row: Row, added: SUBSET Event]

RowOf(status, n, progress, refs) ==
    [status |-> status, seq |-> n, progress |-> progress, refs |-> refs]

StartStep ==
    [row   |-> RowOf("running", 1, 0, NoRefs),
     added |-> {EventOf(1, "started", {}, "", NoRefs)}]

ProgressStep(r, percent) ==
    [row   |-> RowOf(r.status, r.seq + 1, percent, r.refs),
     added |-> {EventOf(r.seq + 1, "progress", {}, "", NoRefs)}]

\* The columns the request gives are set, the others keep their value, and
\* the event records all of them.
MergedRefs(refs, given) == [k \in RefKinds |-> IF given[k] = NoRef THEN refs[k] ELSE given[k]]

\* Mutant of TechnicalRefsStep: the event records the request, not the columns.
TechnicalRefsAsGiven(r, given) ==
    [row   |-> RowOf(r.status, r.seq + 1, r.progress, MergedRefs(r.refs, given)),
     added |-> {EventOf(r.seq + 1, "technical_refs", {}, "", given)}]

TechnicalRefsStep(r, given) ==
    LET refs == MergedRefs(r.refs, given)
    IN  [row   |-> RowOf(r.status, r.seq + 1, r.progress, refs),
         added |-> {EventOf(r.seq + 1, "technical_refs", {}, "", refs)}]

EvidenceStep(r, k, verdict) ==
    [row   |-> RowOf(r.status, r.seq + 1, r.progress, r.refs),
     added |-> {EventOf(r.seq + 1, "criterion_evidence", {k}, verdict, NoRefs)}]

\* A commit or a pull request is there to be looked up on GitHub.
Verifiable(r) == \E k \in RefKinds \ {"branch_ref"} : r.refs[k] # NoRef

\* GitHub was asked about the references; the answer is recorded.
VerificationStep(r) ==
    [row   |-> RowOf(r.status, r.seq + 1, r.progress, r.refs),
     added |-> {EventOf(r.seq + 1, "external_verification", {}, "", r.refs)}]

\* Mutant of GreenChecksStep: the row counts one event for two.
GreenChecksMiscounted(r, k) ==
    [row   |-> RowOf(r.status, r.seq + 1, r.progress, r.refs),
     added |-> {EventOf(r.seq + 1, "external_verification", {}, "", r.refs),
                EventOf(r.seq + 2, "criterion_evidence", {k}, "passed", NoRefs)}]

\* The checks are green and the caller named a criterion they are evidence for.
GreenChecksStep(r, k) ==
    [row   |-> RowOf(r.status, r.seq + 2, r.progress, r.refs),
     added |-> {EventOf(r.seq + 1, "external_verification", {}, "", r.refs),
                EventOf(r.seq + 2, "criterion_evidence", {k}, "passed", NoRefs)}]

CompleteStep(r) ==
    [row   |-> RowOf("completed", r.seq + 1, 100, r.refs),
     added |-> {EventOf(r.seq + 1, "status", {}, "completed", NoRefs)}]

\* Failing and cancelling leave the progress where it was.
StopStep(r, status) ==
    [row   |-> RowOf(status, r.seq + 1, r.progress, r.refs),
     added |-> {EventOf(r.seq + 1, "status", {}, status, NoRefs)}]

\* The executor, worker and Git change routes append one event or two to the log
\* of an execution in any status, and touch nothing else of it.
NoteSteps(r) ==
    {[row   |-> RowOf(r.status, r.seq + 1, r.progress, r.refs),
      added |-> {EventOf(r.seq + 1, "note", {}, "", NoRefs)}],
     [row   |-> RowOf(r.status, r.seq + 2, r.progress, r.refs),
      added |-> {EventOf(r.seq + 1, "note", {}, "", NoRefs),
                 EventOf(r.seq + 2, "note", {}, "", NoRefs)}]}

\* Everything a handler may record about a running execution without ending it.
RecordSteps(r, criteria) ==
         {ProgressStep(r, n) : n \in Percents}
    \cup {TechnicalRefsStep(r, given) : given \in RefColumns \ {NoRefs}}
    \cup {EvidenceStep(r, k, "passed") : k \in criteria}
    \cup {EvidenceStep(r, k, "failed") : k \in criteria}
    \cup {step \in {VerificationStep(r)} \cup {GreenChecksStep(r, k) : k \in criteria} : Verifiable(r)}

=============================================================================
