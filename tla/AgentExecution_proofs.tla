----------------------- MODULE AgentExecution_proofs -----------------------
(***************************************************************************)
(* Proofs about AgentExecution, for every number of threads, packs,        *)
(* handoffs, criteria, references and events.                              *)
(*                                                                         *)
(* 1. Types.  2. The inductive invariant IInv: the log is gapless and a    *)
(* call whose loaded sequence is still the row's has loaded the row and    *)
(* the log as they are.  3. Therefore a commit that satisfies the unique   *)
(* constraints is a step of the ledger: refinement.  4. The safety         *)
(* properties, by induction over ledger steps.  5. The chain of            *)
(* authorisation, from what each open call may write to pack and handoff.  *)
(* 6. The references of a row are those its log recorded last.  7. How an  *)
(* ended handoff may still change.                                         *)
(***************************************************************************)
EXTENDS AgentExecution, TLAPS

-----------------------------------------------------------------------------
(* 1. Types *)

\* What a handler may make of the row r of an execution it loaded.
Shape(r, step, criteria) ==
    \/ step \in RecordSteps(r, criteria)
    \/ step = CompleteStep(r)
    \/ \E status \in {"failed", "cancelled"} : step = StopStep(r, status)
    \/ step \in NoteSteps(r)

\* One event, or two, numbered from the sequence n of the row.
Numbered(step, n) ==
    \/ /\ step.row.seq = n + 1
       /\ \E e \in Event : step.added = {e} /\ e.seq = n + 1
    \/ /\ step.row.seq = n + 2
       /\ \E e, f \in Event : step.added = {e, f} /\ e.seq = n + 1 /\ f.seq = n + 2

\* The kinds of recording steps, without the sets they are collected in.
LEMMA RecordStepCases ==
  ASSUME NEW r, NEW criteria, NEW step \in RecordSteps(r, criteria)
  PROVE  \/ \E n \in Percents : step = ProgressStep(r, n)
         \/ \E given \in RefColumns : step = TechnicalRefsStep(r, given)
         \/ \E k \in criteria, v \in {"passed", "failed"} : step = EvidenceStep(r, k, v)
         \/ step = VerificationStep(r)
         \/ \E k \in criteria : step = GreenChecksStep(r, k)
BY DEF RecordSteps

\* NULL references are references a row may hold.
LEMMA NoRefsType == NoRefs \in RefColumns
BY DEF NoRefs, RefColumns

\* A row is well formed when its columns are.
LEMMA RowOfType ==
  ASSUME NEW status \in ExecutionStatus, NEW n \in Nat, NEW p \in 0..100, NEW refs \in RefColumns
  PROVE  RowOf(status, n, p, refs) \in Row
BY DEF RowOf, Row

\* A row shows the columns it was made from.
LEMMA RowOfColumns ==
  ASSUME NEW status, NEW n, NEW p, NEW refs
  PROVE  RowOf(status, n, p, refs).seq = n /\ RowOf(status, n, p, refs).status = status
BY DEF RowOf

\* An event is well formed when its fields are.
LEMMA EventOfType ==
  ASSUME NEW n \in Nat, NEW type \in EventType, NEW about \in SUBSET Criteria,
         NEW says \in {"", "passed", "failed"} \cup TerminalExecutionStates,
         NEW refs \in RefColumns
  PROVE  EventOf(n, type, about, says, refs) \in Event
BY DEF EventOf, Event

\* A new execution starts from a well formed row and event.
LEMMA StartStepType == StartStep \in Step /\ NoRow \in Row
<1>1. RowOf("running", 1, 0, NoRefs) \in Row
  BY RowOfType, NoRefsType DEF ExecutionStatus
<1>2. EventOf(1, "started", {}, "", NoRefs) \in Event
  BY EventOfType, NoRefsType DEF EventType
<1>3. NoRow \in Row
  BY NoRefsType DEF NoRow, Row, ExecutionStatus
<1>4. QED
  BY <1>1, <1>2, <1>3 DEF StartStep, Step

\* Every handler of a running execution turns a row into a row, and numbers
\* its one or two events from the sequence the row had.
LEMMA ShapeFacts ==
  ASSUME NEW r \in Row, NEW criteria \in SUBSET Criteria, NEW step, Shape(r, step, criteria)
  PROVE  step \in Step /\ Numbered(step, r.seq)
<1>1. /\ NoRefs \in RefColumns /\ r.refs \in RefColumns /\ r.status \in ExecutionStatus
      /\ r.progress \in 0..100 /\ r.seq \in Nat /\ r.seq + 1 \in Nat /\ r.seq + 2 \in Nat
  BY NoRefsType DEF Row
<1>2. ASSUME NEW n \in Percents, step = ProgressStep(r, n)
      PROVE  step \in Step /\ Numbered(step, r.seq)
  <2>1. RowOf(r.status, r.seq + 1, n, r.refs) \in Row
    BY <1>1, RowOfType, PercentsAssumption
  <2>2. EventOf(r.seq + 1, "progress", {}, "", NoRefs) \in Event
    BY <1>1, EventOfType DEF EventType
  <2>3. QED
    BY <1>1, <1>2, <2>1, <2>2 DEF ProgressStep, Step, Numbered, EventOf, RowOf
<1>3. ASSUME NEW given \in RefColumns, step = TechnicalRefsStep(r, given)
      PROVE  step \in Step /\ Numbered(step, r.seq)
  <2> DEFINE refs == MergedRefs(r.refs, given)
  <2>1. refs \in RefColumns
    BY <1>1 DEF MergedRefs, RefColumns
  <2>2. RowOf(r.status, r.seq + 1, r.progress, refs) \in Row
    BY <1>1, <2>1, RowOfType
  <2>3. EventOf(r.seq + 1, "technical_refs", {}, "", refs) \in Event
    BY <1>1, <2>1, EventOfType DEF EventType
  <2>4. QED
    BY <1>1, <1>3, <2>2, <2>3 DEF TechnicalRefsStep, Step, Numbered, EventOf, RowOf
<1>4. ASSUME NEW k \in criteria, NEW v \in {"passed", "failed"}, step = EvidenceStep(r, k, v)
      PROVE  step \in Step /\ Numbered(step, r.seq)
  <2>1. RowOf(r.status, r.seq + 1, r.progress, r.refs) \in Row
    BY <1>1, RowOfType
  <2>2. v \in {"", "passed", "failed"} \cup TerminalExecutionStates
    OBVIOUS
  <2>3. EventOf(r.seq + 1, "criterion_evidence", {k}, v, NoRefs) \in Event
    BY <1>1, <2>2, EventOfType DEF EventType
  <2>4. QED
    BY <1>1, <1>4, <2>1, <2>3 DEF EvidenceStep, Step, Numbered, EventOf, RowOf
<1>5. ASSUME step = VerificationStep(r)
      PROVE  step \in Step /\ Numbered(step, r.seq)
  <2>1. RowOf(r.status, r.seq + 1, r.progress, r.refs) \in Row
    BY <1>1, RowOfType
  <2>2. EventOf(r.seq + 1, "external_verification", {}, "", r.refs) \in Event
    BY <1>1, EventOfType DEF EventType
  <2>3. QED
    BY <1>1, <1>5, <2>1, <2>2 DEF VerificationStep, Step, Numbered, EventOf, RowOf
<1>6. ASSUME NEW k \in criteria, step = GreenChecksStep(r, k)
      PROVE  step \in Step /\ Numbered(step, r.seq)
  <2>1. RowOf(r.status, r.seq + 2, r.progress, r.refs) \in Row
    BY <1>1, RowOfType
  <2>2. EventOf(r.seq + 1, "external_verification", {}, "", r.refs) \in Event
    BY <1>1, EventOfType DEF EventType
  <2>3. "passed" \in {"", "passed", "failed"} \cup TerminalExecutionStates
    OBVIOUS
  <2>4. EventOf(r.seq + 2, "criterion_evidence", {k}, "passed", NoRefs) \in Event
    BY <1>1, <2>3, EventOfType DEF EventType
  <2>5. PICK e \in Event, f \in Event :
          /\ step.added = {e, f} /\ e.seq = r.seq + 1 /\ f.seq = r.seq + 2
    <3>1. EventOf(r.seq + 1, "external_verification", {}, "", r.refs).seq = r.seq + 1
      BY DEF EventOf
    <3>2. EventOf(r.seq + 2, "criterion_evidence", {k}, "passed", NoRefs).seq = r.seq + 2
      BY DEF EventOf
    <3>3. step.added = {EventOf(r.seq + 1, "external_verification", {}, "", r.refs),
                        EventOf(r.seq + 2, "criterion_evidence", {k}, "passed", NoRefs)}
      BY <1>6 DEF GreenChecksStep
    <3>4. QED
      BY <2>2, <2>4, <3>1, <3>2, <3>3
  <2>6. step \in Step
    BY <1>6, <2>1, <2>2, <2>4 DEF GreenChecksStep, Step
  <2>7. step.row.seq = r.seq + 2
    <3>1. step.row = RowOf(r.status, r.seq + 2, r.progress, r.refs)
      BY <1>6 DEF GreenChecksStep
    <3>2. RowOf(r.status, r.seq + 2, r.progress, r.refs).seq = r.seq + 2
      BY RowOfColumns
    <3>3. QED
      BY <3>1, <3>2
  <2>8. QED
    BY <2>5, <2>6, <2>7 DEF Numbered
<1>7. ASSUME step = CompleteStep(r)
      PROVE  step \in Step /\ Numbered(step, r.seq)
  <2>1. RowOf("completed", r.seq + 1, 100, r.refs) \in Row
    <3>1. "completed" \in ExecutionStatus /\ 100 \in 0..100
      BY DEF ExecutionStatus, TerminalExecutionStates
    <3>2. QED
      BY <1>1, <3>1, RowOfType
  <2>2. EventOf(r.seq + 1, "status", {}, "completed", NoRefs) \in Event
    BY <1>1, EventOfType DEF EventType, TerminalExecutionStates
  <2>3. QED
    BY <1>1, <1>7, <2>1, <2>2 DEF CompleteStep, Step, Numbered, EventOf, RowOf
<1>8. ASSUME NEW status \in {"failed", "cancelled"}, step = StopStep(r, status)
      PROVE  step \in Step /\ Numbered(step, r.seq)
  <2>1. status \in TerminalExecutionStates /\ status \in ExecutionStatus
    BY DEF ExecutionStatus, TerminalExecutionStates
  <2>2. RowOf(status, r.seq + 1, r.progress, r.refs) \in Row
    BY <1>1, <2>1, RowOfType
  <2>3. EventOf(r.seq + 1, "status", {}, status, NoRefs) \in Event
    BY <1>1, <2>1, EventOfType DEF EventType
  <2>4. QED
    BY <1>1, <1>8, <2>2, <2>3 DEF StopStep, Step, Numbered, EventOf, RowOf
<1>9. CASE step \in RecordSteps(r, criteria)
  BY <1>2, <1>3, <1>4, <1>5, <1>6, <1>9, RecordStepCases
<1>10. ASSUME step \in NoteSteps(r)
       PROVE  step \in Step /\ Numbered(step, r.seq)
  <2>1. EventOf(r.seq + 1, "note", {}, "", NoRefs) \in Event
    BY <1>1, EventOfType DEF EventType
  <2>2. EventOf(r.seq + 2, "note", {}, "", NoRefs) \in Event
    BY <1>1, EventOfType DEF EventType
  <2>3. RowOf(r.status, r.seq + 1, r.progress, r.refs) \in Row
    BY <1>1, RowOfType
  <2>4. RowOf(r.status, r.seq + 2, r.progress, r.refs) \in Row
    BY <1>1, RowOfType
  <2>5. EventOf(r.seq + 1, "note", {}, "", NoRefs).seq = r.seq + 1
    BY DEF EventOf
  <2>6. EventOf(r.seq + 2, "note", {}, "", NoRefs).seq = r.seq + 2
    BY DEF EventOf
  <2>7. RowOf(r.status, r.seq + 1, r.progress, r.refs).seq = r.seq + 1
    BY DEF RowOf
  <2>8. RowOf(r.status, r.seq + 2, r.progress, r.refs).seq = r.seq + 2
    BY DEF RowOf
  <2>9. CASE step = [row   |-> RowOf(r.status, r.seq + 1, r.progress, r.refs),
                     added |-> {EventOf(r.seq + 1, "note", {}, "", NoRefs)}]
    BY <2>1, <2>3, <2>5, <2>7, <2>9 DEF Step, Numbered
  <2>10. CASE step = [row   |-> RowOf(r.status, r.seq + 2, r.progress, r.refs),
                      added |-> {EventOf(r.seq + 1, "note", {}, "", NoRefs),
                                 EventOf(r.seq + 2, "note", {}, "", NoRefs)}]
    BY <2>1, <2>2, <2>4, <2>5, <2>6, <2>8, <2>10 DEF Step, Numbered
  <2>11. QED
    BY <1>10, <2>9, <2>10 DEF NoteSteps
<1>11. QED
  BY <1>7, <1>8, <1>9, <1>10 DEF Shape

\* A call, by the columns of an execution it loaded and the step it makes.
CallShape(h, loaded, step) ==
    \/ loaded = NoRow /\ step = [row |-> NoRow, added |-> {}]
    \/ loaded = NoRow /\ step = StartStep
    \/ loaded.status # "absent" /\ Shape(loaded, step, CriteriaOf[h])

StepOf(q) == [row |-> q.row, added |-> q.added]

\* What the ledger lets a handler do on the row r and its log.
Allowed(r, log, step, criteria) ==
    \/ r.status = "running" /\ step \in RecordSteps(r, criteria)
    \/ r.status = "running" /\ CompletionGate(log, criteria) /\ step = CompleteStep(r)
    \/ r.status = "running" /\ \E status \in {"failed", "cancelled"} : step = StopStep(r, status)
    \/ r.status # "absent" /\ step \in NoteSteps(r)

\* What a call loaded is still so until the sequence moves.
UpToDate(h, loaded, step) ==
    loaded.seq = execution[h].seq =>
        /\ loaded = execution[h]
        /\ Allowed(loaded, events[h], step, CriteriaOf[h])

\* A call holds a well formed row and well formed events.
LEMMA CallShapeType ==
  ASSUME NEW h \in Handoffs, NEW loaded \in Row, NEW step, CallShape(h, loaded, step)
  PROVE  step \in Step
<1>1. CriteriaOf[h] \in SUBSET Criteria
  BY CriteriaOfAssumption
<1>2. [row |-> NoRow, added |-> {}] \in Step
  BY StartStepType DEF Step
<1>3. QED
  BY <1>1, <1>2, StartStepType, ShapeFacts DEF CallShape

\* Every handler serves a call of one of the three shapes, on what it loaded.
LEMMA HandlerServes ==
  ASSUME TypeOK, HandlerNext
  PROVE  \E c \in Clients, h \in Handoffs, loaded \in Row, status \in HandoffStatus, step \in Step :
             /\ Serve(c, h, loaded, step, status)
             /\ CallShape(h, loaded, step)
             /\ loaded.status # "absent" =>
                    loaded = execution[h] /\ UpToDate(h, loaded, step)
<1> DEFINE Served(c, h, loaded, status, step) ==
             /\ Serve(c, h, loaded, step, status)
             /\ CallShape(h, loaded, step)
             /\ loaded.status # "absent" =>
                    loaded = execution[h] /\ UpToDate(h, loaded, step)
<1> USE DEF TypeOK
<1>1. PICK c \in Clients, h \in Handoffs :
        \/ CreateAgentHandoff(c, h)
        \/ ReleaseAgentHandoff(c, h)
        \/ CompleteAgentHandoff(c, h)
        \/ FailAgentHandoff(c, h)
        \/ CancelAgentHandoff(c, h)
        \/ CreateAgentExecution(c, h)
        \/ RecordExecutionProgress(c, h)
        \/ RecordExecutionTechnicalRefs(c, h)
        \/ RecordExecutionEvidence(c, h)
        \/ VerifyExecutionGithub(c, h)
        \/ CompleteAgentExecution(c, h)
        \/ FailAgentExecution(c, h)
        \/ CancelAgentExecution(c, h)
        \/ AppendNote(c, h)
  BY DEF HandlerNext
<1>a. SUFFICES \E loaded \in Row, st \in HandoffStatus, s \in Step : Served(c, h, loaded, st, s)
  OBVIOUS
<1>2. ASSUME NEW status \in HandoffStatus, ServeHandoff(c, h, status)
      PROVE  \E loaded \in Row, st \in HandoffStatus, step \in Step : Served(c, h, loaded, st, step)
  <2>1. Serve(c, h, NoRow, [row |-> NoRow, added |-> {}], status)
    BY <1>2 DEF ServeHandoff
  <2>2. NoRow \in Row /\ NoRow.status = "absent" /\ [row |-> NoRow, added |-> {}] \in Step
    BY StartStepType DEF NoRow, Step
  <2>3. Served(c, h, NoRow, status, [row |-> NoRow, added |-> {}])
    BY <2>1, <2>2 DEF CallShape
  <2>4. QED
    BY <2>2, <2>3
<1>b. ASSUME NEW status \in HandoffStatus, NEW step, Serve(c, h, execution[h], step, status),
             Allowed(execution[h], events[h], step, CriteriaOf[h])
      PROVE  \E loaded \in Row, st \in HandoffStatus, s \in Step : Served(c, h, loaded, st, s)
  <2>1. execution[h] \in Row /\ execution[h].status # "absent"
    BY <1>b DEF Allowed
  <2>2. CallShape(h, execution[h], step)
    BY <1>b, <2>1 DEF CallShape, Shape, Allowed
  <2>3. step \in Step
    BY <2>1, <2>2, CallShapeType
  <2>4. Served(c, h, execution[h], status, step)
    BY <1>b, <2>1, <2>2 DEF UpToDate
  <2>5. QED
    BY <2>1, <2>3, <2>4
<1>3. ASSUME NEW status \in HandoffStatus, NEW step, ServeRunning(c, h, step, status),
             Allowed(execution[h], events[h], step, CriteriaOf[h])
      PROVE  \E loaded \in Row, st \in HandoffStatus, s \in Step : Served(c, h, loaded, st, s)
  BY <1>b, <1>3 DEF ServeRunning
<1>4. ASSUME NEW step \in RecordSteps(execution[h], CriteriaOf[h]),
             ServeRunning(c, h, step, handoff[h])
      PROVE  \E loaded \in Row, st \in HandoffStatus, s \in Step : Served(c, h, loaded, st, s)
  BY <1>3, <1>4 DEF Allowed, ServeRunning
<1> HIDE DEF Served
<1>5. CASE CreateAgentHandoff(c, h)
  BY <1>2, <1>5 DEF CreateAgentHandoff, HandoffStatus
<1>6. CASE ReleaseAgentHandoff(c, h)
  BY <1>2, <1>6 DEF ReleaseAgentHandoff, HandoffStatus
<1>7. CASE CompleteAgentHandoff(c, h)
  BY <1>2, <1>7 DEF CompleteAgentHandoff, HandoffStatus
<1>8. CASE FailAgentHandoff(c, h)
  BY <1>2, <1>8 DEF FailAgentHandoff, HandoffStatus
<1>9. CASE CancelAgentHandoff(c, h)
  BY <1>2, <1>9 DEF CancelAgentHandoff, HandoffStatus
<1>10. CASE CreateAgentExecution(c, h)
  <2>1. Serve(c, h, NoRow, StartStep, handoff[h])
    BY <1>10 DEF CreateAgentExecution
  <2>2. NoRow \in Row /\ NoRow.status = "absent" /\ StartStep \in Step
    BY StartStepType DEF NoRow
  <2>3. Served(c, h, NoRow, handoff[h], StartStep)
    BY <2>1, <2>2 DEF CallShape, Served
  <2>4. QED
    BY <1>1, <2>2, <2>3 DEF Served
<1>11. CASE RecordExecutionProgress(c, h)
  BY <1>4, <1>11 DEF RecordExecutionProgress, RecordSteps
<1>12. CASE RecordExecutionTechnicalRefs(c, h)
  BY <1>4, <1>12 DEF RecordExecutionTechnicalRefs, RecordSteps
<1>13. CASE RecordExecutionEvidence(c, h)
  <2>1. PICK k \in CriteriaOf[h], verdict \in {"passed", "failed"} :
          ServeRunning(c, h, EvidenceStep(execution[h], k, verdict), handoff[h])
    BY <1>13 DEF RecordExecutionEvidence
  <2>2. EvidenceStep(execution[h], k, verdict) \in RecordSteps(execution[h], CriteriaOf[h])
    BY DEF RecordSteps
  <2>3. QED
    BY <1>4, <2>1, <2>2
<1>14. CASE VerifyExecutionGithub(c, h)
  BY <1>4, <1>14 DEF VerifyExecutionGithub, RecordSteps
<1>15. CASE CompleteAgentExecution(c, h)
  BY <1>3, <1>15 DEF ServeRunning, CompleteAgentExecution, Allowed, HandoffStatus
<1>16. CASE FailAgentExecution(c, h)
  BY <1>3, <1>16 DEF ServeRunning, FailAgentExecution, Allowed, HandoffStatus
<1>17. CASE CancelAgentExecution(c, h)
  BY <1>3, <1>17 DEF ServeRunning, CancelAgentExecution, Allowed, HandoffStatus
<1>18. CASE AppendNote(c, h)
  BY <1>b, <1>18 DEF AppendNote, Allowed
<1>19. QED
  BY <1>1, <1>5, <1>6, <1>7, <1>8, <1>9, <1>10, <1>11, <1>12, <1>13, <1>14, <1>15, <1>16, <1>17, <1>18

\* A pack request changes one pack's status to one it may have.
LEMMA PackTypeStep ==
  ASSUME PackTypeOK, [PackNext]_packVars
  PROVE  PackTypeOK'
<1> USE DEF PackTypeOK
<1>1. ASSUME NEW c \in PackClients, NEW p \in Packs, NEW from \in PackStatus, NEW to \in PackStatus,
             PackHandler(c, p, from, to)
      PROVE  PackTypeOK'
  <2>1. [client |-> c, pack |-> p, loaded |-> from, status |-> to] \in PackCall
    BY DEF PackCall
  <2>2. QED
    BY <1>1, <2>1 DEF PackHandler
<1>2. ASSUME NEW q \in packCalls, CommitPack(q)
      PROVE  PackTypeOK'
  <2>1. q.status \in PackStatus
    BY DEF PackCall
  <2>2. QED
    BY <1>2, <2>1 DEF CommitPack, Flushed
<1>3. ASSUME NEW q \in packCalls, RollbackPack(q)
      PROVE  PackTypeOK'
  BY <1>3 DEF RollbackPack
<1>4. ASSUME NEW c \in PackClients, NEW p \in Packs,
             \/ CreateAgentTaskPack(c, p)
             \/ ApproveAgentTaskPack(c, p)
             \/ CancelAgentTaskPack(c, p)
      PROVE  PackTypeOK'
  <2>1. {"absent", "pending", "approved", "cancelled"} = PackStatus
    BY DEF PackStatus
  <2>2. QED
    BY <1>1, <1>4, <2>1 DEF CreateAgentTaskPack, ApproveAgentTaskPack, CancelAgentTaskPack
<1>5. CASE UNCHANGED packVars
  BY <1>5 DEF packVars
<1>6. QED
  BY <1>2, <1>3, <1>4, <1>5 DEF PackNext

\* Column by column, the row a commit leaves is a row.
LEMMA FlushedRowType ==
  ASSUME NEW stored \in Row, NEW loaded \in Row, NEW held \in Row
  PROVE  FlushedRow(stored, loaded, held) \in Row
<1>1. [k \in RefKinds |-> Flushed(stored.refs[k], loaded.refs[k], held.refs[k])] \in RefColumns
  BY DEF Flushed, Row, RefColumns
<1>2. QED
  BY <1>1 DEF FlushedRow, Flushed, Row

\* The tables hold well formed rows, whatever the handlers do.
THEOREM TypeCorrect == Spec => []TypeOK
<1>1. Init => TypeOK
  BY StartStepType DEF Init, PackInit, TypeOK, PackTypeOK, PackStatus, HandoffStatus
<1>2. ASSUME TypeOK, [Next]_vars
      PROVE  TypeOK'
  <2>1. CASE PackNext /\ UNCHANGED executionVars
    BY <1>2, <2>1, PackTypeStep DEF TypeOK, executionVars
  <2>2. CASE HandlerNext
    <3>1. PICK c \in Clients, h \in Handoffs, loaded \in Row, status \in HandoffStatus, step \in Step :
            Serve(c, h, loaded, step, status)
      BY <1>2, <2>2, HandlerServes
    <3> DEFINE q == [client |-> c, handoff |-> h, loaded |-> loaded, row |-> step.row,
                     added |-> step.added, loadedHandoff |-> handoff[h], handoffStatus |-> status]
    <3>2. q \in Call
      BY <1>2 DEF TypeOK, Call, Step
    <3>3. PackTypeOK'
      BY <1>2, <3>1 DEF TypeOK, PackTypeOK, Serve, packVars
    <3>4. QED
      BY <1>2, <3>1, <3>2, <3>3 DEF TypeOK, Serve
  <2>3. ASSUME NEW q \in calls, Commit(q)
        PROVE  TypeOK'
    <3>1. q \in Call
      BY <1>2 DEF TypeOK
    <3>2. /\ q.handoff \in Handoffs /\ q.loaded \in Row /\ q.row \in Row
          /\ q.added \in SUBSET Event /\ q.handoffStatus \in HandoffStatus
      BY <3>1 DEF Call
    <3>3. FlushedRow(execution[q.handoff], q.loaded, q.row) \in Row
      BY <1>2, <3>2, FlushedRowType DEF TypeOK
    <3>4. execution' \in [Handoffs -> Row]
      BY <1>2, <2>3, <3>3 DEF TypeOK, Commit
    <3>5. handoff' \in [Handoffs -> HandoffStatus]
      BY <1>2, <2>3, <3>2 DEF TypeOK, Commit, Flushed
    <3>6. events' \in [Handoffs -> SUBSET Event]
      BY <1>2, <2>3, <3>2 DEF TypeOK, Commit
    <3>7. PackTypeOK' /\ calls' \subseteq Call
      BY <1>2, <2>3 DEF TypeOK, PackTypeOK, Commit, packVars
    <3>8. QED
      BY <3>4, <3>5, <3>6, <3>7 DEF TypeOK
  <2>4. ASSUME NEW q \in calls, Rollback(q)
        PROVE  TypeOK'
    BY <1>2, <2>4 DEF TypeOK, PackTypeOK, Rollback, packVars
  <2>5. CASE UNCHANGED vars
    BY <1>2, <2>5 DEF TypeOK, PackTypeOK, vars, packVars, executionVars
  <2>6. QED
    BY <1>2, <2>1, <2>2, <2>3, <2>4, <2>5 DEF Next
<1>3. QED
  BY <1>1, <1>2, PTL DEF Spec

-----------------------------------------------------------------------------
(* 2. The inductive invariant *)

\* Before an execution exists nothing is recorded about it.
AbsentIsEmpty ==
    \A h \in Handoffs : execution[h].status = "absent" => execution[h] = NoRow /\ events[h] = {}

\* The commit of another handler moves the sequence past what a call loaded:
\* either nobody did, and the call still describes the current row and log, or
\* the numbers of its events are taken.
CallsAreNumbered ==
    \A q \in calls :
        /\ CallShape(q.handoff, q.loaded, StepOf(q))
        /\ q.row.seq <= MaxEvents
        /\ q.loaded.status # "absent" =>
               /\ q.loaded.seq <= execution[q.handoff].seq
               /\ UpToDate(q.handoff, q.loaded, StepOf(q))

IInv == AbsentIsEmpty /\ EventLogGapless /\ CallsAreNumbered

\* Numbering the next events from the last number keeps a log gapless.
LEMMA NumberedIsGapless ==
  ASSUME NEW log \in SUBSET Event, NEW n \in Nat, NEW step, Numbered(step, n),
         Gapless(log, n)
  PROVE  Gapless(log \cup step.added, step.row.seq)
<1>1. \A e \in log : e.seq \in Nat /\ 1 <= e.seq /\ e.seq <= n
  <2>1. \A e \in log : e.seq \in 1..n
    BY DEF Gapless
  <2>2. QED
    BY <2>1
<1>2. \A i \in 1..n : \E e \in log : e.seq = i
  BY DEF Gapless
<1>3. CASE /\ step.row.seq = n + 1
           /\ \E e \in Event : step.added = {e} /\ e.seq = n + 1
  <2>1. PICK x \in Event : step.added = {x} /\ x.seq = n + 1
    BY <1>3
  <2>2. \A i \in 1..(n + 1) : \E e \in log \cup {x} : e.seq = i
    BY <1>2, <2>1
  <2>3. \A e \in log \cup {x} : e.seq \in 1..(n + 1)
    BY <1>1, <2>1
  <2>4. {e.seq : e \in log \cup {x}} = 1..(n + 1)
    BY <2>2, <2>3
  <2>5. \A e, f \in log \cup {x} : e.seq = f.seq => e = f
    BY <1>1, <2>1 DEF Gapless
  <2>6. QED
    BY <1>3, <2>1, <2>4, <2>5 DEF Gapless
<1>4. CASE /\ step.row.seq = n + 2
           /\ \E e, f \in Event : step.added = {e, f} /\ e.seq = n + 1 /\ f.seq = n + 2
  <2>1. PICK x \in Event, y \in Event : step.added = {x, y} /\ x.seq = n + 1 /\ y.seq = n + 2
    BY <1>4
  <2>2. \A i \in 1..(n + 2) : \E e \in log \cup {x, y} : e.seq = i
    BY <1>2, <2>1
  <2>3. \A e \in log \cup {x, y} : e.seq \in 1..(n + 2)
    BY <1>1, <2>1
  <2>4. {e.seq : e \in log \cup {x, y}} = 1..(n + 2)
    BY <2>2, <2>3
  <2>5. \A e, f \in log \cup {x, y} : e.seq = f.seq => e = f
    BY <1>1, <2>1 DEF Gapless
  <2>6. QED
    BY <1>4, <2>1, <2>4, <2>5 DEF Gapless
<1>5. QED
  BY <1>3, <1>4 DEF Numbered

\* A new execution numbers its first event 1.
LEMMA StartIsNumbered == Numbered(StartStep, 0) /\ StartStep.row.status = "running"
<1>1. EventOf(1, "started", {}, "", NoRefs) \in Event
  BY EventOfType, NoRefsType DEF EventType
<1>2. EventOf(1, "started", {}, "", NoRefs).seq = 0 + 1
  BY DEF EventOf
<1>3. RowOf("running", 1, 0, NoRefs).seq = 0 + 1 /\ RowOf("running", 1, 0, NoRefs).status = "running"
  BY DEF RowOf
<1>4. QED
  BY <1>1, <1>2, <1>3 DEF StartStep, Numbered

\* A column the session did not touch since it loaded the current value.
LEMMA FlushedIsHeld ==
  ASSUME NEW stored \in Row, NEW held \in Row
  PROVE  FlushedRow(stored, stored, held) = held
<1>1. [k \in RefKinds |-> Flushed(stored.refs[k], stored.refs[k], held.refs[k])] = held.refs
  BY DEF Flushed, Row, RefColumns
<1>2. QED
  BY <1>1 DEF FlushedRow, Flushed, Row

\* A session that did not touch the row leaves what the database has.
LEMMA FlushedIsStored ==
  ASSUME NEW stored \in Row, NEW loaded \in Row
  PROVE  FlushedRow(stored, loaded, loaded) = stored
<1>1. [k \in RefKinds |-> Flushed(stored.refs[k], loaded.refs[k], loaded.refs[k])] = stored.refs
  BY DEF Flushed, Row, RefColumns
<1>2. QED
  BY <1>1 DEF FlushedRow, Flushed, Row

\* What a commit does to the execution of its handoff: nothing, the start, or
\* an allowed step of the current row.
CommitEffect(h, step) ==
    \/ execution'[h] = execution[h] /\ events'[h] = events[h]
    \/ /\ \/ execution[h] = NoRow /\ events[h] = {} /\ step = StartStep
          \/ Allowed(execution[h], events[h], step, CriteriaOf[h])
       /\ Numbered(step, execution[h].seq)
       /\ step \in Step
       /\ step.row.seq <= MaxEvents
       /\ execution'[h] = step.row
       /\ events'[h] = events[h] \cup step.added

\* What a commit does to the tables: nothing to any execution, or one allowed
\* step of one execution on its current row and log.
LEMMA CommitEffects ==
  ASSUME TypeOK, IInv, NEW q \in calls, Commit(q)
  PROVE  /\ q.handoff \in Handoffs
         /\ execution' = [execution EXCEPT ![q.handoff] = execution'[q.handoff]]
         /\ events' = [events EXCEPT ![q.handoff] = events'[q.handoff]]
         /\ CommitEffect(q.handoff, StepOf(q))
<1> DEFINE h == q.handoff
           step == StepOf(q)
<1>1. /\ h \in Handoffs /\ q.loaded \in Row /\ q.row \in Row /\ q.added \in SUBSET Event
      /\ execution[h] \in Row /\ events[h] \in SUBSET Event /\ CriteriaOf[h] \in SUBSET Criteria
      /\ execution[h].seq \in Nat /\ q.loaded.seq \in Nat
  BY CriteriaOfAssumption DEF TypeOK, Call, Row
<1>2. /\ execution'[h] = FlushedRow(execution[h], q.loaded, q.row)
      /\ events'[h] = events[h] \cup q.added
      /\ execution' = [execution EXCEPT ![h] = execution'[h]]
      /\ events' = [events EXCEPT ![h] = events'[h]]
  BY <1>1 DEF Commit, TypeOK
<1>3. CallShape(h, q.loaded, step) /\ step.row = q.row /\ step.added = q.added /\ q.row.seq <= MaxEvents
  BY DEF IInv, CallsAreNumbered, StepOf
<1>4. step \in Step
  BY <1>1, <1>3, CallShapeType
<1> HIDE DEF step, h
<1>5. CASE q.loaded = NoRow /\ step = [row |-> NoRow, added |-> {}]
  <2>1. q.row = q.loaded /\ q.added = {}
    BY <1>3, <1>5
  <2>2. execution'[h] = execution[h] /\ events'[h] = events[h]
    BY <1>1, <1>2, <2>1, FlushedIsStored
  <2>3. QED
    BY <1>1, <1>2, <2>2 DEF CommitEffect, h, step
<1>6. CASE q.loaded = NoRow /\ step = StartStep
  <2>1. execution[h].status = "absent"
    BY <1>3, <1>6, StartIsNumbered DEF Commit, HandoffUnique, NoRow, h
  <2>2. execution[h] = NoRow /\ events[h] = {}
    BY <1>1, <2>1 DEF IInv, AbsentIsEmpty
  <2>3. execution'[h] = step.row
    BY <1>1, <1>2, <1>3, <1>6, <2>2, FlushedIsHeld
  <2>4. execution[h].seq = 0
    BY <2>2 DEF NoRow
  <2>5. QED
    BY <1>1, <1>2, <1>3, <1>4, <1>6, <2>2, <2>3, <2>4, StartIsNumbered DEF CommitEffect, h, step
<1>7. CASE q.loaded.status # "absent" /\ Shape(q.loaded, step, CriteriaOf[h])
  <2>1. Numbered(step, q.loaded.seq)
    BY <1>1, <1>7, ShapeFacts
  <2>2. PICK e \in q.added : e.seq = q.loaded.seq + 1
    BY <1>3, <2>1 DEF Numbered
  <2>3. q.loaded.seq <= execution[h].seq /\ UpToDate(h, q.loaded, step)
    BY <1>7 DEF IInv, CallsAreNumbered, h, step
  <2>4. ~(q.loaded.seq + 1 <= execution[h].seq)
    <3>1. {f.seq : f \in events[h]} = 1..execution[h].seq
      BY <1>1 DEF IInv, EventLogGapless, Gapless
    <3>2. e.seq \notin {f.seq : f \in events[h]}
      BY <2>2 DEF Commit, SequenceUnique, h
    <3>3. QED
      BY <1>1, <2>2, <3>1, <3>2
  <2>5. q.loaded = execution[h] /\ Allowed(execution[h], events[h], step, CriteriaOf[h])
    BY <1>1, <2>3, <2>4 DEF UpToDate
  <2>6. execution'[h] = step.row
    BY <1>1, <1>2, <1>3, <2>5, FlushedIsHeld
  <2>7. QED
    BY <1>1, <1>2, <1>3, <1>4, <1>7, <2>1, <2>5, <2>6 DEF CommitEffect, h, step
<1>8. QED
  BY <1>3, <1>5, <1>6, <1>7 DEF CallShape

\* Recording leaves the status alone and adds no status event; ending sets the
\* status and adds the one status event that names it; a note adds notes.
Recorded(r, step) ==
    step.row.status = r.status /\ \A e \in step.added : e.type # "status"

Noted(r, step) ==
    /\ step.row = RowOf(r.status, step.row.seq, r.progress, r.refs)
    /\ \A e \in step.added : e.type = "note"

Ended(step) ==
    /\ step.row.status \in TerminalExecutionStates
    /\ \E e \in Event :
           step.added = {e} /\ e.type = "status" /\ e.says = step.row.status /\ e.seq = step.row.seq

\* An allowed step records, notes or ends, and numbers on from the row.
LEMMA AllowedEffects ==
  ASSUME NEW r \in Row, NEW log, NEW criteria \in SUBSET Criteria, NEW step,
         Allowed(r, log, step, criteria)
  PROVE  \/ r.status = "running" /\ Recorded(r, step)
         \/ /\ r.status = "running" /\ Ended(step)
            /\ step.row.status = "completed" => CompletionGate(log, criteria)
         \/ r.status # "absent" /\ Noted(r, step)
<1>1. NoRefs \in RefColumns /\ r.seq + 1 \in Nat
  BY NoRefsType DEF Row
<1>2. ASSUME NEW status \in TerminalExecutionStates,
             step.added = {EventOf(r.seq + 1, "status", {}, status, NoRefs)},
             step.row.status = status, step.row.seq = r.seq + 1
      PROVE  Ended(step)
  <2>1. EventOf(r.seq + 1, "status", {}, status, NoRefs) \in Event
    BY <1>1, EventOfType DEF EventType
  <2>2. QED
    BY <1>2, <2>1 DEF Ended, EventOf
<1>3. ASSUME step = CompleteStep(r)
      PROVE  Ended(step)
  <2>1. "completed" \in TerminalExecutionStates
    BY DEF TerminalExecutionStates
  <2>2. QED
    BY <1>2, <1>3, <2>1 DEF CompleteStep, RowOf
<1>4. ASSUME NEW status \in {"failed", "cancelled"}, step = StopStep(r, status)
      PROVE  Ended(step) /\ step.row.status # "completed"
  <2>1. status \in TerminalExecutionStates
    BY DEF TerminalExecutionStates
  <2>2. QED
    BY <1>2, <1>4, <2>1 DEF StopStep, RowOf
<1>5. ASSUME step \in RecordSteps(r, criteria)
      PROVE  Recorded(r, step)
  <2>1. ASSUME NEW n \in Percents, step = ProgressStep(r, n) PROVE Recorded(r, step)
    <3>1. RowOf(r.status, r.seq + 1, n, r.refs).status = r.status
      BY DEF RowOf
    <3>2. EventOf(r.seq + 1, "progress", {}, "", NoRefs).type # "status"
      BY DEF EventOf
    <3>3. QED
      BY <2>1, <3>1, <3>2 DEF ProgressStep, Recorded
  <2>2. ASSUME NEW given \in RefColumns, step = TechnicalRefsStep(r, given) PROVE Recorded(r, step)
    <3>1. RowOf(r.status, r.seq + 1, r.progress, MergedRefs(r.refs, given)).status = r.status
      BY DEF RowOf
    <3>2. EventOf(r.seq + 1, "technical_refs", {}, "", MergedRefs(r.refs, given)).type # "status"
      BY DEF EventOf
    <3>3. QED
      BY <2>2, <3>1, <3>2 DEF TechnicalRefsStep, Recorded
  <2>3. ASSUME NEW k, NEW v, step = EvidenceStep(r, k, v) PROVE Recorded(r, step)
    BY <2>3 DEF EvidenceStep, Recorded, RowOf, EventOf
  <2>4. ASSUME step = VerificationStep(r) PROVE Recorded(r, step)
    <3>1. RowOf(r.status, r.seq + 1, r.progress, r.refs).status = r.status
      BY DEF RowOf
    <3>2. EventOf(r.seq + 1, "external_verification", {}, "", r.refs).type # "status"
      BY DEF EventOf
    <3>3. QED
      BY <2>4, <3>1, <3>2 DEF VerificationStep, Recorded
  <2>5. ASSUME NEW k, step = GreenChecksStep(r, k) PROVE Recorded(r, step)
    <3>1. RowOf(r.status, r.seq + 2, r.progress, r.refs).status = r.status
      BY DEF RowOf
    <3>2. EventOf(r.seq + 1, "external_verification", {}, "", r.refs).type # "status"
      BY DEF EventOf
    <3>3. EventOf(r.seq + 2, "criterion_evidence", {k}, "passed", NoRefs).type # "status"
      BY DEF EventOf
    <3>4. QED
      BY <2>5, <3>1, <3>2, <3>3 DEF GreenChecksStep, Recorded
  <2>6. QED
    BY <1>5, <2>1, <2>2, <2>3, <2>4, <2>5, RecordStepCases
<1>6. ASSUME step \in NoteSteps(r)
      PROVE  Noted(r, step)
  <2>1. EventOf(r.seq + 1, "note", {}, "", NoRefs).type = "note"
    BY DEF EventOf
  <2>2. EventOf(r.seq + 2, "note", {}, "", NoRefs).type = "note"
    BY DEF EventOf
  <2>3. RowOf(r.status, r.seq + 1, r.progress, r.refs).seq = r.seq + 1
    BY DEF RowOf
  <2>4. RowOf(r.status, r.seq + 2, r.progress, r.refs).seq = r.seq + 2
    BY DEF RowOf
  <2>5. CASE step = [row   |-> RowOf(r.status, r.seq + 1, r.progress, r.refs),
                     added |-> {EventOf(r.seq + 1, "note", {}, "", NoRefs)}]
    BY <2>1, <2>3, <2>5 DEF Noted
  <2>6. CASE step = [row   |-> RowOf(r.status, r.seq + 2, r.progress, r.refs),
                     added |-> {EventOf(r.seq + 1, "note", {}, "", NoRefs),
                                EventOf(r.seq + 2, "note", {}, "", NoRefs)}]
    BY <2>1, <2>2, <2>4, <2>6 DEF Noted
  <2>7. QED
    BY <1>6, <2>5, <2>6 DEF NoteSteps
<1>7. QED
  BY <1>3, <1>4, <1>5, <1>6 DEF Allowed

\* A commit keeps the invariant: it is an allowed step of its own execution,
\* and a call on the same execution that is still open has fallen behind.
LEMMA CommitKeepsIInv ==
  ASSUME TypeOK, IInv, NEW q \in calls, Commit(q)
  PROVE  IInv'
<1> DEFINE h == q.handoff
           step == StepOf(q)
<1>1. /\ h \in Handoffs
      /\ execution' = [execution EXCEPT ![h] = execution'[h]]
      /\ events' = [events EXCEPT ![h] = events'[h]]
      /\ CommitEffect(h, step)
  BY CommitEffects
<1>2. calls' = calls \ {q}
  BY DEF Commit
<1> HIDE DEF h, step
<1>3. /\ execution[h] \in Row /\ events[h] \in SUBSET Event /\ execution[h].seq \in Nat
      /\ CriteriaOf[h] \in SUBSET Criteria
      /\ \A i \in Handoffs \ {h} : execution'[i] = execution[i] /\ events'[i] = events[i]
  BY <1>1, CriteriaOfAssumption DEF TypeOK, Row
<1>4. Gapless(events[h], execution[h].seq)
  BY <1>1 DEF IInv, EventLogGapless
<1>5. CASE execution'[h] = execution[h] /\ events'[h] = events[h]
  <2>1. execution' = execution /\ events' = events
    BY <1>1, <1>5 DEF TypeOK
  <2>2. AbsentIsEmpty' /\ EventLogGapless'
    BY <2>1 DEF IInv, AbsentIsEmpty, EventLogGapless
  <2>3. CallsAreNumbered'
    BY <1>2, <2>1 DEF IInv, CallsAreNumbered, UpToDate
  <2>4. QED
    BY <2>2, <2>3 DEF IInv
<1>6. CASE ~(execution'[h] = execution[h] /\ events'[h] = events[h])
  <2>1. /\ \/ step = StartStep
           \/ Allowed(execution[h], events[h], step, CriteriaOf[h])
        /\ Numbered(step, execution[h].seq) /\ step \in Step
        /\ execution'[h] = step.row /\ events'[h] = events[h] \cup step.added
    BY <1>1, <1>6 DEF CommitEffect
  <2>2. execution'[h].status # "absent"
    <3>1. CASE step = StartStep
      BY <2>1, <3>1, StartIsNumbered
    <3>2. CASE Allowed(execution[h], events[h], step, CriteriaOf[h])
      <4>1. \/ execution[h].status = "running" /\ Recorded(execution[h], step)
            \/ Ended(step)
            \/ execution[h].status # "absent" /\ Noted(execution[h], step)
        BY <1>3, <3>2, AllowedEffects
      <4>2. step.row.status # "absent"
        BY <4>1, RowOfColumns DEF Recorded, Ended, Noted, TerminalExecutionStates
      <4>3. QED
        BY <2>1, <4>2
    <3>3. QED
      BY <2>1, <3>1, <3>2
  <2>3. execution'[h].seq \in Nat /\ execution'[h].seq > execution[h].seq
    BY <1>3, <2>1 DEF Numbered, Step, Row
  <2>4. AbsentIsEmpty'
    BY <1>3, <2>2 DEF IInv, AbsentIsEmpty
  <2>5. Gapless(events'[h], execution'[h].seq)
    <3>1. Gapless(events[h] \cup step.added, step.row.seq)
      BY <1>3, <1>4, <2>1, NumberedIsGapless
    <3>2. QED
      BY <2>1, <3>1
  <2>6. EventLogGapless'
    BY <1>3, <2>5 DEF IInv, EventLogGapless
  <2>7. ASSUME NEW p \in calls
        PROVE  /\ CallShape(p.handoff, p.loaded, StepOf(p))
               /\ p.row.seq <= MaxEvents
               /\ p.loaded.status # "absent" =>
                      /\ p.loaded.seq <= execution'[p.handoff].seq
                      /\ UpToDate(p.handoff, p.loaded, StepOf(p))'
    <3>1. /\ CallShape(p.handoff, p.loaded, StepOf(p)) /\ p.row.seq <= MaxEvents
          /\ p.loaded.status # "absent" =>
                 /\ p.loaded.seq <= execution[p.handoff].seq
                 /\ UpToDate(p.handoff, p.loaded, StepOf(p))
      BY DEF IInv, CallsAreNumbered
    <3>2. p.handoff \in Handoffs /\ p.loaded \in Row /\ p.loaded.seq \in Nat
      BY DEF TypeOK, Call, Row
    <3>3. CASE p.handoff = h
      BY <1>3, <2>3, <3>1, <3>2, <3>3 DEF UpToDate
    <3>4. CASE p.handoff # h
      BY <1>3, <3>1, <3>2, <3>4 DEF UpToDate
    <3>5. QED
      BY <3>3, <3>4
  <2>8. CallsAreNumbered'
    BY <1>2, <2>7 DEF CallsAreNumbered
  <2>9. QED
    BY <2>4, <2>6, <2>8 DEF IInv
<1>7. QED
  BY <1>5, <1>6

\* The log is gapless and every call is numbered, in every reachable state.
THEOREM Invariance == Spec => []IInv
<1>1. Init => IInv
  <2>1. ASSUME Init PROVE AbsentIsEmpty /\ EventLogGapless /\ CallsAreNumbered
    <3>1. \A h \in Handoffs : execution[h] = NoRow /\ events[h] = {} /\ NoRow.seq = 0
      BY <2>1 DEF Init, NoRow
    <3>2. QED
      BY <2>1, <3>1 DEF Init, AbsentIsEmpty, EventLogGapless, Gapless, CallsAreNumbered
  <2>2. QED
    BY <2>1 DEF IInv
<1>2. ASSUME TypeOK, IInv, [Next]_vars
      PROVE  IInv'
  <2>1. ASSUME execution' = execution, events' = events, calls' \subseteq calls
        PROVE  IInv'
    <3>1. AbsentIsEmpty' /\ EventLogGapless'
      BY <1>2, <2>1 DEF IInv, AbsentIsEmpty, EventLogGapless
    <3>2. CallsAreNumbered'
      BY <1>2, <2>1 DEF IInv, CallsAreNumbered, UpToDate
    <3>3. QED
      BY <3>1, <3>2 DEF IInv
  <2>2. CASE HandlerNext
    <3>1. PICK c \in Clients, h \in Handoffs, loaded \in Row, status \in HandoffStatus, step \in Step :
            /\ Serve(c, h, loaded, step, status)
            /\ CallShape(h, loaded, step)
            /\ loaded.status # "absent" => loaded = execution[h] /\ UpToDate(h, loaded, step)
      BY <1>2, <2>2, HandlerServes
    <3> DEFINE q == [client |-> c, handoff |-> h, loaded |-> loaded, row |-> step.row,
                     added |-> step.added, loadedHandoff |-> handoff[h], handoffStatus |-> status]
    <3>2. /\ execution' = execution /\ events' = events /\ calls' = calls \cup {q}
          /\ step.row.seq <= MaxEvents
      BY <3>1 DEF Serve
    <3>3. AbsentIsEmpty' /\ EventLogGapless'
      BY <1>2, <3>2 DEF IInv, AbsentIsEmpty, EventLogGapless
    <3>4. StepOf(q) = step
      BY DEF StepOf, Step
    <3>5. loaded.seq \in Nat
      BY DEF Row
    <3>6. ASSUME NEW p \in calls \cup {q}
          PROVE  /\ CallShape(p.handoff, p.loaded, StepOf(p))
                 /\ p.row.seq <= MaxEvents
                 /\ p.loaded.status # "absent" =>
                        /\ p.loaded.seq <= execution[p.handoff].seq
                        /\ UpToDate(p.handoff, p.loaded, StepOf(p))
      <4>1. CASE p = q
        BY <3>1, <3>2, <3>4, <3>5, <4>1
      <4>2. CASE p \in calls
        BY <1>2, <4>2 DEF IInv, CallsAreNumbered
      <4>3. QED
        BY <4>1, <4>2
    <3>7. CallsAreNumbered'
      <4> HIDE DEF q
      <4>1. QED
        BY <3>2, <3>6 DEF CallsAreNumbered, UpToDate
    <3>8. QED
      BY <3>3, <3>7 DEF IInv
  <2>3. CASE PackNext /\ UNCHANGED executionVars
    BY <2>1, <2>3 DEF executionVars
  <2>4. ASSUME NEW q \in calls, Rollback(q)
        PROVE  IInv'
    BY <2>1, <2>4 DEF Rollback
  <2>5. CASE UNCHANGED vars
    BY <2>1, <2>5 DEF vars, executionVars
  <2>6. QED
    BY <1>2, <2>2, <2>3, <2>4, <2>5, CommitKeepsIInv DEF Next
<1>3. QED
  BY <1>1, <1>2, TypeCorrect, PTL DEF Spec

-----------------------------------------------------------------------------
(* 3. The concurrent handlers implement the ledger *)

\* The ledger has its own copy of the definitions it extends.
LEMMA SameRecords ==
  /\ Ledger!NoRow = NoRow /\ Ledger!StartStep = StartStep
  /\ \A r : Ledger!CompleteStep(r) = CompleteStep(r)
  /\ \A r, status : Ledger!StopStep(r, status) = StopStep(r, status)
  /\ \A r, criteria : Ledger!RecordSteps(r, criteria) = RecordSteps(r, criteria)
  /\ \A log, criteria : Ledger!CompletionGate(log, criteria) = CompletionGate(log, criteria)
  /\ \A r : Ledger!NoteSteps(r) = NoteSteps(r)
<1>1. Ledger!NoRow = NoRow
  BY DEF Ledger!NoRow, NoRow, Ledger!NoRefs, NoRefs
<1>2. Ledger!StartStep = StartStep
  BY DEF Ledger!StartStep, StartStep, Ledger!RowOf, RowOf, Ledger!EventOf, EventOf, Ledger!NoRefs, NoRefs
<1>3. ASSUME NEW r PROVE Ledger!CompleteStep(r) = CompleteStep(r)
  BY DEF Ledger!CompleteStep, CompleteStep, Ledger!RowOf, RowOf, Ledger!EventOf, EventOf, Ledger!NoRefs, NoRefs
<1>4. ASSUME NEW r, NEW status PROVE Ledger!StopStep(r, status) = StopStep(r, status)
  BY DEF Ledger!StopStep, StopStep, Ledger!RowOf, RowOf, Ledger!EventOf, EventOf, Ledger!NoRefs, NoRefs
<1>5. ASSUME NEW r, NEW criteria PROVE Ledger!RecordSteps(r, criteria) = RecordSteps(r, criteria)
  <2> USE DEF Ledger!RowOf, RowOf, Ledger!EventOf, EventOf, Ledger!NoRefs, NoRefs
  <2>1. \A n : Ledger!ProgressStep(r, n) = ProgressStep(r, n)
    BY DEF Ledger!ProgressStep, ProgressStep
  <2>2. \A given : Ledger!TechnicalRefsStep(r, given) = TechnicalRefsStep(r, given)
    BY DEF Ledger!TechnicalRefsStep, TechnicalRefsStep, Ledger!MergedRefs, MergedRefs
  <2>3. Ledger!RefColumns = RefColumns /\ Ledger!NoRefs = NoRefs
    BY DEF Ledger!RefColumns, RefColumns
  <2>4. \A k, v : Ledger!EvidenceStep(r, k, v) = EvidenceStep(r, k, v)
    BY DEF Ledger!EvidenceStep, EvidenceStep
  <2>5. \A k : Ledger!GreenChecksStep(r, k) = GreenChecksStep(r, k)
    BY DEF Ledger!GreenChecksStep, GreenChecksStep
  <2>6. Ledger!VerificationStep(r) = VerificationStep(r)
    BY DEF Ledger!VerificationStep, VerificationStep
  <2>7. Ledger!Verifiable(r) = Verifiable(r)
    BY DEF Ledger!Verifiable, Verifiable
  <2> HIDE DEF Ledger!RowOf, RowOf, Ledger!EventOf, EventOf, Ledger!NoRefs, NoRefs
  <2>8. QED
    BY <2>1, <2>2, <2>3, <2>4, <2>5, <2>6, <2>7 DEF Ledger!RecordSteps, RecordSteps
<1>6. ASSUME NEW log, NEW criteria
      PROVE  Ledger!CompletionGate(log, criteria) = CompletionGate(log, criteria)
  BY DEF Ledger!CompletionGate, CompletionGate, Ledger!Passed, Passed, Ledger!EvidenceOn, EvidenceOn
<1>7. ASSUME NEW r PROVE Ledger!NoteSteps(r) = NoteSteps(r)
  BY DEF Ledger!NoteSteps, NoteSteps, Ledger!RowOf, RowOf, Ledger!EventOf, EventOf, Ledger!NoRefs, NoRefs
<1>8. QED
  BY <1>1, <1>2, <1>3, <1>4, <1>5, <1>6, <1>7

\* A commit is a step of the ledger, or leaves it alone.
LEMMA CommitIsLedgerStep ==
  ASSUME TypeOK, IInv, NEW q \in calls, Commit(q)
  PROVE  Ledger!Next \/ UNCHANGED <<execution, events>>
<1> DEFINE h == q.handoff
           step == StepOf(q)
<1>1. /\ h \in Handoffs
      /\ execution' = [execution EXCEPT ![h] = execution'[h]]
      /\ events' = [events EXCEPT ![h] = events'[h]]
      /\ CommitEffect(h, step)
  BY CommitEffects
<1> HIDE DEF h, step
<1>2. CASE execution'[h] = execution[h] /\ events'[h] = events[h]
  BY <1>1, <1>2 DEF TypeOK
<1>3. CASE /\ step.row.seq <= MaxEvents
           /\ execution'[h] = step.row
           /\ events'[h] = events[h] \cup step.added
  <2>1. Ledger!Apply(h, step)
    BY <1>1, <1>3 DEF Ledger!Apply
  <2>2. CASE execution[h] = NoRow /\ step = StartStep
    <3>1. Ledger!Start(h)
      BY <2>1, <2>2, SameRecords DEF Ledger!Start
    <3>2. QED
      BY <1>1, <3>1 DEF Ledger!Next
  <2>3. CASE Allowed(execution[h], events[h], step, CriteriaOf[h])
    <3>1. CASE execution[h].status = "running" /\ step \in RecordSteps(execution[h], CriteriaOf[h])
      <4>1. Ledger!Record(h)
        BY <2>1, <2>3, <3>1, SameRecords DEF Ledger!Record
      <4>2. QED
        BY <1>1, <4>1 DEF Ledger!Next
    <3>2. CASE /\ execution[h].status = "running"
               /\ CompletionGate(events[h], CriteriaOf[h]) /\ step = CompleteStep(execution[h])
      <4>1. Ledger!Complete(h)
        BY <2>1, <2>3, <3>2, SameRecords DEF Ledger!Complete
      <4>2. QED
        BY <1>1, <4>1 DEF Ledger!Next
    <3>3. ASSUME NEW status \in {"failed", "cancelled"}, step = StopStep(execution[h], status),
                 execution[h].status = "running"
          PROVE  Ledger!Next
      <4>1. Ledger!Stop(h)
        BY <2>1, <2>3, <3>3, SameRecords DEF Ledger!Stop
      <4>2. QED
        BY <1>1, <4>1 DEF Ledger!Next
    <3>4. CASE execution[h].status # "absent" /\ step \in NoteSteps(execution[h])
      <4>1. Ledger!Note(h)
        BY <2>1, <3>4, SameRecords DEF Ledger!Note
      <4>2. QED
        BY <1>1, <4>1 DEF Ledger!Next
    <3>5. QED
      BY <2>3, <3>1, <3>2, <3>3, <3>4 DEF Allowed
  <2>4. QED
    BY <1>1, <1>2, <2>2, <2>3 DEF CommitEffect
<1>4. QED
  BY <1>1, <1>2, <1>3 DEF CommitEffect

\* Every step of the handlers is a step of the ledger, or leaves it alone.
LEMMA NextIsLedgerStep ==
  ASSUME TypeOK, IInv, [Next]_vars
  PROVE  [Ledger!Next]_(Ledger!ledgerVars)
<1>1. CASE HandlerNext
  <2>1. PICK c \in Clients, h \in Handoffs, loaded \in Row, status \in HandoffStatus, step \in Step :
          Serve(c, h, loaded, step, status)
    BY <1>1, HandlerServes
  <2>2. QED
    BY <2>1 DEF Serve, Ledger!ledgerVars
<1>2. CASE PackNext /\ UNCHANGED executionVars
  BY <1>2 DEF executionVars, Ledger!ledgerVars
<1>3. ASSUME NEW q \in calls, Commit(q) \/ Rollback(q)
      PROVE  [Ledger!Next]_(Ledger!ledgerVars)
  BY <1>3, CommitIsLedgerStep DEF Rollback, Ledger!ledgerVars
<1>4. CASE UNCHANGED vars
  BY <1>4 DEF vars, executionVars, Ledger!ledgerVars
<1>5. QED
  BY <1>1, <1>2, <1>3, <1>4 DEF Next

\* Handlers that only meet at the unique constraints of the tables behave like
\* handlers that run one at a time on the current row and log.
THEOREM Refinement == Spec => ImplementsLedger
<1>1. Init => Ledger!Init
  BY SameRecords DEF Init, Ledger!Init
<1>2. TypeOK /\ IInv /\ [Next]_vars => [Ledger!Next]_(Ledger!ledgerVars)
  BY NextIsLedgerStep
<1>3. QED
  BY <1>1, <1>2, TypeCorrect, Invariance, PTL DEF Spec, ImplementsLedger, Ledger!Spec

-----------------------------------------------------------------------------
(* 4. Safety *)

\* The log has no gap and no number twice, for any number of handlers.
THEOREM LogIsGapless == Spec => []EventLogGapless
<1>1. IInv => EventLogGapless
  BY DEF IInv
<1>2. QED
  BY <1>1, Invariance, PTL

\* Only evidence decides the gate.
LEMMA OnlyEvidenceDecides ==
  ASSUME NEW log, NEW criteria, NEW added, CompletionGate(log, criteria),
         \A e \in added : e.type # "criterion_evidence"
  PROVE  CompletionGate(log \cup added, criteria)
<1>1. ASSUME NEW k PROVE EvidenceOn(log \cup added, k) = EvidenceOn(log, k)
  BY DEF EvidenceOn
<1>2. QED
  BY <1>1 DEF CompletionGate, Passed

EndInv == CompletedHasPassed /\ EndedOnce

\* What EndInv says of one execution with the row r, the log and the criteria.
EndsWell(r, log, criteria) ==
    /\ r.status = "completed" => CompletionGate(log, criteria)
    /\ LET ends == {e \in log : e.type = "status"}
       IN  IF r.status \in TerminalExecutionStates
           THEN \E e \in ends :
                    /\ ends = {e}
                    /\ e.says = r.status
                    /\ \A f \in log : f.seq > e.seq => f.type = "note"
           ELSE ends = {}

\* The invariant on ends, one execution at a time.
LEMMA EndInvByExecution == EndInv <=> \A h \in Handoffs : EndsWell(execution[h], events[h], CriteriaOf[h])
BY DEF EndInv, CompletedHasPassed, EndedOnce, EndsWell

\* An allowed step keeps the end of its execution sound, and only adds notes to
\* what is already terminal.
LEMMA StepEndsWell ==
  ASSUME NEW r \in Row, NEW log \in SUBSET Event, NEW criteria \in SUBSET Criteria, NEW step \in Step,
         EndsWell(r, log, criteria),
         Gapless(log, r.seq), Gapless(log \cup step.added, step.row.seq), Numbered(step, r.seq),
         \/ r = NoRow /\ step = StartStep
         \/ Allowed(r, log, step, criteria)
  PROVE  /\ EndsWell(step.row, log \cup step.added, criteria)
         /\ r.status \in TerminalExecutionStates => OnlyNoted(r, log, step.row, log \cup step.added)
<1> DEFINE newLog == log \cup step.added
<1>1. \A f \in newLog : f.seq \in Nat /\ f.seq <= step.row.seq
  <2>1. {e.seq : e \in newLog} = 1..step.row.seq
    BY DEF Gapless
  <2>2. \A f \in newLog : f.seq \in 1..step.row.seq
    BY <2>1
  <2>3. QED
    BY <2>2
<1>2. CASE /\ r.status \notin TerminalExecutionStates
           /\ step.row.status = "running"
           /\ \A e \in step.added : e.type # "status"
  <2>1. {e \in newLog : e.type = "status"} = {}
    BY <1>2 DEF EndsWell
  <2>2. "running" \notin TerminalExecutionStates /\ "running" # "completed"
    BY DEF TerminalExecutionStates
  <2>3. QED
    BY <1>2, <2>1, <2>2 DEF EndsWell
<1>3. CASE step = StartStep /\ r = NoRow
  <2>1. EventOf(1, "started", {}, "", NoRefs).type # "status"
    BY DEF EventOf
  <2>2. \A e \in step.added : e.type # "status"
    BY <1>3, <2>1 DEF StartStep
  <2>3. QED
    BY <1>2, <1>3, <2>2, StartIsNumbered DEF NoRow, TerminalExecutionStates
<1>4. CASE r.status = "running" /\ Recorded(r, step)
  BY <1>2, <1>4 DEF Recorded, TerminalExecutionStates
<1>5. CASE /\ r.status = "running" /\ Ended(step)
           /\ step.row.status = "completed" => CompletionGate(log, criteria)
  <2>1. PICK e \in Event :
          step.added = {e} /\ e.type = "status" /\ e.says = step.row.status /\ e.seq = step.row.seq
    BY <1>5 DEF Ended
  <2>2. \A f \in log : f.type # "status"
    BY <1>5 DEF EndsWell, TerminalExecutionStates
  <2>3. {f \in newLog : f.type = "status"} = {e}
    BY <2>1, <2>2
  <2>4. ~ \E f \in newLog : f.seq > e.seq
    BY <1>1, <2>1 DEF Step, Row
  <2>5. step.row.status = "completed" => CompletionGate(newLog, criteria)
    BY <1>5, <2>1, OnlyEvidenceDecides
  <2>6. step.row.status \in TerminalExecutionStates
    BY <1>5 DEF Ended
  <2>7. r.status \notin TerminalExecutionStates
    BY <1>5 DEF TerminalExecutionStates
  <2>8. EndsWell(step.row, newLog, criteria)
    <3>1. e \in newLog
      BY <2>1
    <3>2. QED
      BY <2>1, <2>3, <2>4, <2>5, <2>6, <3>1 DEF EndsWell
  <2>9. QED
    BY <2>7, <2>8
<1>6. CASE Noted(r, step)
  <2>1. step.row.status = r.status
    BY <1>6, RowOfColumns DEF Noted
  <2>2. \A f \in step.added : f.type # "status" /\ f.type # "criterion_evidence"
    BY <1>6 DEF Noted
  <2>3. {f \in newLog : f.type = "status"} = {f \in log : f.type = "status"}
    BY <2>2
  <2>4. step.row.status = "completed" => CompletionGate(newLog, criteria)
    BY <2>1, <2>2, OnlyEvidenceDecides DEF EndsWell
  <2>5. CASE r.status \in TerminalExecutionStates
    <3>1. PICK e \in {f \in log : f.type = "status"} :
            /\ {f \in log : f.type = "status"} = {e}
            /\ e.says = r.status
            /\ \A f \in log : f.seq > e.seq => f.type = "note"
      BY <2>5 DEF EndsWell
    <3>2. \A f \in newLog : f.seq > e.seq => f.type = "note"
      BY <1>6, <3>1 DEF Noted
    <3>3. EndsWell(step.row, newLog, criteria)
      BY <2>1, <2>3, <2>4, <2>5, <3>1, <3>2 DEF EndsWell
    <3>4. OnlyNoted(r, log, step.row, newLog)
      BY <1>6 DEF Noted, OnlyNoted
    <3>5. QED
      BY <3>3, <3>4
  <2>6. CASE r.status \notin TerminalExecutionStates
    BY <2>1, <2>3, <2>4, <2>6 DEF EndsWell
  <2>7. QED
    BY <2>5, <2>6
<1>7. QED
  BY <1>3, <1>4, <1>5, <1>6, AllowedEffects

\* The ends of all executions after a commit.
LEMMA CommitKeepsEndInv ==
  ASSUME TypeOK, IInv, IInv', EndInv, NEW q \in calls, Commit(q)
  PROVE  /\ EndInv'
         /\ \A i \in Handoffs : execution[i].status \in TerminalExecutionStates =>
                OnlyNoted(execution[i], events[i], execution'[i], events'[i])
<1> DEFINE h == q.handoff
           step == StepOf(q)
<1>1. /\ h \in Handoffs
      /\ execution' = [execution EXCEPT ![h] = execution'[h]]
      /\ events' = [events EXCEPT ![h] = events'[h]]
      /\ CommitEffect(h, step)
  BY CommitEffects
<1> HIDE DEF h, step
<1>2. /\ execution[h] \in Row /\ events[h] \in SUBSET Event /\ CriteriaOf[h] \in SUBSET Criteria
      /\ \A i \in Handoffs \ {h} : execution'[i] = execution[i] /\ events'[i] = events[i]
  BY <1>1, CriteriaOfAssumption DEF TypeOK
<1>3. \A i \in Handoffs : EndsWell(execution[i], events[i], CriteriaOf[i])
  BY EndInvByExecution
<1>4. ASSUME NEW i \in Handoffs
      PROVE  OnlyNoted(execution[i], events[i], execution[i], events[i])
  <2>1. execution[i] \in Row
    BY DEF TypeOK
  <2>2. execution[i] = RowOf(execution[i].status, execution[i].seq, execution[i].progress, execution[i].refs)
    BY <2>1 DEF Row, RowOf
  <2>3. QED
    BY <2>2 DEF OnlyNoted
<1>5. /\ EndsWell(execution'[h], events'[h], CriteriaOf[h])
      /\ execution[h].status \in TerminalExecutionStates =>
             OnlyNoted(execution[h], events[h], execution'[h], events'[h])
  <2>1. CASE execution'[h] = execution[h] /\ events'[h] = events[h]
    BY <1>1, <1>3, <1>4, <2>1
  <2>2. CASE ~(execution'[h] = execution[h] /\ events'[h] = events[h])
    <3>1. /\ \/ execution[h] = NoRow /\ step = StartStep
             \/ Allowed(execution[h], events[h], step, CriteriaOf[h])
          /\ Numbered(step, execution[h].seq) /\ step \in Step
          /\ execution'[h] = step.row /\ events'[h] = events[h] \cup step.added
      BY <1>1, <2>2 DEF CommitEffect
    <3>2. Gapless(events[h], execution[h].seq) /\ Gapless(events'[h], execution'[h].seq)
      BY <1>1 DEF IInv, EventLogGapless
    <3>3. Gapless(events[h] \cup step.added, step.row.seq)
      BY <3>1, <3>2
    <3>4. QED
      BY <1>1, <1>2, <1>3, <3>1, <3>2, <3>3, StepEndsWell
  <2>3. QED
    BY <2>1, <2>2
<1>6. \A i \in Handoffs : EndsWell(execution'[i], events'[i], CriteriaOf[i])
  BY <1>2, <1>3, <1>5
<1>7. EndInv'
  BY <1>6 DEF EndInv, CompletedHasPassed, EndedOnce, EndsWell
<1>8. QED
  BY <1>2, <1>4, <1>5, <1>7

\* The same for every step: all others leave executions and logs alone.
LEMMA NextKeepsEndInv ==
  ASSUME TypeOK, IInv, IInv', EndInv, [Next]_vars
  PROVE  /\ EndInv'
         /\ \A i \in Handoffs : execution[i].status \in TerminalExecutionStates =>
                OnlyNoted(execution[i], events[i], execution'[i], events'[i])
<1>1. ASSUME UNCHANGED <<execution, events>>
      PROVE  /\ EndInv'
             /\ \A i \in Handoffs : execution[i].status \in TerminalExecutionStates =>
                    OnlyNoted(execution[i], events[i], execution'[i], events'[i])
  <2>1. ASSUME NEW i \in Handoffs
        PROVE  OnlyNoted(execution[i], events[i], execution'[i], events'[i])
    <3>1. execution[i] \in Row /\ execution'[i] = execution[i] /\ events'[i] = events[i]
      BY <1>1 DEF TypeOK
    <3>2. execution[i] = RowOf(execution[i].status, execution[i].seq, execution[i].progress, execution[i].refs)
      BY <3>1 DEF Row, RowOf
    <3>3. QED
      BY <3>1, <3>2 DEF OnlyNoted
  <2>2. EndInv'
    BY <1>1 DEF EndInv, CompletedHasPassed, EndedOnce
  <2>3. QED
    BY <2>1, <2>2
<1>2. CASE HandlerNext
  <2>1. UNCHANGED <<execution, events>>
    BY <1>2, HandlerServes DEF Serve
  <2>2. QED
    BY <1>1, <2>1
<1>3. CASE PackNext /\ UNCHANGED executionVars
  BY <1>1, <1>3 DEF executionVars
<1>4. CASE \E q \in calls : Rollback(q)
  BY <1>1, <1>4 DEF Rollback
<1>5. CASE UNCHANGED vars
  BY <1>1, <1>5 DEF vars, executionVars
<1>6. QED
  BY <1>2, <1>3, <1>4, <1>5, CommitKeepsEndInv DEF Next

\* A completed execution has criteria and its latest evidence on each passed;
\* an execution ends once, with the event that says how.
THEOREM EndsAreSound == Spec => [](CompletedHasPassed /\ EndedOnce)
<1>1. Init => EndInv
  BY DEF Init, NoRow, EndInv, CompletedHasPassed, EndedOnce, TerminalExecutionStates
<1>2. TypeOK /\ IInv /\ IInv' /\ EndInv /\ [Next]_vars => EndInv'
  BY NextKeepsEndInv
<1>3. EndInv => CompletedHasPassed /\ EndedOnce
  BY DEF EndInv
<1>4. QED
  BY <1>1, <1>2, <1>3, TypeCorrect, Invariance, PTL DEF Spec

\* A terminal execution has one event that ended it, and it is of its status; a
\* running one has none, however many handlers tried to end it.
THEOREM EndsOnce == Spec => []EndedOnce
<1>1. CompletedHasPassed /\ EndedOnce => EndedOnce
  OBVIOUS
<1> QED BY <1>1, EndsAreSound, PTL

\* What a terminal execution shows never changes.
THEOREM TerminalIsFinal == Spec => TerminalExecutionIsFinal
<1>1. EndInv <=> CompletedHasPassed /\ EndedOnce
  BY DEF EndInv
<1>2. TypeOK /\ IInv /\ IInv' /\ EndInv /\ [Next]_vars =>
        [\A h \in Handoffs :
           execution[h].status \in TerminalExecutionStates =>
               OnlyNoted(execution[h], events[h], execution'[h], events'[h])]_vars
  BY NextKeepsEndInv
<1>3. QED
  BY <1>1, <1>2, TypeCorrect, Invariance, EndsAreSound, PTL DEF Spec, TerminalExecutionIsFinal

-----------------------------------------------------------------------------
(* 5. The chain of authorisation *)

Decided == {"approved", "cancelled"}

Released == {"released"} \cup TerminalHandoffStates

\* A pack request either decides the pack or inserts it.
PackCallsDecide ==
    \A q \in packCalls : q.status \in Decided \/ (q.status = "pending" /\ q.loaded = "absent")

\* A call either creates its handoff, alone, from a decided pack, or found one,
\* and then it leaves the status or writes one that only a released handoff has;
\* it holds an execution only if the handoff was released.
Authorised(q) ==
    \/ /\ q.loadedHandoff = "absent"
       /\ q.handoffStatus = "prepared"
       /\ q.row.status = "absent"
       /\ handoff[q.handoff] = "absent"
       /\ pack[PackOf[q.handoff]] \in Decided
    \/ /\ q.loadedHandoff # "absent"
       /\ q.handoffStatus \in {q.loadedHandoff} \cup Released
       /\ handoff[q.handoff] # "absent"
       /\ q.row.status # "absent" => handoff[q.handoff] \in Released

CreatesAlone ==
    \A p, q \in calls : p.handoff = q.handoff /\ q.loadedHandoff = "absent" => p = q

ChainInv ==
    /\ PackCallsDecide
    /\ ChainOfAuthorisation
    /\ CreatesAlone
    /\ \A q \in calls : Authorised(q)

\* Only the row of a new call matters for the chain.
LEMMA HandlerAuthorised ==
  ASSUME TypeOK, ChainInv, HandlerNext
  PROVE  \E c \in Clients, h \in Handoffs, loaded \in Row, status \in HandoffStatus : \E step :
             /\ Serve(c, h, loaded, step, status)
             /\ \/ /\ handoff[h] = "absent" /\ status = "prepared" /\ step.row.status = "absent"
                   /\ pack[PackOf[h]] \in Decided
                   /\ \A q \in calls : q.handoff # h
                \/ /\ handoff[h] # "absent"
                   /\ status \in {handoff[h]} \cup Released
                   /\ step.row.status # "absent" => handoff[h] \in Released
<1> DEFINE Sound(h, step, status) ==
             \/ /\ handoff[h] = "absent" /\ status = "prepared" /\ step.row.status = "absent"
                /\ pack[PackOf[h]] \in Decided
                /\ \A q \in calls : q.handoff # h
             \/ /\ handoff[h] # "absent"
                /\ status \in {handoff[h]} \cup Released
                /\ step.row.status # "absent" => handoff[h] \in Released
<1>1. PICK c \in Clients, h \in Handoffs :
        \/ CreateAgentHandoff(c, h)
        \/ ReleaseAgentHandoff(c, h)
        \/ CompleteAgentHandoff(c, h)
        \/ FailAgentHandoff(c, h)
        \/ CancelAgentHandoff(c, h)
        \/ CreateAgentExecution(c, h)
        \/ RecordExecutionProgress(c, h)
        \/ RecordExecutionTechnicalRefs(c, h)
        \/ RecordExecutionEvidence(c, h)
        \/ VerifyExecutionGithub(c, h)
        \/ CompleteAgentExecution(c, h)
        \/ FailAgentExecution(c, h)
        \/ CancelAgentExecution(c, h)
        \/ AppendNote(c, h)
  BY DEF HandlerNext
<1>2. SUFFICES \E loaded \in Row, status \in HandoffStatus : \E step :
                   Serve(c, h, loaded, step, status) /\ Sound(h, step, status)
  OBVIOUS
<1>3. handoff[h] \in HandoffStatus /\ execution[h] \in Row /\ NoRow \in Row /\ NoRow.status = "absent"
  BY StartStepType DEF TypeOK, NoRow
<1>4. execution[h].status # "absent" => handoff[h] \in Released /\ handoff[h] # "absent"
  BY DEF ChainInv, ChainOfAuthorisation, Released, TerminalHandoffStates
<1>5. ASSUME NEW status \in HandoffStatus, ServeHandoff(c, h, status),
             \/ /\ handoff[h] = "absent" /\ status = "prepared" /\ pack[PackOf[h]] \in Decided
                /\ \A q \in calls : q.handoff # h
             \/ handoff[h] # "absent" /\ status \in Released
      PROVE  \E loaded \in Row, st \in HandoffStatus : \E step :
                 Serve(c, h, loaded, step, st) /\ Sound(h, step, st)
  <2>1. Serve(c, h, NoRow, [row |-> NoRow, added |-> {}], status)
    BY <1>5 DEF ServeHandoff
  <2>2. Sound(h, [row |-> NoRow, added |-> {}], status)
    BY <1>3, <1>5
  <2>3. QED
    BY <1>3, <2>1, <2>2
<1>6. ASSUME NEW status \in {handoff[h]} \cup Released, NEW step, NEW loaded \in Row,
             Serve(c, h, loaded, step, status), handoff[h] \in Released
      PROVE  \E l \in Row, st \in HandoffStatus : \E s :
                 Serve(c, h, l, s, st) /\ Sound(h, s, st)
  <2>1. status \in HandoffStatus /\ handoff[h] # "absent"
    BY <1>3, <1>6 DEF Released, HandoffStatus, TerminalHandoffStates
  <2>2. Sound(h, step, status)
    BY <1>6, <2>1
  <2>3. QED
    BY <1>6, <2>1, <2>2
<1> HIDE DEF Sound
<1>7. ASSUME NEW status \in {handoff[h]} \cup Released, NEW step, ServeRunning(c, h, step, status)
      PROVE  \E l \in Row, st \in HandoffStatus : \E s : Serve(c, h, l, s, st) /\ Sound(h, s, st)
  BY <1>3, <1>4, <1>6, <1>7 DEF ServeRunning
<1>8. {"prepared", "released", "completed", "failed", "cancelled"} \subseteq HandoffStatus
      /\ {"released", "completed", "failed", "cancelled"} = Released
  BY DEF HandoffStatus, Released, TerminalHandoffStates
<1>9. CASE CreateAgentHandoff(c, h)
  BY <1>5, <1>8, <1>9 DEF CreateAgentHandoff, Decided
<1>10. CASE ReleaseAgentHandoff(c, h)
  BY <1>5, <1>8, <1>10 DEF ReleaseAgentHandoff
<1>11. CASE CompleteAgentHandoff(c, h)
  BY <1>5, <1>8, <1>11 DEF CompleteAgentHandoff
<1>12. CASE FailAgentHandoff(c, h)
  BY <1>5, <1>8, <1>12 DEF FailAgentHandoff
<1>13. CASE CancelAgentHandoff(c, h)
  BY <1>5, <1>8, <1>13 DEF CancelAgentHandoff
<1>14. CASE CreateAgentExecution(c, h)
  BY <1>3, <1>6, <1>8, <1>14 DEF CreateAgentExecution
<1>15. CASE RecordExecutionProgress(c, h)
  BY <1>7, <1>15 DEF RecordExecutionProgress
<1>16. CASE RecordExecutionTechnicalRefs(c, h)
  BY <1>7, <1>16 DEF RecordExecutionTechnicalRefs
<1>17. CASE RecordExecutionEvidence(c, h)
  BY <1>7, <1>17 DEF RecordExecutionEvidence
<1>18. CASE VerifyExecutionGithub(c, h)
  BY <1>7, <1>18 DEF VerifyExecutionGithub
<1>19. CASE CompleteAgentExecution(c, h)
  BY <1>7, <1>8, <1>19 DEF CompleteAgentExecution
<1>20. CASE FailAgentExecution(c, h)
  BY <1>7, <1>8, <1>20 DEF FailAgentExecution
<1>21. CASE CancelAgentExecution(c, h)
  BY <1>7, <1>8, <1>21 DEF CancelAgentExecution
<1>22. CASE AppendNote(c, h)
  BY <1>3, <1>4, <1>6, <1>22 DEF AppendNote
<1>23. QED
  BY <1>1, <1>9, <1>10, <1>11, <1>12, <1>13, <1>14, <1>15, <1>16, <1>17, <1>18, <1>19, <1>20, <1>21, <1>22

\* A decided pack stays decided, however approvals and cancellations overlap.
LEMMA PackStaysDecided ==
  ASSUME PackTypeOK, PackCallsDecide, [PackNext]_packVars
  PROVE  PackCallsDecide' /\ \A p \in Packs : pack[p] \in Decided => pack'[p] \in Decided
<1>1. ASSUME NEW c \in PackClients, NEW p \in Packs, NEW from, NEW to,
             PackHandler(c, p, from, to), to \in Decided \/ (to = "pending" /\ from = "absent")
      PROVE  PackCallsDecide' /\ \A i \in Packs : pack[i] \in Decided => pack'[i] \in Decided
  BY <1>1 DEF PackHandler, PackCallsDecide
<1>2. ASSUME NEW c \in PackClients, NEW p \in Packs,
             \/ CreateAgentTaskPack(c, p)
             \/ ApproveAgentTaskPack(c, p)
             \/ CancelAgentTaskPack(c, p)
      PROVE  PackCallsDecide' /\ \A i \in Packs : pack[i] \in Decided => pack'[i] \in Decided
  <2>1. "approved" \in Decided /\ "cancelled" \in Decided
    BY DEF Decided
  <2>2. QED
    BY <1>1, <1>2, <2>1 DEF CreateAgentTaskPack, ApproveAgentTaskPack, CancelAgentTaskPack
<1>3. ASSUME NEW q \in packCalls, CommitPack(q)
      PROVE  PackCallsDecide' /\ \A i \in Packs : pack[i] \in Decided => pack'[i] \in Decided
  <2>1. PackCallsDecide'
    BY <1>3 DEF CommitPack, PackCallsDecide
  <2>2. q.pack \in Packs
    BY DEF PackTypeOK, PackCall
  <2>3. pack' = [pack EXCEPT ![q.pack] = Flushed(pack[q.pack], q.loaded, q.status)]
    BY <1>3 DEF CommitPack
  <2>4. pack[q.pack] \in Decided => Flushed(pack[q.pack], q.loaded, q.status) \in Decided
    BY <1>3 DEF CommitPack, FingerprintFree, PackCallsDecide, Flushed, Decided
  <2>5. QED
    BY <2>1, <2>2, <2>3, <2>4 DEF PackTypeOK
<1>4. ASSUME NEW q \in packCalls, RollbackPack(q)
      PROVE  PackCallsDecide' /\ \A i \in Packs : pack[i] \in Decided => pack'[i] \in Decided
  BY <1>4 DEF RollbackPack, PackCallsDecide
<1>5. CASE UNCHANGED packVars
  BY <1>5 DEF packVars, PackCallsDecide
<1>6. QED
  BY <1>2, <1>3, <1>4, <1>5 DEF PackNext

\* The chain of authorisation, one handoff at a time.
LEMMA ChainByHandoff ==
  ChainOfAuthorisation <=>
    \A h \in Handoffs :
        /\ handoff[h] # "absent" => pack[PackOf[h]] \in Decided
        /\ execution[h].status # "absent" => handoff[h] \in Released
BY DEF ChainOfAuthorisation, Decided, Released

\* A commit either inserts a handoff nobody else refers to, or moves one within
\* what its status allows.
LEMMA CommitKeepsChain ==
  ASSUME TypeOK, ChainInv, NEW q \in calls, Commit(q)
  PROVE  ChainInv'
<1> DEFINE h == q.handoff
<1>1. h \in Handoffs /\ calls' = calls \ {q} /\ packVars' = packVars /\ pack' = pack /\ packCalls' = packCalls
  BY DEF TypeOK, Call, Commit, packVars
<1>2. /\ handoff'[h] = Flushed(handoff[h], q.loadedHandoff, q.handoffStatus)
      /\ execution'[h].status = Flushed(execution[h].status, q.loaded.status, q.row.status)
      /\ \A i \in Handoffs \ {h} : handoff'[i] = handoff[i] /\ execution'[i] = execution[i]
  BY <1>1 DEF TypeOK, Commit, FlushedRow
<1>3. \A i \in Handoffs :
        /\ handoff[i] # "absent" => pack[PackOf[i]] \in Decided
        /\ execution[i].status # "absent" => handoff[i] \in Released
  BY ChainByHandoff DEF ChainInv
<1>4. "absent" \notin Released /\ "prepared" \notin Released
  BY DEF Released, TerminalHandoffStates
<1> HIDE DEF h
<1>5. /\ handoff'[h] # "absent" => pack[PackOf[h]] \in Decided
      /\ execution'[h].status # "absent" => handoff'[h] \in Released
      /\ handoff[h] # "absent" => handoff'[h] # "absent"
      /\ handoff[h] \in Released => handoff'[h] \in Released
  <2>1. CASE /\ q.loadedHandoff = "absent" /\ q.row.status = "absent"
             /\ handoff[h] = "absent" /\ pack[PackOf[h]] \in Decided
    <3>1. execution[h].status = "absent"
      BY <1>1, <1>3, <1>4, <2>1
    <3>2. QED
      BY <1>2, <1>4, <2>1, <3>1 DEF Flushed
  <2>2. CASE /\ q.handoffStatus \in {q.loadedHandoff} \cup Released
             /\ handoff[h] # "absent"
             /\ q.row.status # "absent" => handoff[h] \in Released
    <3>1. handoff'[h] = handoff[h] \/ handoff'[h] \in Released
      BY <1>2, <2>2 DEF Flushed
    <3>2. execution'[h].status # "absent" => handoff[h] \in Released
      BY <1>1, <1>2, <1>3, <2>2 DEF Flushed
    <3>3. QED
      BY <1>1, <1>3, <1>4, <2>2, <3>1, <3>2
  <2>3. QED
    BY <2>1, <2>2 DEF ChainInv, Authorised, h
<1>6. ChainOfAuthorisation'
  BY <1>1, <1>2, <1>3, <1>5, ChainByHandoff DEF ChainOfAuthorisation, Decided, Released
<1>7. PackCallsDecide' /\ CreatesAlone'
  BY <1>1 DEF ChainInv, PackCallsDecide, CreatesAlone
<1>8. ASSUME NEW p \in calls, p # q
      PROVE  Authorised(p)'
  <2>1. Authorised(p) /\ p.handoff \in Handoffs
    BY DEF ChainInv, TypeOK, Call
  <2>2. CASE p.handoff # h
    BY <1>1, <1>2, <2>1, <2>2 DEF Authorised
  <2>3. CASE p.handoff = h
    <3>1. p.loadedHandoff # "absent"
      BY <1>8, <2>3 DEF ChainInv, CreatesAlone, h
    <3>2. QED
      BY <1>1, <1>5, <2>1, <2>3, <3>1 DEF Authorised
  <2>4. QED
    BY <2>2, <2>3
<1>9. QED
  BY <1>1, <1>6, <1>7, <1>8 DEF ChainInv

\* What open calls may write to packs and handoffs, in every reachable state.
LEMMA ChainInvHolds == Spec => []ChainInv
<1>1. Init => ChainInv
  BY DEF Init, PackInit, NoRow, ChainInv, PackCallsDecide, ChainOfAuthorisation, CreatesAlone
<1>2. ASSUME TypeOK, ChainInv, [Next]_vars
      PROVE  ChainInv'
  <2>1. CASE PackNext /\ UNCHANGED executionVars
    <3>1. PackCallsDecide' /\ \A p \in Packs : pack[p] \in Decided => pack'[p] \in Decided
      BY <1>2, <2>1, PackStaysDecided DEF TypeOK, ChainInv
    <3>2. handoff' = handoff /\ execution' = execution /\ calls' = calls
      BY <2>1 DEF executionVars
    <3>3. \A h \in Handoffs : PackOf[h] \in Packs
      BY PackOfAssumption
    <3>4. ChainOfAuthorisation'
      BY <1>2, <3>1, <3>2, <3>3 DEF ChainInv, ChainOfAuthorisation, Decided
    <3>5. CreatesAlone'
      BY <1>2, <3>2 DEF ChainInv, CreatesAlone
    <3>6. ASSUME NEW q \in calls PROVE Authorised(q)'
      <4>1. Authorised(q) /\ q.handoff \in Handoffs
        BY <1>2 DEF ChainInv, TypeOK, Call
      <4>2. QED
        BY <3>1, <3>2, <3>3, <4>1 DEF Authorised
    <3>7. QED
      BY <3>1, <3>2, <3>4, <3>5, <3>6 DEF ChainInv
  <2>2. CASE HandlerNext
    <3>0. PICK c \in Clients, h \in Handoffs, loaded \in Row, status \in HandoffStatus : \E step :
             /\ Serve(c, h, loaded, step, status)
             /\ \/ /\ handoff[h] = "absent" /\ status = "prepared" /\ step.row.status = "absent"
                   /\ pack[PackOf[h]] \in Decided
                   /\ \A q \in calls : q.handoff # h
                \/ /\ handoff[h] # "absent"
                   /\ status \in {handoff[h]} \cup Released
                   /\ step.row.status # "absent" => handoff[h] \in Released
      BY <1>2, <2>2, HandlerAuthorised
    <3>1. PICK step :
             /\ Serve(c, h, loaded, step, status)
             /\ \/ /\ handoff[h] = "absent" /\ status = "prepared" /\ step.row.status = "absent"
                   /\ pack[PackOf[h]] \in Decided
                   /\ \A q \in calls : q.handoff # h
                \/ /\ handoff[h] # "absent"
                   /\ status \in {handoff[h]} \cup Released
                   /\ step.row.status # "absent" => handoff[h] \in Released
      BY <3>0
    <3> DEFINE q == [client |-> c, handoff |-> h, loaded |-> loaded, row |-> step.row,
                     added |-> step.added, loadedHandoff |-> handoff[h], handoffStatus |-> status]
    <3>2. /\ calls' = calls \cup {q} /\ handoff' = handoff /\ execution' = execution
          /\ pack' = pack /\ packCalls' = packCalls
      BY <3>1 DEF Serve, packVars
    <3>3. Authorised(q)
      BY <3>1 DEF Authorised
    <3>4. q.handoff = h /\ (q.loadedHandoff = "absent" <=> handoff[h] = "absent")
      OBVIOUS
    <3>5. \A p \in calls : p.handoff = h /\ p.loadedHandoff = "absent" => handoff[h] = "absent"
      BY <1>2 DEF ChainInv, Authorised
    <3>6. handoff[h] = "absent" => \A p \in calls : p.handoff # h
      BY <3>1
    <3> HIDE DEF q
    <3>7. CreatesAlone'
      BY <1>2, <3>2, <3>4, <3>5, <3>6 DEF ChainInv, CreatesAlone
    <3>8. \A p \in calls' : Authorised(p)'
      BY <1>2, <3>2, <3>3 DEF ChainInv, Authorised
    <3>9. QED
      BY <1>2, <3>2, <3>7, <3>8 DEF ChainInv, PackCallsDecide, ChainOfAuthorisation
  <2>3. ASSUME NEW q \in calls, Commit(q)
        PROVE  ChainInv'
    BY <1>2, <2>3, CommitKeepsChain
  <2>4. ASSUME handoff' = handoff, execution' = execution, calls' \subseteq calls, packVars' = packVars
        PROVE  ChainInv'
    <3>1. pack' = pack /\ packCalls' = packCalls
      BY <2>4 DEF packVars
    <3>2. QED
      BY <1>2, <2>4, <3>1
      DEF ChainInv, PackCallsDecide, ChainOfAuthorisation, CreatesAlone, Authorised
  <2>5. ASSUME NEW q \in calls, Rollback(q)
        PROVE  ChainInv'
    BY <2>4, <2>5 DEF Rollback
  <2>6. CASE UNCHANGED vars
    BY <2>4, <2>6 DEF vars, executionVars
  <2>7. QED
    BY <1>2, <2>1, <2>2, <2>3, <2>5, <2>6 DEF Next
<1>3. QED
  BY <1>1, <1>2, TypeCorrect, PTL DEF Spec

\* A handoff exists only for a pack somebody approved or cancelled, an execution
\* only for a handoff somebody released.
THEOREM ChainHolds == Spec => []ChainOfAuthorisation
<1>1. ChainInv => ChainOfAuthorisation
  BY DEF ChainInv
<1>2. QED
  BY <1>1, ChainInvHolds, PTL

-----------------------------------------------------------------------------
(* 6. The references *)

\* What RefsAreTheRecordedOnes says of one execution with the row r and the log.
RefsRecorded(r, log) ==
    /\ InForce(log, r.seq, r.refs)
    /\ \A e \in log : e.type = "external_verification" => InForce(log, e.seq, e.refs)

\* A step either records the references it leaves, or leaves them; and what GitHub is
\* asked about are the references of the row.
RefsEffect(r, step) ==
    \/ /\ step.row.refs = r.refs
       /\ \A e \in step.added : e.type # "technical_refs" /\ (e.type = "external_verification" => e.refs = r.refs)
    \/ \E e \in Event :
        step.added = {e} /\ e.type = "technical_refs" /\ e.refs = step.row.refs /\ e.seq = step.row.seq

\* A step of one event, or two, that records no references.
LEMMA OneLeavesRefs ==
  ASSUME NEW r, NEW row, row.refs = r.refs, NEW e,
         e.type # "technical_refs", e.type = "external_verification" => e.refs = r.refs
  PROVE  RefsEffect(r, [row |-> row, added |-> {e}])
BY DEF RefsEffect

LEMMA TwoLeaveRefs ==
  ASSUME NEW r, NEW row, row.refs = r.refs, NEW e, NEW f,
         e.type # "technical_refs", e.type = "external_verification" => e.refs = r.refs,
         f.type \notin {"technical_refs", "external_verification"}
  PROVE  RefsEffect(r, [row |-> row, added |-> {e, f}])
BY DEF RefsEffect

\* A row and an event show the columns they were made from.
LEMMA RowOfRefs ==
  ASSUME NEW status, NEW n, NEW p, NEW refs
  PROVE  RowOf(status, n, p, refs).refs = refs /\ RowOf(status, n, p, refs).seq = n
BY DEF RowOf

LEMMA EventOfColumns ==
  ASSUME NEW n, NEW type, NEW about, NEW says, NEW refs
  PROVE  /\ EventOf(n, type, about, says, refs).type = type
         /\ EventOf(n, type, about, says, refs).refs = refs
         /\ EventOf(n, type, about, says, refs).seq = n
BY DEF EventOf

\* Every allowed step is one of the two.
LEMMA StepRefs ==
  ASSUME NEW r \in Row, NEW log, NEW criteria \in SUBSET Criteria, NEW step,
         \/ r = NoRow /\ step = StartStep
         \/ Allowed(r, log, step, criteria)
  PROVE  RefsEffect(r, step)
<1>1. r.refs \in RefColumns /\ r.seq + 1 \in Nat
  BY DEF Row
<1>a. ASSUME NEW status, NEW n, NEW p, NEW m, NEW type, NEW about, NEW says, NEW refs,
             type # "technical_refs", type = "external_verification" => refs = r.refs,
             step = [row |-> RowOf(status, n, p, r.refs), added |-> {EventOf(m, type, about, says, refs)}]
      PROVE  RefsEffect(r, step)
  <2>1. RowOf(status, n, p, r.refs).refs = r.refs
    BY RowOfRefs
  <2>2. EventOf(m, type, about, says, refs).type = type /\ EventOf(m, type, about, says, refs).refs = refs
    BY EventOfColumns
  <2>3. QED
    BY <1>a, <2>1, <2>2, OneLeavesRefs
<1>2. ASSUME r = NoRow, step = StartStep PROVE RefsEffect(r, step)
  <2>1. r.refs = NoRefs
    BY <1>2 DEF NoRow
  <2>2. QED
    BY <1>a, <1>2, <2>1 DEF StartStep
<1>3. ASSUME NEW percent \in Percents, step = ProgressStep(r, percent) PROVE RefsEffect(r, step)
  <2> DEFINE row == RowOf(r.status, r.seq + 1, percent, r.refs)
             e == EventOf(r.seq + 1, "progress", {}, "", NoRefs)
  <2>1. row.refs = r.refs
    BY RowOfRefs
  <2>2. e.type = "progress"
    BY DEF EventOf
  <2>3. step = [row |-> row, added |-> {e}]
    BY <1>3 DEF ProgressStep
  <2> HIDE DEF row, e
  <2>4. QED
    BY <2>1, <2>2, <2>3, OneLeavesRefs
<1>4. ASSUME NEW given \in RefColumns, step = TechnicalRefsStep(r, given) PROVE RefsEffect(r, step)
  <2> DEFINE refs == MergedRefs(r.refs, given)
             e == EventOf(r.seq + 1, "technical_refs", {}, "", refs)
  <2>1. refs \in RefColumns
    BY <1>1 DEF MergedRefs, RefColumns
  <2>a. step.row = RowOf(r.status, r.seq + 1, r.progress, refs)
    BY <1>4 DEF TechnicalRefsStep
  <2>2. step.added = {e}
    BY <1>4 DEF TechnicalRefsStep
  <2> HIDE DEF refs
  <2>3. e \in Event
    BY <1>1, <2>1, EventOfType DEF EventType
  <2>4. e.type = "technical_refs" /\ e.refs = refs /\ e.seq = r.seq + 1
    BY DEF EventOf
  <2>5. step.row.refs = refs /\ step.row.seq = r.seq + 1
    BY <2>a DEF RowOf
  <2> HIDE DEF e
  <2>6. QED
    BY <2>2, <2>3, <2>4, <2>5 DEF RefsEffect
<1>5. ASSUME NEW k \in criteria, NEW v \in {"passed", "failed"}, step = EvidenceStep(r, k, v)
      PROVE  RefsEffect(r, step)
  BY <1>a, <1>5 DEF EvidenceStep
<1>6. ASSUME step = VerificationStep(r) PROVE RefsEffect(r, step)
  BY <1>a, <1>6 DEF VerificationStep
<1>7. ASSUME NEW k \in criteria, step = GreenChecksStep(r, k) PROVE RefsEffect(r, step)
  <2> DEFINE row == RowOf(r.status, r.seq + 2, r.progress, r.refs)
             e == EventOf(r.seq + 1, "external_verification", {}, "", r.refs)
             f == EventOf(r.seq + 2, "criterion_evidence", {k}, "passed", NoRefs)
  <2>1. row.refs = r.refs
    BY RowOfRefs
  <2>2. e.type = "external_verification" /\ e.refs = r.refs /\ f.type = "criterion_evidence"
    BY DEF EventOf
  <2>3. step = [row |-> row, added |-> {e, f}]
    BY <1>7 DEF GreenChecksStep
  <2> HIDE DEF row, e, f
  <2>4. QED
    BY <2>1, <2>2, <2>3, TwoLeaveRefs
<1>8. ASSUME step = CompleteStep(r) \/ \E status \in {"failed", "cancelled"} : step = StopStep(r, status)
      PROVE  RefsEffect(r, step)
  BY <1>a, <1>8 DEF CompleteStep, StopStep
<1>9. ASSUME step \in NoteSteps(r) PROVE RefsEffect(r, step)
  <2> DEFINE row1 == RowOf(r.status, r.seq + 1, r.progress, r.refs)
             row == RowOf(r.status, r.seq + 2, r.progress, r.refs)
             e == EventOf(r.seq + 1, "note", {}, "", NoRefs)
             f == EventOf(r.seq + 2, "note", {}, "", NoRefs)
  <2>1. row.refs = r.refs /\ row1.refs = r.refs
    BY RowOfRefs
  <2>2. e.type = "note" /\ f.type = "note"
    BY DEF EventOf
  <2>3. \/ step = [row |-> row1, added |-> {e}]
        \/ step = [row |-> row, added |-> {e, f}]
    BY <1>9 DEF NoteSteps
  <2> HIDE DEF row1, row, e, f
  <2>4. CASE step = [row |-> row1, added |-> {e}]
    BY <2>1, <2>2, <2>4, OneLeavesRefs
  <2>5. CASE step = [row |-> row, added |-> {e, f}]
    BY <2>1, <2>2, <2>5, TwoLeaveRefs
  <2>6. QED
    BY <2>3, <2>4, <2>5
<1>10. ASSUME step \in RecordSteps(r, criteria) PROVE RefsEffect(r, step)
  BY <1>3, <1>4, <1>5, <1>6, <1>7, <1>10, RecordStepCases
<1>11. QED
  BY <1>2, <1>8, <1>9, <1>10 DEF Allowed

\* References in force at n stay so when what is added is later, or records none.
LEMMA InForceStays ==
  ASSUME NEW log, NEW added, NEW n, NEW refs, InForce(log, n, refs),
         \A e \in added : e.type # "technical_refs" \/ ~(e.seq <= n)
  PROVE  InForce(log \cup added, n, refs)
<1>1. {e \in log \cup added : e.type = "technical_refs" /\ e.seq <= n}
        = {e \in log : e.type = "technical_refs" /\ e.seq <= n}
  OBVIOUS
<1>2. QED
  BY <1>1 DEF InForce

\* They are in force from the end of the log on.
LEMMA InForceOnwards ==
  ASSUME NEW log \in SUBSET Event, NEW n \in Nat, NEW m \in Nat, n <= m, NEW refs, InForce(log, n, refs),
         \A e \in log : e.seq <= n
  PROVE  InForce(log, m, refs)
<1>1. \A e \in log : e.seq \in Nat
  BY DEF Event
<1>2. {e \in log : e.type = "technical_refs" /\ e.seq <= m}
        = {e \in log : e.type = "technical_refs" /\ e.seq <= n}
  BY <1>1
<1>3. QED
  BY <1>2 DEF InForce

LEMMA StepKeepsRefs ==
  ASSUME NEW r \in Row, NEW log \in SUBSET Event, NEW criteria \in SUBSET Criteria, NEW step \in Step,
         RefsRecorded(r, log), Gapless(log, r.seq), Numbered(step, r.seq),
         \/ r = NoRow /\ step = StartStep
         \/ Allowed(r, log, step, criteria)
  PROVE  RefsRecorded(step.row, log \cup step.added)
<1> DEFINE newLog == log \cup step.added
<1>1. r.seq \in Nat /\ step.row.seq \in Nat /\ r.seq <= step.row.seq
      /\ \A e \in step.added : e.seq \in Nat /\ r.seq < e.seq /\ e.seq <= step.row.seq
  BY DEF Row, Step, Numbered
<1>2. \A e \in log : e.seq \in Nat /\ e.seq <= r.seq
  <2>1. \A e \in log : e.seq \in 1..r.seq
    BY DEF Gapless
  <2>2. QED
    BY <1>1, <2>1
<1>3. ASSUME NEW e \in log, e.type = "external_verification" PROVE InForce(newLog, e.seq, e.refs)
  <2>1. InForce(log, e.seq, e.refs)
    BY <1>3 DEF RefsRecorded
  <2>2. \A f \in step.added : ~(f.seq <= e.seq)
    BY <1>1, <1>2
  <2>3. QED
    BY <2>1, <2>2, InForceStays
<1>4. CASE /\ step.row.refs = r.refs
           /\ \A e \in step.added : e.type # "technical_refs" /\ (e.type = "external_verification" => e.refs = r.refs)
  <2>1. ASSUME NEW n \in Nat, r.seq <= n PROVE InForce(newLog, n, r.refs)
    <3>1. InForce(log, r.seq, r.refs)
      BY DEF RefsRecorded
    <3>2. InForce(log, n, r.refs)
      BY <1>1, <1>2, <2>1, <3>1, InForceOnwards
    <3>3. QED
      BY <1>4, <3>2, InForceStays
  <2>2. InForce(newLog, step.row.seq, step.row.refs)
    BY <1>1, <1>4, <2>1
  <2>3. ASSUME NEW e \in step.added, e.type = "external_verification" PROVE InForce(newLog, e.seq, e.refs)
    <3>1. e.seq \in Nat /\ r.seq <= e.seq /\ e.refs = r.refs
      BY <1>1, <1>4, <2>3
    <3>2. QED
      BY <2>1, <3>1
  <2>4. QED
    BY <1>3, <2>2, <2>3 DEF RefsRecorded
<1>5. ASSUME NEW e \in Event, step.added = {e}, e.type = "technical_refs", e.refs = step.row.refs,
             e.seq = step.row.seq
      PROVE  RefsRecorded(step.row, newLog)
  <2>1. InForce(newLog, step.row.seq, step.row.refs)
    <3> DEFINE recorded == {f \in newLog : f.type = "technical_refs" /\ f.seq <= step.row.seq}
    <3>1. e \in recorded
      BY <1>1, <1>5
    <3>2. \A f \in recorded : f.seq <= e.seq
      BY <1>5
    <3>3. QED
      BY <1>5, <3>1, <3>2 DEF InForce
  <2>2. \A f \in newLog : f.type = "external_verification" => f \in log
    BY <1>5
  <2>3. QED
    BY <1>3, <2>1, <2>2 DEF RefsRecorded
<1>6. RefsEffect(r, step)
  BY StepRefs
<1>7. QED
  BY <1>4, <1>5, <1>6 DEF RefsEffect

LEMMA CommitKeepsRefs ==
  ASSUME TypeOK, IInv, RefsAreTheRecordedOnes, NEW q \in calls, Commit(q)
  PROVE  RefsAreTheRecordedOnes'
<1> DEFINE h == q.handoff
           step == StepOf(q)
<1>1. /\ h \in Handoffs
      /\ execution' = [execution EXCEPT ![h] = execution'[h]]
      /\ events' = [events EXCEPT ![h] = events'[h]]
      /\ CommitEffect(h, step)
  BY CommitEffects
<1> HIDE DEF h, step
<1>2. /\ execution[h] \in Row /\ events[h] \in SUBSET Event /\ CriteriaOf[h] \in SUBSET Criteria
      /\ \A i \in Handoffs \ {h} : execution'[i] = execution[i] /\ events'[i] = events[i]
  BY <1>1, CriteriaOfAssumption DEF TypeOK
<1>3. \A i \in Handoffs : RefsRecorded(execution[i], events[i])
  BY DEF RefsAreTheRecordedOnes, RefsRecorded
<1>4. RefsRecorded(execution'[h], events'[h])
  <2>1. CASE execution'[h] = execution[h] /\ events'[h] = events[h]
    BY <1>1, <1>3, <2>1
  <2>2. CASE ~(execution'[h] = execution[h] /\ events'[h] = events[h])
    <3>1. /\ \/ execution[h] = NoRow /\ step = StartStep
             \/ Allowed(execution[h], events[h], step, CriteriaOf[h])
          /\ Numbered(step, execution[h].seq) /\ step \in Step
          /\ execution'[h] = step.row /\ events'[h] = events[h] \cup step.added
      BY <1>1, <2>2 DEF CommitEffect
    <3>2. Gapless(events[h], execution[h].seq)
      BY <1>1 DEF IInv, EventLogGapless
    <3>3. RefsRecorded(execution[h], events[h])
      BY <1>1, <1>3
    <3>4. RefsRecorded(step.row, events[h] \cup step.added)
      BY <1>2, <3>1, <3>2, <3>3, StepKeepsRefs
    <3>5. QED
      BY <3>1, <3>4
  <2>3. QED
    BY <2>1, <2>2
<1>5. \A i \in Handoffs : RefsRecorded(execution'[i], events'[i])
  BY <1>2, <1>3, <1>4
<1>6. QED
  BY <1>5 DEF RefsAreTheRecordedOnes, RefsRecorded

\* The references of an execution are those of its log, and what app/github_verification.py
\* recorded as confirmed is what was in force when the answer was recorded.
THEOREM RefsAreRecorded == Spec => []RefsAreTheRecordedOnes
<1>1. Init => RefsAreTheRecordedOnes
  BY DEF Init, NoRow, RefsAreTheRecordedOnes, InForce
<1>2. TypeOK /\ IInv /\ RefsAreTheRecordedOnes /\ [Next]_vars => RefsAreTheRecordedOnes'
  <2> SUFFICES ASSUME TypeOK, IInv, RefsAreTheRecordedOnes, [Next]_vars PROVE RefsAreTheRecordedOnes'
    OBVIOUS
  <2>1. ASSUME UNCHANGED <<execution, events>> PROVE RefsAreTheRecordedOnes'
    BY <2>1 DEF RefsAreTheRecordedOnes
  <2>2. CASE HandlerNext
    <3>1. UNCHANGED <<execution, events>>
      BY <2>2, HandlerServes DEF Serve
    <3>2. QED
      BY <2>1, <3>1
  <2>3. CASE PackNext /\ UNCHANGED executionVars
    BY <2>1, <2>3 DEF executionVars
  <2>4. CASE \E q \in calls : Rollback(q)
    BY <2>1, <2>4 DEF Rollback
  <2>5. CASE UNCHANGED vars
    BY <2>1, <2>5 DEF vars, executionVars
  <2>6. QED
    BY <2>2, <2>3, <2>4, <2>5, CommitKeepsRefs DEF Next
<1>3. QED
  BY <1>1, <1>2, TypeCorrect, Invariance, PTL DEF Spec

-----------------------------------------------------------------------------
(* 7. Handoffs that have ended *)

\* A call that writes the status of its handoff found it open, or ends its execution
\* alike.
LeavesEnded(q) ==
    q.handoffStatus # q.loadedHandoff =>
        \/ q.loadedHandoff \in {"absent", "prepared", "released"}
        \/ q.row.status = q.handoffStatus /\ \E e \in q.added : e.type = "status"

LEMMA EndingSteps ==
  ASSUME NEW r, NEW status
  PROVE  /\ CompleteStep(r).row.status = "completed" /\ \E e \in CompleteStep(r).added : e.type = "status"
         /\ StopStep(r, status).row.status = status /\ \E e \in StopStep(r, status).added : e.type = "status"
BY DEF CompleteStep, StopStep, RowOf, EventOf

\* The guards of the handlers, one after the other.
LEMMA HandlerLeavesEnded ==
  ASSUME HandlerNext
  PROVE  \E q : LeavesEnded(q) /\ calls' = calls \cup {q} /\ UNCHANGED <<handoff, execution>>
<1> DEFINE Leaves(q) == LeavesEnded(q) /\ calls' = calls \cup {q} /\ UNCHANGED <<handoff, execution>>
<1>1. PICK c \in Clients, h \in Handoffs :
        \/ CreateAgentHandoff(c, h)
        \/ ReleaseAgentHandoff(c, h)
        \/ CompleteAgentHandoff(c, h)
        \/ FailAgentHandoff(c, h)
        \/ CancelAgentHandoff(c, h)
        \/ CreateAgentExecution(c, h)
        \/ RecordExecutionProgress(c, h)
        \/ RecordExecutionTechnicalRefs(c, h)
        \/ RecordExecutionEvidence(c, h)
        \/ VerifyExecutionGithub(c, h)
        \/ CompleteAgentExecution(c, h)
        \/ FailAgentExecution(c, h)
        \/ CancelAgentExecution(c, h)
        \/ AppendNote(c, h)
  BY DEF HandlerNext
<1>2. ASSUME NEW loaded, NEW step, NEW status, Serve(c, h, loaded, step, status),
             \/ status = handoff[h]
             \/ handoff[h] \in {"absent", "prepared", "released"}
             \/ step.row.status = status /\ \E e \in step.added : e.type = "status"
      PROVE  \E q : Leaves(q)
  <2> DEFINE q == [client |-> c, handoff |-> h, loaded |-> loaded, row |-> step.row,
                   added |-> step.added, loadedHandoff |-> handoff[h], handoffStatus |-> status]
  <2>1. LeavesEnded(q)
    BY <1>2 DEF LeavesEnded
  <2>2. calls' = calls \cup {q} /\ UNCHANGED <<handoff, execution>>
    BY <1>2 DEF Serve
  <2> QED BY <2>1, <2>2
<1> SUFFICES \E q : Leaves(q)
  OBVIOUS
<1> HIDE DEF Leaves
<1>3. ASSUME NEW step, ServeRunning(c, h, step, handoff[h]) PROVE \E q : Leaves(q)
  BY <1>2, <1>3 DEF ServeRunning
<1>4. ASSUME NEW status, ServeHandoff(c, h, status), handoff[h] \in {"absent", "prepared", "released"} PROVE \E q : Leaves(q)
  BY <1>2, <1>4 DEF ServeHandoff
<1>5. CASE CreateAgentHandoff(c, h) \/ ReleaseAgentHandoff(c, h)
  BY <1>4, <1>5 DEF CreateAgentHandoff, ReleaseAgentHandoff
<1>6. CASE CompleteAgentHandoff(c, h) \/ FailAgentHandoff(c, h) \/ CancelAgentHandoff(c, h)
  BY <1>4, <1>6 DEF CompleteAgentHandoff, FailAgentHandoff, CancelAgentHandoff
<1>7. CASE CreateAgentExecution(c, h)
  BY <1>2, <1>7 DEF CreateAgentExecution
<1>8. CASE RecordExecutionProgress(c, h) \/ RecordExecutionTechnicalRefs(c, h)
           \/ RecordExecutionEvidence(c, h) \/ VerifyExecutionGithub(c, h)
  BY <1>3, <1>8 DEF RecordExecutionProgress, RecordExecutionTechnicalRefs, RecordExecutionEvidence, VerifyExecutionGithub
<1>9. CASE CompleteAgentExecution(c, h)
  <2>1. Serve(c, h, execution[h], CompleteStep(execution[h]), "completed")
    BY <1>9 DEF CompleteAgentExecution, ServeRunning
  <2> QED BY <1>2, <2>1, EndingSteps
<1>10. CASE FailAgentExecution(c, h)
  <2>1. Serve(c, h, execution[h], StopStep(execution[h], "failed"), "failed")
    BY <1>10 DEF FailAgentExecution, ServeRunning
  <2> QED BY <1>2, <2>1, EndingSteps
<1>11. CASE CancelAgentExecution(c, h)
  <2>1. Serve(c, h, execution[h], StopStep(execution[h], "cancelled"), "cancelled")
    BY <1>11 DEF CancelAgentExecution, ServeRunning
  <2> QED BY <1>2, <2>1, EndingSteps
<1>12. CASE AppendNote(c, h)
  BY <1>2, <1>12 DEF AppendNote
<1> QED
  BY <1>1, <1>5, <1>6, <1>7, <1>8, <1>9, <1>10, <1>11, <1>12

CallsLeaveEnded == \A q \in calls : LeavesEnded(q)

\* A commit that adds a status event finds the execution running.
LEMMA EndingCommit ==
  ASSUME TypeOK, IInv, NEW q \in calls, Commit(q), NEW e \in q.added, e.type = "status"
  PROVE  execution[q.handoff].status = "running" /\ execution'[q.handoff] = q.row
<1> DEFINE h == q.handoff
           step == StepOf(q)
<1>1. h \in Handoffs /\ CommitEffect(h, step)
  BY CommitEffects
<1>2. step.row = q.row /\ step.added = q.added
  BY DEF StepOf
<1>3. events'[h] = events[h] \cup q.added /\ e \notin events[h]
  BY <1>1 DEF Commit, SequenceUnique, TypeOK
<1> HIDE DEF h, step
<1>4. /\ step = StartStep \/ Allowed(execution[h], events[h], step, CriteriaOf[h])
      /\ execution'[h] = step.row
  BY <1>1, <1>3 DEF CommitEffect
<1>5. step # StartStep
  <2>1. EventOf(1, "started", {}, "", NoRefs).type = "started"
    BY DEF EventOf
  <2>2. StartStep.added = {EventOf(1, "started", {}, "", NoRefs)}
    BY DEF StartStep
  <2> QED BY <1>2, <2>1, <2>2
<1>6. execution[h] \in Row /\ CriteriaOf[h] \in SUBSET Criteria
  BY <1>1, CriteriaOfAssumption DEF TypeOK
<1>7. \/ execution[h].status = "running" /\ Recorded(execution[h], step)
      \/ execution[h].status = "running" /\ Ended(step)
      \/ execution[h].status # "absent" /\ Noted(execution[h], step)
  BY <1>4, <1>5, <1>6, AllowedEffects
<1>8. ~ Noted(execution[h], step)
  BY <1>2 DEF Noted
<1> QED BY <1>2, <1>4, <1>7, <1>8 DEF h

\* In spite of the unconditional UPDATEs of app/handoff_routes.py, an ended handoff is
\* only overwritten by a handler that found it open, or by the end of its execution.
THEOREM EndedHandoffsStay == Spec => EndedHandoffStays
<1>1. Init => CallsLeaveEnded
  BY DEF Init, CallsLeaveEnded
<1>2. CallsLeaveEnded /\ [Next]_vars => CallsLeaveEnded'
  <2> SUFFICES ASSUME CallsLeaveEnded, [Next]_vars PROVE CallsLeaveEnded'
    OBVIOUS
  <2>1. CASE HandlerNext
    <3>1. PICK q : LeavesEnded(q) /\ calls' = calls \cup {q}
      BY <2>1, HandlerLeavesEnded
    <3> QED BY <3>1 DEF CallsLeaveEnded
  <2>2. CASE ~ HandlerNext
    <3>1. calls' \subseteq calls
      BY <2>2 DEF Next, Commit, Rollback, vars, executionVars
    <3> QED BY <3>1 DEF CallsLeaveEnded
  <2> QED BY <2>1, <2>2
<1>3. TypeOK /\ IInv /\ ChainInv /\ CallsLeaveEnded /\ [Next]_vars =>
        [\A h \in Handoffs :
          handoff[h] \in TerminalHandoffStates /\ handoff'[h] # handoff[h] =>
              \/ \E q \in calls \ calls' : q.handoff = h /\ q.loadedHandoff \in {"prepared", "released"}
              \/ execution[h].status = "running" /\ execution'[h].status = handoff'[h]]_vars
  <2> SUFFICES ASSUME TypeOK, IInv, ChainInv, CallsLeaveEnded, [Next]_vars, NEW h \in Handoffs,
                      handoff[h] \in TerminalHandoffStates, handoff'[h] # handoff[h]
               PROVE  \/ \E q \in calls \ calls' : q.handoff = h /\ q.loadedHandoff \in {"prepared", "released"}
                      \/ execution[h].status = "running" /\ execution'[h].status = handoff'[h]
    OBVIOUS
  <2>1. PICK q \in calls : Commit(q)
    <3>1. ~ HandlerNext
      BY HandlerLeavesEnded
    <3> QED BY <3>1 DEF Next, Rollback, vars, executionVars
  <2>2. /\ q.handoff = h /\ calls' = calls \ {q}
        /\ q.handoffStatus # q.loadedHandoff /\ handoff'[h] = q.handoffStatus
    BY <2>1 DEF Commit, Flushed, TypeOK
  <2>3. q.loadedHandoff # "absent"
    BY <2>2 DEF ChainInv, Authorised, TerminalHandoffStates
  <2>4. LeavesEnded(q)
    BY DEF CallsLeaveEnded
  <2>5. CASE q.row.status = q.handoffStatus /\ \E e \in q.added : e.type = "status"
    <3>1. execution[h].status = "running" /\ execution'[h] = q.row
      BY <2>1, <2>2, <2>5, EndingCommit
    <3> QED BY <2>2, <2>5, <3>1
  <2> QED BY <2>2, <2>3, <2>4, <2>5 DEF LeavesEnded
<1> QED BY <1>1, <1>2, <1>3, ChainInvHolds, TypeCorrect, Invariance, PTL DEF Spec, EndedHandoffStays

=============================================================================
