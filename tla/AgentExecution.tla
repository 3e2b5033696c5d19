--------------------------- MODULE AgentExecution ---------------------------
(***************************************************************************)
(* The authorisation chain pack -> handoff -> execution and the tracking   *)
(* of an execution, as the API serves it: every request is a handler in a  *)
(* thread of its own, which loads rows, decides, and commits later         *)
(* (app/handoff_routes.py, app/execution_routes.py,                        *)
(* app/github_verification.py).                                            *)
(*                                                                         *)
(* No route locks a row.  What orders two handlers of one execution is the *)
(* unique constraint on (execution_id, sequence): each numbers its events  *)
(* from the event_sequence it loaded, so of two that loaded the same row   *)
(* only one can commit.  Handlers of the handoff itself add no event and   *)
(* are not ordered by it.                                                  *)
(*                                                                         *)
(* A call below is a handler between its reads and its commit.  Reading    *)
(* everything in one step is exact for these handlers: they load the       *)
(* execution first, and if anybody commits to it before a later read, the  *)
(* commit of the call fails.                                               *)
(***************************************************************************)
EXTENDS TaskPack, ExecutionRecords

CONSTANTS
    Clients,        \* server threads that may serve the other requests
    PackOf          \* the pack each handoff is made from

ASSUME PackOfAssumption == PackOf \in [Handoffs -> Packs]

VARIABLES
    handoff,        \* agent_handoffs.status
    execution,      \* agent_executions, by the handoff they belong to
    events,         \* agent_execution_events, by the handoff of the execution
    calls           \* requests that have loaded their rows and not committed

executionVars == <<handoff, execution, events, calls>>

vars == <<packVars, executionVars>>

HandoffStatus == {"absent", "prepared", "released", "completed", "failed", "cancelled"}

TerminalHandoffStates == {"completed", "failed", "cancelled"}

\* `loaded` and `row` are the execution as loaded and as held by the session,
\* `added` the events it will insert, and the same for the handoff's status.
Call ==
    [client: Clients, handoff: Handoffs, loaded: Row, row: Row, added: SUBSET Event,
     loadedHandoff: HandoffStatus, handoffStatus: HandoffStatus]

TypeOK ==
    /\ PackTypeOK
    /\ handoff \in [Handoffs -> HandoffStatus]
    /\ execution \in [Handoffs -> Row]
    /\ events \in [Handoffs -> SUBSET Event]
    /\ calls \subseteq Call

Init ==
    /\ PackInit
    /\ handoff = [h \in Handoffs |-> "absent"]
    /\ execution = [h \in Handoffs |-> NoRow]
    /\ events = [h \in Handoffs |-> {}]
    /\ calls = {}

-----------------------------------------------------------------------------
(* Handlers up to their commit. *)

Idle(c) == \A q \in calls : q.client # c

Serve(c, h, loaded, step, status) ==
    /\ Idle(c)
    /\ step.row.seq <= MaxEvents
    /\ calls' = calls \cup
           {[client |-> c, handoff |-> h, loaded |-> loaded, row |-> step.row,
             added |-> step.added, loadedHandoff |-> handoff[h], handoffStatus |-> status]}
    /\ UNCHANGED <<packVars, handoff, execution, events>>

\* A handler of the handoff alone: no column of an execution, no event.
ServeHandoff(c, h, status) ==
    Serve(c, h, NoRow, [row |-> NoRow, added |-> {}], status)

\* The id of a new handoff is fresh.
CreateAgentHandoff(c, h) ==
    /\ pack[PackOf[h]] = "approved"
    /\ handoff[h] = "absent"
    /\ \A q \in calls : q.handoff # h
    /\ ServeHandoff(c, h, "prepared")

ReleaseAgentHandoff(c, h) ==
    /\ handoff[h] = "prepared"
    /\ ServeHandoff(c, h, "released")

\* reject_if_tracked_execution
Untracked(h) == execution[h].status = "absent"

CompleteAgentHandoff(c, h) ==
    /\ Untracked(h)
    /\ handoff[h] = "released"
    /\ ServeHandoff(c, h, "completed")

FailAgentHandoff(c, h) ==
    /\ Untracked(h)
    /\ handoff[h] = "released"
    /\ ServeHandoff(c, h, "failed")

\* Mutant of CancelAgentHandoff: any handoff that is not cancelled.
CancelEndedHandoff(c, h) ==
    /\ Untracked(h)
    /\ handoff[h] \notin {"absent", "cancelled"}
    /\ ServeHandoff(c, h, "cancelled")

CancelAgentHandoff(c, h) ==
    /\ Untracked(h)
    /\ handoff[h] \in {"prepared", "released"}
    /\ ServeHandoff(c, h, "cancelled")

\* Mutant of CreateAgentExecution: the release of the handoff is not asked for.
CreateUnreleasedExecution(c, h) ==
    /\ handoff[h] # "absent"
    /\ Untracked(h)
    /\ Serve(c, h, NoRow, StartStep, handoff[h])

\* The pack's fingerprint is the one frozen in the handoff: no route edits a pack.
CreateAgentExecution(c, h) ==
    /\ handoff[h] = "released"
    /\ Untracked(h)
    /\ Serve(c, h, NoRow, StartStep, handoff[h])

\* Mutant of ServeRunning: any execution will do.
ServeTracked(c, h, step, status) ==
    /\ execution[h].status # "absent"
    /\ Serve(c, h, execution[h], step, status)

\* A handler of a running execution, which makes `step` of the row it loaded.
ServeRunning(c, h, step, status) ==
    /\ execution[h].status = "running"
    /\ Serve(c, h, execution[h], step, status)

RecordExecutionProgress(c, h) ==
    \E percent \in Percents :
        ServeRunning(c, h, ProgressStep(execution[h], percent), handoff[h])

RecordExecutionTechnicalRefs(c, h) ==
    \E given \in RefColumns \ {NoRefs} :
        ServeRunning(c, h, TechnicalRefsStep(execution[h], given), handoff[h])

RecordExecutionEvidence(c, h) ==
    \E k \in CriteriaOf[h], verdict \in {"passed", "failed"} :
        ServeRunning(c, h, EvidenceStep(execution[h], k, verdict), handoff[h])

\* The answer of GitHub is not ours to predict: any verification may come out
\* without green checks, or with green checks for the criterion asked about.
VerifyExecutionGithub(c, h) ==
    /\ Verifiable(execution[h])
    /\ \/ ServeRunning(c, h, VerificationStep(execution[h]), handoff[h])
       \/ \E k \in CriteriaOf[h] :
              ServeRunning(c, h, GreenChecksStep(execution[h], k), handoff[h])

\* Mutant of CompleteAgentExecution: the gate is forgotten.
CompleteUngated(c, h) == ServeRunning(c, h, CompleteStep(execution[h]), "completed")

CompleteAgentExecution(c, h) ==
    /\ CompletionGate(events[h], CriteriaOf[h])
    /\ ServeRunning(c, h, CompleteStep(execution[h]), "completed")

\* Mutant of FailAgentExecution: a status that does not exist.
FailAsError(c, h) == ServeRunning(c, h, StopStep(execution[h], "error"), "failed")

FailAgentExecution(c, h) ==
    ServeRunning(c, h, StopStep(execution[h], "failed"), "failed")

CancelAgentExecution(c, h) ==
    ServeRunning(c, h, StopStep(execution[h], "cancelled"), "cancelled")

\* A handler of the executor, worker or Git change routes, which looks at other
\* tables and appends to the log of an execution that may long be terminal.
AppendNote(c, h) ==
    /\ execution[h].status # "absent"
    /\ \E step \in NoteSteps(execution[h]) : Serve(c, h, execution[h], step, handoff[h])

-----------------------------------------------------------------------------
(* The end of a handler. *)

\* Unique handoff_id: an execution is only inserted where there is none.
HandoffUnique(q) ==
    q.loaded.status = "absent" /\ q.row.status # "absent" => execution[q.handoff].status = "absent"

\* Mutant of SequenceUnique: the constraint is missing.
SequenceUnchecked(q) == TRUE

\* Unique (execution_id, sequence).
SequenceUnique(q) == \A e \in q.added, f \in events[q.handoff] : e.seq # f.seq

FlushedRow(stored, loaded, held) ==
    [status   |-> Flushed(stored.status, loaded.status, held.status),
     seq      |-> Flushed(stored.seq, loaded.seq, held.seq),
     progress |-> Flushed(stored.progress, loaded.progress, held.progress),
     refs     |-> [k \in RefKinds |-> Flushed(stored.refs[k], loaded.refs[k], held.refs[k])]]

Commit(q) ==
    /\ HandoffUnique(q)
    /\ SequenceUnique(q)
    /\ execution' = [execution EXCEPT ![q.handoff] = FlushedRow(@, q.loaded, q.row)]
    /\ events' = [events EXCEPT ![q.handoff] = @ \cup q.added]
    /\ handoff' = [handoff EXCEPT ![q.handoff] = Flushed(@, q.loadedHandoff, q.handoffStatus)]
    /\ calls' = calls \ {q}
    /\ UNCHANGED packVars

\* A violated constraint, an error raised after the reads, a lost connection
\* or the end of the process: the transaction leaves nothing behind.
Rollback(q) ==
    /\ calls' = calls \ {q}
    /\ UNCHANGED <<packVars, handoff, execution, events>>

HandlerNext ==
    \E c \in Clients, h \in Handoffs :
        \/ CreateAgentHandoff(c, h)
        \/ ReleaseAgentHandoff(c, h)
        \/ CompleteAgentHandoff(c, h)
        \/ FailAgentHandoff(c, h)
        \/ CancelAgentHandoff(c, h)
        \/ CreateAgentExecution(c, h)
        \/ RecordExecutionProgress(c, h)
        \/ RecordExecutionTechnicalRefs(c, h)
        \/ RecordExecutionEvidence(c, h)
        \/ VerifyExecutionGithub(c, h)
        \/ CompleteAgentExecution(c, h)
        \/ FailAgentExecution(c, h)
        \/ CancelAgentExecution(c, h)
        \/ AppendNote(c, h)

Next ==
    \/ PackNext /\ UNCHANGED executionVars
    \/ HandlerNext
    \/ \E q \in calls : Commit(q) \/ Rollback(q)

Spec == Init /\ [][Next]_vars

-----------------------------------------------------------------------------
(* Properties. *)

\* docs/AGENT_EXECUTIONS.md, "Gate de conclusao": an execution is completed
\* only if it has criteria and the latest evidence on each of them is
\* "passed".  The gate is computed from a log that was read before the commit:
\* a failed evidence recorded in between must make the completion fail.
CompletedHasPassed ==
    \A h \in Handoffs :
        execution[h].status = "completed" => CompletionGate(events[h], CriteriaOf[h])

\* The log holds exactly one event for each number up to n.
Gapless(log, n) ==
    /\ {e.seq : e \in log} = 1..n
    /\ \A e, f \in log : e.seq = f.seq => e = f

\* "Cada evento recebe uma sequencia crescente unica": the log of an execution
\* holds exactly one event for each number up to the row's event_sequence,
\* although concurrent handlers number events from stale rows.
EventLogGapless == \A h \in Handoffs : Gapless(events[h], execution[h].seq)

\* An execution ends once: its log has a status event exactly when the row is
\* terminal, the event names the row's status, it is the only one, and only
\* notes of other routes come after it.
EndedOnce ==
    \A h \in Handoffs :
        LET ends == {e \in events[h] : e.type = "status"}
        IN  IF execution[h].status \in TerminalExecutionStates
            THEN \E e \in ends :
                     /\ ends = {e}
                     /\ e.says = execution[h].status
                     /\ \A f \in events[h] : f.seq > e.seq => f.type = "note"
            ELSE ends = {}

OnlyNoted(row, log, newRow, newLog) ==
    /\ newRow = RowOf(row.status, newRow.seq, row.progress, row.refs)
    /\ log \subseteq newLog
    /\ \A e \in newLog \ log : e.type = "note"

\* "Repetir a mesma transicao terminal e idempotente e nao sobrescreve o
\* resultado": the status, progress and references of a terminal execution never
\* change, and its log grows by notes only, whatever handlers were in flight when
\* it ended.
TerminalExecutionIsFinal ==
    [][\A h \in Handoffs :
          execution[h].status \in TerminalExecutionStates =>
              OnlyNoted(execution[h], events[h], execution'[h], events'[h])]_vars

\* The references `refs` are those the log of technical_refs events shows at
\* sequence n: those of the latest such event, or none.
InForce(log, n, refs) ==
    LET recorded == {e \in log : e.type = "technical_refs" /\ e.seq <= n}
    IN  IF recorded = {} THEN refs = NoRefs
        ELSE \E e \in recorded : e.refs = refs /\ \A f \in recorded : f.seq <= e.seq

\* The audit trail and the row agree on the references, although a handler
\* merges the ones it is given into the ones it loaded; and what GitHub
\* confirmed is a reference that was recorded when the answer was, although
\* the lookup happens between the reads and the commit.
RefsAreTheRecordedOnes ==
    \A h \in Handoffs :
        /\ InForce(events[h], execution[h].seq, execution[h].refs)
        /\ \A e \in events[h] :
               e.type = "external_verification" => InForce(events[h], e.seq, e.refs)

\* The layers of authorisation: a handoff exists only for a pack that was
\* approved, an execution only for a handoff that was released.  A pack may
\* have been cancelled since and a handoff ended, but neither is still waiting
\* for its human gate.
ChainOfAuthorisation ==
    \A h \in Handoffs :
        /\ handoff[h] # "absent" => pack[PackOf[h]] \in {"approved", "cancelled"}
        /\ execution[h].status # "absent" => handoff[h] \in {"released"} \cup TerminalHandoffStates

\* An ended handoff changes only by the two ways there are past the guards of its
\* routes: a handler that found it prepared or released before it ended
\* (app/handoff_routes.py writes the status it decided on, whatever it is by then), or
\* the end of a running execution, which ends its handoff alike in the same commit
\* (app/execution_routes.py).
EndedHandoffStays ==
    [][\A h \in Handoffs :
          handoff[h] \in TerminalHandoffStates /\ handoff'[h] # handoff[h] =>
              \/ \E q \in calls \ calls' : q.handoff = h /\ q.loadedHandoff \in {"prepared", "released"}
              \/ execution[h].status = "running" /\ execution'[h].status = handoff'[h]]_vars

Ledger == INSTANCE ExecutionLedger WITH execution <- execution, events <- events

\* The concurrent handlers implement the atomic ledger: each commit that
\* succeeds is one step of a handler that ran alone on the current row and log.
ImplementsLedger == Ledger!Spec

\* docs/AGENT_EXECUTIONS.md:151: "Enquanto existe uma AgentExecution, os
\* endpoints diretos de complete, fail e cancel do handoff sao bloqueados",
\* and :161, both records change in the same transaction: while an execution
\* runs its handoff is released, when it has ended the handoff ended alike.
\* A direct handler that checked before the execution was committed breaks it.
HandoffFollowsExecution ==
    \A h \in Handoffs :
        /\ execution[h].status = "running" => handoff[h] = "released"
        /\ execution[h].status \in TerminalExecutionStates => handoff[h] = execution[h].status

=============================================================================
