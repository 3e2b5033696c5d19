--------------------------- MODULE ExecutionLedger ---------------------------
(***************************************************************************)
(* What an AgentExecution promises its users: every handler that changes   *)
(* an execution acts as if it loaded the row and the log, decided and      *)
(* committed in one step, and a completed execution passed its gate on the *)
(* log as it was at that very step.                                        *)
(***************************************************************************)
EXTENDS ExecutionRecords

VARIABLES
    execution,      \* agent_executions, by handoff
    events          \* agent_execution_events, by handoff

ledgerVars == <<execution, events>>

Init ==
    /\ execution = [h \in Handoffs |-> NoRow]
    /\ events = [h \in Handoffs |-> {}]

Apply(h, step) ==
    /\ step.row.seq <= MaxEvents
    /\ execution' = [execution EXCEPT ![h] = step.row]
    /\ events' = [events EXCEPT ![h] = @ \cup step.added]

Start(h) ==
    /\ execution[h] = NoRow
    /\ Apply(h, StartStep)

Record(h) ==
    /\ execution[h].status = "running"
    /\ \E step \in RecordSteps(execution[h], CriteriaOf[h]) : Apply(h, step)

Complete(h) ==
    /\ execution[h].status = "running"
    /\ CompletionGate(events[h], CriteriaOf[h])
    /\ Apply(h, CompleteStep(execution[h]))

Stop(h) ==
    /\ execution[h].status = "running"
    /\ \E status \in {"failed", "cancelled"} : Apply(h, StopStep(execution[h], status))

Note(h) ==
    /\ execution[h].status # "absent"
    /\ \E step \in NoteSteps(execution[h]) : Apply(h, step)

Next == \E h \in Handoffs : Start(h) \/ Record(h) \/ Complete(h) \/ Stop(h) \/ Note(h)

Spec == Init /\ [][Next]_ledgerVars

=============================================================================
