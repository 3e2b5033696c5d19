-------------------------- MODULE MCAgentExecution --------------------------
(* Small instances of AgentExecution for TLC. *)
EXTENDS AgentExecution, TLC

\* One handoff, of a pack with every criterion.
MCPackOf == [h \in Handoffs |-> CHOOSE p \in Packs : TRUE]
MCCriteriaOf == [h \in Handoffs |-> Criteria]

\* The threads of a pool are interchangeable.
MCSymmetry == Permutations(Clients) \cup Permutations(PackClients)

=============================================================================
