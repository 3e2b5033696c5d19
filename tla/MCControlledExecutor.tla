------------------------ MODULE MCControlledExecutor ------------------------
(* Small instances of ControlledExecutor for TLC. *)
EXTENDS ControlledExecutor, TLC

\* The threads of a pool are interchangeable, and requests of one kind.
MCSymmetry == Permutations(Clients) \cup Permutations(Local) \cup Permutations(Remote)

\* Bound: a behaviour uses one request, an isolated-local or a remote one.
MCOneRequest ==
    LET used == {r \in Requests : request[r] # "absent" \/ \E q \in calls : q.request = r}
    IN  Cardinality(used) <= 1

=============================================================================
