------------------------- MODULE MCGraphSuggestions -------------------------
(* Small instances of GraphSuggestions for TLC. *)
EXTENDS GraphSuggestions

CONSTANTS t1, e1, d1, d2

\* A delta closes the first task, which may not be there yet, or looks like a digest or
\* an onboarding; the onboarding brings a task.
MCProposals ==
    {[kind |-> "session", closes |-> {1}, titles |-> {}, acts |-> TRUE, refs |-> {}],
     [kind |-> "digest", closes |-> {}, titles |-> {}, acts |-> TRUE, refs |-> {1}],
     [kind |-> "onboarding", closes |-> {}, titles |-> {t1}, acts |-> TRUE, refs |-> {}]}

\* The task names the platform, which one document comes from and the other mentions.
MCNamedBy == [t \in Titles |-> {e1}]
MCOriginOf == [d \in Documents |-> IF d = d1 THEN {e1} ELSE {}]
MCMentionedIn == [d \in Documents |-> {e1}]

MCSymmetry == Permutations(Requests)

=============================================================================
