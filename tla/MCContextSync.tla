--------------------------- MODULE MCContextSync ---------------------------
(* Small instances of ContextSync for TLC. *)
EXTENDS ContextSync, TLC

CONSTANTS t1, i1

\* Two items; the first makes a digest suggest a task.  Both sources are spellings of
\* one repository.
MCOffers == [x \in Sources |-> Items]
MCDigestTitles == [i \in Items |-> IF i = i1 THEN {t1} ELSE {}]
MCOnboardingTitles == MCDigestTitles

\* The sources offer the same.
MCSymmetry == Permutations(Requests) \cup Permutations(Syncs \ Scripts) \cup Permutations(Sources)

=============================================================================
