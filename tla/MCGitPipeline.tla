--------------------------- MODULE MCGitPipeline ---------------------------
(* Small instances of GitPipeline for TLC. *)
EXTENDS GitPipeline, TLC

MCSymmetry == Permutations(Threads) \cup Permutations(Approvals) \cup Permutations(Bases)

\* The bases differ only in lines that no diff shows: the digest tells changes apart,
\* and nothing else.
MCDigestOf == [ch \in Changes |-> ch.change]

=============================================================================
