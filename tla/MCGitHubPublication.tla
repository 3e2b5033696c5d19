------------------------ MODULE MCGitHubPublication ------------------------
(* Small instances of GitHubPublication for TLC. *)
EXTENDS GitHubPublication, TLC

MCSymmetry == Permutations(Threads) \cup Permutations(Publishes) \cup Permutations(Pulls)

=============================================================================
