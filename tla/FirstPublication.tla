-------------------------- MODULE FirstPublication --------------------------
(***************************************************************************)
(* What publishing a reviewed commit promises the owner of a repository    *)
(* (docs/CONTROLLED_GITHUB_PUBLICATION.md): the program creates the branch *)
(* where there is none, at the reviewed commit, and never touches one that *)
(* exists; it opens a pull request only for a branch that exists, when     *)
(* none is open.  Everything else that happens to them is somebody else's. *)
(***************************************************************************)
CONSTANTS Publishes, Pulls      \* requests of the two kinds

VARIABLES
    branch,         \* head of the published branch
    pull,           \* whether a pull request is open for it
    did             \* the requests that created the branch, or opened one

promiseVars == <<branch, pull, did>>

Init ==
    /\ branch \in {"none", "other"}
    /\ pull = FALSE
    /\ did = {}

CreateBranch(r) ==
    /\ branch = "none"
    /\ branch' = "reviewed"
    /\ did' = did \cup {r}
    /\ UNCHANGED pull

OpenPull(r) ==
    /\ branch # "none"
    /\ ~pull
    /\ pull' = TRUE
    /\ did' = did \cup {r}
    /\ UNCHANGED branch

\* Owners move and delete the branch, which closes its pull request, and merge
\* or close that.
SomebodyElse ==
    /\ branch' \in {branch, "none", "other"}
    /\ pull' \in {pull, FALSE}
    /\ UNCHANGED did

Next ==
    \/ \E r \in Publishes : CreateBranch(r)
    \/ \E r \in Pulls : OpenPull(r)
    \/ SomebodyElse

Spec == Init /\ [][Next]_promiseVars

=============================================================================
