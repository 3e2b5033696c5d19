--------------------------- MODULE ReviewedBranch ---------------------------
(***************************************************************************)
(* What the local Git stages promise about one controlled branch and the   *)
(* ref it is published at (docs/GIT_CHANGE_APPROVAL.md,                    *)
(* docs/EXPLICIT_COMMIT.md, docs/CONTROLLED_REMOTE_PUBLICATION.md).  The   *)
(* program creates the branch, puts one commit on its base and may take it *)
(* back; what it publishes has a digest that a person approved, and is     *)
(* published only where there is no ref.  A digest tells less than the     *)
(* change: that of another base may be the same.  Whatever else happens to *)
(* the two refs is somebody else's doing.                                  *)
(***************************************************************************)
CONSTANTS
    Bases,          \* commits of the source repository
    Approvals,      \* proposed changes that may be approved
    DigestOf,       \* digests of changes
    None, Other     \* no ref, and a commit of somebody else

\* A change on a base, or its commit; "edited" is what nobody proposed.
Changes == [on : Bases, change : Approvals \cup {"edited"}]
Heads == Bases \cup Changes \cup {None, Other}

VARIABLES
    branch,         \* head of the controlled branch
    remote,         \* the published ref
    agreed          \* the digests that were approved

promiseVars == <<branch, remote, agreed>>

Init ==
    /\ branch \in {None, Other}
    /\ remote \in {None, Other}
    /\ agreed = {}

Approve(ch) ==
    /\ agreed' = agreed \cup {DigestOf[ch]}
    /\ UNCHANGED <<branch, remote>>

CreateBranch(b) ==
    /\ branch = None
    /\ branch' = b
    /\ UNCHANGED <<remote, agreed>>

\* Made where a change of that base was seen to have an approved digest.
Commit(ch) ==
    /\ branch = ch.on
    /\ \E seen \in Changes : seen.on = ch.on /\ DigestOf[seen] \in agreed
    /\ branch' = ch
    /\ UNCHANGED <<remote, agreed>>

TakeBack(ch) ==
    /\ branch = ch
    /\ branch' = ch.on
    /\ UNCHANGED <<remote, agreed>>

Publish(ch) ==
    /\ DigestOf[ch] \in agreed
    /\ remote = None
    /\ remote' = ch
    /\ UNCHANGED <<branch, agreed>>

SomebodyElse ==
    /\ branch' \in {branch, None, Other}
    /\ remote' \in {remote, None, Other}
    /\ UNCHANGED agreed

Next ==
    \/ \E ch \in Changes : ch.change \in Approvals /\ Approve(ch)
    \/ \E b \in Bases : CreateBranch(b)
    \/ \E ch \in Changes : Commit(ch) \/ TakeBack(ch)
    \/ \E ch \in Changes : Publish(ch)
    \/ SomebodyElse

Spec == Init /\ [][Next]_promiseVars

=============================================================================
