---------------------------- MODULE GitPipeline ----------------------------
(***************************************************************************)
(* From a proposed change to a published commit: the approval by digest    *)
(* (app/git_change_routes.py), the resolvers that admit the stages         *)
(* (app/git_apply_resolver.py, app/git_commit_resolver.py,                 *)
(* app/git_publish_resolver.py) and the workers that carry them out        *)
(* (app/git_branch_worker.py, app/git_apply_worker.py,                     *)
(* app/git_commit_worker.py, app/git_publish_worker.py), behind the        *)
(* isolated executor.                                                      *)
(*                                                                         *)
(* There is one controlled branch, a staging worktree for each approval    *)
(* and one bare remote.  A run is a worker process that runs one git       *)
(* command after the other; other runs, and people who use the same        *)
(* repository, come between them.  A command may fail, or be killed by its *)
(* deadline after it took effect, and the whole worker may be killed.  How *)
(* requests are authorised, started and recorded is in ControlledExecutor. *)
(***************************************************************************)
EXTENDS Naturals

CONSTANTS
    Threads,        \* server threads, each with a worker process
    Bases,          \* commits of the source repository
    Approvals,      \* proposed changes, each with its approval
    DigestOf,       \* digests of changes; those of different changes may be the same
    None,           \* no commit, no ref
    Other,          \* a commit of somebody else
    MaxRuns,        \* bound: how many runs there are in all
    MaxMeddled      \* bound: how often other people touch the repository

ASSUME MaxRunsAssumption == MaxRuns \in Nat
ASSUME MaxMeddledAssumption == MaxMeddled \in Nat

ASSUME HeadsAssumption ==
    LET changes == [on : Bases, change : Approvals \cup {"edited"}]
    IN  None # Other /\ {None, Other} \cap (Bases \cup changes) = {} /\ Bases \cap changes = {}

\* A change on a base: its files, or a commit of them; "edited" is what nobody proposed.
Changes == [on : Bases, change : Approvals \cup {"edited"}]
Trees == Bases \cup Changes
Heads == Trees \cup {None, Other}

\* The sha256 of the redacted diff of the files a change touches, with three lines of
\* context: it says nothing of the base beyond those lines, nor of what was redacted.
Digests == {DigestOf[ch] : ch \in Changes}

\* A staging worktree has the branch checked out, so its HEAD is the branch; what
\* it has of its own is its files and its index.
NoStaging == [dir |-> "none"]
\* The directory is gone, and git still has it registered.
Leftover == [dir |-> "leftover"]
Staging == [dir : {"there"}, files : Heads \ {None}, index : Heads] \cup {NoStaging, Leftover}

BranchRequest == <<"create_branch">>
Requests == {BranchRequest} \cup ({"apply", "commit", "publish"} \X Approvals)

VARIABLES
    head,           \* HEAD of the source worktree
    branch,         \* the controlled branch
    staging,        \* the staging worktree of each approval
    remote,         \* the ref of the branch in the bare remote
    objects,        \* commits that were imported into the bare remote
    proposed,       \* the base each change was proposed on
    approval,       \* git_change_approvals.status
    deciding,       \* decisions on an approval that found it pending
    request,        \* executor_requests.status
    payload,        \* what a resolver put into the payload of a request
    result,         \* what a completed request recorded
    run,            \* the run each thread waits for
    started,        \* how many runs there were
    meddled,        \* how often other people touched the repository
    agreed,         \* digests that a person confirmed
    reports,        \* the outcomes the runs of each request returned
    unreported      \* requests of runs that could not know what they had done

git == <<head, branch, staging, remote, objects>>
approvals == <<proposed, approval, deciding, agreed>>
requests == <<request, payload, result, started, reports>>
vars == <<git, approvals, requests, run, meddled, unreported>>

\* What a run is about to do, and the commit (or base) it has in hand.
Steps ==
    {"head", "create",
     "base", "add", "base_again", "fill", "verify_applied", "remove", "prune", "rmtree",
     "drift", "content", "build", "move", "sync", "verify_tree", "verify_digest",
     "revert_ref", "revert_index",
     "state", "transfer", "objects", "create_ref", "confirm"}
NoRun == [at |-> "idle"]
Run == [request : Requests, at : Steps, made : Trees \cup {None}, reverted : BOOLEAN]

\* What an outcome says: success; a failure without effects; a rollback that is
\* incomplete; a published ref that somebody has to look at.
Outcome == {"success", "failure", "incomplete", "reconcile"}

TypeOK ==
    /\ head \in Bases
    /\ branch \in Heads
    /\ staging \in [Approvals -> Staging]
    /\ remote \in Heads
    /\ objects \subseteq Heads
    /\ proposed \in [Approvals -> Bases \cup {None}]
    /\ approval \in [Approvals -> {"none", "pending", "approved", "cancelled"}]
    /\ deciding \in [Approvals -> SUBSET {"approved", "cancelled"}]
    /\ request \in [Requests -> {"absent", "ready", "running", "completed", "failed"}]
    /\ payload \in [Requests -> Trees \cup {None}]
    /\ result \in [Requests -> Trees \cup {None}]
    /\ run \in [Threads -> Run \cup {NoRun}]
    /\ started \in 0..MaxRuns
    /\ meddled \in 0..MaxMeddled
    /\ agreed \subseteq Digests
    /\ reports \in [Requests -> SUBSET Outcome]
    /\ unreported \subseteq Requests

Init ==
    /\ head \in Bases
    /\ branch \in {None, Other}
    /\ staging = [a \in Approvals |-> NoStaging]
    /\ remote \in {None, Other}
    /\ objects = {}
    /\ proposed = [a \in Approvals |-> None]
    /\ approval = [a \in Approvals |-> "none"]
    /\ deciding = [a \in Approvals |-> {}]
    /\ request = [r \in Requests |-> "absent"]
    /\ payload = [r \in Requests |-> None]
    /\ result = [r \in Requests |-> None]
    /\ run = [c \in Threads |-> NoRun]
    /\ started = 0
    /\ meddled = 0
    /\ agreed = {}
    /\ reports = [r \in Requests |-> {}]
    /\ unreported = {}

\* The change whose digest an approval holds: what a person saw.
Approved(a) == [on |-> proposed[a], change |-> a]

\* What a worker sees in a staging worktree: a diff of the touched files, against a
\* snapshot of a base, that has the approved digest; an index that is not the tree
\* of HEAD; files that are not those of the index.
HasApprovedDigest(s, base, a) ==
    s.files \in Changes /\ DigestOf[[on |-> base, change |-> s.files.change]] = DigestOf[Approved(a)]
PreStaged(s) == s.index # branch
WorkingPaths(s) == s.files # s.index

-----------------------------------------------------------------------------
(* Approval by digest. *)

\* A completed modify_worktree request: the worker diffs a copy of the worktree
\* and leaves the repository alone.
Propose(a) ==
    /\ proposed[a] = None
    /\ proposed' = [proposed EXCEPT ![a] = head]
    /\ UNCHANGED <<git, approval, deciding, agreed, requests, run, meddled, unreported>>

IsProposal(a) == proposed[a] # None

\* One approval for a proposal: executor_request_id is unique.
PrepareApproval(a) ==
    /\ IsProposal(a)
    /\ approval[a] = "none"
    /\ approval' = [approval EXCEPT ![a] = "pending"]
    /\ UNCHANGED <<git, proposed, deciding, agreed, requests, run, meddled, unreported>>

\* approve_git_change and cancel_git_change load the approval first and the
\* execution whose log orders them later, so they may overlap.
ReadPending(a, decision) ==
    /\ approval[a] = "pending"
    /\ deciding' = [deciding EXCEPT ![a] = @ \cup {decision}]
    /\ UNCHANGED <<git, proposed, approval, agreed, requests, run, meddled, unreported>>

ApproveGitChange(a) ==
    /\ "approved" \in deciding[a]
    /\ approval' = [approval EXCEPT ![a] = "approved"]
    /\ agreed' = agreed \cup {DigestOf[Approved(a)]}
    /\ deciding' = [deciding EXCEPT ![a] = @ \ {"approved"}]
    /\ UNCHANGED <<git, proposed, requests, run, meddled, unreported>>

\* Mutant of CancelGitChange: a status that does not exist.
CancelMisspelt(a) ==
    /\ "cancelled" \in deciding[a]
    /\ approval' = [approval EXCEPT ![a] = "canceled"]
    /\ deciding' = [deciding EXCEPT ![a] = @ \ {"cancelled"}]
    /\ UNCHANGED <<git, proposed, agreed, requests, run, meddled, unreported>>

CancelGitChange(a) ==
    /\ "cancelled" \in deciding[a]
    /\ approval' = [approval EXCEPT ![a] = "cancelled"]
    /\ deciding' = [deciding EXCEPT ![a] = @ \ {"cancelled"}]
    /\ UNCHANGED <<git, proposed, agreed, requests, run, meddled, unreported>>

-----------------------------------------------------------------------------
(* Requests. *)

\* A request is created with the payload that its resolver computed.
CreateRequest(r, resolved) ==
    /\ request[r] = "absent"
    /\ request' = [request EXCEPT ![r] = "ready"]
    /\ payload' = [payload EXCEPT ![r] = resolved]
    /\ UNCHANGED <<git, approvals, result, started, reports, run, meddled, unreported>>

CreateBranchRequest == CreateRequest(BranchRequest, None)

\* Mutant of CreateApplyRequest: any approval will do.
CreateApplyUnapproved(a) ==
    /\ approval[a] # "none"
    /\ request[BranchRequest] = "completed"
    /\ CreateRequest(<<"apply", a>>, result[BranchRequest])

CreateApplyRequest(a) ==
    /\ approval[a] = "approved"
    /\ request[BranchRequest] = "completed"
    /\ CreateRequest(<<"apply", a>>, result[BranchRequest])

CreateCommitRequest(a) ==
    /\ request[<<"apply", a>>] = "completed"
    /\ CreateRequest(<<"commit", a>>, result[<<"apply", a>>])

CreatePublishRequest(a) ==
    /\ request[<<"commit", a>>] = "completed"
    /\ CreateRequest(<<"publish", a>>, result[<<"commit", a>>])

FirstStep(r) ==
    CASE r = BranchRequest -> "head"
      [] r[1] = "apply"    -> "base"
      [] r[1] = "commit"   -> "drift"
      [] r[1] = "publish"  -> "state"

\* An execute that read the request as released starts it, whatever it is by now.
StartRun(c, r) ==
    /\ run[c] = NoRun
    /\ request[r] # "absent"
    /\ started < MaxRuns
    /\ request' = [request EXCEPT ![r] = "running"]
    /\ started' = started + 1
    /\ run' = [run EXCEPT ![c] = [request |-> r, at |-> FirstStep(r), made |-> None, reverted |-> FALSE]]
    /\ UNCHANGED <<git, approvals, payload, result, reports, meddled, unreported>>

\* The worker answers; the commit that records its answer may fail.
Return(c, o, value) ==
    LET r == run[c].request
    IN  /\ run' = [run EXCEPT ![c] = NoRun]
        /\ reports' = [reports EXCEPT ![r] = @ \cup {o}]
        /\ \/ /\ request' = [request EXCEPT ![r] = IF o = "success" THEN "completed" ELSE "failed"]
              /\ result' = [result EXCEPT ![r] = value]
           \/ UNCHANGED <<request, result>>
        /\ UNCHANGED <<payload, started>>

Fails(c) == Return(c, "failure", None)

GoOn(c, step) ==
    /\ run' = [run EXCEPT ![c].at = step]
    /\ UNCHANGED requests

At(c, step) == run[c].at = step
ApprovalOf(c) == run[c].request[2]
Payload(c) == payload[run[c].request]

\* What a step leaves alone when it changes nothing in the repository, and when it does.
Elsewhere == UNCHANGED <<approvals, meddled>>
NoEffect == UNCHANGED <<git, unreported>> /\ Elsewhere

\* The step is over: its command worked and the run goes on, or it was killed
\* after it took effect and the run fails.
DoneOrKilled(c, step) ==
    \/ GoOn(c, step) /\ UNCHANGED unreported
    \/ Fails(c) /\ unreported' = unreported \cup {run[c].request}

\* The adapter is not available, the payload is refused, a git command fails.
GiveUp(c) ==
    /\ run[c].at \in {"head", "create", "base", "add", "drift", "content", "build", "move",
                      "state", "transfer", "objects", "create_ref"}
    /\ Fails(c)
    /\ NoEffect

-----------------------------------------------------------------------------
(* execute_create_branch *)

ReadHead(c) ==
    /\ At(c, "head")
    /\ branch = None
    /\ run' = [run EXCEPT ![c].at = "create", ![c].made = head]
    /\ UNCHANGED requests
    /\ NoEffect

MakeBranch(c) ==
    /\ At(c, "create")
    /\ branch = None
    /\ branch' = run[c].made
    /\ \/ Return(c, "success", run[c].made) /\ UNCHANGED unreported
       \/ Fails(c) /\ unreported' = unreported \cup {run[c].request}
    /\ UNCHANGED <<head, staging, remote, objects>>
    /\ Elsewhere

-----------------------------------------------------------------------------
(* execute_apply_git_change *)

ResolveBase(c) ==
    /\ At(c, "base")
    /\ branch = Payload(c)
    /\ staging[ApprovalOf(c)].dir # "there"
    /\ GoOn(c, "add")
    /\ NoEffect

SetStaging(a, dir) ==
    /\ staging' = [staging EXCEPT ![a] = dir]
    /\ UNCHANGED <<head, branch, remote, objects>>
    /\ Elsewhere

\* git checks a branch out once; a registered directory counts.
AddStaging(c) ==
    /\ At(c, "add")
    /\ branch # None
    /\ \A a \in Approvals : staging[a] = NoStaging
    /\ SetStaging(ApprovalOf(c), [dir |-> "there", files |-> branch, index |-> branch])
    /\ DoneOrKilled(c, "base_again")

CheckStagingHead(c) ==
    /\ At(c, "base_again")
    /\ staging[ApprovalOf(c)].dir = "there"
    /\ branch = Payload(c)
    /\ GoOn(c, "fill")
    /\ NoEffect

CopyProposalFiles(s, a) == [s EXCEPT !.files = [on |-> s.files, change |-> a]]

\* The operations are carried out on a snapshot of the staging, whatever base the
\* proposal was made on; they are copied if the diff has the approved digest.
FillStaging(c) ==
    LET a == ApprovalOf(c)
        s == staging[a]
    IN  /\ At(c, "fill")
        /\ s.dir = "there" /\ s.files \in Bases
        /\ DigestOf[[on |-> s.files, change |-> a]] = DigestOf[Approved(a)]
        /\ SetStaging(a, CopyProposalFiles(s, a))
        /\ run' = [run EXCEPT ![c].at = "verify_applied", ![c].made = s.files]
        /\ UNCHANGED <<requests, unreported>>

VerifyApplied(c) ==
    LET s == staging[ApprovalOf(c)]
    IN  /\ At(c, "verify_applied")
        /\ s.dir = "there" /\ HasApprovedDigest(s, run[c].made, ApprovalOf(c))
        /\ branch = Payload(c)
        /\ Return(c, "success", Payload(c))
        /\ NoEffect

\* Whatever goes wrong once the staging was added leads to its cleanup.
ApplyRaises(c) ==
    /\ run[c].at \in {"base_again", "fill", "verify_applied"}
    /\ GoOn(c, "remove")
    /\ NoEffect

\* worktree remove --force, if the directory is there, whoever added it; it may be
\* killed half way or fail, and nobody looks at its answer.
RemoveWorktree(c) ==
    LET a == ApprovalOf(c)
    IN  /\ At(c, "remove")
        /\ \E s \in {staging[a]} \cup (IF staging[a].dir = "there" THEN {NoStaging, Leftover} ELSE {}) :
              SetStaging(a, s)
        /\ GoOn(c, "prune")
        /\ UNCHANGED unreported

\* worktree prune forgets the missing directories of all approvals.
PruneWorktrees(c) ==
    /\ At(c, "prune")
    /\ \/ staging' = [a \in Approvals |-> IF staging[a] = Leftover THEN NoStaging ELSE staging[a]]
       \/ UNCHANGED staging
    /\ GoOn(c, "rmtree")
    /\ UNCHANGED <<head, branch, remote, objects, unreported>>
    /\ Elsewhere

\* A directory that is still there, or there again, is removed, errors ignored:
\* the cleanup counts as completed either way.
RemoveTree(c) ==
    LET a == ApprovalOf(c)
    IN  /\ At(c, "rmtree")
        /\ Fails(c)
        /\ \/ /\ staging[a].dir = "there"
              /\ SetStaging(a, Leftover)
              /\ UNCHANGED unreported
           \/ /\ staging[a].dir = "there"
              /\ unreported' = unreported \cup {run[c].request}
              /\ UNCHANGED git /\ Elsewhere
           \/ staging[a].dir # "there" /\ NoEffect

\* Mutant of CleanFails: an exception of the cleanup counts as done.
CleanFailureIgnored(c) ==
    /\ run[c].at \in {"remove", "prune", "rmtree"}
    /\ Fails(c)
    /\ NoEffect

\* A step of the cleanup raises.
CleanFails(c) ==
    /\ run[c].at \in {"remove", "prune", "rmtree"}
    /\ Return(c, "incomplete", None)
    /\ NoEffect

ApplyStep(c) ==
    \/ ResolveBase(c) \/ AddStaging(c) \/ CheckStagingHead(c) \/ FillStaging(c) \/ VerifyApplied(c)
    \/ ApplyRaises(c) \/ RemoveWorktree(c) \/ PruneWorktrees(c) \/ RemoveTree(c) \/ CleanFails(c)

-----------------------------------------------------------------------------
(* execute_create_commit *)

CheckDrift(c) ==
    /\ At(c, "drift")
    /\ staging[ApprovalOf(c)].dir = "there"
    /\ branch = Payload(c)
    /\ GoOn(c, "content")
    /\ NoEffect

\* The blobs of the base commit, read from the repository once.
BaseSnapshot(c) == Payload(c)

\* The index is the tree of HEAD, only files of the change differ from it, and their
\* diff has the approved digest.
CheckContent(c) ==
    LET s == staging[ApprovalOf(c)]
    IN  /\ At(c, "content")
        /\ s.dir = "there" /\ ~PreStaged(s)
        /\ HasApprovedDigest(s, BaseSnapshot(c), ApprovalOf(c)) /\ s.files.on = BaseSnapshot(c)
        /\ GoOn(c, "build")
        /\ NoEffect

\* The commit is built in a temporary index from the base and the files of the
\* change as they are now.
BuildCommit(c) ==
    LET s == staging[ApprovalOf(c)]
    IN  /\ At(c, "build")
        /\ s.dir = "there" /\ s.files \in Changes
        /\ run' = [run EXCEPT ![c].at = "move", ![c].made = [on |-> Payload(c), change |-> s.files.change]]
        /\ UNCHANGED requests
        /\ NoEffect

\* Mutant of MoveRef: update-ref without the expected old value.
MoveRefForced(c) ==
    /\ At(c, "move")
    /\ branch' = run[c].made
    /\ DoneOrKilled(c, "sync")
    /\ UNCHANGED <<head, staging, remote, objects>>
    /\ Elsewhere

\* update-ref with the base as its expected old value.
MoveRef(c) ==
    /\ At(c, "move")
    /\ branch = Payload(c)
    /\ branch' = run[c].made
    /\ DoneOrKilled(c, "sync")
    /\ UNCHANGED <<head, staging, remote, objects>>
    /\ Elsewhere

\* read-tree of a commit into the index of the staging worktree.
ReadTree(c, tree) ==
    /\ staging[ApprovalOf(c)].dir = "there"
    /\ staging' = [staging EXCEPT ![ApprovalOf(c)].index = tree]
    /\ UNCHANGED <<head, branch, remote, objects>>

SyncIndex(c) ==
    /\ At(c, "sync")
    /\ ReadTree(c, run[c].made)
    /\ GoOn(c, "verify_tree")
    /\ UNCHANGED unreported
    /\ Elsewhere

VerifyTree(c) ==
    LET s == staging[ApprovalOf(c)]
    IN  /\ At(c, "verify_tree")
        /\ branch = run[c].made
        /\ s.dir = "there" /\ ~PreStaged(s) /\ ~WorkingPaths(s)
        /\ GoOn(c, "verify_digest")
        /\ NoEffect

\* Mutant of VerifyDigest: the content is not compared again.
DigestTrusted(c) ==
    /\ At(c, "verify_digest")
    /\ Return(c, "success", run[c].made)
    /\ NoEffect

VerifyDigest(c) ==
    LET s == staging[ApprovalOf(c)]
    IN  /\ At(c, "verify_digest")
        /\ s.dir = "there" /\ HasApprovedDigest(s, BaseSnapshot(c), ApprovalOf(c))
        /\ Return(c, "success", run[c].made)
        /\ NoEffect

\* Whatever the verification meets leads to the rollback, and so does a read-tree
\* that fails.
CommitRaises(c) ==
    /\ run[c].at \in {"sync", "verify_tree", "verify_digest"}
    /\ At(c, "sync") => staging[ApprovalOf(c)].dir = "there"
    /\ GoOn(c, "revert_ref")
    /\ NoEffect

\* read-tree and the two commands of the rollback run in the staging worktree: when
\* they cannot be started, because it is gone or there is no process to be had, the
\* exception leaves the worker, which answers a plain "rejected" whatever the branch
\* holds.
CommitEscapes(c) ==
    /\ run[c].at \in {"sync", "revert_ref", "revert_index"}
    /\ Fails(c)
    /\ unreported' = unreported \cup {run[c].request}
    /\ UNCHANGED git
    /\ Elsewhere

\* update-ref back to the base, if the branch still is at the commit; killed after it
\* took effect, it counts as failed.
RevertRef(c) ==
    /\ At(c, "revert_ref")
    /\ staging[ApprovalOf(c)].dir = "there"
    /\ branch = run[c].made
    /\ branch' = Payload(c)
    /\ \E ok \in BOOLEAN : run' = [run EXCEPT ![c].at = "revert_index", ![c].reverted = ok]
    /\ UNCHANGED <<head, staging, remote, objects, requests, unreported>>
    /\ Elsewhere

RevertRefFails(c) ==
    /\ At(c, "revert_ref")
    /\ staging[ApprovalOf(c)].dir = "there"
    /\ GoOn(c, "revert_index")
    /\ NoEffect

\* Mutant of RevertIndex: the rollback is complete whatever became of the ref.
RevertIndexOnly(c) ==
    /\ At(c, "revert_index")
    /\ ReadTree(c, Payload(c))
    /\ Fails(c)
    /\ UNCHANGED unreported
    /\ Elsewhere

\* Mutant of RevertIndex: the index is left at the commit that was taken back.
RevertRefAlone(c) ==
    /\ At(c, "revert_index")
    /\ IF run[c].reverted THEN Fails(c) ELSE Return(c, "incomplete", None)
    /\ NoEffect

\* read-tree of the base; it may be killed too after it took effect.
RevertIndex(c) ==
    /\ At(c, "revert_index")
    /\ ReadTree(c, Payload(c))
    /\ (run[c].reverted /\ Fails(c)) \/ Return(c, "incomplete", None)
    /\ UNCHANGED unreported
    /\ Elsewhere

RevertIndexFails(c) ==
    /\ At(c, "revert_index")
    /\ staging[ApprovalOf(c)].dir = "there"
    /\ Return(c, "incomplete", None)
    /\ NoEffect

CommitStep(c) ==
    \/ CheckDrift(c) \/ CheckContent(c) \/ BuildCommit(c) \/ MoveRef(c) \/ SyncIndex(c)
    \/ VerifyTree(c) \/ VerifyDigest(c) \/ CommitRaises(c) \/ CommitEscapes(c)
    \/ RevertRef(c) \/ RevertRefFails(c) \/ RevertIndex(c) \/ RevertIndexFails(c)

-----------------------------------------------------------------------------
(* execute_publish_branch *)

\* Branch and staging are at the commit, the staging is clean, there is no ref.
CheckState(c) ==
    LET s == staging[ApprovalOf(c)]
    IN  /\ At(c, "state")
        /\ branch = Payload(c)
        /\ s.dir = "there" /\ ~PreStaged(s) /\ ~WorkingPaths(s)
        /\ remote = None
        /\ GoOn(c, "transfer")
        /\ NoEffect

\* A bundle of the branch as it is now is imported.
Transfer(c) ==
    /\ At(c, "transfer")
    /\ branch # None
    /\ objects' = objects \cup {branch}
    /\ GoOn(c, "objects")
    /\ UNCHANGED <<head, branch, staging, remote, unreported>>
    /\ Elsewhere

CheckObjects(c) ==
    /\ At(c, "objects")
    /\ Payload(c) \in objects
    /\ GoOn(c, "create_ref")
    /\ NoEffect

\* update-ref with no ref as its expected old value.
CreateRef(c) ==
    /\ At(c, "create_ref")
    /\ remote = None
    /\ remote' = Payload(c)
    /\ DoneOrKilled(c, "confirm")
    /\ UNCHANGED <<head, branch, staging, objects>>
    /\ Elsewhere

\* Mutant of Confirm: it looks at the branch of the source repository.
ConfirmSource(c) ==
    /\ At(c, "confirm")
    /\ IF branch = Payload(c) THEN Return(c, "success", Payload(c)) ELSE Fails(c)
    /\ NoEffect

Confirm(c) ==
    /\ At(c, "confirm")
    /\ IF remote = Payload(c)
       THEN Return(c, "success", Payload(c))
       ELSE Return(c, "reconcile", None)
    /\ NoEffect

\* The last look at the ref raises, and the worker answers "rejected".
ConfirmRaises(c) ==
    /\ At(c, "confirm")
    /\ Fails(c)
    /\ unreported' = unreported \cup {run[c].request}
    /\ UNCHANGED git
    /\ Elsewhere

PublishStep(c) ==
    \/ CheckState(c) \/ Transfer(c) \/ CheckObjects(c) \/ CreateRef(c) \/ Confirm(c) \/ ConfirmRaises(c)

-----------------------------------------------------------------------------
(* Everybody else. *)

\* The worker is killed by its outer deadline, or dies with the server.
WorkerDies(c) ==
    /\ run[c] # NoRun
    /\ run' = [run EXCEPT ![c] = NoRun]
    /\ unreported' = unreported \cup {run[c].request}
    /\ UNCHANGED <<git, approvals, requests, meddled>>

Meddle ==
    /\ meddled < MaxMeddled
    /\ meddled' = meddled + 1
    /\ UNCHANGED <<approvals, requests, run, unreported>>

\* People who use the repository commit, move the branch, edit or remove a
\* staging worktree, and write the bare remote.
SourceCommit ==
    /\ head' \in Bases
    /\ Meddle
    /\ UNCHANGED <<branch, staging, remote, objects>>

BranchMoved ==
    /\ branch' \in {None, Other}
    /\ Meddle
    /\ UNCHANGED <<head, staging, remote, objects>>

StagingTouched(a) ==
    /\ staging[a].dir = "there"
    /\ \/ staging' = [staging EXCEPT ![a] = NoStaging]
       \/ /\ staging[a].files \in Changes
          /\ \E change \in {a, "edited"} : staging' = [staging EXCEPT ![a].files.change = change]
    /\ Meddle
    /\ UNCHANGED <<head, branch, remote, objects>>

RemoteWritten ==
    /\ remote' \in {None, Other}
    /\ Meddle
    /\ UNCHANGED <<head, branch, staging, objects>>

Next ==
    \/ \E a \in Approvals :
        \/ Propose(a) \/ PrepareApproval(a)
        \/ \E d \in {"approved", "cancelled"} : ReadPending(a, d)
        \/ ApproveGitChange(a) \/ CancelGitChange(a)
        \/ CreateApplyRequest(a) \/ CreateCommitRequest(a) \/ CreatePublishRequest(a)
    \/ CreateBranchRequest
    \/ \E c \in Threads :
        \/ \E r \in Requests : StartRun(c, r)
        \/ GiveUp(c) \/ ReadHead(c) \/ MakeBranch(c)
        \/ ApplyStep(c) \/ CommitStep(c) \/ PublishStep(c) \/ WorkerDies(c)
    \/ SourceCommit \/ BranchMoved \/ RemoteWritten \/ \E a \in Approvals : StagingTouched(a)

Spec == Init /\ [][Next]_vars

-----------------------------------------------------------------------------
(* Properties. *)

\* The branch is created once, moves from its base to one commit and back by
\* compare-and-swap, and what is published "repete exatamente o digest" that a
\* person approved, and overwrites nothing: whatever runs overlap, are repeated,
\* killed, or race with one edit of somebody else.  The digest is all the stages
\* compare: CommitOnReviewedBase is not among the promises.
Promise == INSTANCE ReviewedBranch WITH branch <- branch, remote <- remote, agreed <- agreed
KeepsReview == Promise!Spec

Running(r) == \E c \in Threads : run[c] # NoRun /\ run[c].request = r
Unexplained(r) == ~Running(r) /\ r \notin unreported

\* A staging worktree that outlives the runs of its apply request is the result
\* of a success, or was reported as an incomplete cleanup.
StagingAccounted ==
    \A a \in Approvals :
        staging[a].dir = "there" /\ Unexplained(<<"apply", a>>) =>
            reports[<<"apply", a>>] \cap {"success", "incomplete"} # {}

\* A branch that has a commit the program made has a request that says so, and no
\* request says that a commit was rolled back completely which is still there
\* (docs/EXPLICIT_COMMIT.md).  A run that is killed, or whose rollback cannot be
\* started (CommitEscapes), leaves the commit without a word: `unreported` has it.
CommitAccounted ==
    branch \in Changes /\ (\A a \in Approvals : Unexplained(<<"commit", a>>)) =>
        \E a \in Approvals : reports[<<"commit", a>>] \cap {"success", "incomplete"} # {}

\* A ref in the remote with a commit the program made has a publication of that very
\* commit which says that it was created, whatever was killed, repeated or
\* overwritten since.
PublicationAccounted ==
    remote \in Changes /\ (\A a \in Approvals : Unexplained(<<"publish", a>>)) =>
        \E a \in Approvals :
            payload[<<"publish", a>>] = remote /\ reports[<<"publish", a>>] \cap {"success", "reconcile"} # {}

\* No apply run failed, so no cleanup can take a staging from under another run.
AppliesSucceeded ==
    \A a \in Approvals : reports[<<"apply", a>>] \subseteq {"success"} /\ Unexplained(<<"apply", a>>)

\* "O worker tenta rollback da ref com compare-and-swap e restaura o indice": a
\* commit request that only failed, without anybody's interference, can be tried
\* again; branch, index and files are as its first run found them.
FailedCommitCanBeRetried ==
    \A a \in Approvals :
        LET r == <<"commit", a>>
        IN  reports[r] = {"failure"} /\ Unexplained(r) /\ AppliesSucceeded /\ meddled = 0 =>
                /\ branch = payload[r]
                /\ staging[a] = [dir |-> "there", files |-> [on |-> payload[r], change |-> a],
                                 index |-> payload[r]]

\* The commit a request recorded is on the base of its branch, and its diff has a
\* digest that somebody approved.
RecordedCommitIsApproved ==
    \A a \in Approvals :
        LET commit == result[<<"commit", a>>]
        IN  commit # None =>
                commit \in Changes /\ commit.on = payload[<<"commit", a>>] /\ DigestOf[commit] \in agreed

-----------------------------------------------------------------------------
(* What the documentation says, and the code does not do. *)

\* docs/GIT_CHANGE_APPROVAL.md asks for a branch that is compatible with the base
\* that was reviewed: a commit is on the base its change was proposed on.
CommitOnReviewedBase ==
    \A a \in Approvals :
        result[<<"commit", a>>] # None => result[<<"commit", a>>].on = proposed[a]

=============================================================================
