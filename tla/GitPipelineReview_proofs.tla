---------------------- MODULE GitPipelineReview_proofs ----------------------
(***************************************************************************)
(* Proofs about GitPipeline: what is committed and published has a digest  *)
(* that was approved, as long as other people touch the repository at most *)
(* once.  Two edits within one run, the second of which undoes the first,  *)
(* deceive the workers, who look at the files at the start, when they      *)
(* build the commit and at the end.                                        *)
(*                                                                         *)
(* A digest says nothing of the base a change was reviewed on.  What the   *)
(* stages do keep is the base the branch was created on, and one touch     *)
(* leaves one of two things: nothing that nobody approved is in a staging  *)
(* worktree, on the branch or in the hands of a run (Untampered); or the   *)
(* branch is where the runs put it (Undiverted).  Either is enough.        *)
(***************************************************************************)
EXTENDS GitPipeline_proofs

OneThere == \A a, b \in Approvals : staging[a].dir = "there" /\ staging[b].dir = "there" => a = b

\* A base, a change of it, or nothing of the program's.
OfBase(h, b) == h \in {None, Other, b} \/ (h \in Changes /\ h.on = b)

\* All that was made for the branch is of the base it was created on.
OneBase(b) ==
    /\ result[BranchRequest] \in {None, b}
    /\ \A a \in Approvals : payload[Apply(a)] \in {None, b}
    /\ OfBase(branch, b)
    /\ \A a \in Approvals : staging[a].dir = "there" => OfBase(staging[a].files, b)

Good(h) == h \in Changes => DigestOf[h] \in agreed
Unedited ==
    /\ Good(branch)
    /\ \A a \in Approvals : staging[a].dir = "there" => Good(staging[a].files)
    /\ \A c \in Threads : run[c].at \in Building => Good(run[c].made)
SameHead == \A c \in Threads : At(c, "create") => run[c].made = head

Untampered == OneBase(head) /\ Unedited /\ SameHead

\* A run that has put its commit on the branch and has not taken it back.
Moving == {"sync", "verify_tree", "verify_digest", "revert_ref"}
Moves(c) == run[c].at \in Moving

Unmoved ==
    /\ branch \in {None, Other} =>
            result[BranchRequest] = None /\ \A a \in Approvals : payload[Apply(a)] = None
    /\ branch = None => \A a \in Approvals : staging[a].dir # "there"
    /\ \A c \in Threads : Moves(c) => branch = run[c].made /\ \A d \in Threads : Moves(d) => d = c

\* A commit that nobody approved is what the files still are when they are verified.
Retained ==
    \A c \in Threads : \A a \in Approvals :
        At(c, "verify_digest") /\ run[c].request = Commit(a) =>
            Good(run[c].made) \/ (staging[a].dir = "there" => staging[a].files = run[c].made)

Undiverted == (\E b \in Bases : OneBase(b)) /\ Unmoved /\ Retained

\* What one touch of somebody else can have done.
OneTouch ==
    meddled <= 1 => (Untampered \/ Undiverted) /\ (meddled = 0 => Untampered /\ Undiverted)

\* Who builds a commit has seen a change of its base with an approved digest.
Seen ==
    \A c \in Threads : run[c].at \in {"build", "move"} =>
        \E seen \in Changes : seen.on = Payload(c) /\ DigestOf[seen] \in agreed

-----------------------------------------------------------------------------
(* What steps do to the things the invariant speaks of. *)

LEMMA StepsReached ==
    ASSUME Typed, NEW c \in Threads, RunStep(c)
    PROVE  /\ run'[c].at \in Keeping => AddStaging(c) \/ run[c].at \in Keeping
           /\ run'[c].at = "base_again" => AddStaging(c)
           /\ run'[c].at = "fill" => CheckStagingHead(c)
           /\ run'[c].at = "verify_applied" => FillStaging(c)
           /\ run'[c].at \in Building =>
                BuildCommit(c) \/ (run[c].at \in Building /\ run'[c].made = run[c].made)
           /\ run'[c].at = "create" => ReadHead(c)
           /\ run'[c].at \in {"build", "move"} => CheckContent(c) \/ BuildCommit(c)
           /\ run'[c].at \in Moving =>
                MoveRef(c) \/ (run[c].at \in Moving /\ UNCHANGED branch /\ run'[c].made = run[c].made)
           /\ run'[c].at = "verify_digest" => VerifyTree(c)
<1>0. TypeOK /\ run[c] # NoRun
  BY Flow DEF Typed, Flows
<1>g. \A step \in Steps : GoOn(c, step) => run'[c].at = step /\ run'[c].made = run[c].made
  BY <1>0, GoesOn
<1>r. \A o, v : Return(c, o, v) => run'[c].at = "idle"
  BY <1>0, Returns, RunOrNone
<1>f. Fails(c) => run'[c].at = "idle"
  BY <1>r DEF Fails
<1>i. "idle" \notin Keeping \cup Building \cup Moving
  BY DEF Keeping, Building, Moving
<1> USE <1>0, <1>g, <1>r, <1>f DEF At, Steps, Building, Keeping, Moving
<1>1. CASE GiveUp(c) \/ MakeBranch(c)
  BY <1>1, <1>i DEF GiveUp, MakeBranch
<1>2. CASE ReadHead(c)
  <2>1. run'[c].at = "create"
    BY <1>2 DEF ReadHead, TypeOK, Run
  <2> QED BY <1>2, <2>1
<1>3. CASE ApplyStep(c)
  <2>1. CASE ResolveBase(c) \/ CheckStagingHead(c) \/ ApplyRaises(c)
    BY <2>1 DEF ResolveBase, CheckStagingHead, ApplyRaises
  <2>2. CASE AddStaging(c)
    <3>1. run'[c].at \in {"base_again", "idle"}
      BY <2>2 DEF AddStaging, DoneOrKilled
    <3> QED BY <2>2, <3>1
  <2>3. CASE FillStaging(c)
    <3>1. run'[c].at = "verify_applied" /\ run[c].at = "fill"
      BY <2>3 DEF FillStaging, TypeOK, Run
    <3> QED BY <2>3, <3>1
  <2>4. CASE VerifyApplied(c) \/ CleanFails(c) \/ RemoveTree(c)
    BY <1>i, <2>4 DEF VerifyApplied, CleanFails, RemoveTree
  <2>5. CASE RemoveWorktree(c) \/ PruneWorktrees(c)
    <3>1. run'[c].at \in {"prune", "rmtree"} /\ run[c].at \in Keeping
      BY <2>5 DEF RemoveWorktree, PruneWorktrees
    <3> QED BY <3>1
  <2> QED BY <1>3, <2>1, <2>2, <2>3, <2>4, <2>5 DEF ApplyStep
<1>4. CASE CommitStep(c)
  <2>1. CASE CheckDrift(c) \/ CheckContent(c)
    BY <2>1 DEF CheckDrift, CheckContent
  <2>2. CASE BuildCommit(c)
    <3>1. run'[c].at = "move"
      BY <2>2 DEF BuildCommit, TypeOK, Run
    <3> QED BY <2>2, <3>1
  <2>3. CASE MoveRef(c)
    <3>1. run'[c].at \in {"sync", "idle"} /\ (run'[c].at = "sync" => run'[c].made = run[c].made) /\ run[c].at = "move"
      BY <2>3 DEF MoveRef, DoneOrKilled
    <3> QED BY <2>3, <3>1
  <2>4. CASE SyncIndex(c) \/ VerifyTree(c)
    BY <2>4 DEF SyncIndex, VerifyTree, ReadTree, NoEffect, git
  <2>5. CASE VerifyDigest(c) \/ CommitEscapes(c) \/ RevertIndex(c) \/ RevertIndexFails(c)
    BY <1>i, <2>5 DEF VerifyDigest, CommitEscapes, RevertIndex, RevertIndexFails
  <2>6. CASE CommitRaises(c) \/ RevertRefFails(c)
    BY <2>6 DEF CommitRaises, RevertRefFails, NoEffect, git
  <2>7. CASE RevertRef(c)
    <3>1. run'[c].at = "revert_index" /\ run'[c].made = run[c].made /\ run[c].at = "revert_ref"
      BY <2>7 DEF RevertRef, TypeOK, Run
    <3> QED BY <3>1
  <2> QED BY <1>4, <2>1, <2>2, <2>3, <2>4, <2>5, <2>6, <2>7 DEF CommitStep
<1>5. CASE PublishStep(c)
  <2>1. CASE CheckState(c) \/ Transfer(c) \/ CheckObjects(c)
    BY <2>1 DEF CheckState, Transfer, CheckObjects
  <2>2. CASE CreateRef(c) \/ Confirm(c) \/ ConfirmRaises(c)
    <3>1. run'[c].at \in {"confirm", "idle"}
      BY <2>2 DEF CreateRef, Confirm, ConfirmRaises, DoneOrKilled
    <3> QED BY <3>1
  <2> QED BY <1>5, <2>1, <2>2 DEF PublishStep
<1> QED BY <1>1, <1>2, <1>3, <1>4, <1>5 DEF RunStep

\* The run a step belongs to, and the ones it does not.
LEMMA RunAfter ==
    ASSUME Typed, NEW c \in Threads, RunStep(c)
    PROVE  /\ TypeOK /\ RunsFit /\ run[c] # NoRun /\ Others(c)
           /\ run'[c] = NoRun \/ run'[c].request = run[c].request
           /\ UNCHANGED <<head, proposed, approval, agreed, meddled, payload>>
<1>1. Flows(c) /\ UNCHANGED <<head, proposed, approval, agreed, meddled>>
  BY Flow, RunsDecideNothing DEF Typed, approvals
<1>2. UNCHANGED payload
  BY <1>1 DEF Flows, Proceeds, Refuses, Succeeds, Lapses, Fails, Return, requests
<1> QED BY <1>1, <1>2 DEF Typed, Flows, Proceeds, Refuses, Succeeds, Lapses

\* What the steps do that are neither of a run nor of somebody else.
LEMMA CalmSteps ==
    ASSUME Typed, Known, [Next]_vars, ~Meddling, \A c \in Threads : ~RunStep(c)
    PROVE  /\ UNCHANGED <<git, result, reports, meddled>> /\ Kept
           /\ \A a \in Approvals :
                \/ payload'[Apply(a)] = payload[Apply(a)]
                \/ result[BranchRequest] # None /\ payload'[Apply(a)] = result[BranchRequest]
           /\ \A d \in Threads :
                \/ run'[d] = run[d]
                \/ /\ run'[d].at \in {"idle", "head", "base", "drift", "state"}
                   /\ run[d] = NoRun \/ run[d].request \in unreported'
<1>0. TypeOK /\ RunsFit
  BY DEF Typed
<1>1. CASE UNCHANGED vars
  <2>1. Kept
    BY <1>1 DEF vars, approvals, requests, Kept
  <2>2. UNCHANGED <<git, payload, result, reports, run, meddled>>
    BY <1>1 DEF vars, requests
  <2> QED BY <2>1, <2>2
<1>k. Next => Kept
  BY AlwaysKept
<1>2. CASE Next /\ OfPeople
  <2>1. UNCHANGED <<git, requests, run, meddled>>
    BY <1>2, TypedOfPeople
  <2>2. UNCHANGED <<git, payload, result, reports, run, meddled>>
    BY <2>1 DEF requests
  <2> QED BY <1>2, <1>k, <2>2
<1>3. CASE Next /\ OfRequests
  <2>1. UNCHANGED <<git, result, reports, run, meddled>>
    BY <1>3, Created DEF CreateRequest
  <2>2. ASSUME NEW b \in Approvals, CreateApplyRequest(b), NEW a \in Approvals
        PROVE  \/ payload'[Apply(a)] = payload[Apply(a)]
               \/ result[BranchRequest] # None /\ payload'[Apply(a)] = result[BranchRequest]
    <3>1. result[BranchRequest] # None /\ CreateRequest(Apply(b), result[BranchRequest])
      BY <2>2 DEF CreateApplyRequest, Apply, Known, ResultsKnown
    <3> QED BY <1>0, <3>1, RequestNames DEF CreateRequest, TypeOK
  <2>3. ASSUME NEW r \in Requests, \E v : CreateRequest(r, v), \A a \in Approvals : r # Apply(a)
        PROVE  \A a \in Approvals : payload'[Apply(a)] = payload[Apply(a)]
    BY <1>0, <2>3, RequestNames DEF CreateRequest, TypeOK
  <2>4. ASSUME NEW b \in Approvals, CreateCommitRequest(b) \/ CreatePublishRequest(b) \/ CreateBranchRequest
        PROVE  \A a \in Approvals : payload'[Apply(a)] = payload[Apply(a)]
    <3>1. \E r \in {Commit(b), Publish(b), BranchRequest} : \E v : CreateRequest(r, v)
      BY <2>4 DEF CreateCommitRequest, CreatePublishRequest, CreateBranchRequest, Commit, Publish
    <3> QED BY <2>3, <3>1, RequestNames
  <2> QED BY <1>3, <1>k, <2>1, <2>2, <2>4 DEF OfRequests
<1>4. ASSUME NEW c \in Threads, WorkerDies(c) \/ \E r \in Requests : StartRun(c, r), Next
      PROVE  /\ UNCHANGED <<git, payload, result, reports, meddled>> /\ Others(c)
             /\ run'[c].at \in {"idle", "head", "base", "drift", "state"}
             /\ run[c] = NoRun \/ run[c].request \in unreported'
  <2>1. CASE WorkerDies(c)
    BY <1>0, <2>1, Dies, RunOrNone DEF requests
  <2>2. ASSUME NEW r \in Requests, StartRun(c, r)
        PROVE  /\ UNCHANGED <<git, payload, result, reports, meddled>> /\ Others(c)
               /\ run'[c].at \in {"idle", "head", "base", "drift", "state"} /\ run[c] = NoRun
    BY <1>0, <2>2, Starts DEF StartRun
  <2> QED BY <1>4, <2>1, <2>2
<1>5. ASSUME NEW c \in Threads, WorkerDies(c) \/ \E r \in Requests : StartRun(c, r), Next
      PROVE  /\ UNCHANGED <<git, result, reports, meddled>> /\ Kept
             /\ \A a \in Approvals : payload'[Apply(a)] = payload[Apply(a)]
             /\ \A d \in Threads :
                \/ run'[d] = run[d]
                \/ /\ run'[d].at \in {"idle", "head", "base", "drift", "state"}
                   /\ run[d] = NoRun \/ run[d].request \in unreported'
  BY <1>4, <1>5, <1>k DEF Others
<1> QED BY <1>1, <1>2, <1>3, <1>5, NextCases

LEMMA HoldsFrom ==
    ASSUME Typed, NEW c \in Threads, RunStep(c), NEW d \in Threads, NEW a \in Approvals, Holds(d, a)'
    PROVE  Holds(d, a) \/ (d = c /\ AddStaging(c) /\ run[c].request = Apply(a))
<1>1. CASE d = c
  <2>1. run'[c].request = run[c].request
    BY <1>1, RunAfter, RunOrNone DEF Holds, Keeping, Steps
  <2> QED BY <1>1, <2>1, StepsReached DEF Holds
<1>2. CASE d # c
  BY <1>2, RunAfter, OtherRuns
<1> QED BY <1>1, <1>2

\* What a step of a run does to the directory and the files of a staging worktree.
LEMMA FilesFrom ==
    ASSUME Typed, NEW c \in Threads, RunStep(c), NEW a \in Approvals
    PROVE  \/ staging'[a].dir = staging[a].dir /\ staging'[a].files = staging[a].files
           \/ staging'[a].dir # "there"
                /\ (staging[a].dir # "there" \/ (run[c].at \in {"remove", "prune", "rmtree"} /\ run[c].request = Apply(a)))
           \/ /\ AddStaging(c) /\ run[c].request = Apply(a) /\ branch # None /\ UNCHANGED branch
              /\ \A b \in Approvals : staging[b] = NoStaging
              /\ staging'[a] = [dir |-> "there", files |-> branch, index |-> branch]
              /\ \A b \in Approvals : b # a => staging'[b] = staging[b]
           \/ /\ FillStaging(c) /\ Holds(c, a) /\ staging[a].dir = "there" /\ staging[a].files \in Bases
              /\ staging'[a].dir = "there" /\ staging'[a].index = staging[a].index
              /\ staging'[a].files = [on |-> staging[a].files, change |-> a]
              /\ run'[c].made = staging[a].files
              /\ DigestOf[staging'[a].files] = DigestOf[Approved(a)]
<1>0. TypeOK /\ staging \in [Approvals -> Staging] /\ staging[a] \in Staging
  BY DEF Typed, TypeOK
<1>1. CASE staging'[a] = staging[a]
  BY <1>1
<1>2. ASSUME staging'[a] # staging[a], ApprovalOf(c) = a,
             AddStaging(c), run[c].request = Apply(a)
      PROVE  /\ branch # None /\ UNCHANGED branch
             /\ \A b \in Approvals : staging[b] = NoStaging
             /\ staging'[a] = [dir |-> "there", files |-> branch, index |-> branch]
             /\ \A b \in Approvals : b # a => staging'[b] = staging[b]
  BY <1>0, <1>2 DEF AddStaging, SetStaging
<1>3. ASSUME ApprovalOf(c) = a, FillStaging(c), run[c].request = Apply(a),
             staging'[a] = CopyProposalFiles(staging[a], a)
      PROVE  /\ Holds(c, a) /\ staging[a].dir = "there" /\ staging[a].files \in Bases
             /\ staging'[a].dir = "there" /\ staging'[a].index = staging[a].index
             /\ staging'[a].files = [on |-> staging[a].files, change |-> a]
             /\ run'[c].made = staging[a].files
             /\ DigestOf[staging'[a].files] = DigestOf[Approved(a)]
  <2>1. /\ staging[a].dir = "there" /\ staging[a].files \in Bases /\ Holds(c, a)
        /\ DigestOf[[on |-> staging[a].files, change |-> a]] = DigestOf[Approved(a)]
        /\ run' = [run EXCEPT ![c].at = "verify_applied", ![c].made = staging[a].files]
    BY <1>3 DEF FillStaging, At, Holds, Keeping
  <2>2. run'[c].made = staging[a].files
    <3>1. run[c] \in Run /\ run \in [Threads -> Run \cup {NoRun}]
      BY RunAfter, Whose DEF TypeOK
    <3> QED BY <2>1, <3>1 DEF Run
  <2>3. /\ staging'[a].dir = "there" /\ staging'[a].index = staging[a].index
        /\ staging'[a].files = [on |-> staging[a].files, change |-> a]
    BY <1>0, <1>3, <2>1 DEF Staging, NoStaging, Leftover, CopyProposalFiles
  <2> QED BY <2>1, <2>2, <2>3
<1>5. ASSUME NEW h, SyncIndex(c) \/ RevertIndex(c), ApprovalOf(c) = a, staging'[a] = [staging[a] EXCEPT !.index = h]
      PROVE  staging'[a].dir = staging[a].dir /\ staging'[a].files = staging[a].files
  <2>1. staging[a].dir = "there"
    BY <1>5 DEF SyncIndex, RevertIndex, ReadTree
  <2> QED BY <1>0, <1>5, <2>1 DEF Staging, NoStaging, Leftover
<1>6. CASE PruneWorktrees(c) /\ staging[a] = Leftover /\ staging'[a] = NoStaging
  BY <1>6 DEF Leftover, NoStaging
<1>7. CASE (RemoveWorktree(c) \/ RemoveTree(c)) /\ run[c].request = Apply(a) /\ staging'[a].dir # "there"
  BY <1>7 DEF RemoveWorktree, RemoveTree, At
<1> QED BY <1>1, <1>2, <1>3, <1>5, <1>6, <1>7, StagingSteps

LEMMA OneThereStep == Typed /\ Known /\ OneThere /\ [Next]_vars => OneThere'
<1> SUFFICES ASSUME Typed, Known, OneThere, [Next]_vars PROVE OneThere'
  OBVIOUS
<1>0. TypeOK
  BY DEF Typed
<1>1. CASE ~Meddling /\ \A c \in Threads : ~RunStep(c)
  BY <1>1, CalmSteps DEF OneThere, git
<1>2. CASE Meddling
  <2>1. \A b \in Approvals : staging'[b].dir = "there" => staging[b].dir = "there"
    BY <1>0, <1>2 DEF Meddling, SourceCommit, BranchMoved, RemoteWritten, StagingTouched, TypeOK, NoStaging
  <2> QED BY <2>1 DEF OneThere
<1>3. ASSUME NEW c \in Threads, RunStep(c)
      PROVE  OneThere'
  <2>1. CASE \A b \in Approvals : staging'[b].dir = "there" => staging[b].dir = "there"
    BY <2>1 DEF OneThere
  <2>2. ASSUME NEW a \in Approvals, staging'[a].dir = "there", staging[a].dir # "there"
        PROVE  OneThere'
    <3>1. /\ \A b \in Approvals : staging[b] = NoStaging
          /\ \A b \in Approvals : b # a => staging'[b] = staging[b]
      BY <1>3, <2>2, FilesFrom
    <3> QED BY <3>1 DEF OneThere, NoStaging
  <2> QED BY <2>1, <2>2
<1> QED BY <1>1, <1>2, <1>3

-----------------------------------------------------------------------------
(* All that is made for the branch is of the base it was created on. *)

LEMMA OfBaseSays ==
    ASSUME NEW b \in Bases, NEW h, OfBase(h, b)
    PROVE  /\ h \in Bases => h = b
           /\ h \in Changes => h.on = b
BY HeadsAssumption DEF OfBase, Changes

LEMMA PayloadOfBase ==
    ASSUME Typed, Known, NEW b \in Bases, OneBase(b), NEW c \in Threads, NEW a \in Approvals, run[c] # NoRun,
           run[c].request \in {Apply(a), Commit(a)}
    PROVE  Payload(c) = b /\ payload[Apply(a)] = b
<1>1. request[run[c].request] # "absent"
  BY DEF Typed, RunsFit
<1>2. request[Apply(a)] # "absent" /\ Payload(c) = payload[Apply(a)]
  BY <1>1, RequestNames DEF Known, CommitsFollow, Payload
<1>3. payload[Apply(a)] \in Bases /\ payload[Apply(a)] \in {None, b}
  BY <1>2 DEF Known, ResultsKnown, OneBase
<1> QED BY <1>2, <1>3, HeadsAssumption

\* The base of the branch is recorded by the run that creates it.
LEMMA BranchRecorded ==
    ASSUME Typed, Known, NEW c \in Threads, RunStep(c)
    PROVE  \/ result'[BranchRequest] \in {result[BranchRequest], None}
           \/ MakeBranch(c) /\ result'[BranchRequest] = run[c].made
<1>0. /\ TypeOK /\ RunsFit /\ run[c] # NoRun /\ Flows(c) /\ BranchRequest \in Requests
      /\ "success" \in Outcome /\ "failure" \in Outcome
  BY RunAfter, Flow DEF Requests, Outcome
<1>1. ASSUME NEW o \in Outcome, NEW v, Return(c, o, v)
      PROVE  \/ result'[BranchRequest] = result[BranchRequest]
             \/ run[c].request = BranchRequest /\ result'[BranchRequest] = v
  BY <1>0, <1>1, Ending
<1>2. CASE Proceeds(c)
  BY <1>2 DEF Proceeds, requests
<1>3. CASE Refuses(c) \/ Lapses(c)
  BY <1>0, <1>1, <1>3 DEF Refuses, Lapses, Fails
<1>4. CASE Succeeds(c)
  <2>1. run[c].request = BranchRequest => run[c].at \notin ApplySteps \cup CommitSteps \cup PublishSteps
    BY <1>0, Whose, RequestNames
  <2>2. run[c].request = BranchRequest => MakeBranch(c) /\ Return(c, "success", run[c].made)
    BY <1>4, <2>1 DEF Succeeds, VerifyApplied, VerifyDigest, Confirm, At, ApplySteps, CommitSteps, PublishSteps
  <2> QED BY <1>0, <1>1, <1>4, <2>2 DEF Succeeds
<1> QED BY <1>0, <1>2, <1>3, <1>4 DEF Flows

LEMMA OneBaseRunStep ==
    ASSUME Typed, Known, NEW b \in Bases, OneBase(b), NEW c \in Threads, RunStep(c),
           MakeBranch(c) => run[c].made = b
    PROVE  OneBase(b)'
<1>0. /\ TypeOK /\ RunsFit /\ run[c] # NoRun /\ UNCHANGED payload
  BY RunAfter
<1>1. result'[BranchRequest] \in {None, b}
  BY BranchRecorded DEF OneBase
<1>2. OfBase(branch', b)
  <2>1. CASE branch' = branch
    BY <2>1 DEF OneBase
  <2>2. CASE MakeBranch(c)
    BY <2>2 DEF MakeBranch, OfBase
  <2>3. ASSUME NEW a \in Approvals, run[c].request = Commit(a),
               branch' = Payload(c) \/ (MoveRef(c) /\ branch' = run[c].made)
        PROVE  OfBase(branch', b)
    <3>1. Payload(c) = b
      BY <1>0, <2>3, PayloadOfBase
    <3>2. MoveRef(c) => run[c].made \in Changes /\ run[c].made.on = Payload(c)
      BY <1>0, Whose DEF MoveRef, At, Building
    <3> QED BY <2>3, <3>1, <3>2 DEF OfBase
  <2> QED BY <2>1, <2>2, <2>3, BranchMoves
<1>3. \A a \in Approvals : staging'[a].dir = "there" => OfBase(staging'[a].files, b)
  <2> SUFFICES ASSUME NEW a \in Approvals, staging'[a].dir = "there"
               PROVE  OfBase(staging'[a].files, b)
    OBVIOUS
  <2>1. CASE staging'[a].dir = staging[a].dir /\ staging'[a].files = staging[a].files
    BY <2>1 DEF OneBase
  <2>2. CASE staging'[a] = [dir |-> "there", files |-> branch, index |-> branch]
    BY <2>2 DEF OneBase
  <2>3. CASE /\ staging[a].dir = "there" /\ staging[a].files \in Bases
             /\ staging'[a].files = [on |-> staging[a].files, change |-> a]
    <3>1. staging[a].files = b
      BY <2>3, OfBaseSays DEF OneBase
    <3> QED BY <2>3, <3>1 DEF OfBase, Changes
  <2> QED BY <2>1, <2>2, <2>3, FilesFrom
<1> QED BY <1>0, <1>1, <1>2, <1>3 DEF OneBase

-----------------------------------------------------------------------------
(* Nobody has edited anything: every step but an edit keeps it so. *)

\* A commit is built from the files of a staging worktree.
LEMMA BuiltFrom ==
    ASSUME Typed, Known, NEW b \in Bases, OneBase(b), NEW c \in Threads, BuildCommit(c)
    PROVE  \E a \in Approvals : staging[a].dir = "there" /\ run'[c].made = staging[a].files
<1>0. TypeOK /\ RunsFit
  BY DEF Typed
<1> PICK a \in Approvals : run[c].request = Commit(a) /\ ApprovalOf(c) = a
  BY <1>0, Whose DEF BuildCommit, At, CommitSteps
<1>1. staging[a].dir = "there" /\ staging[a].files \in Changes
  BY DEF BuildCommit
<1>2. run'[c].made = [on |-> Payload(c), change |-> staging[a].files.change]
  BY <1>0 DEF BuildCommit, TypeOK, Run
<1>3. Payload(c) = b /\ staging[a].files.on = b
  <2>1. run[c] # NoRun
    BY RunOrNone DEF BuildCommit, At, Steps
  <2> QED BY <1>1, <2>1, PayloadOfBase, OfBaseSays DEF OneBase
<1>4. staging[a].files = [on |-> staging[a].files.on, change |-> staging[a].files.change]
  BY <1>1 DEF Changes
<1> QED BY <1>1, <1>2, <1>3, <1>4

LEMMA UneditedRunStep ==
    ASSUME Typed, Known, NEW b \in Bases, OneBase(b), Unedited, NEW c \in Threads, RunStep(c)
    PROVE  Unedited'
<1>0. /\ TypeOK /\ RunsFit /\ run[c] # NoRun /\ UNCHANGED agreed /\ Others(c)
      /\ \A h : Good(h)' <=> Good(h)
  BY RunAfter DEF Good
<1>1. Good(branch')
  <2>1. CASE branch' = branch
    BY <2>1 DEF Unedited
  <2>2. CASE branch' \in Bases
    BY <2>2, NoBaseIsChange DEF Good
  <2>3. CASE MoveRef(c) /\ branch' = run[c].made
    BY <2>3 DEF Unedited, MoveRef, At, Building
  <2> QED BY <2>1, <2>2, <2>3, BranchMoves
<1>2. ASSUME NEW a \in Approvals, staging'[a].dir = "there"
      PROVE  Good(staging'[a].files)
  <2>1. CASE staging'[a].dir = staging[a].dir /\ staging'[a].files = staging[a].files
    BY <1>2, <2>1 DEF Unedited
  <2>2. CASE staging'[a] = [dir |-> "there", files |-> branch, index |-> branch]
    BY <2>2 DEF Unedited
  <2>3. CASE Holds(c, a) /\ DigestOf[staging'[a].files] = DigestOf[Approved(a)]
    <3>1. request[Apply(a)] # "absent"
      BY <1>0, <2>3 DEF RunsFit, Holds
    <3> QED BY <2>3, <3>1 DEF Known, AgreedFirst, Good
  <2> QED BY <1>2, <2>1, <2>2, <2>3, FilesFrom
<1>3. ASSUME NEW d \in Threads, run'[d].at \in Building
      PROVE  Good(run'[d].made)
  <2>1. CASE run[d].at \in Building /\ run'[d].made = run[d].made
    BY <2>1 DEF Unedited
  <2>2. CASE d = c /\ BuildCommit(c)
    BY <2>2, BuiltFrom DEF Unedited
  <2> QED BY <1>0, <1>3, <2>1, <2>2, StepsReached DEF Others
<1> QED BY <1>0, <1>1, <1>2, <1>3 DEF Unedited

LEMMA UntamperedStep ==
    ASSUME Typed, Known, Untampered, [Next]_vars, ~Meddling
    PROVE  Untampered'
<1>0. head \in Bases /\ OneBase(head) /\ Unedited /\ SameHead
  BY DEF Typed, TypeOK, Untampered
<1>1. CASE \A c \in Threads : ~RunStep(c)
  <2>1. /\ UNCHANGED <<head, branch, staging, result>> /\ agreed \subseteq agreed'
        /\ \A a \in Approvals :
                \/ payload'[Apply(a)] = payload[Apply(a)]
                \/ result[BranchRequest] # None /\ payload'[Apply(a)] = result[BranchRequest]
        /\ \A d \in Threads : run'[d] = run[d] \/ run'[d].at \in {"idle", "head", "base", "drift", "state"}
    BY <1>1, CalmSteps DEF git, Kept
  <2>2. OneBase(head)'
    BY <1>0, <2>1 DEF OneBase, OfBase
  <2>3. Unedited'
    BY <1>0, <2>1 DEF Unedited, Good, Building
  <2>4. SameHead'
    BY <1>0, <2>1 DEF SameHead, At
  <2> QED BY <2>2, <2>3, <2>4 DEF Untampered
<1>2. ASSUME NEW c \in Threads, RunStep(c)
      PROVE  Untampered'
  <2>1. UNCHANGED head /\ Others(c) /\ TypeOK
    BY <1>2, RunAfter
  <2>2. OneBase(head)'
    <3>1. MakeBranch(c) => run[c].made = head
      BY <1>0 DEF MakeBranch, SameHead
    <3>2. PICK b \in Bases : b = head
      BY <1>0
    <3>3. OneBase(b)
      BY <1>0, <3>2
    <3>4. OneBase(b)'
      BY <1>2, <3>1, <3>2, <3>3, OneBaseRunStep
    <3> QED BY <2>1, <3>2, <3>4 DEF OneBase, OfBase
  <2>3. Unedited'
    BY <1>0, <1>2, UneditedRunStep
  <2>4. SameHead'
    <3> SUFFICES ASSUME NEW d \in Threads, run'[d].at = "create"
                 PROVE  run'[d].made = head
      BY <2>1 DEF SameHead, At
    <3>1. CASE d # c
      BY <1>0, <2>1, <3>1 DEF SameHead, Others, At
    <3>2. CASE d = c
      <4>1. ReadHead(c) /\ run[c] \in Run
        BY <1>2, <3>2, StepsReached, RunAfter, Whose
      <4>2. run' = [run EXCEPT ![c] = [run[c] EXCEPT !.at = "create", !.made = head]]
        BY <4>1 DEF ReadHead
      <4>3. run'[c] = [run[c] EXCEPT !.at = "create", !.made = head]
        BY <2>1, <4>2 DEF TypeOK
      <4> QED BY <3>2, <4>1, <4>3 DEF Run
    <3> QED BY <3>1, <3>2
  <2> QED BY <2>2, <2>3, <2>4 DEF Untampered
<1> QED BY <1>1, <1>2

-----------------------------------------------------------------------------
(* The branch is where the runs put it: every step but of somebody who moves it. *)

\* A run that has its commit on the branch has built it.
LEMMA MovingIsBuilding ==
    ASSUME Typed, NEW c \in Threads, Moves(c)
    PROVE  run[c] # NoRun /\ run[c].made \in Changes /\ run[c].made \notin Bases \cup {None, Other}
<1>1. run[c] # NoRun /\ run[c].made \in Changes
  BY RunOrNone, Whose DEF Typed, Moves, Moving, Building, Steps
<1> QED BY <1>1, HeadsAssumption DEF Changes

LEMMA UndivertedRunStep ==
    ASSUME Typed, Known, Undiverted, NEW c \in Threads, RunStep(c)
    PROVE  Undiverted'
<1>0. /\ TypeOK /\ RunsFit /\ run[c] # NoRun /\ Others(c) /\ UNCHANGED <<payload, agreed>>
      /\ Unmoved /\ Retained
      /\ run'[c] = NoRun \/ run'[c].request = run[c].request
  BY RunAfter DEF Undiverted
<1>b. branch' # branch => branch' \in Bases \cup Changes
  BY <1>0, BranchMoves, Whose DEF MoveRef, At, Building
<1>1. \E b \in Bases : OneBase(b)'
  <2>1. ASSUME MakeBranch(c)
        PROVE  \E b \in Bases : b = run[c].made /\ OneBase(b)
    <3>1. run[c].made \in Bases /\ branch = None
      BY <1>0, <2>1, Whose DEF MakeBranch, At
    <3> QED BY <1>0, <3>1 DEF Unmoved, OneBase, OfBase
  <2>2. PICK b \in Bases : OneBase(b) /\ (MakeBranch(c) => run[c].made = b)
    BY <2>1 DEF Undiverted
  <2> QED BY <2>2, OneBaseRunStep
<1>2. Unmoved'
  <2>1. ASSUME branch' \in {None, Other}
        PROVE  result'[BranchRequest] = None /\ \A a \in Approvals : payload'[Apply(a)] = None
    <3>1. branch' = branch
      BY <1>b, <2>1, HeadsAssumption DEF Changes
    <3>2. ~MakeBranch(c)
      <4> SUFFICES ASSUME MakeBranch(c) PROVE FALSE
        OBVIOUS
      <4>1. branch' \in Bases
        BY <1>0, Whose DEF MakeBranch, At
      <4> QED BY <2>1, <4>1, HeadsAssumption
    <3> QED BY <1>0, <2>1, <3>1, <3>2, BranchRecorded DEF Unmoved
  <2>2. ASSUME branch' = None, NEW a \in Approvals
        PROVE  staging'[a].dir # "there"
    <3>1. branch = None
      BY <1>b, <2>2, HeadsAssumption DEF Changes
    <3>2. staging[a].dir # "there"
      BY <1>0, <3>1 DEF Unmoved
    <3> QED BY <3>1, <3>2, FilesFrom
  <2>3. ASSUME NEW d \in Threads, Moves(d)'
        PROVE  branch' = run'[d].made /\ \A e \in Threads : Moves(e)' => e = d
    <3>1. CASE MoveRef(c)
      <4>1. \A e \in Threads : ~Moves(e)
        <5>1. branch \in Bases
          BY <1>0, <3>1, Whose DEF MoveRef, At, Building
        <5> QED BY <1>0, <5>1, MovingIsBuilding DEF Unmoved
      <4>2. \A e \in Threads : Moves(e)' => e = c
        BY <1>0, <4>1 DEF Moves, Others
      <4>3. branch' = run[c].made /\ run[c].at = "move"
        BY <3>1 DEF MoveRef, At
      <4>4. run'[c].made = run[c].made
        <5>1. run'[c].at \in Building
          BY <2>3, <4>2 DEF Moves, Moving, Building
        <5> QED BY <4>3, <5>1, StepsReached DEF BuildCommit, At
      <4> QED BY <2>3, <4>2, <4>3, <4>4
    <3>2. CASE ~MoveRef(c)
      <4>1. \A e \in Threads : Moves(e)' => Moves(e) /\ run'[e].made = run[e].made /\ (e = c => UNCHANGED branch)
        BY <1>0, <3>2, StepsReached DEF Moves, Others
      <4>2. branch = run[d].made /\ \A e \in Threads : Moves(e) => e = d
        BY <1>0, <2>3, <4>1 DEF Unmoved
      <4>3. branch # None
        BY <2>3, <4>1, <4>2, MovingIsBuilding
      <4>4. branch' = branch
        <5>1. RevertRef(c) => c = d
          BY <4>2 DEF RevertRef, At, Moves, Moving
        <5> QED BY <2>3, <3>2, <4>1, <4>3, <5>1, BranchMoves
      <4> QED BY <2>3, <4>1, <4>2, <4>4
    <3> QED BY <3>1, <3>2
  <2> QED BY <2>1, <2>2, <2>3 DEF Unmoved
<1>3. Retained'
  <2> SUFFICES ASSUME NEW d \in Threads, NEW a \in Approvals,
                      run'[d].at = "verify_digest", run'[d].request = Commit(a)
               PROVE  Good(run[d].made)' \/ (staging'[a].dir = "there" => staging'[a].files = run'[d].made)
    BY DEF Retained, At
  <2>1. CASE d = c
    <3>1. VerifyTree(c) /\ run[c].request = Commit(a)
      BY <1>0, <2>1, StepsReached, RunOrNone DEF Steps
    <3>2. ApprovalOf(c) = a
      BY <3>1, RequestNames DEF ApprovalOf
    <3>3. staging[a].files = run[c].made /\ UNCHANGED staging
      BY <3>1, <3>2 DEF VerifyTree, PreStaged, WorkingPaths, NoEffect, git
    <3>4. run'[c].made = run[c].made
      BY <1>0, <3>1, GoesOn DEF VerifyTree, Steps
    <3> QED BY <2>1, <3>3, <3>4
  <2>2. CASE d # c
    <3>1. run'[d] = run[d]
      BY <1>0, <2>2 DEF Others
    <3>2. Good(run[d].made) \/ (staging[a].dir = "there" => staging[a].files = run[d].made)
      BY <1>0, <3>1 DEF Retained, At
    <3>3. CASE Good(run[d].made)
      BY <1>0, <3>1, <3>3 DEF Good
    <3>4. ASSUME staging[a].dir = "there" => staging[a].files = run[d].made, staging'[a].dir = "there"
          PROVE  staging'[a].files = run[d].made
      <4>1. Moves(d)
        BY <3>1 DEF Moves, Moving
      <4>2. branch = run[d].made /\ run[d].made \notin Bases
        BY <1>0, <4>1, MovingIsBuilding DEF Unmoved
      <4>3. CASE staging'[a] = [dir |-> "there", files |-> branch, index |-> branch]
        BY <4>2, <4>3
      <4>4. CASE staging[a].dir = "there" /\ (staging[a].files \in Bases \/ staging'[a].files = staging[a].files)
        BY <3>4, <4>2, <4>4
      <4> QED BY <3>4, <4>3, <4>4, FilesFrom
    <3> QED BY <3>1, <3>2, <3>3, <3>4
  <2> QED BY <2>1, <2>2
<1> QED BY <1>1, <1>2, <1>3 DEF Undiverted

LEMMA UndivertedStep ==
    ASSUME Typed, Known, Undiverted, [Next]_vars, ~Meddling
    PROVE  Undiverted'
<1>1. CASE \A c \in Threads : ~RunStep(c)
  <2>1. /\ UNCHANGED <<branch, staging, result>> /\ agreed \subseteq agreed'
        /\ \A a \in Approvals :
                \/ payload'[Apply(a)] = payload[Apply(a)]
                \/ result[BranchRequest] # None /\ payload'[Apply(a)] = result[BranchRequest]
        /\ \A d \in Threads : run'[d] = run[d] \/ run'[d].at \in {"idle", "head", "base", "drift", "state"}
    BY <1>1, CalmSteps DEF git, Kept
  <2>2. \A b \in Bases : OneBase(b) => OneBase(b)'
    BY <2>1 DEF OneBase, OfBase
  <2>3. Unmoved'
    BY <2>1 DEF Undiverted, Unmoved, Moves, Moving
  <2>4. Retained'
    BY <2>1 DEF Undiverted, Retained, Good, At
  <2> QED BY <2>2, <2>3, <2>4 DEF Undiverted
<1>2. ASSUME NEW c \in Threads, RunStep(c)
      PROVE  Undiverted'
  BY <1>2, UndivertedRunStep
<1> QED BY <1>1, <1>2

-----------------------------------------------------------------------------
(* The first touch of somebody else, and the whole step. *)

LEMMA FirstTouch ==
    ASSUME Typed, Known, Untampered, Undiverted, Meddling
    PROVE  Untampered' \/ Undiverted'
<1>0. /\ TypeOK /\ UNCHANGED <<payload, result, agreed, run>>
      /\ OneBase(head) /\ Unedited /\ SameHead
      /\ (\E b \in Bases : OneBase(b)) /\ Unmoved /\ Retained
  BY TypedMeddling DEF Typed, Untampered, Undiverted, requests, approvals
<1>1. CASE SourceCommit
  <2>1. UNCHANGED <<branch, staging>>
    BY <1>1 DEF SourceCommit
  <2> QED BY <1>0, <2>1 DEF Undiverted, OneBase, OfBase, Unmoved, Moves, Retained, Good, At
<1>2. CASE BranchMoved \/ RemoteWritten
  <2>1. UNCHANGED <<head, staging>> /\ branch' \in {branch, None, Other}
    BY <1>2 DEF BranchMoved, RemoteWritten
  <2>2. Good(None) /\ Good(Other)
    BY HeadsAssumption DEF Good, Changes
  <2> QED BY <1>0, <2>1, <2>2 DEF Untampered, OneBase, OfBase, Unedited, Good, SameHead, At
<1>3. ASSUME NEW x \in Approvals, StagingTouched(x)
      PROVE  Untampered' \/ Undiverted'
  <2>1. staging \in [Approvals -> Staging] /\ staging[x] \in Staging /\ staging[x].dir = "there" /\ UNCHANGED <<head, branch>>
    BY <1>0, <1>3 DEF TypeOK, StagingTouched
  <2>2. CASE staging' = [staging EXCEPT ![x] = NoStaging]
    <3>1. \A a \in Approvals : staging'[a] = staging[a] \/ staging'[a].dir # "there"
      BY <2>1, <2>2 DEF NoStaging
    <3> QED BY <1>0, <2>1, <3>1 DEF Untampered, OneBase, OfBase, Unedited, Good, SameHead, At
  <2>3. ASSUME NEW change \in {x, "edited"}, staging[x].files \in Changes,
               staging' = [staging EXCEPT ![x].files.change = change]
        PROVE  Undiverted'
    <3> DEFINE f == [staging[x].files EXCEPT !.change = change]
               s == [staging[x] EXCEPT !.files = f]
    <3>1. staging' = [staging EXCEPT ![x] = s]
      BY <2>3
    <3>2. s.dir = "there" /\ s.files = f
      BY <2>1 DEF Staging, NoStaging, Leftover
    <3>3. f \in Changes /\ f.on = staging[x].files.on
      BY <2>3 DEF Changes
    <3> HIDE DEF s, f
    <3>4. /\ staging'[x].dir = "there" /\ staging'[x].files = f
          /\ \A a \in Approvals \ {x} : staging'[a] = staging[a]
      BY <2>1, <3>1, <3>2
    <3>5. \E b \in Bases : OneBase(b)'
      <4> PICK b \in Bases : OneBase(b)
        BY <1>0
      <4>1. OfBase(f, b)
        BY <2>1, <2>3, <3>3, OfBaseSays DEF OneBase, OfBase
      <4>2. \A a \in Approvals : staging'[a].dir = "there" => OfBase(staging'[a].files, b)
        BY <3>4, <4>1 DEF OneBase
      <4> QED BY <1>0, <2>1, <4>2 DEF OneBase, OfBase
    <3>6. Unmoved'
      BY <1>0, <2>1, <3>4 DEF Unmoved, Moves
    <3>7. Retained'
      BY <1>0 DEF Retained, Unedited, Good, Building, At
    <3> QED BY <3>5, <3>6, <3>7 DEF Undiverted
  <2> QED BY <1>3, <2>2, <2>3 DEF StagingTouched
<1> QED BY <1>1, <1>2, <1>3 DEF Meddling

LEMMA Meddled ==
    ASSUME Typed, Known, [Next]_vars
    PROVE  /\ meddled \in Nat
           /\ Meddling => meddled' = meddled + 1
           /\ ~Meddling => UNCHANGED meddled
<1>1. meddled \in Nat
  BY MaxMeddledAssumption DEF Typed, TypeOK
<1>2. Meddling => meddled' = meddled + 1
  BY TypedMeddling
<1>3. ~Meddling => UNCHANGED meddled
  BY CalmSteps, RunAfter
<1> QED BY <1>1, <1>2, <1>3

LEMMA InitOneTouch == Init => OneThere /\ OneTouch
<1> SUFFICES ASSUME Init PROVE OneThere /\ Untampered /\ Undiverted
  BY DEF OneTouch
<1>1. /\ \A a \in Approvals : staging[a].dir # "there" /\ payload[Apply(a)] = None
      /\ result[BranchRequest] = None
  BY RequestNames DEF Init, NoStaging, Requests
<1>2. \A c \in Threads : run[c].at = "idle"
  BY DEF Init, NoRun
<1>3. branch \in {None, Other} /\ branch \notin Changes
  BY HeadsAssumption DEF Init, Changes
<1>4. head \in Bases /\ OneBase(head)
  BY <1>1, <1>3 DEF Init, OneBase, OfBase
<1>5. Unedited /\ SameHead
  BY <1>1, <1>2, <1>3 DEF Unedited, Good, SameHead, Building, At
<1>6. Unmoved /\ Retained
  BY <1>1, <1>2 DEF Unmoved, Retained, Moves, Moving, At
<1> QED BY <1>1, <1>4, <1>5, <1>6 DEF OneThere, Untampered, Undiverted

LEMMA OneTouchStep == Typed /\ Known /\ OneTouch /\ [Next]_vars => OneTouch'
<1> SUFFICES ASSUME Typed, Known, OneTouch, [Next]_vars, meddled' <= 1
             PROVE  (Untampered' \/ Undiverted') /\ (meddled' = 0 => Untampered' /\ Undiverted')
  BY DEF OneTouch
<1>1. CASE Meddling
  <2>1. meddled = 0 /\ meddled' # 0
    BY <1>1, Meddled
  <2>2. Untampered /\ Undiverted
    BY <2>1 DEF OneTouch
  <2> QED BY <1>1, <2>1, <2>2, FirstTouch
<1>2. CASE ~Meddling
  BY <1>2, Meddled, UntamperedStep, UndivertedStep DEF OneTouch
<1> QED BY <1>1, <1>2

-----------------------------------------------------------------------------
(* What a run has seen, what a commit request records, and what is published. *)

LEMMA SeenStep == Typed /\ Known /\ Seen /\ [Next]_vars => Seen'
<1> SUFFICES ASSUME Typed, Known, Seen, [Next]_vars,
                    NEW d \in Threads, run'[d].at \in {"build", "move"}
             PROVE  \E seen \in Changes : seen.on = Payload(d)' /\ DigestOf[seen] \in agreed'
  BY DEF Seen
<1>0. TypeOK /\ RunsFit
  BY DEF Typed
<1>k. Kept
  <2>1. Next => Kept
    BY AlwaysKept
  <2>2. UNCHANGED vars => Kept
    BY DEF vars, approvals, requests, Kept
  <2> QED BY <2>1, <2>2
<1>1. CASE run'[d] = run[d]
  <2>1. run[d] # NoRun /\ run[d].request \in Requests /\ request[run[d].request] # "absent"
    BY <1>0, <1>1, RunOrNone, PayloadTyped DEF RunsFit, Steps
  <2>2. Payload(d)' = Payload(d)
    BY <1>1, <1>k, <2>1 DEF Kept, Payload
  <2>3. PICK seen \in Changes : seen.on = Payload(d) /\ DigestOf[seen] \in agreed
    BY <1>1 DEF Seen
  <2> QED BY <1>k, <2>2, <2>3 DEF Kept
<1>2. ASSUME NEW c \in Threads, RunStep(c)
      PROVE  \E seen \in Changes : seen.on = Payload(d)' /\ DigestOf[seen] \in agreed'
  <2>1. CASE d # c
    BY <1>1, <1>2, <2>1, RunAfter DEF Others
  <2>2. CASE d = c
    <3>1. Payload(c)' = Payload(c) /\ UNCHANGED agreed /\ run[c] # NoRun
      BY <1>0, <1>2, <2>2, RunAfter, RunOrNone DEF Payload, Steps
    <3>2. CASE CheckContent(c)
      <4> PICK a \in Approvals : run[c].request = Commit(a) /\ ApprovalOf(c) = a
        BY <1>0, <3>2, Whose DEF CheckContent, At, CommitSteps
      <4> DEFINE seen == [on |-> Payload(c), change |-> staging[a].files.change]
      <4>1. staging[a].files \in Changes /\ Payload(c) \in Bases
        BY <3>2 DEF CheckContent, HasApprovedDigest, BaseSnapshot, Changes
      <4>2. DigestOf[seen] = DigestOf[Approved(a)]
        BY <3>2 DEF CheckContent, HasApprovedDigest, BaseSnapshot
      <4>3. DigestOf[Approved(a)] \in agreed
        BY <3>1, PayloadOfCommit
      <4>4. seen \in Changes
        BY <4>1 DEF Changes
      <4>5. seen.on = Payload(c)
        OBVIOUS
      <4> HIDE DEF seen
      <4> QED BY <2>2, <3>1, <4>2, <4>3, <4>4, <4>5
    <3>3. CASE BuildCommit(c)
      BY <2>2, <3>1, <3>3 DEF Seen, BuildCommit, At
    <3> QED BY <1>2, <2>2, <3>2, <3>3, StepsReached
  <2> QED BY <2>1, <2>2
<1>3. CASE Meddling
  BY <1>1, <1>3, TypedMeddling
<1>4. CASE ~Meddling /\ \A c \in Threads : ~RunStep(c)
  BY <1>1, <1>4, CalmSteps
<1> QED BY <1>2, <1>3, <1>4

\* A commit whose digest somebody approved.
Sound(h) == h \in Changes /\ DigestOf[h] \in agreed

RecordsReviewed ==
    \A a \in Approvals :
        /\ result[Commit(a)] # None =>
                /\ Sound(result[Commit(a)]) /\ result[Commit(a)].on = payload[Commit(a)]
                /\ request[Commit(a)] # "absent"
        /\ request[Publish(a)] # "absent" => Sound(payload[Publish(a)])

\* What the last look of a commit run accepts: the files have the approved digest, and
\* the commit has it too, for nothing was edited or the files are still those it has.
LEMMA SucceedsReviewed ==
    ASSUME Typed, Known, OneTouch, meddled <= 1, NEW c \in Threads, RunStep(c), Succeeds(c),
           NEW a \in Approvals, run[c].request = Commit(a)
    PROVE  /\ Return(c, "success", run[c].made)
           /\ Sound(run[c].made) /\ run[c].made.on = payload[Commit(a)]
<1>0. TypeOK /\ RunsFit /\ run[c] # NoRun /\ ApprovalOf(c) = a
  BY RunAfter, RequestNames DEF ApprovalOf
<1>1. run[c].at \notin BranchSteps \cup ApplySteps \cup PublishSteps
  BY <1>0, Whose, RequestNames
<1>2. VerifyDigest(c) /\ Return(c, "success", run[c].made)
  BY <1>1 DEF Succeeds, MakeBranch, VerifyApplied, Confirm, At, BranchSteps, ApplySteps, PublishSteps
<1>3. /\ run[c].made \in Changes /\ run[c].made.on = Payload(c)
      /\ Payload(c) = payload[Commit(a)] /\ DigestOf[Approved(a)] \in agreed
  BY <1>0, <1>2, Whose, PayloadOfCommit DEF VerifyDigest, At, Building
<1>4. /\ staging[a].dir = "there" /\ run[c].at = "verify_digest"
      /\ DigestOf[[on |-> Payload(c), change |-> staging[a].files.change]] = DigestOf[Approved(a)]
  BY <1>0, <1>2 DEF VerifyDigest, HasApprovedDigest, BaseSnapshot, At
<1>5. Good(run[c].made) \/ staging[a].files = run[c].made
  <2>1. Untampered => Good(run[c].made)
    BY <1>4 DEF Untampered, Unedited, Building
  <2>2. Undiverted => Good(run[c].made) \/ staging[a].files = run[c].made
    BY <1>4 DEF Undiverted, Retained, At
  <2> QED BY <2>1, <2>2 DEF OneTouch
<1>6. Good(run[c].made)
  <2> SUFFICES ASSUME staging[a].files = run[c].made PROVE Good(run[c].made)
    BY <1>5
  <2>1. run[c].made = [on |-> Payload(c), change |-> run[c].made.change]
    BY <1>3 DEF Changes
  <2> QED BY <1>3, <1>4, <2>1 DEF Good
<1> QED BY <1>2, <1>3, <1>6 DEF Good, Sound

LEMMA RecordsRunStep ==
    ASSUME Typed, Known, OneTouch, meddled <= 1, RecordsReviewed, NEW c \in Threads, RunStep(c)
    PROVE  RecordsReviewed'
<1>0. /\ TypeOK /\ RunsFit /\ run[c] # NoRun /\ Flows(c) /\ run[c].request \in Requests
      /\ UNCHANGED <<agreed, payload>> /\ request[run[c].request] # "absent"
      /\ \A r \in Requests : request[r] = "absent" <=> request'[r] = "absent"
  <2>1. TypeOK /\ RunsFit /\ run[c] # NoRun /\ Flows(c) /\ UNCHANGED <<agreed, payload>>
    BY Flow, RunAfter
  <2>2. \A r \in Requests : request[r] = "absent" <=> request'[r] = "absent"
    <3>1. UNCHANGED approvals
      BY RunsDecideNothing
    <3> QED BY <2>1, <3>1, KeptByFlow DEF Kept
  <2> QED BY <2>1, <2>2, PayloadTyped DEF RunsFit
<1>1. ASSUME NEW o \in Outcome, NEW v, Return(c, o, v),
             \A a \in Approvals : run[c].request = Commit(a) =>
                v = None \/ (Sound(v) /\ v.on = payload[Commit(a)])
      PROVE  RecordsReviewed'
  <2>1. \A a \in Approvals :
          \/ result'[Commit(a)] = result[Commit(a)]
          \/ run[c].request = Commit(a) /\ result'[Commit(a)] = v
    BY <1>0, <1>1, Ending, RequestNames
  <2> QED BY <1>0, <1>1, <2>1, RequestNames DEF RecordsReviewed, Sound
<1>2. CASE Proceeds(c)
  <2>1. UNCHANGED result
    BY <1>2 DEF Proceeds, requests
  <2> QED BY <1>0, <2>1, RequestNames DEF RecordsReviewed, Sound
<1>3. CASE Refuses(c)
  BY <1>1, <1>3 DEF Refuses
<1>4. CASE Lapses(c)
  <2>1. Return(c, "failure", None) /\ "failure" \in Outcome
    BY <1>4 DEF Lapses, Fails, Outcome
  <2> QED BY <1>1, <2>1
<1>5. CASE Succeeds(c)
  <2>1. "success" \in Outcome
    BY DEF Outcome
  <2>2. ASSUME NEW a \in Approvals, run[c].request = Commit(a)
        PROVE  RecordsReviewed'
    <3>1. \A b \in Approvals : run[c].request = Commit(b) => b = a
      BY <2>2, RequestNames
    <3> QED BY <1>1, <1>5, <2>1, <2>2, <3>1, SucceedsReviewed
  <2>3. CASE \A a \in Approvals : run[c].request # Commit(a)
    BY <1>1, <1>5, <2>1, <2>3 DEF Succeeds
  <2> QED BY <2>2, <2>3
<1> QED BY <1>0, <1>2, <1>3, <1>4, <1>5 DEF Flows

LEMMA RecordsStep ==
    ASSUME Typed, Known, OneTouch, meddled <= 1, RecordsReviewed, [Next]_vars
    PROVE  RecordsReviewed'
<1>0. TypeOK /\ RunsFit
  BY DEF Typed
<1>k. Next => Kept
  BY AlwaysKept
<1>1. CASE UNCHANGED vars
  BY <1>1 DEF RecordsReviewed, Sound, vars, approvals, requests
<1>2. ASSUME Next, UNCHANGED result,
             \A a \in Approvals : request[Publish(a)] = "absent" =>
                request'[Publish(a)] = "absent" \/ Sound(payload'[Publish(a)])
      PROVE  RecordsReviewed'
  BY <1>k, <1>2, RequestNames DEF RecordsReviewed, Sound, Kept
<1>3. ASSUME Next, OfPeople \/ Meddling \/ \E c \in Threads : WorkerDies(c)
      PROVE  RecordsReviewed'
  <2>1. UNCHANGED requests
    BY <1>3, TypedOfPeople, TypedMeddling DEF WorkerDies
  <2> QED BY <1>2, <1>3, <2>1 DEF requests
<1>4. ASSUME Next, NEW c \in Threads, NEW r \in Requests, StartRun(c, r)
      PROVE  RecordsReviewed'
  <2>1. \A q \in Requests : request[q] = "absent" => request'[q] = "absent"
    BY <1>0, <1>4 DEF StartRun, TypeOK
  <2> QED BY <1>2, <1>4, <2>1, RequestNames DEF StartRun
<1>5. ASSUME Next, OfRequests
      PROVE  RecordsReviewed'
  <2> SUFFICES ASSUME NEW a \in Approvals, request[Publish(a)] = "absent", request'[Publish(a)] # "absent"
               PROVE  Sound(payload'[Publish(a)])
    BY <1>2, <1>5, Created DEF CreateRequest
  <2>1. ASSUME NEW r \in Requests, NEW v, CreateRequest(r, v)
        PROVE  r = Publish(a) /\ payload'[Publish(a)] = v
    BY <1>0, <2>1, RequestNames DEF CreateRequest, TypeOK
  <2>2. ASSUME NEW b \in Approvals, CreatePublishRequest(b)
        PROVE  result[Commit(a)] # None /\ payload'[Publish(a)] = result[Commit(a)]
    <3>1. request[Commit(b)] = "completed" /\ CreateRequest(Publish(b), result[Commit(b)])
      BY <2>2 DEF CreatePublishRequest, Commit, Publish
    <3>2. Publish(b) = Publish(a) /\ payload'[Publish(a)] = result[Commit(b)]
      BY <2>1, <3>1, RequestNames
    <3>3. b = a
      BY <3>2, RequestNames
    <3> QED BY <3>1, <3>2, <3>3 DEF Known, ResultsKnown
  <2>3. ASSUME NEW b \in Approvals, CreateApplyRequest(b) \/ CreateCommitRequest(b) \/ CreateBranchRequest
        PROVE  FALSE
    <3>1. \E r \in {Apply(b), Commit(b), BranchRequest} : \E v : CreateRequest(r, v)
      BY <2>3 DEF CreateApplyRequest, CreateCommitRequest, CreateBranchRequest, Apply, Commit
    <3> QED BY <2>1, <3>1, RequestNames
  <2> QED BY <1>5, <2>2, <2>3 DEF OfRequests, RecordsReviewed
<1>6. ASSUME NEW c \in Threads, RunStep(c)
      PROVE  RecordsReviewed'
  BY <1>6, RecordsRunStep
<1> QED BY <1>1, <1>3, <1>4, <1>5, <1>6, NextCases

Reviewed == OneThere /\ OneTouch /\ Seen /\ (meddled <= 1 => RecordsReviewed)

LEMMA ReviewedStep == Typed /\ Known /\ Reviewed /\ [Next]_vars => Reviewed'
<1> SUFFICES ASSUME Typed, Known, Reviewed, [Next]_vars PROVE Reviewed'
  OBVIOUS
<1>1. meddled' <= 1 => meddled <= 1
  BY Meddled
<1>2. OneThere' /\ OneTouch' /\ Seen'
  BY OneThereStep, OneTouchStep, SeenStep DEF Reviewed
<1> QED BY <1>1, <1>2, RecordsStep DEF Reviewed

\* The inductive invariant behind the review: one touch of somebody else leaves the
\* program's changes untampered or its branch where the runs put it, which is what
\* execute_create_commit needs for the digest it compares to be that of its commit.
THEOREM ReviewedHolds == Spec => [](Typed /\ Known /\ Accounts /\ Reviewed)
<1>1. Init => Reviewed
  <2> SUFFICES ASSUME Init PROVE Seen /\ RecordsReviewed
    BY InitOneTouch DEF Reviewed
  <2> QED BY RequestNames DEF Init, RecordsReviewed, Seen, NoRun
<1>2. Init => Typed /\ Known /\ Accounts
  BY InitTyped, InitKnown, InitAccounts
<1>3. Typed /\ Known /\ Accounts /\ Reviewed /\ [Next]_vars => (Typed /\ Known /\ Accounts /\ Reviewed)'
  BY TypedStep, KnownStep, AccountsStep, ReviewedStep
<1> QED BY <1>1, <1>2, <1>3, PTL DEF Spec

\* The commit a request recorded is on the base of its branch, and its diff has a digest
\* that somebody approved, as long as other people have touched the repository at most
\* once: execute_create_commit compares the digest before and after it commits.  It says
\* nothing of the base the change was proposed on, which no stage compares.
THEOREM RecordedCommitsAreApproved == Spec => [](meddled <= 1 => RecordedCommitIsApproved)
<1>1. Reviewed => (meddled <= 1 => RecordedCommitIsApproved)
  BY DEF Reviewed, RecordsReviewed, Sound, RecordedCommitIsApproved, Commit
<1> QED BY <1>1, ReviewedHolds, PTL

-----------------------------------------------------------------------------
(* The refinement of ReviewedBranch. *)

LEMMA InitKeepsReview == Init => Promise!Init
BY DEF Init, Promise!Init

LEMMA ChangesAgree == Promise!Changes = Changes
BY DEF Promise!Changes, Changes

LEMMA RunStepKeepsReview ==
    ASSUME Typed, Known, Reviewed, meddled <= 1, NEW c \in Threads, RunStep(c)
    PROVE  [Promise!Next]_Promise!promiseVars
<1>0. /\ TypeOK /\ RunsFit /\ run[c] # NoRun /\ Seen /\ RecordsReviewed /\ UNCHANGED agreed
  BY RunAfter DEF Reviewed
<1>1. CASE branch' # branch
  <2>0. UNCHANGED remote
    BY <1>1 DEF RunStep, GiveUp, ReadHead, MakeBranch, ApplyStep, CommitStep, PublishStep, NoEffect, git,
       ResolveBase, AddStaging, CheckStagingHead, FillStaging, VerifyApplied, ApplyRaises,
       RemoveWorktree, PruneWorktrees, RemoveTree, CleanFails,
       CheckDrift, CheckContent, BuildCommit, MoveRef, SyncIndex, VerifyTree, VerifyDigest, CommitRaises,
       CommitEscapes, RevertRef, RevertRefFails, RevertIndex, RevertIndexFails, SetStaging, ReadTree,
       CheckState, Transfer, CheckObjects, CreateRef, Confirm, ConfirmRaises
  <2>1. CASE branch = None /\ branch' \in Bases
    <3>1. \E b \in Bases : Promise!CreateBranch(b)
      BY <1>0, <2>0, <2>1 DEF Promise!CreateBranch
    <3> QED BY <3>1 DEF Promise!Next
  <2>2. CASE MoveRef(c) /\ branch = Payload(c) /\ branch' = run[c].made
    <3>1. run[c].made \in Changes /\ run[c].made.on = Payload(c)
      BY <1>0, <2>2, Whose DEF MoveRef, At, Building
    <3>2. \E seen \in Changes : seen.on = Payload(c) /\ DigestOf[seen] \in agreed
      BY <1>0, <2>2 DEF MoveRef, At, Seen
    <3>3. Promise!Commit(run[c].made)
      BY <1>0, <2>0, <2>2, <3>1, <3>2, ChangesAgree DEF Promise!Commit
    <3> QED BY <3>1, <3>3, ChangesAgree DEF Promise!Next
  <2>3. CASE RevertRef(c) /\ branch = run[c].made /\ branch' = Payload(c)
    <3>1. run[c].made \in Changes /\ run[c].made.on = Payload(c)
      BY <1>0, <2>3, Whose DEF RevertRef, At, Building
    <3>2. Promise!TakeBack(run[c].made)
      BY <1>0, <2>0, <2>3, <3>1 DEF Promise!TakeBack
    <3> QED BY <3>1, <3>2, ChangesAgree DEF Promise!Next
  <2> QED BY <1>1, <2>1, <2>2, <2>3, BranchMoves
<1>2. CASE branch' = branch /\ CreateRef(c)
  <2> PICK a \in Approvals : run[c].request = Publish(a)
    BY <1>0, <1>2, Whose DEF CreateRef, At, PublishSteps
  <2>1. Sound(Payload(c))
    BY <1>0 DEF Payload, RecordsReviewed, RunsFit
  <2>2. Promise!Publish(Payload(c))
    BY <1>0, <1>2, <2>1 DEF CreateRef, Promise!Publish, Sound
  <2> QED BY <2>1, <2>2, ChangesAgree DEF Promise!Next, Sound
<1>3. CASE branch' = branch /\ ~CreateRef(c)
  BY <1>0, <1>3, RunSteps DEF Promise!promiseVars
<1> QED BY <1>1, <1>2, <1>3

LEMMA StepKeepsReview ==
    Typed /\ Known /\ Reviewed /\ meddled <= 1 /\ [Next]_vars => [Promise!Next]_Promise!promiseVars
<1> SUFFICES ASSUME Typed, Known, Reviewed, meddled <= 1, [Next]_vars
             PROVE  [Promise!Next]_Promise!promiseVars
  OBVIOUS
<1>0. TypeOK /\ RunsFit
  BY DEF Typed
<1>1. CASE OfPeople
  <2>1. UNCHANGED <<branch, remote>>
    BY <1>1, TypedOfPeople DEF git
  <2>2. CASE UNCHANGED agreed
    BY <2>1, <2>2 DEF Promise!promiseVars
  <2>3. ASSUME NEW a \in Approvals, ApproveGitChange(a)
        PROVE  Promise!Next
    <3>1. proposed[a] # None
      BY <2>3 DEF Typed, Proposals, ApproveGitChange
    <3>2. Approved(a) \in Changes /\ Approved(a).change = a
      BY <1>0, <3>1, ApprovedIsChange DEF Approved
    <3>3. Promise!Approve(Approved(a))
      BY <2>1, <2>3 DEF ApproveGitChange, Promise!Approve
    <3> QED BY <3>2, <3>3, ChangesAgree DEF Promise!Next
  <2> QED BY <1>1, <2>2, <2>3 DEF OfPeople, Propose, PrepareApproval, ReadPending, CancelGitChange
<1>2. CASE OfRequests
  <2>1. UNCHANGED <<branch, remote, agreed>>
    BY <1>2, Created DEF CreateRequest, git, approvals
  <2> QED BY <2>1 DEF Promise!promiseVars
<1>3. CASE Meddling
  <2>1. Promise!SomebodyElse
    <3>1. UNCHANGED agreed
      BY <1>3, TypedMeddling DEF approvals
    <3> QED BY <1>3, <3>1 DEF Meddling, SourceCommit, BranchMoved, RemoteWritten, StagingTouched, Promise!SomebodyElse
  <2> QED BY <2>1 DEF Promise!Next
<1>4. ASSUME NEW c \in Threads, WorkerDies(c) \/ \E r \in Requests : StartRun(c, r)
      PROVE  [Promise!Next]_Promise!promiseVars
  <2>1. UNCHANGED <<branch, remote, agreed>>
    BY <1>4 DEF WorkerDies, StartRun, git, approvals
  <2> QED BY <2>1 DEF Promise!promiseVars
<1>5. ASSUME NEW c \in Threads, RunStep(c)
      PROVE  [Promise!Next]_Promise!promiseVars
  BY <1>5, RunStepKeepsReview
<1>6. CASE UNCHANGED vars
  <2>1. UNCHANGED <<branch, remote, agreed>>
    BY <1>6 DEF vars, git, approvals
  <2> QED BY <2>1 DEF Promise!promiseVars
<1> QED BY <1>1, <1>2, <1>3, <1>4, <1>5, <1>6, NextCases

\* The pipeline implements ReviewedBranch, as long as other people touch the repository
\* at most once: the workers commit on the base of the branch after they have seen an
\* approved digest there, publish only what has one, and move every ref by
\* compare-and-swap.
THEOREM PipelineKeepsReview == Spec /\ [](meddled <= 1) => KeepsReview
<1>1. Init => Promise!Init
  BY InitKeepsReview
<1>2. Typed /\ Known /\ Reviewed /\ meddled <= 1 /\ [Next]_vars => [Promise!Next]_Promise!promiseVars
  BY StepKeepsReview
<1> QED BY <1>1, <1>2, ReviewedHolds, PTL DEF Spec, KeepsReview, Promise!Spec

-----------------------------------------------------------------------------
(***************************************************************************)
(* A commit request that failed, while nobody else touched the repository  *)
(* and no apply run failed.  Git checks a branch out once, so there is one *)
(* staging worktree at a time; the run that made it has it alone, and once *)
(* that run has succeeded nobody writes or removes it but runs of the      *)
(* commit.                                                                 *)
(***************************************************************************)

\* An apply run failed, or is about to: its cleanup removes a directory whoever made it.
Cleaning == {"remove", "prune", "rmtree"}
Disturbed ==
    \E a \in Approvals :
        \/ Apply(a) \in unreported
        \/ ~(reports[Apply(a)] \subseteq {"success"})
        \/ \E c \in Threads : run[c].at \in Cleaning /\ run[c].request = Apply(a)

HeldAlone ==
    \A a \in Approvals : \A c \in Threads :
        Holds(c, a) =>
            /\ staging[a].dir = "there" /\ \A d \in Threads : Holds(d, a) => d = c
            /\ run[c].at \in {"base_again", "fill"} => staging[a].index = staging[a].files
            /\ run[c].at = "verify_applied" =>
                    /\ staging[a].index = run[c].made
                    /\ staging[a].files = [on |-> run[c].made, change |-> a]

\* No run will write the files of the staging worktree or remove it.
Free(a) == staging[a].dir = "there" /\ \A c \in Threads : ~Holds(c, a)

AppliedKept ==
    \A a \in Approvals :
        Applied(a) => Free(a) /\ staging[a].files = [on |-> payload[Apply(a)], change |-> a]

\* A run that has changed the index and has yet to restore it or to say what it did.
Resets(c, a) ==
    /\ run[c].at \in {"verify_tree", "verify_digest", "revert_ref", "revert_index"}
    /\ run[c].request = Commit(a)

IndexKnown ==
    \A a \in Approvals :
        Applied(a) /\ staging[a].index # payload[Apply(a)] => Told(a) \/ \E c \in Threads : Resets(c, a)

Retriable == meddled = 0 /\ ~Disturbed => HeldAlone /\ AppliedKept /\ IndexKnown

LEMMA CommittedIsApplied ==
    ASSUME Typed, Known, NEW a \in Approvals, Told(a) \/ \E c \in Threads : run[c] # NoRun /\ run[c].request = Commit(a)
    PROVE  request[Commit(a)] # "absent" /\ Applied(a)
<1>1. Told(a) => request[Commit(a)] # "absent"
  BY RequestNames DEF Told, Known, Requested
<1>2. (\E c \in Threads : run[c] # NoRun /\ run[c].request = Commit(a)) => request[Commit(a)] # "absent"
  BY DEF Typed, RunsFit
<1> QED BY <1>1, <1>2 DEF Known, CommitsFollow

\* The payload of what was applied stays what it is.
LEMMA AppliedPayload ==
    ASSUME Known, NEW a \in Approvals, Applied(a)
    PROVE  request[Apply(a)] # "absent" /\ (Kept => payload'[Apply(a)] = payload[Apply(a)])
BY RequestNames DEF Known, Requested, Applied, Kept

LEMMA DisturbedStays ==
    ASSUME Typed, Known, Disturbed, [Next]_vars
    PROVE  Disturbed'
<1>0. TypeOK /\ RunsFit
  BY DEF Typed
<1>k. Kept
  <2>1. Next => Kept
    BY AlwaysKept
  <2>2. UNCHANGED vars => Kept
    BY DEF vars, approvals, requests, Kept
  <2> QED BY <2>1, <2>2
<1> PICK a \in Approvals :
        \/ Apply(a) \in unreported
        \/ ~(reports[Apply(a)] \subseteq {"success"})
        \/ \E c \in Threads : run[c].at \in Cleaning /\ run[c].request = Apply(a)
  BY DEF Disturbed
<1>1. CASE Apply(a) \in unreported \/ ~(reports[Apply(a)] \subseteq {"success"})
  BY <1>k, <1>1, RequestNames DEF Kept, Disturbed
<1>2. ASSUME NEW c \in Threads, run[c].at \in Cleaning, run[c].request = Apply(a)
      PROVE  Disturbed'
  <2>0. run[c] # NoRun /\ run[c].at \in Keeping
    BY <1>2, RunOrNone DEF Cleaning, Keeping, Steps
  <2>1. CASE run'[c] = run[c]
    BY <1>2, <2>1 DEF Disturbed
  <2>2. CASE RunStep(c)
    <3>1. ASSUME NEW o \in {"failure", "incomplete"}, NEW v, Return(c, o, v)
          PROVE  Disturbed'
      <4>1. reports'[Apply(a)] = reports[Apply(a)] \cup {o}
        BY <1>0, <1>2, <2>0, <3>1, Ending DEF Outcome
      <4> QED BY <4>1 DEF Disturbed
    <3>2. CASE RemoveWorktree(c) \/ PruneWorktrees(c)
      <4>1. run'[c].at \in Cleaning /\ run'[c].request = run[c].request
        BY <1>0, <2>0, <3>2, GoesOn DEF RemoveWorktree, PruneWorktrees, Cleaning, Steps
      <4> QED BY <1>2, <4>1 DEF Disturbed
    <3>3. CASE RemoveTree(c) \/ CleanFails(c)
      BY <3>1, <3>3 DEF RemoveTree, CleanFails, Fails
    <3>4. ~CheckStagingHead(c) /\ ~FillStaging(c) /\ ~VerifyApplied(c) /\ ~ApplyRaises(c)
      BY <1>2 DEF CheckStagingHead, FillStaging, VerifyApplied, ApplyRaises, At, Cleaning
    <3> QED BY <2>0, <2>2, <3>2, <3>3, <3>4, RunSteps
  <2>3. ASSUME NEW e \in Threads, e # c, RunStep(e)
        PROVE  Disturbed'
    BY <2>1, <2>3, RunAfter DEF Others
  <2>4. CASE Meddling
    BY <2>1, <2>4, TypedMeddling
  <2>5. CASE ~Meddling /\ \A e \in Threads : ~RunStep(e)
    <3>1. run'[c] = run[c] \/ run[c].request \in unreported'
      BY <2>0, <2>5, CalmSteps
    <3> QED BY <1>2, <2>1, <3>1 DEF Disturbed
  <2> QED BY <2>2, <2>3, <2>4, <2>5
<1> QED BY <1>1, <1>2

\* Who applies a change: a run at the end of its verification.
LEMMA AppliedFrom ==
    ASSUME Typed, NEW c \in Threads, RunStep(c), NEW a \in Approvals, Applied(a)'
    PROVE  \/ Applied(a)
           \/ /\ VerifyApplied(c) /\ run[c].request = Apply(a) /\ Holds(c, a)
              /\ run'[c] = NoRun /\ UNCHANGED staging
<1>0. /\ TypeOK /\ RunsFit /\ Flows(c) /\ run[c] # NoRun /\ "success" \in Outcome /\ "failure" \in Outcome \ {"success"}
      /\ Apply(a) \in Requests
  BY Flow, RequestNames DEF Typed, Flows, Outcome
<1>1. CASE Proceeds(c)
  BY <1>1 DEF Proceeds, requests, Applied
<1>2. CASE Refuses(c)
  <2> PICK o \in Outcome \ {"success"} : Return(c, o, None)
    BY <1>2 DEF Refuses
  <2>1. reports'[Apply(a)] \in {reports[Apply(a)], reports[Apply(a)] \cup {o}}
    BY <1>0, Ending
  <2> QED BY <2>1 DEF Applied
<1>3. CASE Lapses(c)
  <2>1. Return(c, "failure", None)
    BY <1>3 DEF Lapses, Fails
  <2>2. reports'[Apply(a)] \in {reports[Apply(a)], reports[Apply(a)] \cup {"failure"}}
    BY <1>0, <2>1, Ending
  <2> QED BY <2>2 DEF Applied
<1>4. CASE Succeeds(c)
  <2> PICK v : Return(c, "success", v)
    BY <1>4 DEF Succeeds
  <2>1. run[c].request # Apply(a) => reports'[Apply(a)] = reports[Apply(a)]
    BY <1>0, Ending
  <2>2. CASE run[c].request # Apply(a)
    BY <2>1, <2>2 DEF Applied
  <2>3. CASE run[c].request = Apply(a)
    <3>1. run[c].at \notin BranchSteps \cup CommitSteps \cup PublishSteps
      BY <1>0, <2>3, Whose, RequestNames
    <3>2. VerifyApplied(c)
      BY <1>4, <3>1 DEF Succeeds, MakeBranch, VerifyDigest, Confirm, At, BranchSteps, CommitSteps, PublishSteps
    <3>3. Holds(c, a) /\ UNCHANGED staging
      BY <2>3, <3>2 DEF Holds, VerifyApplied, At, Keeping, NoEffect, git
    <3> QED BY <1>4, <2>3, <3>2, <3>3 DEF Succeeds
  <2> QED BY <2>2, <2>3
<1> QED BY <1>0, <1>1, <1>2, <1>3, <1>4 DEF Flows

\* While no apply run fails, a staging worktree that is there stays, and only the run
\* that has it writes its files.
LEMMA FreeStays ==
    ASSUME Typed, ~Disturbed, NEW c \in Threads, RunStep(c), NEW a \in Approvals, staging[a].dir = "there"
    PROVE  /\ staging'[a].dir = "there" /\ ~AddStaging(c)
           /\ ~Holds(c, a) => staging'[a].files = staging[a].files
           /\ \A d \in Threads : Holds(d, a)' => Holds(d, a)
<1>1. ~AddStaging(c)
  BY DEF AddStaging, NoStaging
<1>2. ~(run[c].at \in {"remove", "prune", "rmtree"} /\ run[c].request = Apply(a))
  BY DEF Disturbed, Cleaning
<1> QED BY <1>1, <1>2, FilesFrom, HoldsFrom

LEMMA HeldAloneRunStep ==
    ASSUME Typed, Known, ~Disturbed, HeldAlone, AppliedKept, NEW c \in Threads, RunStep(c), ~Disturbed'
    PROVE  HeldAlone'
<1>0. /\ TypeOK /\ RunsFit /\ run[c] # NoRun /\ Others(c)
  BY RunAfter
<1> SUFFICES ASSUME NEW a \in Approvals, NEW d \in Threads, Holds(d, a)'
             PROVE  /\ staging'[a].dir = "there" /\ \A e \in Threads : Holds(e, a)' => e = d
                    /\ run'[d].at \in {"base_again", "fill"} => staging'[a].index = staging'[a].files
                    /\ run'[d].at = "verify_applied" =>
                            /\ staging'[a].index = run'[d].made
                            /\ staging'[a].files = [on |-> run'[d].made, change |-> a]
  BY DEF HeldAlone
<1>1. CASE d = c /\ AddStaging(c) /\ run[c].request = Apply(a)
  <2>1. ApprovalOf(c) = a /\ staging[a].dir # "there"
    BY <1>1, RequestNames DEF ApprovalOf, AddStaging, NoStaging
  <2>2. staging'[a] = [dir |-> "there", files |-> branch, index |-> branch]
    BY <1>0, <1>1, <2>1 DEF AddStaging, SetStaging, TypeOK
  <2>3. \A e \in Threads : Holds(e, a)' => e = c
    BY <2>1, HoldsFrom DEF HeldAlone
  <2>4. run'[c].at # "verify_applied"
    BY <1>1, StepsReached DEF AddStaging, FillStaging, At
  <2> QED BY <1>1, <2>2, <2>3, <2>4
<1>2. CASE Holds(d, a)
  <2>1. staging[a].dir = "there" /\ \A e \in Threads : Holds(e, a) => e = d
    BY <1>2 DEF HeldAlone
  <2>2. staging'[a].dir = "there" /\ (\A e \in Threads : Holds(e, a)' => e = d) /\ ~AddStaging(c)
    BY <2>1, FreeStays
  <2>3. ~Applied(a)
    BY <1>2 DEF AppliedKept, Free
  <2>4. run[c].request # Commit(a)
    BY <1>0, <2>3, CommittedIsApplied
  <2>5. run[c].at \notin Cleaning \/ run[c].request # Apply(a)
    BY DEF Disturbed
  <2>6. ~FillStaging(c) \/ ~Holds(c, a) => staging'[a] = staging[a]
    <3>1. (RemoveWorktree(c) \/ RemoveTree(c)) => run[c].request # Apply(a)
      BY <2>5 DEF RemoveWorktree, RemoveTree, At, Cleaning
    <3>2. FillStaging(c) /\ run[c].request = Apply(a) => Holds(c, a)
      BY DEF FillStaging, At, Holds, Keeping
    <3>3. staging[a] # Leftover
      BY <2>1 DEF Leftover
    <3> QED BY <2>2, <2>4, <3>1, <3>2, <3>3, StagingSteps
  <2>7. CASE d # c
    <3>1. run'[d] = run[d] /\ staging'[a] = staging[a]
      BY <1>0, <2>1, <2>6, <2>7 DEF Others
    <3> QED BY <1>2, <2>2, <3>1 DEF HeldAlone
  <2>8. CASE d = c
    <3>1. CASE FillStaging(c)
      <4>1. run'[c].at = "verify_applied" /\ run[c].at = "fill" /\ run[c] \in Run /\ staging[a].dir = "there"
        BY <1>0, <2>1, <3>1, Whose DEF FillStaging, TypeOK, Run, At
      <4>2. staging'[a].index = staging[a].index /\ run'[c].made = staging[a].files
            /\ staging'[a].files = [on |-> staging[a].files, change |-> a]
        <5>1. ApprovalOf(c) = a
          BY <1>2, <2>8, RequestNames DEF Holds, ApprovalOf
        <5>2. staging[a].files \in Bases /\ staging' = [staging EXCEPT ![a] = CopyProposalFiles(staging[a], a)]
          BY <3>1, <5>1 DEF FillStaging, SetStaging
        <5>3. staging'[a] = [staging[a] EXCEPT !.files = [on |-> staging[a].files, change |-> a]] /\ staging[a] \in Staging
          BY <1>0, <5>2 DEF TypeOK, CopyProposalFiles
        <5>4. run' = [run EXCEPT ![c] = [run[c] EXCEPT !.at = "verify_applied", !.made = staging[a].files]]
          BY <3>1, <5>1 DEF FillStaging
        <5>5. run'[c] = [run[c] EXCEPT !.at = "verify_applied", !.made = staging[a].files]
          BY <1>0, <5>4 DEF TypeOK
        <5>6. run'[c].made = staging[a].files
          BY <4>1, <5>5 DEF Run
        <5> QED BY <4>1, <5>3, <5>6 DEF Staging, NoStaging, Leftover
      <4>3. staging[a].index = staging[a].files
        BY <1>2, <2>8, <4>1 DEF HeldAlone
      <4> QED BY <2>2, <2>8, <4>1, <4>2, <4>3
    <3>2. CASE CheckStagingHead(c)
      <4>1. run'[c].at = "fill" /\ run[c].at = "base_again"
        BY <1>0, <3>2, GoesOn DEF CheckStagingHead, At, Steps
      <4>2. staging' = staging
        BY <3>2 DEF CheckStagingHead, NoEffect, git
      <4> QED BY <1>2, <2>2, <2>8, <4>1, <4>2 DEF HeldAlone
    <3>3. CASE VerifyApplied(c)
      <4>1. run'[c].at = "idle"
        BY <1>0, <3>3, Returns, RunOrNone DEF VerifyApplied
      <4> QED BY <2>8, <4>1 DEF Holds, Keeping
    <3>4. CASE ApplyRaises(c)
      <4>1. run'[c].at = "remove" /\ run'[c].request = Apply(a)
        BY <1>0, <1>2, <2>8, <3>4, GoesOn DEF ApplyRaises, Steps, Holds
      <4> QED BY <4>1 DEF Disturbed, Cleaning
    <3>5. ~RemoveWorktree(c) /\ ~PruneWorktrees(c) /\ ~RemoveTree(c) /\ ~CleanFails(c)
      BY <1>2, <2>5, <2>8 DEF Holds, RemoveWorktree, PruneWorktrees, RemoveTree, CleanFails, At, Cleaning
    <3> QED BY <1>2, <2>8, <3>1, <3>2, <3>3, <3>4, <3>5, RunSteps DEF Holds
  <2> QED BY <2>7, <2>8
<1> QED BY <1>1, <1>2, HoldsFrom

\* A run that succeeds to apply leaves its staging worktree as it verified it.
LEMMA AppliesOnBase ==
    ASSUME Typed, Known, OneBase(head), HeldAlone, NEW c \in Threads, NEW a \in Approvals,
           VerifyApplied(c), Holds(c, a)
    PROVE  /\ staging[a].dir = "there" /\ staging[a].index = payload[Apply(a)]
           /\ staging[a].files = [on |-> payload[Apply(a)], change |-> a]
<1>1. run[c] # NoRun /\ run[c].at = "verify_applied" /\ run[c].made \in Bases /\ head \in Bases
  BY RunOrNone, Whose DEF Typed, TypeOK, VerifyApplied, At, Steps
<1>2. /\ staging[a].dir = "there" /\ staging[a].index = run[c].made
      /\ staging[a].files = [on |-> run[c].made, change |-> a]
  BY <1>1 DEF HeldAlone
<1>3. payload[Apply(a)] = head
  BY <1>1, PayloadOfBase DEF Holds
<1>4. run[c].made = head
  <2>1. staging[a].files \in Changes /\ staging[a].files.on = run[c].made
    BY <1>1, <1>2 DEF Changes
  <2> QED BY <1>1, <1>2, <2>1, OfBaseSays DEF OneBase
<1> QED BY <1>2, <1>3, <1>4

LEMMA AppliedKeptRunStep ==
    ASSUME Typed, Known, ~Disturbed, OneBase(head), HeldAlone, AppliedKept, NEW c \in Threads, RunStep(c)
    PROVE  AppliedKept'
<1> SUFFICES ASSUME NEW a \in Approvals, Applied(a)'
             PROVE  Free(a)' /\ staging'[a].files = [on |-> payload'[Apply(a)], change |-> a]
  BY DEF AppliedKept
<1>0. UNCHANGED payload
  BY RunAfter
<1>1. CASE Applied(a)
  BY <1>0, <1>1, FreeStays DEF AppliedKept, Free
<1>2. CASE ~Applied(a)
  <2>1. VerifyApplied(c) /\ Holds(c, a) /\ run'[c] = NoRun /\ UNCHANGED staging
    BY <1>2, AppliedFrom
  <2>2. \A d \in Threads : Holds(d, a) => d = c
    BY <2>1 DEF HeldAlone
  <2>3. ~Holds(c, a)'
    BY <2>1, RunOrNone DEF Holds, Keeping, Steps
  <2>4. \A d \in Threads : ~Holds(d, a)'
    BY <2>1, <2>2, <2>3, FreeStays, AppliesOnBase
  <2> QED BY <1>0, <2>1, <2>4, AppliesOnBase DEF Free
<1> QED BY <1>1, <1>2

LEMMA ResetsOn ==
    ASSUME Typed, Known, NEW c \in Threads, RunStep(c), NEW a \in Approvals, Resets(c, a)
    PROVE  Resets(c, a)' \/ Told(a)' \/ (RevertIndex(c) /\ ApprovalOf(c) = a)
<1>0. TypeOK /\ RunsFit /\ Commit(a) \in Requests /\ run[c].request = Commit(a) /\ run[c] # NoRun /\ ApprovalOf(c) = a
  BY RequestNames, RunOrNone DEF Typed, Resets, Steps, ApprovalOf
<1>1. ASSUME NEW step \in {"verify_digest", "revert_ref", "revert_index"}, GoOn(c, step)
      PROVE  Resets(c, a)'
  BY <1>0, <1>1, GoesOn DEF Resets, Steps
<1>2. ASSUME NEW o \in {"success", "incomplete"}, NEW v, Return(c, o, v)
      PROVE  Told(a)'
  BY <1>0, <1>2, Ending DEF Outcome, Told
<1>3. CASE VerifyTree(c) \/ CommitRaises(c) \/ RevertRefFails(c)
  BY <1>1, <1>3 DEF VerifyTree, CommitRaises, RevertRefFails
<1>4. CASE VerifyDigest(c) \/ RevertIndexFails(c)
  BY <1>2, <1>4 DEF VerifyDigest, RevertIndexFails
<1>5. CASE RevertRef(c)
  <2>1. run'[c].at = "revert_index" /\ run'[c].request = run[c].request
    BY <1>0, <1>5 DEF RevertRef, TypeOK, Run
  <2> QED BY <1>0, <2>1 DEF Resets
<1>6. CASE CommitEscapes(c)
  BY <1>0, <1>6 DEF CommitEscapes, Told
<1>7. ~SyncIndex(c)
  BY DEF SyncIndex, At, Resets
<1> QED BY <1>0, <1>3, <1>4, <1>5, <1>6, <1>7, RunSteps DEF Resets

LEMMA IndexKnownRunStep ==
    ASSUME Typed, Known, ~Disturbed, OneBase(head), HeldAlone, AppliedKept, IndexKnown,
           NEW c \in Threads, RunStep(c)
    PROVE  IndexKnown'
<1>0. /\ TypeOK /\ RunsFit /\ run[c] # NoRun /\ Others(c) /\ Kept /\ UNCHANGED payload
      /\ run'[c] = NoRun \/ run'[c].request = run[c].request
  <2>1. Kept
    BY AlwaysKept DEF Next, RunStep
  <2> QED BY <2>1, RunAfter
<1> SUFFICES ASSUME NEW a \in Approvals, Applied(a)', staging'[a].index # payload[Apply(a)]
             PROVE  Told(a)' \/ \E d \in Threads : Resets(d, a)'
  BY <1>0 DEF IndexKnown
<1>1. Applied(a)
  <2> SUFFICES ASSUME ~Applied(a) PROVE FALSE
    OBVIOUS
  <2>1. VerifyApplied(c) /\ Holds(c, a) /\ UNCHANGED staging
    BY AppliedFrom
  <2> QED BY <2>1, AppliesOnBase
<1>2. Free(a)
  BY <1>1 DEF AppliedKept
<1>r. ~(RevertIndex(c) /\ ApprovalOf(c) = a)
  <2> SUFFICES ASSUME RevertIndex(c), ApprovalOf(c) = a PROVE FALSE
    OBVIOUS
  <2>1. run[c].request = Commit(a)
    BY <1>0, Whose DEF RevertIndex, At, CommitSteps
  <2>2. Payload(c) = payload[Apply(a)]
    BY <1>0, <2>1, PayloadOfCommit
  <2>3. staging'[a] = [staging[a] EXCEPT !.index = Payload(c)]
    BY <1>0 DEF RevertIndex, ReadTree, TypeOK
  <2>4. staging'[a].index = Payload(c)
    <3>1. staging[a] \in Staging /\ staging[a].dir = "there"
      BY <1>0, <1>2 DEF TypeOK, Free
    <3> QED BY <2>3, <3>1 DEF Staging, NoStaging, Leftover
  <2> QED BY <2>2, <2>4
<1>3. CASE staging'[a] = staging[a]
  <2>1. CASE Told(a)
    BY <1>0, <2>1, ToldOn
  <2>2. ASSUME NEW d \in Threads, Resets(d, a)
        PROVE  Told(a)' \/ \E e \in Threads : Resets(e, a)'
    <3>1. CASE d = c
      BY <1>r, <2>2, <3>1, ResetsOn
    <3>2. CASE d # c
      BY <1>0, <2>2, <3>2 DEF Resets, Others
    <3> QED BY <3>1, <3>2
  <2> QED BY <1>1, <1>3, <2>1, <2>2 DEF IndexKnown
<1>4. CASE staging'[a] # staging[a]
  <2>1. SyncIndex(c) /\ run[c].request = Commit(a)
    <3>1. ~AddStaging(c) /\ staging[a] # Leftover
      BY <1>2 DEF AddStaging, Free, NoStaging, Leftover
    <3>2. FillStaging(c) \/ RemoveWorktree(c) \/ RemoveTree(c) => run[c].request # Apply(a)
      BY <1>2 DEF FillStaging, RemoveWorktree, RemoveTree, At, Free, Holds, Keeping
    <3> QED BY <1>4, <1>r, <3>1, <3>2, StagingSteps
  <2>2. run'[c].at = "verify_tree" /\ run'[c].request = run[c].request
    BY <1>0, <2>1, GoesOn DEF SyncIndex, Steps
  <2>3. Resets(c, a)'
    BY <2>1, <2>2 DEF Resets
  <2> QED BY <2>3
<1> QED BY <1>3, <1>4


LEMMA RetriableStep == Typed /\ Known /\ Reviewed /\ Retriable /\ [Next]_vars => Retriable'
<1> SUFFICES ASSUME Typed, Known, Reviewed, Retriable, [Next]_vars, meddled' = 0, ~Disturbed'
             PROVE  HeldAlone' /\ AppliedKept' /\ IndexKnown'
  BY DEF Retriable
<1>0. TypeOK /\ ~Meddling /\ meddled = 0 /\ meddled \in Nat
  BY Meddled DEF Typed
<1>1. ~Disturbed
  BY DisturbedStays
<1>2. HeldAlone /\ AppliedKept /\ IndexKnown
  BY <1>0, <1>1 DEF Retriable
<1>3. OneBase(head)
  BY <1>0 DEF Reviewed, OneTouch, Untampered
<1>4. ASSUME NEW c \in Threads, RunStep(c)
      PROVE  HeldAlone' /\ AppliedKept' /\ IndexKnown'
  BY <1>1, <1>2, <1>3, <1>4, HeldAloneRunStep, AppliedKeptRunStep, IndexKnownRunStep
<1>5. CASE \A c \in Threads : ~RunStep(c)
  <2>1. UNCHANGED <<git, reports>> /\ Kept
    BY <1>0, <1>5, CalmSteps
  <2>2. ASSUME NEW c \in Threads
        PROVE  run'[c] = run[c] \/ (run'[c].at \notin Keeping /\ (run[c] = NoRun \/ run[c].request \in unreported'))
    BY <1>0, <1>5, CalmSteps DEF Keeping
  <2>3. \A c \in Threads : \A a \in Approvals : Holds(c, a)' => Holds(c, a) /\ run'[c] = run[c]
    BY <2>2 DEF Holds
  <2>4. \A a \in Approvals : Applied(a)' => Applied(a) /\ payload'[Apply(a)] = payload[Apply(a)]
    BY <2>1, AppliedPayload DEF Applied
  <2>5. HeldAlone'
    BY <1>2, <2>1, <2>3 DEF HeldAlone, git
  <2>6. AppliedKept'
    BY <1>2, <2>1, <2>3, <2>4 DEF AppliedKept, Free, git
  <2>7. ASSUME NEW a \in Approvals, Applied(a)', staging'[a].index # payload'[Apply(a)]
        PROVE  Told(a)' \/ \E c \in Threads : Resets(c, a)'
    <3>1. Told(a) \/ \E c \in Threads : Resets(c, a)
      BY <1>2, <2>1, <2>4, <2>7 DEF IndexKnown, git
    <3>2. CASE Told(a)
      BY <2>1, <3>2, ToldOn
    <3>3. ASSUME NEW c \in Threads, Resets(c, a)
          PROVE  Resets(c, a)' \/ Told(a)'
      <4>1. run[c] # NoRun /\ run[c].request = Commit(a)
        BY <3>3 DEF Resets, NoRun
      <4> QED BY <2>2, <3>3, <4>1 DEF Resets, Told
    <3> QED BY <3>1, <3>2, <3>3
  <2>8. IndexKnown'
    BY <2>7 DEF IndexKnown
  <2> QED BY <2>5, <2>6, <2>8
<1> QED BY <1>4, <1>5

LEMMA InitRetriable == Init => Retriable
<1> SUFFICES ASSUME Init PROVE Retriable
  OBVIOUS
<1>1. \A a \in Approvals : ~Applied(a)
  BY RequestNames DEF Init, Applied
<1>2. \A a \in Approvals : \A c \in Threads : ~Holds(c, a)
  BY DEF Init, Holds, NoRun, Keeping
<1> QED BY <1>1, <1>2 DEF Retriable, HeldAlone, AppliedKept, IndexKnown

LEMMA RetriableHolds == Spec => [](Typed /\ Known /\ Accounts /\ Reviewed /\ Retriable)
<1>1. Init => Retriable
  BY InitRetriable
<1>2. Typed /\ Known /\ Reviewed /\ Retriable /\ [Next]_vars => Retriable'
  BY RetriableStep
<1> QED BY <1>1, <1>2, AccountsHold, ReviewedHolds, PTL DEF Spec

\* What the invariants say of a commit request that can be tried again.
LEMMA FailedIsRetriable ==
    ASSUME Typed, Known, Accounts, Reviewed, Retriable
    PROVE  FailedCommitCanBeRetried
<1> SUFFICES ASSUME NEW a \in Approvals, reports[Commit(a)] = {"failure"}, Unexplained(Commit(a)),
                    AppliesSucceeded, meddled = 0
             PROVE  /\ branch = payload[Commit(a)]
                    /\ staging[a] = [dir |-> "there", files |-> [on |-> payload[Commit(a)], change |-> a],
                                     index |-> payload[Commit(a)]]
  BY DEF FailedCommitCanBeRetried, Commit
<1>0. TypeOK /\ head \in Bases /\ branch \in Heads
  BY DEF Typed, TypeOK
<1>1. ~Disturbed
  <2>1. \A b \in Approvals :
            reports[Apply(b)] \subseteq {"success"} /\ ~Running(Apply(b)) /\ Apply(b) \notin unreported
    BY DEF AppliesSucceeded, Unexplained, Apply
  <2>2. \A c \in Threads : run[c].at \in Cleaning => run[c] # NoRun
    BY DEF NoRun, Cleaning
  <2> QED BY <2>1, <2>2 DEF Disturbed, Running
<1>2. AppliedKept /\ IndexKnown
  BY <1>1 DEF Retriable
<1>3. Untampered /\ Undiverted
  BY DEF Reviewed, OneTouch
<1>4. /\ Applied(a) /\ request[Apply(a)] # "absent" /\ payload[Commit(a)] = payload[Apply(a)]
  BY RequestNames DEF Known, Requested, CommitsFollow
<1>5. payload[Apply(a)] = head
  <2>1. payload[Apply(a)] \in Bases
    BY <1>4 DEF Known, ResultsKnown
  <2> QED BY <1>3, <2>1, HeadsAssumption DEF Untampered, OneBase
<1>6. ~Told(a) /\ \A c \in Threads : ~Resets(c, a) /\ ~Owes(c, a)
  BY DEF Told, Unexplained, Running, Resets, Owes, NoRun
<1>7. Free(a) /\ staging[a].files = [on |-> head, change |-> a] /\ staging[a].index = head
  BY <1>2, <1>4, <1>5, <1>6 DEF AppliedKept, IndexKnown
<1>8. staging[a] = [dir |-> "there", files |-> [on |-> head, change |-> a], index |-> head]
  BY <1>0, <1>7 DEF TypeOK, Staging, NoStaging, Leftover, Free
<1>9. branch \notin Changes
  <2> SUFFICES ASSUME branch \in Changes PROVE FALSE
    OBVIOUS
  <2>1. PICK b \in Approvals : Told(b) \/ \E c \in Threads : Owes(c, b)
    BY DEF Accounts, CommitKnown
  <2>2. \A c \in Threads : Owes(c, b) => run[c] # NoRun /\ run[c].request = Commit(b)
    BY DEF Owes, NoRun
  <2>3. Free(b)
    BY <1>2, <2>1, <2>2, CommittedIsApplied DEF AppliedKept
  <2>4. b = a
    BY <1>7, <2>3 DEF Free, Reviewed, OneThere
  <2> QED BY <1>6, <2>1, <2>4
<1>10. branch \notin {None, Other}
  BY <1>0, <1>3, <1>5, HeadsAssumption DEF Undiverted, Unmoved
<1>11. branch = head
  BY <1>3, <1>9, <1>10 DEF Untampered, OneBase, OfBase
<1> QED BY <1>4, <1>5, <1>8, <1>11

\* A commit request that only failed, while nobody else touched the repository and no
\* apply run failed (its cleanup may take the staging of another run), can be tried
\* again: branch, index and files are as its first run found them.  A run whose
\* rollback could not be started is not among them: it is in `unreported`.
THEOREM FailedCommitsCanBeRetried == Spec => []FailedCommitCanBeRetried
<1>1. Typed /\ Known /\ Accounts /\ Reviewed /\ Retriable => FailedCommitCanBeRetried
  BY FailedIsRetriable
<1> QED BY <1>1, RetriableHolds, PTL
=============================================================================
