------------------------- MODULE GitPipeline_proofs -------------------------
(***************************************************************************)
(* Proofs about GitPipeline, for any number of threads, approvals and      *)
(* runs, and however often other people touch the repository.              *)
(***************************************************************************)
EXTENDS GitPipeline, TLAPS

Apply(a) == <<"apply", a>>
Commit(a) == <<"commit", a>>
Publish(a) == <<"publish", a>>

-----------------------------------------------------------------------------
(* Runs. *)

BranchSteps == {"head", "create"}
ApplySteps == {"base", "add", "base_again", "fill", "verify_applied", "remove", "prune", "rmtree"}
CommitSteps == {"drift", "content", "build", "move", "sync", "verify_tree", "verify_digest", "revert_ref", "revert_index"}
PublishSteps == {"state", "transfer", "objects", "create_ref", "confirm"}

\* The steps at which a run of a commit has built its commit.
Building == {"move", "sync", "verify_tree", "verify_digest", "revert_ref", "revert_index"}

\* A run is at a step of its request, and what it has in hand is what that step needs.
Fits(n) ==
    \/ /\ n.request = BranchRequest /\ n.at \in BranchSteps
       /\ n.at = "create" => n.made \in Bases
    \/ \E a \in Approvals :
        /\ n.request = Apply(a) /\ n.at \in ApplySteps
        /\ n.at = "verify_applied" => n.made \in Bases
    \/ \E a \in Approvals :
        /\ n.request = Commit(a) /\ n.at \in CommitSteps
        /\ n.at \in Building => n.made \in Changes
        /\ n.reverted => n.at = "revert_index"
    \/ \E a \in Approvals : n.request = Publish(a) /\ n.at \in PublishSteps

\* What is built is built on the payload of the request, which is a base.
OnBase(n) ==
    /\ n.at \in {"build"} \cup Building => payload[n.request] \in Bases
    /\ n.at \in Building => n.made.on = payload[n.request]

RunsFit ==
    \A c \in Threads :
        run[c] # NoRun => Fits(run[c]) /\ OnBase(run[c]) /\ request[run[c].request] # "absent"

LEMMA RequestNames ==
    ASSUME NEW a \in Approvals, NEW b \in Approvals
    PROVE  /\ BranchRequest \in Requests /\ Apply(a) \in Requests /\ Commit(a) \in Requests /\ Publish(a) \in Requests
           /\ BranchRequest \notin {Apply(a), Commit(a), Publish(a)}
           /\ Apply(a) # Commit(b) /\ Apply(a) # Publish(b) /\ Commit(a) # Publish(b)
           /\ Apply(a) = Apply(b) => a = b
           /\ Commit(a) = Commit(b) => a = b
           /\ Publish(a) = Publish(b) => a = b
           /\ Apply(a)[2] = a /\ Commit(a)[2] = a /\ Publish(a)[2] = a
BY DEF Requests, BranchRequest, Apply, Commit, Publish

\* The two kinds of entry of `run` differ.
LEMMA RunOrNone ==
    /\ \A n \in Run : n # NoRun /\ n.at \in Steps
    /\ NoRun.at = "idle" /\ "idle" \notin Steps
BY DEF Run, NoRun, Steps

\* A run at a step of one kind is a run of a request of that kind.
LEMMA Whose ==
    ASSUME TypeOK, RunsFit, NEW c \in Threads
    PROVE  /\ run[c] = NoRun \/ (run[c] \in Run /\ run[c] # NoRun)
           /\ run[c].at \in BranchSteps => run[c].request = BranchRequest
           /\ run[c].at \in ApplySteps => \E a \in Approvals : run[c].request = Apply(a) /\ ApprovalOf(c) = a
           /\ run[c].at \in CommitSteps => \E a \in Approvals : run[c].request = Commit(a) /\ ApprovalOf(c) = a
           /\ run[c].at \in PublishSteps => \E a \in Approvals : run[c].request = Publish(a) /\ ApprovalOf(c) = a
           /\ run[c].at \in {"create", "verify_applied"} => run[c].made \in Bases
           /\ run[c].at \in Building => run[c].made \in Changes /\ run[c].made.on = Payload(c)
           /\ run[c].at \in {"build"} \cup Building => Payload(c) \in Bases
           /\ run[c].at \in CommitSteps \ {"revert_index"} => ~run[c].reverted
<1>1. run[c] = NoRun \/ (run[c] \in Run /\ run[c] # NoRun)
  BY RunOrNone DEF TypeOK
<1>2. CASE run[c] = NoRun
  BY <1>2, RunOrNone DEF BranchSteps, ApplySteps, CommitSteps, PublishSteps, Building
<1>3. CASE run[c] # NoRun
  <2>1. Fits(run[c]) /\ OnBase(run[c])
    BY <1>3 DEF RunsFit
  <2>2. /\ run[c].at \in Building => run[c].made.on = Payload(c)
        /\ run[c].at \in {"build"} \cup Building => Payload(c) \in Bases
    BY <2>1 DEF OnBase, Payload
  <2> QED BY <1>1, <2>1, <2>2 DEF Fits, BranchSteps, ApplySteps, CommitSteps, PublishSteps, Building, ApprovalOf, Apply, Commit, Publish
<1> QED BY <1>2, <1>3

-----------------------------------------------------------------------------
(***************************************************************************)
(* What a step of a run does to `run` and to the requests.  It goes on to  *)
(* another step; or it returns an outcome; or it fails without knowing     *)
(* what it has done.                                                       *)
(***************************************************************************)

Others(c) == \A d \in Threads : d # c => run'[d] = run[d]

LEMMA GoesOn ==
    ASSUME TypeOK, NEW c \in Threads, run[c] # NoRun, NEW step \in Steps, GoOn(c, step)
    PROVE  /\ run' = [run EXCEPT ![c] = run'[c]] /\ run'[c] \in Run /\ Others(c)
           /\ run'[c].at = step /\ run'[c].request = run[c].request
           /\ run'[c].made = run[c].made /\ run'[c].reverted = run[c].reverted
<1>1. run[c] \in Run /\ run \in [Threads -> Run \cup {NoRun}]
  BY DEF TypeOK
<1> DEFINE n == [run[c] EXCEPT !.at = step]
<1>2. /\ n \in Run /\ n.at = step /\ n.request = run[c].request
      /\ n.made = run[c].made /\ n.reverted = run[c].reverted
  BY <1>1 DEF Run
<1>3. run' = [run EXCEPT ![c] = n]
  BY DEF GoOn
<1> HIDE DEF n
<1>4. run'[c] = n /\ Others(c)
  BY <1>1, <1>3 DEF Others
<1> QED BY <1>2, <1>3, <1>4

LEMMA Returns ==
    ASSUME TypeOK, NEW c \in Threads, NEW o, NEW v, Return(c, o, v)
    PROVE  run' = [run EXCEPT ![c] = NoRun] /\ run'[c] = NoRun /\ Others(c)
BY DEF TypeOK, Return, Others

\* The steps of Next that belong to a run, after it has started.
RunStep(c) == GiveUp(c) \/ ReadHead(c) \/ MakeBranch(c) \/ ApplyStep(c) \/ CommitStep(c) \/ PublishStep(c)

Proceeds(c) ==
    /\ run' = [run EXCEPT ![c] = run'[c]] /\ run'[c] \in Run /\ Others(c)
    /\ run'[c].request = run[c].request /\ Fits(run'[c]) /\ OnBase(run'[c])
    /\ UNCHANGED <<requests, unreported>>
Refuses(c) ==
    /\ run'[c] = NoRun /\ Others(c)
    /\ \E o \in Outcome \ {"success"} : Return(c, o, None)
    /\ UNCHANGED unreported
Succeeds(c) ==
    /\ run'[c] = NoRun /\ Others(c)
    /\ \/ MakeBranch(c) /\ Return(c, "success", run[c].made)
       \/ VerifyApplied(c) /\ Return(c, "success", Payload(c))
       \/ VerifyDigest(c) /\ Return(c, "success", run[c].made)
       \/ Confirm(c) /\ Return(c, "success", Payload(c))
    /\ UNCHANGED unreported
Lapses(c) ==
    /\ run'[c] = NoRun /\ Others(c)
    /\ Fails(c)
    /\ unreported' = unreported \cup {run[c].request}
Flows(c) == run[c] # NoRun /\ (Proceeds(c) \/ Refuses(c) \/ Succeeds(c) \/ Lapses(c))

LEMMA FlowGoOn ==
    ASSUME TypeOK, RunsFit, NEW c \in Threads, run[c] # NoRun, NEW step \in Steps,
           GoOn(c, step), UNCHANGED unreported,
           \/ step \in BranchSteps \ {"create"} /\ run[c].at \in BranchSteps
           \/ step \in ApplySteps \ {"verify_applied"} /\ run[c].at \in ApplySteps
           \/ /\ step \in CommitSteps /\ run[c].at \in CommitSteps \ {"revert_index"}
              /\ step \in Building => run[c].at \in Building
              /\ step = "build" => Payload(c) \in Bases
           \/ step \in PublishSteps /\ run[c].at \in PublishSteps
    PROVE  Flows(c)
<1>1. Fits(run'[c])
  BY GoesOn, Whose DEF Fits
<1>2. UNCHANGED <<requests, unreported>>
  BY DEF GoOn
<1>3. OnBase(run'[c])
  <2>1. Building \subseteq CommitSteps /\ "build" \in CommitSteps \ Building
    BY DEF Building, CommitSteps
  <2>2. step \in {"build"} \cup Building =>
          (step \in Building => run[c].at \in Building) /\ (step = "build" => Payload(c) \in Bases)
    BY <2>1 DEF BranchSteps, ApplySteps, PublishSteps, CommitSteps
  <2>3. Payload(c) = payload[run'[c].request] /\ run'[c].made = run[c].made /\ run'[c].at = step
    BY GoesOn DEF Payload
  <2> QED BY <2>1, <2>2, <2>3, Whose DEF OnBase
<1> QED BY <1>1, <1>2, <1>3, GoesOn DEF Flows, Proceeds

LEMMA FlowRefuses ==
    ASSUME TypeOK, RunsFit, NEW c \in Threads, run[c] # NoRun,
           NEW o \in Outcome \ {"success"}, Return(c, o, None), UNCHANGED unreported
    PROVE  Flows(c)
BY Returns DEF Flows, Refuses

LEMMA FlowSucceeds ==
    ASSUME TypeOK, RunsFit, NEW c \in Threads, run[c] # NoRun, UNCHANGED unreported,
           \/ MakeBranch(c) /\ Return(c, "success", run[c].made)
           \/ VerifyApplied(c) /\ Return(c, "success", Payload(c))
           \/ VerifyDigest(c) /\ Return(c, "success", run[c].made)
           \/ Confirm(c) /\ Return(c, "success", Payload(c))
    PROVE  Flows(c)
BY Returns DEF Flows, Succeeds

LEMMA FlowFails ==
    ASSUME TypeOK, RunsFit, NEW c \in Threads, run[c] # NoRun, Fails(c),
           unreported' = unreported \/ unreported' = unreported \cup {run[c].request}
    PROVE  Flows(c)
<1>1. Return(c, "failure", None)
  BY DEF Fails
<1>2. "failure" \in Outcome \ {"success"}
  BY DEF Outcome
<1> QED BY <1>1, <1>2, Returns DEF Flows, Refuses, Lapses

LEMMA PayloadTyped ==
    ASSUME TypeOK, RunsFit, NEW c \in Threads, run[c] # NoRun
    PROVE  run[c].request \in Requests /\ Payload(c) \in Trees \cup {None} /\ run[c].made \in Trees \cup {None}
<1>1. run[c] \in Run
  BY Whose
<1> QED BY <1>1 DEF TypeOK, Run, Payload

LEMMA Flow ==
    ASSUME TypeOK, RunsFit, NEW c \in Threads, RunStep(c)
    PROVE  Flows(c)
<1>0. run[c].at \in Steps /\ run[c] # NoRun
  <2>1. run[c].at # "idle"
    BY DEF RunStep, GiveUp, ReadHead, MakeBranch, ApplyStep, CommitStep, PublishStep, At,
           ResolveBase, AddStaging, CheckStagingHead, FillStaging, VerifyApplied, ApplyRaises,
      RemoveWorktree, PruneWorktrees, RemoveTree, CleanFails,
           CheckDrift, CheckContent, BuildCommit, MoveRef, SyncIndex, VerifyTree, VerifyDigest, CommitRaises,
           CommitEscapes, RevertRef, RevertRefFails, RevertIndex, RevertIndexFails,
           CheckState, Transfer, CheckObjects, CreateRef, Confirm, ConfirmRaises
  <2> QED BY <2>1, RunOrNone DEF TypeOK
<1> USE <1>0, PayloadTyped DEF NoEffect, At, DoneOrKilled
<1>1. CASE GiveUp(c)
  BY <1>1, FlowFails DEF GiveUp
<1>2. CASE ReadHead(c)
  <2> DEFINE n == [run[c] EXCEPT !.at = "create", !.made = head]
  <2>1. run[c] \in Run /\ run \in [Threads -> Run \cup {NoRun}] /\ head \in Bases
    BY Whose DEF TypeOK
  <2>2. n \in Run /\ n.at = "create" /\ n.request = run[c].request /\ n.made = head
    BY <2>1 DEF Run, Steps, Trees
  <2>3. run' = [run EXCEPT ![c] = n]
    BY <1>2 DEF ReadHead
  <2>4. n.request = BranchRequest
    BY <1>2, <2>2, Whose DEF ReadHead, BranchSteps
  <2> HIDE DEF n
  <2>5. run'[c] = n /\ Others(c)
    BY <2>1, <2>3 DEF Others
  <2>6. Fits(n) /\ OnBase(n)
    BY <2>1, <2>2, <2>4 DEF Fits, BranchSteps, OnBase, Building
  <2> QED BY <1>2, <2>2, <2>3, <2>5, <2>6 DEF ReadHead, Flows, Proceeds
<1>3. CASE MakeBranch(c)
  BY <1>3, FlowFails, FlowSucceeds DEF MakeBranch
<1>4. CASE ApplyStep(c)
  <2>1. CASE ResolveBase(c)
    BY <2>1, FlowGoOn DEF ResolveBase, ApplySteps, Steps
  <2>2. CASE AddStaging(c)
    BY <2>2, FlowGoOn, FlowFails DEF AddStaging, ApplySteps, Steps
  <2>3. CASE FillStaging(c)
    <3> DEFINE made == staging[ApprovalOf(c)].files
    <3> DEFINE n == [run[c] EXCEPT !.at = "verify_applied", !.made = made]
    <3>1. run[c] \in Run /\ run \in [Threads -> Run \cup {NoRun}] /\ made \in Bases
      BY <2>3, Whose DEF TypeOK, FillStaging
    <3>2. n \in Run /\ n.at = "verify_applied" /\ n.request = run[c].request /\ n.made = made
      BY <3>1 DEF Run, Steps, Trees
    <3>3. run' = [run EXCEPT ![c] = n]
      BY <2>3 DEF FillStaging
    <3>4. \E a \in Approvals : n.request = Apply(a)
      BY <2>3, <3>2, Whose DEF FillStaging, ApplySteps
    <3>u. UNCHANGED <<requests, unreported>>
      BY <2>3 DEF FillStaging
    <3> HIDE DEF n, made
    <3>5. run'[c] = n /\ Others(c)
      BY <3>1, <3>3 DEF Others
    <3>6. Fits(n) /\ OnBase(n)
      BY <3>1, <3>2, <3>4 DEF Fits, ApplySteps, OnBase, Building
    <3> QED BY <3>2, <3>3, <3>5, <3>6, <3>u DEF Flows, Proceeds
  <2>4. CASE VerifyApplied(c)
    BY <2>4, FlowSucceeds DEF VerifyApplied
  <2>5. CASE ApplyRaises(c)
    BY <2>5, FlowGoOn DEF ApplyRaises, ApplySteps, Steps
  <2>6. CASE RemoveTree(c)
    BY <2>6, FlowFails DEF RemoveTree
  <2>7. CASE CleanFails(c)
    BY <2>7, FlowRefuses DEF CleanFails, Outcome
  <2>8. CASE CheckStagingHead(c)
    BY <2>8, FlowGoOn DEF CheckStagingHead, ApplySteps, Steps
  <2>9. CASE RemoveWorktree(c)
    BY <2>9, FlowGoOn DEF RemoveWorktree, ApplySteps, Steps
  <2>10. CASE PruneWorktrees(c)
    BY <2>10, FlowGoOn DEF PruneWorktrees, ApplySteps, Steps
  <2> QED BY <1>4, <2>1, <2>2, <2>3, <2>4, <2>5, <2>6, <2>7, <2>8, <2>9, <2>10 DEF ApplyStep
<1>5. CASE CommitStep(c)
  <2>1. CASE CheckDrift(c)
    BY <2>1, FlowGoOn DEF CheckDrift, CommitSteps, Building, Steps
  <2>2. CASE CheckContent(c)
    <3>1. Payload(c) \in Bases
      BY <2>2 DEF CheckContent, HasApprovedDigest, BaseSnapshot, Changes
    <3> QED BY <2>2, <3>1, FlowGoOn DEF CheckContent, CommitSteps, Building, Steps
  <2>3. CASE BuildCommit(c)
    <3> DEFINE made == [on |-> Payload(c), change |-> staging[ApprovalOf(c)].files.change]
    <3>0. run' = [run EXCEPT ![c].at = "move", ![c].made = made] /\ made \in Changes /\ Payload(c) \in Bases
      <4>1. Payload(c) \in Bases /\ staging[ApprovalOf(c)].files.change \in Approvals \cup {"edited"}
        BY <2>3, Whose DEF BuildCommit, Changes
      <4> QED BY <2>3, <4>1 DEF BuildCommit, Changes
    <3>p. made.on = Payload(c)
      OBVIOUS
    <3> DEFINE n == [run[c] EXCEPT !.at = "move", !.made = made]
    <3>1. run[c] \in Run /\ run \in [Threads -> Run \cup {NoRun}]
      BY Whose DEF TypeOK
    <3>2. n \in Run /\ n.at = "move" /\ n.request = run[c].request /\ n.made = made /\ n.reverted = run[c].reverted
      BY <3>0, <3>1 DEF Run, Steps, Trees
    <3>3. run' = [run EXCEPT ![c] = n]
      BY <3>0
    <3>4. (\E a \in Approvals : n.request = Commit(a)) /\ ~n.reverted
      BY <2>3, <3>2, Whose DEF BuildCommit, CommitSteps
    <3>r. n.request = run[c].request
      BY <3>2
    <3> HIDE DEF n, made
    <3>5. run'[c] = n /\ Others(c)
      BY <3>1, <3>3 DEF Others
    <3>6. Fits(n) /\ OnBase(n)
      BY <3>0, <3>2, <3>4, <3>p, <3>r DEF Fits, CommitSteps, OnBase, Payload
    <3> QED BY <2>3, <3>2, <3>3, <3>5, <3>6 DEF BuildCommit, Flows, Proceeds
  <2>4. CASE MoveRef(c)
    BY <2>4, FlowGoOn, FlowFails, Whose DEF MoveRef, CommitSteps, Building, Steps
  <2>5. CASE SyncIndex(c)
    BY <2>5, FlowGoOn, Whose DEF SyncIndex, CommitSteps, Building, Steps
  <2>6. CASE VerifyTree(c)
    BY <2>6, FlowGoOn, Whose DEF VerifyTree, CommitSteps, Building, Steps
  <2>7. CASE VerifyDigest(c)
    BY <2>7, FlowSucceeds DEF VerifyDigest
  <2>8. CASE CommitRaises(c)
    BY <2>8, FlowGoOn, Whose DEF CommitRaises, CommitSteps, Building, Steps
  <2>9. CASE RevertRef(c)
    <3> PICK ok \in BOOLEAN : run' = [run EXCEPT ![c].at = "revert_index", ![c].reverted = ok]
      BY <2>9 DEF RevertRef
    <3> DEFINE n == [run[c] EXCEPT !.at = "revert_index", !.reverted = ok]
    <3>1. run[c] \in Run /\ run \in [Threads -> Run \cup {NoRun}]
      BY Whose DEF TypeOK
    <3>2. n \in Run /\ n.at = "revert_index" /\ n.request = run[c].request /\ n.made = run[c].made
      BY <3>1 DEF Run, Steps
    <3>3. run' = [run EXCEPT ![c] = n]
      OBVIOUS
    <3>4. /\ \E a \in Approvals : n.request = Commit(a)
          /\ n.made \in Changes /\ payload[n.request] \in Bases /\ n.made.on = payload[n.request]
      BY <2>9, <3>2, Whose DEF RevertRef, CommitSteps, Building, Payload
    <3> HIDE DEF n
    <3>5. run'[c] = n /\ Others(c)
      BY <3>1, <3>3 DEF Others
    <3>6. Fits(n) /\ OnBase(n)
      BY <3>2, <3>4 DEF Fits, CommitSteps, OnBase
    <3> QED BY <2>9, <3>2, <3>3, <3>5, <3>6 DEF RevertRef, Flows, Proceeds
  <2>10. CASE RevertRefFails(c)
    BY <2>10, FlowGoOn, Whose DEF RevertRefFails, CommitSteps, Building, Steps
  <2>11. CASE RevertIndex(c)
    BY <2>11, FlowFails, FlowRefuses DEF RevertIndex, Outcome
  <2>12. CASE RevertIndexFails(c)
    BY <2>12, FlowRefuses DEF RevertIndexFails, Outcome
  <2>13. CASE CommitEscapes(c)
    BY <2>13, FlowFails DEF CommitEscapes
  <2> QED BY <1>5, <2>1, <2>2, <2>3, <2>4, <2>5, <2>6, <2>7, <2>8, <2>9, <2>10, <2>11, <2>12, <2>13 DEF CommitStep
<1>6. CASE PublishStep(c)
  <2>1. CASE CheckState(c)
    BY <2>1, FlowGoOn DEF CheckState, PublishSteps, Steps
  <2>2. CASE Transfer(c)
    BY <2>2, FlowGoOn DEF Transfer, PublishSteps, Steps
  <2>3. CASE CheckObjects(c)
    BY <2>3, FlowGoOn DEF CheckObjects, PublishSteps, Steps
  <2>4. CASE CreateRef(c)
    BY <2>4, FlowGoOn, FlowFails DEF CreateRef, PublishSteps, Steps
  <2>5. CASE Confirm(c)
    BY <2>5, FlowSucceeds, FlowRefuses DEF Confirm, Outcome
  <2>6. CASE ConfirmRaises(c)
    BY <2>6, FlowFails DEF ConfirmRaises
  <2> QED BY <1>6, <2>1, <2>2, <2>3, <2>4, <2>5, <2>6 DEF PublishStep
<1> QED BY <1>1, <1>2, <1>3, <1>4, <1>5, <1>6 DEF RunStep

-----------------------------------------------------------------------------
(* Types. *)

\* What is decided on was proposed.
Proposals == \A a \in Approvals : deciding[a] # {} \/ approval[a] # "none" => proposed[a] # None

Typed == TypeOK /\ RunsFit /\ Proposals

\* The steps of Next that are no step of a run.
OfPeople ==
    \/ \E a \in Approvals :
        \/ Propose(a) \/ PrepareApproval(a)
        \/ \E d \in {"approved", "cancelled"} : ReadPending(a, d)
        \/ ApproveGitChange(a) \/ CancelGitChange(a)
OfRequests ==
    \/ \E a \in Approvals : CreateApplyRequest(a) \/ CreateCommitRequest(a) \/ CreatePublishRequest(a)
    \/ CreateBranchRequest
Meddling == SourceCommit \/ BranchMoved \/ RemoteWritten \/ \E a \in Approvals : StagingTouched(a)

LEMMA NextCases ==
    ASSUME Next
    PROVE  \/ OfPeople \/ OfRequests \/ Meddling
           \/ \E c \in Threads : (\E r \in Requests : StartRun(c, r)) \/ RunStep(c) \/ WorkerDies(c)
BY DEF Next, OfPeople, OfRequests, Meddling, RunStep

LEMMA FlowTypes ==
    ASSUME TypeOK, RunsFit, NEW c \in Threads, Flows(c)
    PROVE  /\ run' \in [Threads -> Run \cup {NoRun}] /\ RunsFit'
           /\ request' \in [Requests -> {"absent", "ready", "running", "completed", "failed"}]
           /\ payload' \in [Requests -> Trees \cup {None}]
           /\ result' \in [Requests -> Trees \cup {None}]
           /\ reports' \in [Requests -> SUBSET Outcome]
           /\ started' \in 0..MaxRuns
           /\ unreported' \subseteq Requests
<1>1. run[c] # NoRun /\ run[c].request \in Requests /\ run \in [Threads -> Run \cup {NoRun}]
  BY PayloadTyped DEF Flows, TypeOK
<1>2. CASE Proceeds(c)
  <2>1. run' \in [Threads -> Run \cup {NoRun}]
    BY <1>1, <1>2 DEF Proceeds
  <2>2. RunsFit'
    BY <1>1, <1>2 DEF Proceeds, RunsFit, Others, OnBase, requests
  <2> QED BY <1>2, <2>1, <2>2 DEF Proceeds, TypeOK, requests
<1>3. ASSUME NEW o \in Outcome, NEW v \in Trees \cup {None}, Return(c, o, v),
             run'[c] = NoRun, Others(c)
      PROVE  /\ run' \in [Threads -> Run \cup {NoRun}] /\ RunsFit'
             /\ request' \in [Requests -> {"absent", "ready", "running", "completed", "failed"}]
             /\ payload' \in [Requests -> Trees \cup {None}]
             /\ result' \in [Requests -> Trees \cup {None}]
             /\ reports' \in [Requests -> SUBSET Outcome]
             /\ started' \in 0..MaxRuns
  <2>1. run' \in [Threads -> Run \cup {NoRun}]
    BY <1>1, <1>3 DEF Return
  <2>2. RunsFit'
    <3>1. \A q \in Requests : request[q] # "absent" => request'[q] # "absent"
      BY <1>3 DEF Return, TypeOK
    <3>2. UNCHANGED payload
      BY <1>3 DEF Return
    <3>3. \A d \in Threads : run'[d] # NoRun => run'[d] = run[d] /\ run[d].request \in Requests
      BY <1>3, RunOrNone DEF Others, TypeOK, Run
    <3> QED BY <3>1, <3>2, <3>3 DEF RunsFit, OnBase
  <2>3. request' \in [Requests -> {"absent", "ready", "running", "completed", "failed"}]
    BY <1>3 DEF Return, TypeOK
  <2>4. payload' \in [Requests -> Trees \cup {None}] /\ result' \in [Requests -> Trees \cup {None}]
    BY <1>3 DEF Return, TypeOK
  <2>5. reports' \in [Requests -> SUBSET Outcome] /\ started' \in 0..MaxRuns
    BY <1>3 DEF Return, TypeOK
  <2> QED BY <2>1, <2>2, <2>3, <2>4, <2>5
<1>4. CASE Refuses(c)
  BY <1>3, <1>4 DEF Refuses, TypeOK
<1>5. CASE Succeeds(c)
  <2>1. "success" \in Outcome
    BY DEF Outcome
  <2> QED BY <1>1, <1>3, <1>5, <2>1, PayloadTyped DEF Succeeds, TypeOK
<1>6. CASE Lapses(c)
  <2>1. Return(c, "failure", None) /\ "failure" \in Outcome /\ None \in Trees \cup {None}
    BY <1>6 DEF Lapses, Fails, Outcome
  <2>2. unreported' \subseteq Requests
    BY <1>1, <1>6 DEF Lapses, TypeOK
  <2> QED BY <1>3, <1>6, <2>1, <2>2 DEF Lapses
<1> QED BY <1>2, <1>4, <1>5, <1>6 DEF Flows

\* Steps of runs decide nothing, and leave the source worktree alone.
LEMMA RunsDecideNothing ==
    ASSUME NEW c \in Threads, RunStep(c) \/ WorkerDies(c) \/ \E r \in Requests : StartRun(c, r)
    PROVE  UNCHANGED <<head, approvals, meddled>>
<1> USE DEF NoEffect, Elsewhere, git, approvals, SetStaging, ReadTree
<1>1. CASE GiveUp(c) \/ ReadHead(c) \/ MakeBranch(c)
  BY <1>1 DEF GiveUp, ReadHead, MakeBranch
<1>2. CASE ApplyStep(c)
  BY <1>2 DEF ApplyStep, ResolveBase, AddStaging, CheckStagingHead, FillStaging, VerifyApplied, ApplyRaises,
      RemoveWorktree, PruneWorktrees, RemoveTree, CleanFails
<1>3. CASE CommitStep(c)
  BY <1>3 DEF CommitStep, CheckDrift, CheckContent, BuildCommit, MoveRef, SyncIndex, VerifyTree, VerifyDigest,
      CommitRaises, CommitEscapes, RevertRef, RevertRefFails, RevertIndex, RevertIndexFails
<1>4. CASE PublishStep(c)
  BY <1>4 DEF PublishStep, CheckState, Transfer, CheckObjects, CreateRef, Confirm, ConfirmRaises
<1>5. CASE WorkerDies(c) \/ \E r \in Requests : StartRun(c, r)
  BY <1>5 DEF WorkerDies, StartRun
<1> QED BY <1>1, <1>2, <1>3, <1>4, <1>5 DEF RunStep

\* Entries of a staging worktree, and what may be done to one.
LEMMA StagingEntries ==
    ASSUME NEW s \in Staging
    PROVE  /\ s.dir \in {"there", "none", "leftover"}
           /\ s.dir = "there" => s.files \in Heads \ {None} /\ s.index \in Heads
           /\ s.dir = "there" => \A h \in Heads \ {None} : [s EXCEPT !.files = h] \in Staging
           /\ s.dir = "there" => \A h \in Heads : [s EXCEPT !.index = h] \in Staging
           /\ NoStaging \in Staging /\ Leftover \in Staging
           /\ \A h \in Heads \ {None} : [dir |-> "there", files |-> h, index |-> h] \in Staging
           /\ s = NoStaging \/ s = Leftover => s.dir # "there"
BY DEF Staging, NoStaging, Leftover

LEMMA ApprovedIsChange ==
    ASSUME TypeOK, NEW a \in Approvals, proposed[a] # None
    PROVE  proposed[a] \in Bases /\ Approved(a) \in Changes /\ Approved(a).on = proposed[a]
BY DEF TypeOK, Approved, Changes

LEMMA RunStepGit ==
    ASSUME Typed, NEW c \in Threads, RunStep(c)
    PROVE  /\ branch' \in Heads /\ staging' \in [Approvals -> Staging]
           /\ remote' \in Heads /\ objects' \subseteq Heads
<1>0. /\ TypeOK /\ RunsFit /\ run[c] # NoRun
      /\ run[c].made \in Trees \cup {None} /\ Payload(c) \in Trees \cup {None}
      /\ branch \in Heads /\ staging \in [Approvals -> Staging] /\ remote \in Heads /\ objects \subseteq Heads
  BY Flow, PayloadTyped DEF Typed, Flows, TypeOK
<1>h. Trees \subseteq Heads \ {None} /\ None \in Heads
  BY HeadsAssumption DEF Trees, Heads, Changes
<1> USE DEF NoEffect, git, At
<1>1. CASE GiveUp(c) \/ ReadHead(c)
  BY <1>0, <1>1 DEF GiveUp, ReadHead
<1>2. CASE MakeBranch(c)
  BY <1>0, <1>2, <1>h DEF MakeBranch
<1>3. CASE ApplyStep(c)
  <2>1. CASE ResolveBase(c) \/ CheckStagingHead(c) \/ VerifyApplied(c) \/ ApplyRaises(c) \/ CleanFails(c)
    BY <1>0, <2>1 DEF ResolveBase, CheckStagingHead, VerifyApplied, ApplyRaises, CleanFails
  <2>2. CASE AddStaging(c)
    BY <1>0, <2>2, StagingEntries DEF AddStaging, SetStaging
  <2>3. CASE FillStaging(c)
    <3> PICK a \in Approvals : ApprovalOf(c) = a
      BY <1>0, <2>3, Whose DEF FillStaging, ApplySteps
    <3> DEFINE s == staging[a]
    <3>1. s \in Staging /\ s.dir = "there" /\ s.files \in Bases
      BY <1>0, <2>3 DEF FillStaging
    <3>3. [on |-> s.files, change |-> a] \in Heads \ {None}
      <4>1. [on |-> s.files, change |-> a] \in Changes
        BY <3>1 DEF Changes
      <4> QED BY <1>h, <4>1 DEF Trees
    <3>4. CopyProposalFiles(s, a) \in Staging
      BY <3>1, <3>3, StagingEntries DEF CopyProposalFiles
    <3>5. staging' = [staging EXCEPT ![a] = CopyProposalFiles(s, a)] /\ UNCHANGED <<branch, remote, objects>>
      BY <2>3 DEF FillStaging, SetStaging
    <3> HIDE DEF s
    <3> QED BY <1>0, <3>4, <3>5
  <2>4. CASE RemoveWorktree(c) \/ PruneWorktrees(c) \/ RemoveTree(c)
    <3>1. NoStaging \in Staging /\ Leftover \in Staging
      BY DEF Staging
    <3>2. CASE RemoveWorktree(c)
      <4> PICK a \in Approvals : ApprovalOf(c) = a
        BY <1>0, <3>2, Whose DEF RemoveWorktree, ApplySteps
      <4>1. \E w \in Staging : staging' = [staging EXCEPT ![a] = w]
        BY <1>0, <3>1, <3>2 DEF RemoveWorktree, SetStaging
      <4> QED BY <1>0, <3>2, <4>1 DEF RemoveWorktree, SetStaging
    <3>3. CASE PruneWorktrees(c)
      BY <1>0, <3>1, <3>3 DEF PruneWorktrees
    <3>4. CASE RemoveTree(c)
      BY <1>0, <3>1, <3>4 DEF RemoveTree, SetStaging
    <3> QED BY <2>4, <3>2, <3>3, <3>4
  <2> QED BY <1>3, <2>1, <2>2, <2>3, <2>4 DEF ApplyStep
<1>4. CASE CommitStep(c)
  <2>1. CASE \/ CheckDrift(c) \/ CheckContent(c) \/ BuildCommit(c) \/ VerifyTree(c) \/ VerifyDigest(c)
             \/ CommitRaises(c) \/ CommitEscapes(c) \/ RevertRefFails(c) \/ RevertIndexFails(c)
    BY <1>0, <2>1 DEF CheckDrift, CheckContent, BuildCommit, VerifyTree, VerifyDigest, CommitRaises,
       CommitEscapes, RevertRefFails, RevertIndexFails
  <2>2. CASE MoveRef(c) \/ RevertRef(c)
    BY <1>0, <1>h, <2>2 DEF MoveRef, RevertRef
  <2>3. ASSUME NEW tree \in Heads, ReadTree(c, tree), run[c].at \in CommitSteps
        PROVE  staging' \in [Approvals -> Staging] /\ UNCHANGED <<branch, remote, objects>>
    <3> PICK a \in Approvals : ApprovalOf(c) = a
      BY <1>0, <2>3, Whose
    <3> DEFINE s == staging[a]
    <3>1. s \in Staging /\ s.dir = "there"
      BY <1>0, <2>3 DEF ReadTree
    <3>2. [s EXCEPT !.index = tree] \in Staging
      BY <3>1, StagingEntries
    <3>3. staging' = [staging EXCEPT ![a] = [s EXCEPT !.index = tree]]
      BY <2>3 DEF ReadTree
    <3> HIDE DEF s
    <3> QED BY <1>0, <2>3, <3>2, <3>3 DEF ReadTree
  <2>4. CASE SyncIndex(c) \/ RevertIndex(c)
    BY <1>0, <1>h, <2>3, <2>4 DEF SyncIndex, RevertIndex, CommitSteps
  <2> QED BY <1>4, <2>1, <2>2, <2>4 DEF CommitStep
<1>5. CASE PublishStep(c)
  <2>1. CASE CheckState(c) \/ CheckObjects(c) \/ Confirm(c) \/ ConfirmRaises(c)
    BY <1>0, <2>1 DEF CheckState, CheckObjects, Confirm, ConfirmRaises
  <2>2. CASE Transfer(c) \/ CreateRef(c)
    BY <1>0, <1>h, <2>2 DEF Transfer, CreateRef
  <2> QED BY <1>5, <2>1, <2>2 DEF PublishStep
<1> QED BY <1>1, <1>2, <1>3, <1>4, <1>5 DEF RunStep

THEOREM InitTyped == Init => Typed
<1> SUFFICES ASSUME Init PROVE Typed
  OBVIOUS
<1>1. branch \in Heads /\ remote \in Heads /\ started \in 0..MaxRuns /\ meddled \in 0..MaxMeddled
  BY MaxRunsAssumption, MaxMeddledAssumption DEF Init, Heads
<1>2. staging \in [Approvals -> Staging] /\ run \in [Threads -> Run \cup {NoRun}]
  BY DEF Init, Staging
<1>3. TypeOK
  BY <1>1, <1>2 DEF Init, TypeOK
<1>4. RunsFit /\ Proposals
  BY DEF Init, RunsFit, Proposals
<1> QED BY <1>3, <1>4 DEF Typed

LEMMA TypedOfPeople ==
    ASSUME Typed, OfPeople
    PROVE  Typed' /\ UNCHANGED <<git, requests, run, meddled, unreported>>
<1>0. TypeOK /\ RunsFit /\ Proposals
  BY DEF Typed
<1>1. UNCHANGED <<git, requests, run, meddled, unreported>>
  BY DEF OfPeople, Propose, PrepareApproval, ReadPending, ApproveGitChange, CancelGitChange
<1>2. RunsFit'
  BY <1>0, <1>1 DEF RunsFit, OnBase, requests
<1>3. ASSUME /\ proposed' \in [Approvals -> Bases \cup {None}]
             /\ approval' \in [Approvals -> {"none", "pending", "approved", "cancelled"}]
             /\ deciding' \in [Approvals -> SUBSET {"approved", "cancelled"}]
             /\ agreed' \subseteq Digests
      PROVE  TypeOK'
  BY <1>0, <1>1, <1>3 DEF TypeOK, git, requests
<1>4. ASSUME NEW a \in Approvals, Propose(a)
      PROVE  TypeOK' /\ Proposals'
  <2>1. proposed' \in [Approvals -> Bases \cup {None}] /\ UNCHANGED <<approval, deciding, agreed>>
    BY <1>0, <1>4 DEF Propose, TypeOK
  <2>2. \A b \in Approvals : proposed[b] # None => proposed'[b] # None
    BY <1>0, <1>4 DEF Propose, TypeOK
  <2> QED BY <1>0, <1>3, <2>1, <2>2 DEF TypeOK, Proposals
<1>5. ASSUME NEW a \in Approvals, PrepareApproval(a)
      PROVE  TypeOK' /\ Proposals'
  <2>1. approval' \in [Approvals -> {"none", "pending", "approved", "cancelled"}] /\ UNCHANGED <<proposed, deciding, agreed>>
    BY <1>0, <1>5 DEF PrepareApproval, TypeOK
  <2>2. Proposals'
    BY <1>0, <1>5 DEF PrepareApproval, TypeOK, Proposals, IsProposal
  <2> QED BY <1>0, <1>3, <2>1, <2>2 DEF TypeOK
<1>6. ASSUME NEW a \in Approvals, NEW d \in {"approved", "cancelled"}, ReadPending(a, d)
      PROVE  TypeOK' /\ Proposals'
  <2>1. deciding' \in [Approvals -> SUBSET {"approved", "cancelled"}] /\ UNCHANGED <<proposed, approval, agreed>>
    BY <1>0, <1>6 DEF ReadPending, TypeOK
  <2>2. Proposals'
    BY <1>0, <1>6 DEF ReadPending, TypeOK, Proposals
  <2> QED BY <1>0, <1>3, <2>1, <2>2 DEF TypeOK
<1>7. ASSUME NEW a \in Approvals, ApproveGitChange(a)
      PROVE  TypeOK' /\ Proposals'
  <2>1. proposed[a] # None
    BY <1>0, <1>7 DEF ApproveGitChange, Proposals
  <2>2. DigestOf[Approved(a)] \in Digests
    BY <1>0, <2>1, ApprovedIsChange DEF Digests
  <2>3. /\ approval' \in [Approvals -> {"none", "pending", "approved", "cancelled"}]
        /\ deciding' \in [Approvals -> SUBSET {"approved", "cancelled"}]
        /\ agreed' \subseteq Digests /\ UNCHANGED proposed
    BY <1>0, <1>7, <2>2 DEF ApproveGitChange, TypeOK
  <2>4. Proposals'
    BY <1>0, <1>7, <2>1 DEF ApproveGitChange, TypeOK, Proposals
  <2> QED BY <1>0, <1>3, <2>3, <2>4 DEF TypeOK
<1>8. ASSUME NEW a \in Approvals, CancelGitChange(a)
      PROVE  TypeOK' /\ Proposals'
  <2>1. /\ approval' \in [Approvals -> {"none", "pending", "approved", "cancelled"}]
        /\ deciding' \in [Approvals -> SUBSET {"approved", "cancelled"}]
        /\ UNCHANGED <<proposed, agreed>>
    BY <1>0, <1>8 DEF CancelGitChange, TypeOK
  <2>2. Proposals'
    BY <1>0, <1>8 DEF CancelGitChange, TypeOK, Proposals
  <2> QED BY <1>0, <1>3, <2>1, <2>2 DEF TypeOK
<1> QED BY <1>1, <1>2, <1>4, <1>5, <1>6, <1>7, <1>8 DEF OfPeople, Typed

\* Each creation takes its payload from a result, or has none.
LEMMA Created ==
    ASSUME OfRequests
    PROVE  \E r \in Requests : \E v \in {None} \cup {result[q] : q \in Requests} : CreateRequest(r, v)
<1>1. ASSUME NEW a \in Approvals, CreateApplyRequest(a)
      PROVE  \E r \in Requests : \E v \in {None} \cup {result[q] : q \in Requests} : CreateRequest(r, v)
  BY <1>1, RequestNames DEF CreateApplyRequest, Apply
<1>2. ASSUME NEW a \in Approvals, CreateCommitRequest(a)
      PROVE  \E r \in Requests : \E v \in {None} \cup {result[q] : q \in Requests} : CreateRequest(r, v)
  BY <1>2, RequestNames DEF CreateCommitRequest, Apply, Commit
<1>3. ASSUME NEW a \in Approvals, CreatePublishRequest(a)
      PROVE  \E r \in Requests : \E v \in {None} \cup {result[q] : q \in Requests} : CreateRequest(r, v)
  BY <1>3, RequestNames DEF CreatePublishRequest, Commit, Publish
<1>4. CASE CreateBranchRequest
  BY <1>4 DEF CreateBranchRequest, Requests
<1> QED BY <1>1, <1>2, <1>3, <1>4 DEF OfRequests

LEMMA TypedOfRequests ==
    ASSUME Typed, OfRequests
    PROVE  Typed'
<1>0. TypeOK /\ RunsFit /\ Proposals
  BY DEF Typed
<1> PICK r \in Requests, v \in {None} \cup {result[q] : q \in Requests} : CreateRequest(r, v)
  BY Created
<1>1. v \in Trees \cup {None}
  BY <1>0 DEF TypeOK
<1>2. /\ request' \in [Requests -> {"absent", "ready", "running", "completed", "failed"}]
      /\ payload' \in [Requests -> Trees \cup {None}]
  BY <1>0, <1>1 DEF CreateRequest, TypeOK
<1>3. UNCHANGED <<git, approvals, result, started, reports, run, meddled, unreported>>
  BY DEF CreateRequest
<1>4. TypeOK'
  BY <1>0, <1>2, <1>3 DEF TypeOK, git, approvals
<1>5. RunsFit' /\ Proposals'
  <2>1. \A q \in Requests : request[q] # "absent" => request'[q] # "absent" /\ payload'[q] = payload[q]
    BY <1>0 DEF CreateRequest, TypeOK
  <2>2. \A c \in Threads : run'[c] = run[c] /\ (run[c] # NoRun => run[c].request \in Requests)
    BY <1>0, <1>3 DEF TypeOK, Run
  <2> QED BY <1>0, <1>3, <2>1, <2>2 DEF RunsFit, OnBase, Proposals, approvals
<1> QED BY <1>4, <1>5 DEF Typed

\* The first step of a run is one of its request.
LEMMA Starts ==
    ASSUME TypeOK, RunsFit, NEW c \in Threads, NEW r \in Requests, StartRun(c, r)
    PROVE  /\ run[c] = NoRun /\ run'[c] \in Run /\ Fits(run'[c]) /\ OnBase(run'[c]) /\ Others(c)
           /\ run'[c].request = r /\ run'[c].at \in {"head", "base", "drift", "state"}
           /\ run' = [run EXCEPT ![c] = run'[c]]
           /\ request[r] # "absent" /\ request' = [request EXCEPT ![r] = "running"]
<1> DEFINE n == [request |-> r, at |-> FirstStep(r), made |-> None, reverted |-> FALSE]
<1>1. run' = [run EXCEPT ![c] = n] /\ run[c] = NoRun
  BY DEF StartRun
<1>2. \/ r = BranchRequest /\ FirstStep(r) = "head"
      \/ \E a \in Approvals : r = Apply(a) /\ FirstStep(r) = "base"
      \/ \E a \in Approvals : r = Commit(a) /\ FirstStep(r) = "drift"
      \/ \E a \in Approvals : r = Publish(a) /\ FirstStep(r) = "state"
  BY DEF Requests, FirstStep, BranchRequest, Apply, Commit, Publish
<1>3. n \in Run
  BY <1>2 DEF Run, Steps
<1>4. Fits(n) /\ OnBase(n) /\ n.request = r /\ n.at \in {"head", "base", "drift", "state"}
  BY <1>2 DEF Fits, OnBase, BranchSteps, ApplySteps, CommitSteps, PublishSteps, Building
<1> HIDE DEF n
<1>5. run'[c] = n /\ Others(c)
  BY <1>1 DEF TypeOK, Others
<1> QED BY <1>1, <1>3, <1>4, <1>5 DEF StartRun

LEMMA TypedStart ==
    ASSUME Typed, NEW c \in Threads, NEW r \in Requests, StartRun(c, r)
    PROVE  Typed'
<1>0. TypeOK /\ RunsFit /\ Proposals
  BY DEF Typed
<1>1. run' \in [Threads -> Run \cup {NoRun}] /\ RunsFit'
  <2>1. /\ run'[c] \in Run /\ Fits(run'[c]) /\ OnBase(run'[c]) /\ Others(c) /\ run'[c].request = r
        /\ run' = [run EXCEPT ![c] = run'[c]]
    BY <1>0, Starts
  <2>2. /\ request'[r] = "running" /\ UNCHANGED payload
        /\ \A q \in Requests : request[q] # "absent" => request'[q] # "absent"
    BY <1>0 DEF StartRun, TypeOK
  <2>3. \A d \in Threads : run[d] # NoRun => run[d].request \in Requests
    BY <1>0 DEF TypeOK, Run
  <2>4. \A d \in Threads : run'[d] # NoRun =>
           Fits(run'[d]) /\ OnBase(run'[d]) /\ request'[run'[d].request] # "absent"
    BY <1>0, <2>1, <2>2, <2>3 DEF RunsFit, Others
  <2>5. RunsFit'
    BY <2>2, <2>4 DEF RunsFit, OnBase
  <2> QED BY <1>0, <2>1, <2>5 DEF TypeOK
<1>2. request' \in [Requests -> {"absent", "ready", "running", "completed", "failed"}]
  BY <1>0 DEF StartRun, TypeOK
<1>3. started' \in 0..MaxRuns
  BY <1>0, MaxRunsAssumption DEF StartRun, TypeOK
<1>4. UNCHANGED <<git, approvals, payload, result, reports, meddled, unreported>>
  BY DEF StartRun
<1>5. TypeOK'
  BY <1>0, <1>1, <1>2, <1>3, <1>4 DEF TypeOK, git, approvals
<1>6. Proposals'
  BY <1>0, <1>4 DEF Proposals, approvals
<1> QED BY <1>1, <1>5, <1>6 DEF Typed

LEMMA TypedRunStep ==
    ASSUME Typed, NEW c \in Threads, RunStep(c)
    PROVE  Typed'
<1>0. TypeOK /\ RunsFit /\ Proposals
  BY DEF Typed
<1>1. Flows(c)
  BY <1>0, Flow
<1>2. UNCHANGED <<head, approvals, meddled>>
  BY RunsDecideNothing
<1>3. TypeOK'
  BY <1>0, <1>1, <1>2, FlowTypes, RunStepGit DEF TypeOK, approvals
<1>4. RunsFit' /\ Proposals'
  BY <1>0, <1>1, <1>2, FlowTypes DEF Proposals, approvals
<1> QED BY <1>3, <1>4 DEF Typed

\* A worker that dies leaves its request behind.
LEMMA Dies ==
    ASSUME TypeOK, NEW c \in Threads, WorkerDies(c)
    PROVE  /\ run'[c] = NoRun /\ Others(c) /\ run[c] \in Run /\ run[c].request \in Requests
           /\ run' \in [Threads -> Run \cup {NoRun}]
           /\ unreported' = unreported \cup {run[c].request}
           /\ UNCHANGED <<git, approvals, requests, meddled>>
BY DEF TypeOK, WorkerDies, Others, Run

LEMMA TypedDeath ==
    ASSUME Typed, NEW c \in Threads, WorkerDies(c)
    PROVE  Typed'
<1>0. TypeOK /\ RunsFit /\ Proposals
  BY DEF Typed
<1>1. TypeOK'
  BY <1>0, Dies DEF TypeOK, git, approvals, requests
<1>2. RunsFit' /\ Proposals'
  BY <1>0, Dies DEF RunsFit, OnBase, Proposals, approvals, requests, Others
<1> QED BY <1>1, <1>2 DEF Typed

LEMMA TypedMeddling ==
    ASSUME Typed, Meddling
    PROVE  Typed' /\ UNCHANGED <<approvals, requests, run, unreported>> /\ meddled' = meddled + 1
<1>0. TypeOK /\ RunsFit /\ Proposals
  BY DEF Typed
<1>1. Meddle
  BY DEF Meddling, SourceCommit, BranchMoved, RemoteWritten, StagingTouched
<1>2. meddled' \in 0..MaxMeddled /\ meddled' = meddled + 1 /\ UNCHANGED <<approvals, requests, run, unreported>>
  BY <1>0, <1>1, MaxMeddledAssumption DEF Meddle, TypeOK
<1>3. /\ head' \in Bases /\ branch' \in Heads /\ staging' \in [Approvals -> Staging]
      /\ remote' \in Heads /\ objects' \subseteq Heads
  <2>1. CASE SourceCommit \/ BranchMoved \/ RemoteWritten
    BY <1>0, <2>1 DEF SourceCommit, BranchMoved, RemoteWritten, TypeOK, Heads
  <2>2. ASSUME NEW a \in Approvals, StagingTouched(a)
        PROVE  staging' \in [Approvals -> Staging] /\ UNCHANGED <<head, branch, remote, objects>>
    <3> DEFINE s == staging[a]
    <3>1. s \in Staging /\ s.dir = "there"
      BY <1>0, <2>2 DEF StagingTouched, TypeOK
    <3>2. CASE staging' = [staging EXCEPT ![a] = NoStaging]
      BY <1>0, <2>2, <3>2 DEF StagingTouched, TypeOK, Staging
    <3>3. ASSUME NEW change \in {a, "edited"}, s.files \in Changes,
                 staging' = [staging EXCEPT ![a].files.change = change]
          PROVE  staging' \in [Approvals -> Staging]
      <4> DEFINE f == [s.files EXCEPT !.change = change]
      <4>1. f \in Changes
        BY <3>3 DEF Changes
      <4>2. f \in Heads \ {None}
        BY <4>1, HeadsAssumption DEF Heads, Trees, Changes
      <4>3. staging' = [staging EXCEPT ![a] = [s EXCEPT !.files = f]]
        BY <3>3
      <4> HIDE DEF f, s
      <4>4. [s EXCEPT !.files = f] \in Staging
        BY <3>1, <4>2, StagingEntries
      <4> QED BY <1>0, <4>3, <4>4 DEF TypeOK
    <3> QED BY <2>2, <3>2, <3>3 DEF StagingTouched
  <2> QED BY <1>0, <2>1, <2>2 DEF Meddling, TypeOK
<1>4. TypeOK'
  BY <1>0, <1>2, <1>3 DEF TypeOK, approvals, requests
<1>5. RunsFit' /\ Proposals'
  BY <1>0, <1>2 DEF RunsFit, OnBase, Proposals, approvals, requests
<1> QED BY <1>2, <1>4, <1>5 DEF Typed

LEMMA TypedStays ==
    ASSUME Typed, UNCHANGED vars
    PROVE  Typed'
BY DEF Typed, TypeOK, RunsFit, OnBase, Proposals, vars, git, approvals, requests

LEMMA TypedStep == Typed /\ [Next]_vars => Typed'
<1> SUFFICES ASSUME Typed, [Next]_vars PROVE Typed'
  OBVIOUS
<1>1. CASE Next
  BY <1>1, NextCases, TypedOfPeople, TypedOfRequests, TypedMeddling, TypedStart, TypedRunStep, TypedDeath
<1>2. CASE UNCHANGED vars
  BY <1>2, TypedStays
<1> QED BY <1>1, <1>2

\* Every state has the types of TypeOK.
THEOREM TypesHold == Spec => []TypeOK
<1>1. Typed => TypeOK
  BY DEF Typed
<1> QED BY <1>1, InitTyped, TypedStep, PTL DEF Spec

-----------------------------------------------------------------------------
(***************************************************************************)
(* Where a request comes from: it is there because the stage before it     *)
(* succeeded, and its payload is what that stage recorded.                 *)
(***************************************************************************)

Applied(a) == "success" \in reports[Apply(a)]

AgreedFirst ==
    \A a \in Approvals :
        /\ approval[a] = "approved" => DigestOf[Approved(a)] \in agreed
        /\ request[Apply(a)] # "absent" => proposed[a] # None /\ DigestOf[Approved(a)] \in agreed

ResultsKnown ==
    /\ result[BranchRequest] \in Bases \cup {None}
    /\ request[BranchRequest] = "completed" => result[BranchRequest] # None
    /\ \A a \in Approvals :
        /\ request[Apply(a)] # "absent" => payload[Apply(a)] \in Bases
        /\ result[Apply(a)] # None => request[Apply(a)] # "absent" /\ result[Apply(a)] = payload[Apply(a)]
        /\ \A r \in {Apply(a), Commit(a)} : request[r] = "completed" => result[r] # None /\ "success" \in reports[r]

CommitsFollow ==
    \A a \in Approvals :
        request[Commit(a)] # "absent" =>
            request[Apply(a)] # "absent" /\ Applied(a) /\ payload[Commit(a)] = payload[Apply(a)]

Requested == \A r \in Requests : reports[r] # {} \/ r \in unreported => request[r] # "absent"

Known == AgreedFirst /\ ResultsKnown /\ CommitsFollow /\ Requested

\* What no step takes back.
Kept ==
    /\ \A a \in Approvals : proposed[a] # None => proposed'[a] = proposed[a]
    /\ agreed \subseteq agreed'
    /\ \A r \in Requests :
        /\ request[r] # "absent" => request'[r] # "absent" /\ payload'[r] = payload[r]
        /\ reports[r] \subseteq reports'[r]
    /\ unreported \subseteq unreported'

\* What a step that ends the run of c does to the requests.
LEMMA Ending ==
    ASSUME TypeOK, NEW c \in Threads, run[c] # NoRun, NEW o \in Outcome, NEW v, Return(c, o, v)
    PROVE  /\ run[c].request \in Requests
           /\ \A q \in Requests : q # run[c].request =>
                request'[q] = request[q] /\ result'[q] = result[q] /\ reports'[q] = reports[q]
           /\ reports'[run[c].request] = reports[run[c].request] \cup {o}
           /\ \/ /\ request'[run[c].request] = IF o = "success" THEN "completed" ELSE "failed"
                 /\ result'[run[c].request] = v
              \/ UNCHANGED <<request, result>>
           /\ UNCHANGED <<payload, started>>
<1>1. run[c].request \in Requests
  BY DEF TypeOK, Run
<1>2. /\ request \in [Requests -> {"absent", "ready", "running", "completed", "failed"}]
      /\ DOMAIN result = Requests /\ result = [q \in Requests |-> result[q]]
      /\ reports \in [Requests -> SUBSET Outcome]
  BY DEF TypeOK
<1> QED BY <1>1, <1>2 DEF Return

LEMMA KeptByFlow ==
    ASSUME TypeOK, RunsFit, NEW c \in Threads, Flows(c), UNCHANGED approvals
    PROVE  Kept /\ \A r \in Requests : request[r] = "absent" => request'[r] = "absent"
<1>0. run[c] # NoRun /\ run[c].request \in Requests /\ request[run[c].request] # "absent"
  BY PayloadTyped DEF Flows, RunsFit
<1>1. ASSUME NEW o \in Outcome, NEW v, Return(c, o, v), unreported \subseteq unreported'
      PROVE  Kept /\ \A r \in Requests : request[r] = "absent" => request'[r] = "absent"
  <2>1. \A r \in Requests :
          /\ request[r] # "absent" => request'[r] # "absent"
          /\ request[r] = "absent" => request'[r] = "absent"
          /\ reports[r] \subseteq reports'[r]
    BY <1>0, <1>1, Ending
  <2>2. UNCHANGED payload
    BY <1>1 DEF Return
  <2> QED BY <1>1, <2>1, <2>2 DEF Kept, approvals
<1>2. CASE Proceeds(c)
  BY <1>2 DEF Proceeds, Kept, requests, approvals
<1>3. CASE Refuses(c)
  BY <1>1, <1>3 DEF Refuses
<1>4. CASE Succeeds(c)
  <2>1. "success" \in Outcome
    BY DEF Outcome
  <2> QED BY <1>1, <1>4, <2>1 DEF Succeeds
<1>5. CASE Lapses(c)
  <2>1. "failure" \in Outcome
    BY DEF Outcome
  <2> QED BY <1>1, <1>5, <2>1 DEF Lapses, Fails
<1> QED BY <1>2, <1>3, <1>4, <1>5 DEF Flows

LEMMA AlwaysKept ==
    ASSUME Typed, Next
    PROVE  Kept
<1>0. TypeOK /\ RunsFit
  BY DEF Typed
<1>1. CASE OfPeople
  <2>1. UNCHANGED <<requests, unreported>>
    BY <1>1, TypedOfPeople
  <2>2. \A a \in Approvals : proposed[a] # None => proposed'[a] = proposed[a]
    BY <1>0, <1>1 DEF OfPeople, Propose, PrepareApproval, ReadPending, ApproveGitChange, CancelGitChange, TypeOK
  <2>3. agreed \subseteq agreed'
    BY <1>1 DEF OfPeople, Propose, PrepareApproval, ReadPending, ApproveGitChange, CancelGitChange
  <2> QED BY <2>1, <2>2, <2>3 DEF Kept, requests
<1>2. CASE OfRequests
  <2> PICK r \in Requests, v \in {None} \cup {result[q] : q \in Requests} : CreateRequest(r, v)
    BY <1>2, Created
  <2>1. \A q \in Requests : request[q] # "absent" => request'[q] # "absent" /\ payload'[q] = payload[q]
    BY <1>0 DEF CreateRequest, TypeOK
  <2> QED BY <2>1 DEF CreateRequest, Kept, approvals
<1>3. CASE Meddling
  BY <1>3, TypedMeddling DEF Kept, approvals, requests
<1>4. ASSUME NEW c \in Threads, NEW r \in Requests, StartRun(c, r)
      PROVE  Kept
  <2>1. \A q \in Requests : request[q] # "absent" => request'[q] # "absent"
    BY <1>0, <1>4 DEF StartRun, TypeOK
  <2> QED BY <1>4, <2>1 DEF StartRun, Kept, approvals
<1>5. ASSUME NEW c \in Threads, RunStep(c)
      PROVE  Kept
  BY <1>0, <1>5, Flow, RunsDecideNothing, KeptByFlow
<1>6. ASSUME NEW c \in Threads, WorkerDies(c)
      PROVE  Kept
  BY <1>0, <1>6, Dies DEF Kept, approvals, requests
<1> QED BY <1>1, <1>2, <1>3, <1>4, <1>5, <1>6, NextCases

LEMMA InitKnown == Init => Known
<1>1. BranchRequest \in Requests
  BY DEF Requests
<1> QED BY <1>1, RequestNames DEF Init, Known, AgreedFirst, ResultsKnown, CommitsFollow, Requested

LEMMA KnownOfPeople ==
    ASSUME Typed, Known, OfPeople
    PROVE  Known'
<1>0. TypeOK /\ Known /\ Kept /\ UNCHANGED <<requests, run, unreported>>
  BY AlwaysKept, TypedOfPeople DEF Typed, Known, Next, OfPeople
<1>1. Requested' /\ CommitsFollow'
  <2>1. Requested'
    BY <1>0 DEF Known, Requested, requests
  <2>2. CommitsFollow'
    BY <1>0 DEF Known, CommitsFollow, requests, Applied
  <2> QED BY <2>1, <2>2
<1>2. ResultsKnown'
  BY <1>0 DEF Known, ResultsKnown, requests
<1>3. AgreedFirst'
  <2> SUFFICES ASSUME NEW a \in Approvals
               PROVE  /\ approval'[a] = "approved" => DigestOf[Approved(a)'] \in agreed'
                      /\ request'[Apply(a)] # "absent" => proposed'[a] # None /\ DigestOf[Approved(a)'] \in agreed'
    BY DEF AgreedFirst
  <2>1. proposed[a] # None => Approved(a)' = Approved(a)
    BY <1>0 DEF Kept, Approved
  <2>2. request'[Apply(a)] # "absent" => proposed'[a] # None /\ DigestOf[Approved(a)'] \in agreed'
    BY <1>0, <2>1, RequestNames DEF Known, AgreedFirst, Kept, requests
  <2>3. approval'[a] = "approved" => approval[a] = "approved" \/ ApproveGitChange(a)
    BY <1>0 DEF TypeOK, OfPeople, Propose, PrepareApproval, ReadPending, ApproveGitChange, CancelGitChange
  <2>4. ASSUME approval[a] = "approved" PROVE DigestOf[Approved(a)'] \in agreed'
    BY <1>0, <2>1, <2>4 DEF Known, AgreedFirst, Kept, Typed, Proposals
  <2>5. ASSUME ApproveGitChange(a) PROVE DigestOf[Approved(a)'] \in agreed'
    BY <2>5 DEF ApproveGitChange, Approved
  <2> QED BY <2>2, <2>3, <2>4, <2>5
<1> QED BY <1>1, <1>2, <1>3 DEF Known

LEMMA KnownOfRequests ==
    ASSUME Typed, Known, OfRequests
    PROVE  Known'
<1>0. TypeOK /\ Known
  BY DEF Typed
<1> PICK r \in Requests, v \in {None} \cup {result[q] : q \in Requests} : CreateRequest(r, v)
  BY Created
<1>1. /\ UNCHANGED <<approvals, result, started, reports, run, unreported>>
      /\ \A q \in Requests : q # r => request'[q] = request[q] /\ payload'[q] = payload[q]
      /\ request[r] = "absent" /\ request'[r] = "ready"
  BY <1>0 DEF CreateRequest, TypeOK
<1>2. Requested'
  BY <1>0, <1>1 DEF Known, Requested
<1>n. ASSUME NEW a \in Approvals, r = Apply(a)
      PROVE  CreateApplyRequest(a)
  <2>1. ASSUME NEW b \in Approvals, CreateCommitRequest(b) \/ CreatePublishRequest(b)
        PROVE  FALSE
    <3>1. request'[Apply(a)] = request[Apply(a)]
      BY <1>0, <2>1, RequestNames DEF CreateCommitRequest, CreatePublishRequest, CreateRequest, Apply, Commit, Publish, TypeOK
    <3> QED BY <1>1, <1>n, <3>1
  <2>2. CASE CreateBranchRequest
    <3>1. request'[Apply(a)] = request[Apply(a)]
      BY <1>0, <2>2, RequestNames DEF CreateBranchRequest, CreateRequest, TypeOK
    <3> QED BY <1>1, <1>n, <3>1
  <2>3. ASSUME NEW b \in Approvals, CreateApplyRequest(b)
        PROVE  b = a
    <3>1. Apply(b) # Apply(a) => request'[Apply(a)] = request[Apply(a)]
      BY <1>0, <2>3, RequestNames DEF CreateApplyRequest, CreateRequest, Apply, TypeOK
    <3> QED BY <1>1, <1>n, <3>1, RequestNames
  <2> QED BY <2>1, <2>2, <2>3 DEF OfRequests
<1>p. ASSUME NEW a \in Approvals, r = Apply(a)
      PROVE  payload'[r] \in Bases
  <2>1. request[BranchRequest] = "completed" /\ CreateRequest(r, result[BranchRequest])
    BY <1>n, <1>p DEF CreateApplyRequest, Apply
  <2>2. payload'[r] = result[BranchRequest]
    BY <1>0, <2>1 DEF CreateRequest, TypeOK
  <2> QED BY <1>0, <2>1, <2>2 DEF Known, ResultsKnown
<1>3. ResultsKnown'
  <2>1. /\ result'[BranchRequest] \in Bases \cup {None}
        /\ request'[BranchRequest] = "completed" => result'[BranchRequest] # None
    BY <1>0, <1>1, RequestNames DEF Known, ResultsKnown, Requests
  <2>2. ASSUME NEW a \in Approvals
        PROVE  /\ request'[Apply(a)] # "absent" => payload'[Apply(a)] \in Bases
               /\ result'[Apply(a)] # None => request'[Apply(a)] # "absent" /\ result'[Apply(a)] = payload'[Apply(a)]
               /\ \A q \in {Apply(a), Commit(a)} : request'[q] = "completed" => result'[q] # None /\ "success" \in reports'[q]
    <3>1. Apply(a) \in Requests /\ Commit(a) \in Requests
      BY RequestNames
    <3>2. /\ request[Apply(a)] # "absent" => payload[Apply(a)] \in Bases
          /\ result[Apply(a)] # None => request[Apply(a)] # "absent" /\ result[Apply(a)] = payload[Apply(a)]
          /\ \A q \in {Apply(a), Commit(a)} : request[q] = "completed" => result[q] # None /\ "success" \in reports[q]
      BY <1>0 DEF Known, ResultsKnown
    <3>3. request'[Apply(a)] # "absent" => payload'[Apply(a)] \in Bases
      BY <1>1, <1>p, <3>1, <3>2
    <3>4. result'[Apply(a)] # None => request'[Apply(a)] # "absent" /\ result'[Apply(a)] = payload'[Apply(a)]
      BY <1>1, <3>1, <3>2
    <3>5. \A q \in {Apply(a), Commit(a)} : request'[q] = "completed" => result'[q] # None /\ "success" \in reports'[q]
      BY <1>1, <3>1, <3>2
    <3> QED BY <3>3, <3>4, <3>5
  <2> QED BY <2>1, <2>2 DEF ResultsKnown
<1>4. AgreedFirst'
  <2> SUFFICES ASSUME NEW a \in Approvals, request[Apply(a)] = "absent", request'[Apply(a)] # "absent"
               PROVE  proposed[a] # None /\ DigestOf[Approved(a)] \in agreed
    BY <1>0, <1>1 DEF Known, AgreedFirst, approvals, Approved
  <2>1. CreateApplyRequest(a)
    BY <1>1, <1>n, RequestNames
  <2> QED BY <1>0, <2>1 DEF CreateApplyRequest, Known, AgreedFirst, Typed, Proposals
<1>5. CommitsFollow'
  <2> SUFFICES ASSUME NEW a \in Approvals, request'[Commit(a)] # "absent"
               PROVE  request'[Apply(a)] # "absent" /\ Applied(a) /\ payload'[Commit(a)] = payload'[Apply(a)]
    BY <1>1 DEF CommitsFollow, Applied, approvals
  <2>1. CASE request[Commit(a)] # "absent"
    BY <1>0, <1>1, <2>1, RequestNames DEF Known, CommitsFollow
  <2>2. CASE request[Commit(a)] = "absent"
    <3>1. CreateCommitRequest(a)
      <4>1. ASSUME NEW b \in Approvals, CreateApplyRequest(b) \/ CreatePublishRequest(b)
            PROVE  FALSE
        <5>1. request'[Commit(a)] = request[Commit(a)]
          BY <1>0, <4>1, RequestNames DEF CreateApplyRequest, CreatePublishRequest, CreateRequest, Apply, Commit, Publish, TypeOK
        <5> QED BY <2>2, <5>1
      <4>2. CASE CreateBranchRequest
        <5>1. request'[Commit(a)] = request[Commit(a)]
          BY <1>0, <4>2, RequestNames DEF CreateBranchRequest, CreateRequest, TypeOK
        <5> QED BY <2>2, <5>1
      <4>3. ASSUME NEW b \in Approvals, CreateCommitRequest(b)
            PROVE  b = a
        <5>1. Commit(b) # Commit(a) => request'[Commit(a)] = request[Commit(a)]
          BY <1>0, <4>3, RequestNames DEF CreateCommitRequest, CreateRequest, Commit, TypeOK
        <5> QED BY <2>2, <5>1, RequestNames
      <4> QED BY <4>1, <4>2, <4>3 DEF OfRequests
    <3>2. request[Apply(a)] = "completed" /\ CreateRequest(Commit(a), result[Apply(a)])
      BY <3>1 DEF CreateCommitRequest, Apply, Commit
    <3>3. payload'[Commit(a)] = result[Apply(a)]
      BY <1>0, <3>2, RequestNames DEF CreateRequest, TypeOK
    <3>4. result[Apply(a)] = payload[Apply(a)] /\ Applied(a)
      BY <1>0, <3>2 DEF Known, ResultsKnown, Applied
    <3>5. request'[Apply(a)] # "absent" /\ payload'[Apply(a)] = payload[Apply(a)]
      BY <1>1, <3>2, RequestNames
    <3> QED BY <3>3, <3>4, <3>5
  <2> QED BY <2>1, <2>2
<1> QED BY <1>2, <1>3, <1>4, <1>5 DEF Known

LEMMA NoneIsNoTree == None \notin Trees
BY HeadsAssumption DEF Trees, Changes

\* What a success records.
LEMMA Recorded ==
    ASSUME Typed, Known, NEW c \in Threads, run[c] # NoRun, Succeeds(c)
    PROVE  \E v : /\ Return(c, "success", v)
                  /\ run[c].request = BranchRequest => v \in Bases
                  /\ \A a \in Approvals :
                      /\ run[c].request = Apply(a) => v = payload[Apply(a)] /\ v # None
                      /\ run[c].request = Commit(a) => v # None
<1>0. TypeOK /\ RunsFit /\ Known
  BY DEF Typed
<1>1. CASE MakeBranch(c) /\ Return(c, "success", run[c].made)
  <2>1. run[c].request = BranchRequest /\ run[c].made \in Bases
    BY <1>0, <1>1, Whose DEF MakeBranch, At, BranchSteps
  <2> QED BY <1>1, <2>1, RequestNames
<1>2. CASE VerifyApplied(c) /\ Return(c, "success", Payload(c))
  <2> PICK a \in Approvals : run[c].request = Apply(a) /\ ApprovalOf(c) = a
    BY <1>0, <1>2, Whose DEF VerifyApplied, At, ApplySteps
  <2>1. Payload(c) = payload[Apply(a)] /\ payload[Apply(a)] \in Bases
    BY <1>0 DEF Known, RunsFit, ResultsKnown, Payload
  <2>2. payload[Apply(a)] # None
    BY <2>1, NoneIsNoTree DEF Trees
  <2> QED BY <1>2, <2>1, <2>2, RequestNames
<1>3. CASE VerifyDigest(c) /\ Return(c, "success", run[c].made)
  <2>1. (\E a \in Approvals : run[c].request = Commit(a)) /\ run[c].made \in Changes
    BY <1>0, <1>3, Whose DEF VerifyDigest, At, CommitSteps, Building
  <2> QED BY <1>3, <2>1, RequestNames, NoneIsNoTree DEF Trees
<1>4. CASE Confirm(c) /\ Return(c, "success", Payload(c))
  <2>1. \E a \in Approvals : run[c].request = Publish(a)
    BY <1>0, <1>4, Whose DEF Confirm, At, PublishSteps
  <2> QED BY <1>4, <2>1, RequestNames
<1> QED BY <1>1, <1>2, <1>3, <1>4 DEF Succeeds

LEMMA KnownByReturn ==
    ASSUME Typed, Known, NEW c \in Threads, run[c] # NoRun, NEW o \in Outcome, NEW v, Return(c, o, v),
           UNCHANGED approvals, unreported' \subseteq unreported \cup {run[c].request},
           run[c].request = BranchRequest => v \in Bases \cup {None} /\ (o = "success" => v # None),
           \A a \in Approvals :
              /\ run[c].request = Apply(a) => v \in {None, payload[Apply(a)]}
              /\ o = "success" /\ run[c].request \in {Apply(a), Commit(a)} => v # None
    PROVE  Known'
<1>0. TypeOK /\ Known /\ UNCHANGED <<proposed, approval, agreed, payload>>
  BY DEF Typed, approvals, Return
<1>e. /\ run[c].request \in Requests
      /\ \A q \in Requests : q # run[c].request =>
            request'[q] = request[q] /\ result'[q] = result[q] /\ reports'[q] = reports[q]
      /\ reports'[run[c].request] = reports[run[c].request] \cup {o}
      /\ \/ /\ request'[run[c].request] = IF o = "success" THEN "completed" ELSE "failed"
            /\ result'[run[c].request] = v
         \/ UNCHANGED <<request, result>>
  BY <1>0, Ending
<1>r. request[run[c].request] # "absent"
  BY DEF Typed, RunsFit
<1>1. \A q \in Requests : (request[q] # "absent" <=> request'[q] # "absent") /\ reports[q] \subseteq reports'[q]
  BY <1>e, <1>r
<1>2. Requested'
  BY <1>0, <1>e, <1>r, <1>1 DEF Known, Requested
<1>3. AgreedFirst' /\ CommitsFollow'
  BY <1>0, <1>1, RequestNames DEF Known, AgreedFirst, CommitsFollow, Approved, Applied
<1>4. ResultsKnown'
  <2>b. /\ result'[BranchRequest] \in Bases \cup {None}
        /\ request'[BranchRequest] = "completed" => result'[BranchRequest] # None
    <3>1. BranchRequest \in Requests
      BY DEF Requests
    <3> QED BY <1>0, <1>e, <3>1 DEF Known, ResultsKnown
  <2> SUFFICES ASSUME NEW a \in Approvals
               PROVE  /\ request'[Apply(a)] # "absent" => payload[Apply(a)] \in Bases
                      /\ result'[Apply(a)] # None => request'[Apply(a)] # "absent" /\ result'[Apply(a)] = payload[Apply(a)]
                      /\ \A r \in {Apply(a), Commit(a)} : request'[r] = "completed" => result'[r] # None /\ "success" \in reports'[r]
    BY <1>0, <2>b DEF ResultsKnown
  <2>a. request'[Apply(a)] # "absent" => payload[Apply(a)] \in Bases
    BY <1>0, <1>1, RequestNames DEF Known, ResultsKnown
  <2>1. result'[Apply(a)] # None => request'[Apply(a)] # "absent" /\ result'[Apply(a)] = payload[Apply(a)]
    <3>1. result'[Apply(a)] # None => result'[Apply(a)] = result[Apply(a)] \/ run[c].request = Apply(a)
      BY <1>e, RequestNames
    <3> QED BY <1>0, <1>e, <1>r, <1>1, <3>1, RequestNames DEF Known, ResultsKnown
  <2>2. ASSUME NEW r \in {Apply(a), Commit(a)}, request'[r] = "completed"
        PROVE  result'[r] # None /\ "success" \in reports'[r]
    <3>1. r \in Requests
      BY RequestNames
    <3>2. CASE r # run[c].request
      BY <1>0, <1>e, <2>2, <3>1, <3>2 DEF Known, ResultsKnown
    <3>3. CASE r = run[c].request /\ UNCHANGED <<request, result>>
      BY <1>0, <1>1, <2>2, <3>1, <3>3 DEF Known, ResultsKnown
    <3>4. CASE /\ r = run[c].request
               /\ request'[run[c].request] = IF o = "success" THEN "completed" ELSE "failed"
               /\ result'[run[c].request] = v
      BY <1>e, <2>2, <3>4
    <3> QED BY <1>e, <3>2, <3>3, <3>4
  <2> QED BY <2>a, <2>1, <2>2
<1> QED BY <1>2, <1>3, <1>4 DEF Known

LEMMA KnownRunStep ==
    ASSUME Typed, Known, NEW c \in Threads, RunStep(c)
    PROVE  Known'
<1>0. TypeOK /\ RunsFit /\ Flows(c) /\ run[c] # NoRun /\ UNCHANGED approvals /\ run[c].request \in Requests
  BY Flow, RunsDecideNothing, PayloadTyped DEF Typed, Flows
<1>1. CASE Proceeds(c)
  <2>1. UNCHANGED <<request, payload, result, reports, unreported, proposed, approval, agreed>>
    BY <1>0, <1>1 DEF Proceeds, requests, approvals
  <2>2. Requested'
    BY <2>1 DEF Known, Requested
  <2>3. AgreedFirst' /\ ResultsKnown' /\ CommitsFollow'
    BY <2>1 DEF Known, AgreedFirst, ResultsKnown, CommitsFollow, Approved, Applied
  <2> QED BY <2>2, <2>3 DEF Known
<1>2. CASE Refuses(c)
  <2> PICK o \in Outcome \ {"success"} : Return(c, o, None)
    BY <1>2 DEF Refuses
  <2> QED BY <1>0, <1>2, KnownByReturn DEF Refuses
<1>3. CASE Succeeds(c)
  <2> PICK v : /\ Return(c, "success", v)
               /\ run[c].request = BranchRequest => v \in Bases
               /\ \A a \in Approvals :
                    /\ run[c].request = Apply(a) => v = payload[Apply(a)] /\ v # None
                    /\ run[c].request = Commit(a) => v # None
    BY <1>0, <1>3, Recorded
  <2>1. "success" \in Outcome /\ UNCHANGED unreported
    BY <1>3 DEF Outcome, Succeeds
  <2>2. \A b \in Bases : b # None
    BY NoneIsNoTree DEF Trees
  <2> QED BY <1>0, <2>1, <2>2, KnownByReturn
<1>4. CASE Lapses(c)
  <2>1. Return(c, "failure", None) /\ "failure" \in Outcome /\ "failure" # "success"
    BY <1>4 DEF Lapses, Fails, Outcome
  <2> QED BY <1>0, <1>4, <2>1, KnownByReturn DEF Lapses
<1> QED BY <1>0, <1>1, <1>2, <1>3, <1>4 DEF Flows

LEMMA KnownOtherwise ==
    ASSUME Typed, Known,
           \/ Meddling \/ UNCHANGED vars
           \/ \E c \in Threads : WorkerDies(c) \/ \E r \in Requests : StartRun(c, r)
    PROVE  Known'
<1>0. TypeOK /\ RunsFit
  BY DEF Typed
<1>1. CASE Meddling \/ UNCHANGED vars
  <2>1. UNCHANGED <<approvals, requests, run, unreported>>
    BY <1>1, TypedMeddling DEF vars
  <2> QED BY <2>1 DEF Known, AgreedFirst, ResultsKnown, CommitsFollow, Requested, Approved, Applied, approvals, requests
<1>2. ASSUME NEW c \in Threads, WorkerDies(c)
      PROVE  Known'
  <2>1. /\ run'[c] = NoRun /\ Others(c) /\ run[c].request \in Requests /\ run[c] # NoRun
        /\ unreported' = unreported \cup {run[c].request}
        /\ UNCHANGED <<approvals, requests>>
    BY <1>0, <1>2, Dies DEF WorkerDies
  <2>2. Requested'
    BY <1>0, <2>1 DEF Known, Requested, RunsFit, requests
  <2>3. AgreedFirst' /\ ResultsKnown' /\ CommitsFollow'
    BY <2>1 DEF Known, AgreedFirst, ResultsKnown, CommitsFollow, Approved, Applied, approvals, requests
  <2> QED BY <2>2, <2>3 DEF Known
<1>3. ASSUME NEW c \in Threads, NEW r \in Requests, StartRun(c, r)
      PROVE  Known'
  <2>1. /\ UNCHANGED <<approvals, payload, result, reports, unreported>>
        /\ request[r] # "absent" /\ run'[c].request = r /\ Others(c)
        /\ request'[r] = "running" /\ \A q \in Requests : q # r => request'[q] = request[q]
    <3>1. UNCHANGED <<approvals, payload, result, reports, unreported>>
      BY <1>3 DEF StartRun
    <3>2. request[r] # "absent" /\ run'[c].request = r /\ Others(c)
      BY <1>0, <1>3, Starts
    <3>3. request'[r] = "running" /\ \A q \in Requests : q # r => request'[q] = request[q]
      BY <1>0, <1>3 DEF StartRun, TypeOK
    <3> QED BY <3>1, <3>2, <3>3
  <2>2. \A q \in Requests : request[q] # "absent" <=> request'[q] # "absent"
    BY <2>1
  <2>4. Requested'
    BY <2>1, <2>2 DEF Known, Requested
  <2>5. AgreedFirst' /\ CommitsFollow'
    BY <2>1, <2>2, RequestNames DEF Known, AgreedFirst, CommitsFollow, Approved, Applied, approvals
  <2>6. ResultsKnown'
    <3>1. BranchRequest \in Requests
      BY DEF Requests
    <3> QED BY <2>1, <2>2, <3>1, RequestNames DEF Known, ResultsKnown, approvals
  <2> QED BY <2>4, <2>5, <2>6 DEF Known
<1> QED BY <1>1, <1>2, <1>3

LEMMA KnownStep == Typed /\ Known /\ [Next]_vars => Known'
<1> SUFFICES ASSUME Typed, Known, [Next]_vars PROVE Known'
  OBVIOUS
<1>1. CASE Next
  BY <1>1, NextCases, KnownOfPeople, KnownOfRequests, KnownOtherwise, KnownRunStep
<1>2. CASE UNCHANGED vars
  BY <1>2, KnownOtherwise
<1> QED BY <1>1, <1>2

-----------------------------------------------------------------------------
(***************************************************************************)
(* Which steps of a run change the branch or a staging worktree, and how a *)
(* run leaves the steps at which it answers for one.                       *)
(***************************************************************************)

\* A run answers for the staging worktree it has made, until it has returned.
Keeping == {"base_again", "fill", "verify_applied", "remove", "prune", "rmtree"}
Holds(c, a) == run[c].at \in Keeping /\ run[c].request = Apply(a)

\* A run answers for the commit that it has put on the branch, until it has taken
\* it back or has returned.
Owes(c, a) ==
    /\ run[c].at \in {"sync", "verify_tree", "verify_digest", "revert_ref", "revert_index"}
    /\ run[c].request = Commit(a)
    /\ ~run[c].reverted

LEMMA RunSteps ==
    ASSUME NEW c \in Threads, RunStep(c)
    PROVE  /\ run[c].at \in Keeping =>
                \/ CheckStagingHead(c) \/ FillStaging(c) \/ VerifyApplied(c) \/ ApplyRaises(c)
                \/ RemoveWorktree(c) \/ PruneWorktrees(c) \/ RemoveTree(c) \/ CleanFails(c)
           /\ run[c].at \in {"sync", "verify_tree", "verify_digest", "revert_ref", "revert_index"} =>
                \/ SyncIndex(c) \/ VerifyTree(c) \/ VerifyDigest(c) \/ CommitRaises(c) \/ CommitEscapes(c)
                \/ RevertRef(c) \/ RevertRefFails(c) \/ RevertIndex(c) \/ RevertIndexFails(c)
           /\ branch' = branch \/ MakeBranch(c) \/ MoveRef(c) \/ RevertRef(c)
           /\ \/ staging' = staging \/ AddStaging(c) \/ FillStaging(c)
              \/ RemoveWorktree(c) \/ PruneWorktrees(c) \/ RemoveTree(c)
              \/ SyncIndex(c) \/ RevertIndex(c)
           /\ remote' = remote \/ CreateRef(c)
<1> USE DEF At, NoEffect, git, SetStaging, ReadTree, Keeping
<1>1. CASE GiveUp(c) \/ ReadHead(c) \/ MakeBranch(c)
  BY <1>1 DEF GiveUp, ReadHead, MakeBranch
<1>2. CASE ApplyStep(c)
  BY <1>2 DEF ApplyStep, ResolveBase, AddStaging, CheckStagingHead, FillStaging, VerifyApplied, ApplyRaises,
      RemoveWorktree, PruneWorktrees, RemoveTree, CleanFails
<1>3. CASE CommitStep(c)
  BY <1>3 DEF CommitStep, CheckDrift, CheckContent, BuildCommit, MoveRef, SyncIndex, VerifyTree, VerifyDigest,
      CommitRaises, CommitEscapes, RevertRef, RevertRefFails, RevertIndex, RevertIndexFails
<1>4. CASE PublishStep(c)
  BY <1>4 DEF PublishStep, CheckState, Transfer, CheckObjects, CreateRef, Confirm, ConfirmRaises
<1> QED BY <1>1, <1>2, <1>3, <1>4 DEF RunStep

\* What each step does to the staging worktree of its own approval; prune is the one
\* that touches those of others, and only forgets what is gone.
LEMMA StagingSteps ==
    ASSUME Typed, NEW c \in Threads, RunStep(c), NEW a \in Approvals, staging'[a] # staging[a]
    PROVE  \/ PruneWorktrees(c) /\ staging[a] = Leftover /\ staging'[a] = NoStaging
           \/ /\ ApprovalOf(c) = a
              /\ \/ AddStaging(c) /\ run[c].request = Apply(a) /\ staging[a] = NoStaging
                       /\ staging'[a] = [dir |-> "there", files |-> branch, index |-> branch]
                 \/ FillStaging(c) /\ run[c].request = Apply(a) /\ staging'[a] = CopyProposalFiles(staging[a], a)
                 \/ (RemoveWorktree(c) \/ RemoveTree(c)) /\ run[c].request = Apply(a) /\ staging'[a].dir # "there"
                 \/ SyncIndex(c) /\ run[c].request = Commit(a) /\ staging'[a] = [staging[a] EXCEPT !.index = run[c].made]
                 \/ RevertIndex(c) /\ run[c].request = Commit(a) /\ staging'[a] = [staging[a] EXCEPT !.index = Payload(c)]
<1>0. TypeOK /\ RunsFit /\ staging \in [Approvals -> Staging]
  BY DEF Typed, TypeOK
<1>1. CASE AddStaging(c)
  <2> PICK b \in Approvals : run[c].request = Apply(b) /\ ApprovalOf(c) = b
    BY <1>0, <1>1, Whose DEF AddStaging, At, ApplySteps
  <2> QED BY <1>0, <1>1 DEF AddStaging, SetStaging
<1>2. CASE FillStaging(c)
  <2> PICK b \in Approvals : run[c].request = Apply(b) /\ ApprovalOf(c) = b
    BY <1>0, <1>2, Whose DEF FillStaging, At, ApplySteps
  <2> QED BY <1>0, <1>2 DEF FillStaging, SetStaging
<1>3. CASE RemoveWorktree(c) \/ RemoveTree(c)
  <2> PICK b \in Approvals : run[c].request = Apply(b) /\ ApprovalOf(c) = b
    BY <1>0, <1>3, Whose DEF RemoveWorktree, RemoveTree, At, ApplySteps
  <2>1. \E w \in {staging[b], NoStaging, Leftover} : staging' = [staging EXCEPT ![b] = w]
    <3>1. CASE RemoveWorktree(c)
      BY <1>0, <3>1 DEF RemoveWorktree, SetStaging
    <3>2. CASE RemoveTree(c)
      <4>1. staging' = staging \/ staging' = [staging EXCEPT ![b] = Leftover]
        BY <3>2 DEF RemoveTree, SetStaging, NoEffect, git
      <4> QED BY <1>0, <4>1
    <3> QED BY <1>3, <3>1, <3>2
  <2>2. a = b /\ staging'[a] \in {NoStaging, Leftover}
    BY <1>0, <2>1
  <2> QED BY <1>3, <2>2, StagingEntries DEF NoStaging, Leftover
<1>4. CASE SyncIndex(c)
  <2> PICK b \in Approvals : run[c].request = Commit(b) /\ ApprovalOf(c) = b
    BY <1>0, <1>4, Whose DEF SyncIndex, At, CommitSteps
  <2> QED BY <1>0, <1>4 DEF SyncIndex, ReadTree
<1>5. CASE RevertIndex(c)
  <2> PICK b \in Approvals : run[c].request = Commit(b) /\ ApprovalOf(c) = b
    BY <1>0, <1>5, Whose DEF RevertIndex, At, CommitSteps
  <2> QED BY <1>0, <1>5 DEF RevertIndex, ReadTree
<1>6. CASE PruneWorktrees(c)
  BY <1>0, <1>6 DEF PruneWorktrees
<1> QED BY <1>1, <1>2, <1>3, <1>4, <1>5, <1>6, RunSteps

\* A step of another run changes nothing for the run of c.
LEMMA OtherRuns ==
    ASSUME NEW c \in Threads, Others(c), NEW d \in Threads, d # c, NEW a
    PROVE  (Holds(d, a)' <=> Holds(d, a)) /\ (Owes(d, a)' <=> Owes(d, a))
BY DEF Others, Holds, Owes

\* How a run stops to answer for a staging worktree: it is gone, or the outcome says so.
LEMMA HoldsOn ==
    ASSUME Typed, NEW c \in Threads, RunStep(c) \/ WorkerDies(c), NEW a \in Approvals, Holds(c, a)
    PROVE  \/ Holds(c, a)'
           \/ staging'[a].dir # "there"
           \/ Apply(a) \in unreported'
           \/ reports'[Apply(a)] \cap {"success", "incomplete"} # {}
<1>0. TypeOK /\ RunsFit /\ Apply(a) \in Requests /\ run[c].request = Apply(a)
  BY RequestNames DEF Typed, Holds
<1>a. ApprovalOf(c) = a /\ run[c] # NoRun
  BY <1>0, RequestNames, RunOrNone DEF ApprovalOf, Holds, Keeping
<1>1. ASSUME NEW step \in Keeping, GoOn(c, step)
      PROVE  Holds(c, a)'
  BY <1>0, <1>a, <1>1, GoesOn DEF Holds, Steps, Keeping
<1>2. ASSUME NEW o \in {"success", "incomplete"}, NEW v, Return(c, o, v)
      PROVE  reports'[Apply(a)] \cap {"success", "incomplete"} # {}
  BY <1>0, <1>a, <1>2, Ending DEF Outcome
<1>3. CASE CheckStagingHead(c) \/ ApplyRaises(c) \/ RemoveWorktree(c) \/ PruneWorktrees(c)
  BY <1>1, <1>3 DEF CheckStagingHead, ApplyRaises, RemoveWorktree, PruneWorktrees, Keeping
<1>4. CASE FillStaging(c)
  <2>1. run[c] \in Run /\ run \in [Threads -> Run \cup {NoRun}]
    BY <1>0, <1>a, Whose DEF TypeOK
  <2>2. run'[c].at = "verify_applied" /\ run'[c].request = run[c].request
    BY <1>4, <2>1 DEF FillStaging, Run
  <2> QED BY <1>0, <2>2 DEF Holds, Keeping
<1>5. CASE VerifyApplied(c)
  BY <1>2, <1>5 DEF VerifyApplied
<1>6. CASE RemoveTree(c)
  <2>1. staging' = [staging EXCEPT ![a] = Leftover] => staging'[a] = Leftover
    BY <1>0 DEF TypeOK
  <2> QED BY <1>0, <1>a, <1>6, <2>1 DEF RemoveTree, SetStaging, Leftover, NoEffect, git
<1>7. CASE CleanFails(c)
  BY <1>0, <1>2, <1>7 DEF CleanFails
<1>8. CASE WorkerDies(c)
  BY <1>0, <1>8 DEF WorkerDies
<1> QED BY <1>3, <1>4, <1>5, <1>6, <1>7, <1>8, RunSteps DEF Holds

\* How a run stops to answer for a commit: it was taken back, or the outcome says so.
LEMMA OwesOn ==
    ASSUME Typed, NEW c \in Threads, RunStep(c) \/ WorkerDies(c), NEW a \in Approvals, Owes(c, a)
    PROVE  \/ Owes(c, a)'
           \/ RevertRef(c)
           \/ Commit(a) \in unreported'
           \/ reports'[Commit(a)] \cap {"success", "incomplete"} # {}
<1>0. TypeOK /\ RunsFit /\ Commit(a) \in Requests /\ run[c].request = Commit(a) /\ ~run[c].reverted
  BY RequestNames DEF Typed, Owes
<1>a. run[c] # NoRun
  BY RunOrNone DEF Owes, Steps
<1>1. ASSUME NEW step \in {"verify_tree", "verify_digest", "revert_ref", "revert_index"}, GoOn(c, step)
      PROVE  Owes(c, a)'
  BY <1>0, <1>a, <1>1, GoesOn DEF Owes, Steps
<1>2. ASSUME NEW o \in {"success", "incomplete"}, NEW v, Return(c, o, v)
      PROVE  reports'[Commit(a)] \cap {"success", "incomplete"} # {}
  BY <1>0, <1>a, <1>2, Ending DEF Outcome
<1>3. CASE SyncIndex(c) \/ VerifyTree(c) \/ CommitRaises(c) \/ RevertRefFails(c)
  BY <1>1, <1>3 DEF SyncIndex, VerifyTree, CommitRaises, RevertRefFails
<1>4. CASE VerifyDigest(c)
  BY <1>2, <1>4 DEF VerifyDigest
<1>5. CASE RevertIndex(c) \/ RevertIndexFails(c)
  BY <1>0, <1>2, <1>5 DEF RevertIndex, RevertIndexFails
<1>6. CASE WorkerDies(c) \/ CommitEscapes(c)
  BY <1>0, <1>6 DEF WorkerDies, CommitEscapes
<1> QED BY <1>3, <1>4, <1>5, <1>6, RunSteps DEF Owes

-----------------------------------------------------------------------------
(***************************************************************************)
(* Who answers for a staging worktree and for a commit on the branch.      *)
(***************************************************************************)

StagingKnown ==
    \A a \in Approvals :
        staging[a].dir = "there" =>
            \/ \E c \in Threads : Holds(c, a)
            \/ Apply(a) \in unreported
            \/ reports[Apply(a)] \cap {"success", "incomplete"} # {}

\* What the requests say of a commit once nobody works on it.
Told(a) == Commit(a) \in unreported \/ reports[Commit(a)] \cap {"success", "incomplete"} # {}

CommitKnown ==
    branch \in Changes => \E a \in Approvals : Told(a) \/ \E c \in Threads : Owes(c, a)

Accounts == StagingKnown /\ CommitKnown

LEMMA InitAccounts == Init => Accounts
<1> SUFFICES ASSUME Init PROVE Accounts
  OBVIOUS
<1>1. branch \notin Changes
  BY HeadsAssumption DEF Init, Changes
<1>2. \A a \in Approvals : staging[a].dir # "there"
  BY DEF Init, NoStaging
<1> QED BY <1>1, <1>2 DEF Accounts, StagingKnown, CommitKnown

\* What was told stays told.
LEMMA ToldOn ==
    ASSUME Kept, NEW a \in Approvals
    PROVE  /\ Told(a) => Told(a)'
           /\ Apply(a) \in unreported => Apply(a) \in unreported'
           /\ reports[Apply(a)] \cap {"success", "incomplete"} # {} => reports'[Apply(a)] \cap {"success", "incomplete"} # {}
BY RequestNames DEF Kept, Told

LEMMA AccountsWithoutRuns ==
    ASSUME Typed, Known, Accounts, Next, UNCHANGED run,
           \A a \in Approvals : staging'[a].dir = "there" => staging[a].dir = "there",
           branch' \in Changes => branch' = branch
    PROVE  Accounts'
<1>0. Kept /\ \A c \in Threads : \A a : (Holds(c, a)' <=> Holds(c, a)) /\ (Owes(c, a)' <=> Owes(c, a))
  BY AlwaysKept DEF Known, Holds, Owes
<1>1. StagingKnown'
  BY <1>0, ToldOn DEF Accounts, StagingKnown
<1>2. CommitKnown'
  BY <1>0, ToldOn DEF Accounts, CommitKnown
<1> QED BY <1>1, <1>2 DEF Accounts

LEMMA PayloadOfCommit ==
    ASSUME Typed, Known, NEW c \in Threads, NEW a \in Approvals, run[c] # NoRun, run[c].request = Commit(a)
    PROVE  /\ Payload(c) = payload[Commit(a)] /\ Payload(c) = payload[Apply(a)] /\ Payload(c) \in Bases
           /\ Applied(a) /\ proposed[a] # None /\ DigestOf[Approved(a)] \in agreed
BY RequestNames DEF Typed, RunsFit, Known, ResultsKnown, CommitsFollow, AgreedFirst, Payload

\* The ways in which a commit gets onto the branch and off it.
LEMMA BranchMoves ==
    ASSUME Typed, Known, NEW c \in Threads, RunStep(c), branch' # branch
    PROVE  \/ MakeBranch(c) /\ branch = None /\ branch' \in Bases
           \/ \E a \in Approvals :
                /\ MoveRef(c) /\ run[c].request = Commit(a)
                /\ branch = Payload(c) /\ branch' = run[c].made
           \/ \E a \in Approvals :
                /\ RevertRef(c) /\ run[c].request = Commit(a)
                /\ branch = run[c].made /\ branch' = Payload(c) /\ Payload(c) \in Bases
<1>0. TypeOK /\ RunsFit /\ run[c] # NoRun
  BY Flow DEF Typed, Flows
<1>1. CASE MakeBranch(c)
  BY <1>0, <1>1, Whose DEF MakeBranch, At
<1>2. CASE MoveRef(c)
  <2> PICK a \in Approvals : run[c].request = Commit(a)
    BY <1>0, <1>2, Whose DEF MoveRef, At, CommitSteps
  <2> QED BY <1>0, <1>2, PayloadOfCommit DEF MoveRef
<1>3. CASE RevertRef(c)
  <2> PICK a \in Approvals : run[c].request = Commit(a)
    BY <1>0, <1>3, Whose DEF RevertRef, At, CommitSteps
  <2> QED BY <1>0, <1>3, PayloadOfCommit DEF RevertRef
<1> QED BY <1>1, <1>2, <1>3, RunSteps

LEMMA NoBaseIsChange == \A b \in Bases : b \notin Changes
BY HeadsAssumption DEF Changes

LEMMA AccountsRunStep ==
    ASSUME Typed, Known, Accounts, NEW c \in Threads, RunStep(c)
    PROVE  Accounts'
<1>0. TypeOK /\ RunsFit /\ Kept /\ run[c] # NoRun /\ run[c].request \in Requests /\ Others(c) /\ Next
  <2>1. Flows(c) /\ Next
    BY Flow DEF Typed, Next, RunStep
  <2> QED BY <2>1, AlwaysKept, PayloadTyped DEF Typed, Known, Flows, Proceeds, Refuses, Succeeds, Lapses
<1>1. StagingKnown'
  <2> SUFFICES ASSUME NEW a \in Approvals, staging'[a].dir = "there"
               PROVE  \/ \E d \in Threads : Holds(d, a)'
                      \/ Apply(a) \in unreported'
                      \/ reports'[Apply(a)] \cap {"success", "incomplete"} # {}
    BY DEF StagingKnown
  <2>1. CASE staging[a].dir = "there"
    <3>1. CASE \E d \in Threads : Holds(d, a)
      <4> PICK d \in Threads : Holds(d, a)
        BY <3>1
      <4>1. CASE d = c
        BY <4>1, HoldsOn
      <4>2. CASE d # c
        BY <1>0, <4>2, OtherRuns
      <4> QED BY <4>1, <4>2
    <3>2. CASE Apply(a) \in unreported \/ reports[Apply(a)] \cap {"success", "incomplete"} # {}
      BY <1>0, <3>2, ToldOn
    <3> QED BY <2>1, <3>1, <3>2 DEF Accounts, StagingKnown
  <2>2. CASE staging[a].dir # "there"
    <3>1. AddStaging(c) /\ run[c].request = Apply(a)
      <4>1. staging'[a] # staging[a]
        BY <2>2
      <4>2. (~FillStaging(c) /\ ~SyncIndex(c) /\ ~RevertIndex(c)) \/ ApprovalOf(c) # a
        BY <2>2 DEF FillStaging, SyncIndex, RevertIndex, ReadTree
      <4>3. NoStaging.dir # "there"
        BY DEF NoStaging
      <4> QED BY <4>1, <4>2, <4>3, StagingSteps
    <3>2. CASE GoOn(c, "base_again")
      <4>1. Holds(c, a)'
        BY <1>0, <3>1, <3>2, GoesOn DEF Holds, Keeping, Steps
      <4> QED BY <4>1
    <3>3. CASE unreported' = unreported \cup {run[c].request}
      BY <3>1, <3>3
    <3> QED BY <3>1, <3>2, <3>3 DEF AddStaging, DoneOrKilled
  <2> QED BY <2>1, <2>2
<1>2. CommitKnown'
  <2> SUFFICES ASSUME branch' \in Changes
               PROVE  \E a \in Approvals : Told(a)' \/ \E d \in Threads : Owes(d, a)'
    BY DEF CommitKnown
  <2>0. ~RevertRef(c)
    <3> SUFFICES ASSUME RevertRef(c) PROVE FALSE
      OBVIOUS
    <3> PICK a \in Approvals : run[c].request = Commit(a)
      BY <1>0, Whose DEF RevertRef, At, CommitSteps
    <3>1. branch' \in Bases
      BY <1>0, PayloadOfCommit DEF RevertRef
    <3> QED BY <3>1, NoBaseIsChange
  <2>1. CASE branch' = branch
    <3> PICK a \in Approvals : Told(a) \/ \E d \in Threads : Owes(d, a)
      BY <2>1 DEF Accounts, CommitKnown
    <3>1. CASE Told(a)
      BY <1>0, <3>1, ToldOn
    <3>2. ASSUME NEW d \in Threads, Owes(d, a)
          PROVE  Told(a)' \/ \E e \in Threads : Owes(e, a)'
      <4>1. CASE d = c
        BY <2>0, <3>2, <4>1, OwesOn DEF Told
      <4>2. CASE d # c
        BY <1>0, <3>2, <4>2, OtherRuns
      <4> QED BY <4>1, <4>2
    <3> QED BY <3>1, <3>2
  <2>2. CASE branch' # branch
    <3>1. branch' \notin Bases
      BY NoBaseIsChange
    <3> PICK a \in Approvals : MoveRef(c) /\ run[c].request = Commit(a)
      BY <2>0, <2>2, <3>1, BranchMoves
    <3>2. CASE GoOn(c, "sync")
      <4>1. ~run[c].reverted
        BY <1>0, Whose DEF MoveRef, At, CommitSteps
      <4>2. Owes(c, a)'
        BY <1>0, <3>2, <4>1, GoesOn DEF Owes, Steps
      <4> QED BY <4>2
    <3>3. CASE unreported' = unreported \cup {run[c].request}
      BY <3>3 DEF Told
    <3> QED BY <3>2, <3>3 DEF MoveRef, DoneOrKilled
  <2> QED BY <2>1, <2>2
<1> QED BY <1>1, <1>2 DEF Accounts

LEMMA AccountsStep == Typed /\ Known /\ Accounts /\ [Next]_vars => Accounts'
<1> SUFFICES ASSUME Typed, Known, Accounts, [Next]_vars PROVE Accounts'
  OBVIOUS
<1>0. TypeOK /\ RunsFit
  BY DEF Typed
<1>1. CASE UNCHANGED vars
  BY <1>1 DEF Accounts, StagingKnown, CommitKnown, Holds, Owes, Told, vars, git, requests
<1>2. ASSUME Next, OfPeople \/ OfRequests
      PROVE  Accounts'
  <2>1. UNCHANGED <<git, run>>
    <3>1. CASE OfPeople
      BY <3>1, TypedOfPeople
    <3>2. CASE OfRequests
      BY <3>2, Created DEF CreateRequest
    <3> QED BY <1>2, <3>1, <3>2
  <2> QED BY <1>2, <2>1, AccountsWithoutRuns DEF git
<1>3. ASSUME Next, Meddling
      PROVE  Accounts'
  <2>1. UNCHANGED run
    BY <1>3, TypedMeddling
  <2>2. branch' \in Changes => branch' = branch
    <3>1. {None, Other} \cap Changes = {}
      BY HeadsAssumption DEF Changes
    <3> QED BY <1>3, <3>1 DEF Meddling, SourceCommit, BranchMoved, RemoteWritten, StagingTouched
  <2>3. ASSUME NEW b \in Approvals, staging'[b].dir = "there"
        PROVE  staging[b].dir = "there"
    BY <1>0, <1>3, <2>3 DEF Meddling, SourceCommit, BranchMoved, RemoteWritten, StagingTouched, TypeOK, NoStaging
  <2> QED BY <1>3, <2>1, <2>2, <2>3, AccountsWithoutRuns
<1>4. ASSUME Next, NEW c \in Threads, NEW r \in Requests, StartRun(c, r)
      PROVE  Accounts'
  <2>1. /\ Kept /\ UNCHANGED <<git, unreported, reports>>
        /\ run[c] = NoRun /\ Others(c)
    BY <1>0, <1>4, AlwaysKept, Starts DEF Known, StartRun
  <2>2. \A d \in Threads : \A a : (Holds(d, a) => Holds(d, a)') /\ (Owes(d, a) => Owes(d, a)')
    <3>1. \A a : ~Holds(c, a) /\ ~Owes(c, a)
      BY <2>1, RunOrNone DEF Holds, Owes, Keeping, Steps
    <3> QED BY <2>1, <3>1, OtherRuns
  <2>3. StagingKnown'
    BY <2>1, <2>2 DEF Accounts, StagingKnown, git
  <2>4. CommitKnown'
    BY <2>1, <2>2 DEF Accounts, CommitKnown, git, Told
  <2> QED BY <2>3, <2>4 DEF Accounts
<1>5. ASSUME Next, NEW c \in Threads, RunStep(c)
      PROVE  Accounts'
  BY <1>5, AccountsRunStep
<1>6. ASSUME Next, NEW c \in Threads, WorkerDies(c)
      PROVE  Accounts'
  <2>1. Kept /\ UNCHANGED git /\ Others(c)
    BY <1>0, <1>6, AlwaysKept, Dies DEF Known
  <2>2. \A d \in Threads : \A a \in Approvals :
          /\ Holds(d, a) => Holds(d, a)' \/ Apply(a) \in unreported' \/ reports'[Apply(a)] \cap {"success", "incomplete"} # {}
          /\ Owes(d, a) => Owes(d, a)' \/ Told(a)'
    <3>1. \A d \in Threads : \A a \in Approvals :
            d = c => /\ Holds(d, a) => Apply(a) \in unreported'
                     /\ Owes(d, a) => Commit(a) \in unreported'
      BY <1>6 DEF WorkerDies, Holds, Owes
    <3> QED BY <2>1, <3>1, OtherRuns DEF Told
  <2>3. StagingKnown'
    BY <2>1, <2>2, ToldOn DEF Accounts, StagingKnown, git
  <2>4. CommitKnown'
    BY <2>1, <2>2, ToldOn DEF Accounts, CommitKnown, git
  <2> QED BY <2>3, <2>4 DEF Accounts
<1> QED BY <1>1, <1>2, <1>3, <1>4, <1>5, <1>6, NextCases

\* The inductive invariant that the accounts rest on.
THEOREM AccountsHold == Spec => [](Typed /\ Known /\ Accounts)
<1>1. Init => Typed /\ Known /\ Accounts
  BY InitTyped, InitKnown, InitAccounts
<1>2. Typed /\ Known /\ Accounts /\ [Next]_vars => (Typed /\ Known /\ Accounts)'
  BY TypedStep, KnownStep, AccountsStep
<1> QED BY <1>1, <1>2, PTL DEF Spec

\* A staging worktree that outlives the runs of its apply request is the result of
\* a success or was reported as an incomplete cleanup: execute_apply_git_change
\* removes what it made or says that it could not, unless an error of the last removal
\* is ignored or the run is killed.
THEOREM StagingIsAccounted == Spec => []StagingAccounted
<1>1. Typed /\ Known /\ Accounts => StagingAccounted
  <2> SUFFICES ASSUME Typed, Accounts, NEW a \in Approvals, staging[a].dir = "there", Unexplained(Apply(a))
               PROVE  reports[Apply(a)] \cap {"success", "incomplete"} # {}
    BY DEF StagingAccounted, Apply
  <2>1. \A c \in Threads : ~Holds(c, a)
    BY RunOrNone DEF Unexplained, Running, Holds, Keeping, Steps
  <2> QED BY <2>1 DEF Accounts, StagingKnown, Unexplained
<1> QED BY <1>1, AccountsHold, PTL

\* A branch with a commit of the program has a request that says so: execute_create_commit
\* takes its commit back or says that it could not, unless it is killed or the
\* exception of a command that cannot be started leaves it.
THEOREM CommitIsAccounted == Spec => []CommitAccounted
<1>1. Typed /\ Known /\ Accounts => CommitAccounted
  <2> SUFFICES ASSUME Typed, Accounts, branch \in Changes, \A a \in Approvals : Unexplained(Commit(a))
               PROVE  \E a \in Approvals : reports[Commit(a)] \cap {"success", "incomplete"} # {}
    BY DEF CommitAccounted, Commit
  <2>1. \A a \in Approvals : \A c \in Threads : ~Owes(c, a)
    BY RunOrNone DEF Unexplained, Running, Owes, Steps
  <2> QED BY <2>1 DEF Accounts, CommitKnown, Told, Unexplained
<1> QED BY <1>1, AccountsHold, PTL

-----------------------------------------------------------------------------
(***************************************************************************)
(* Who answers for the published ref.                                      *)
(***************************************************************************)

\* A run answers for the ref that it has created, until it has returned.
Publishes(c, a) == run[c].at = "confirm" /\ run[c].request = Publish(a)

\* What the request of a publication says once nobody works on it.
PublishTold(a) == Publish(a) \in unreported \/ reports[Publish(a)] \cap {"success", "reconcile"} # {}

RemoteKnown ==
    remote \in Changes =>
        \E a \in Approvals :
            /\ request[Publish(a)] # "absent" /\ payload[Publish(a)] = remote
            /\ PublishTold(a) \/ \E c \in Threads : Publishes(c, a)

\* How a run stops to answer for the ref: the outcome says so.
LEMMA PublishesOn ==
    ASSUME Typed, NEW c \in Threads, RunStep(c) \/ WorkerDies(c), NEW a \in Approvals, Publishes(c, a)
    PROVE  Publish(a) \in unreported' \/ reports'[Publish(a)] \cap {"success", "reconcile"} # {}
<1>0. TypeOK /\ Publish(a) \in Requests /\ run[c].request = Publish(a) /\ run[c] # NoRun
  BY RequestNames, RunOrNone DEF Typed, Publishes, Steps
<1>1. ASSUME NEW o \in {"success", "reconcile"}, NEW v, Return(c, o, v)
      PROVE  reports'[Publish(a)] \cap {"success", "reconcile"} # {}
  BY <1>0, <1>1, Ending DEF Outcome
<1>2. CASE Confirm(c)
  BY <1>1, <1>2 DEF Confirm
<1>3. CASE ConfirmRaises(c) \/ WorkerDies(c)
  BY <1>0, <1>3 DEF ConfirmRaises, WorkerDies
<1>4. ASSUME RunStep(c) PROVE Confirm(c) \/ ConfirmRaises(c)
  <2> USE DEF At, Publishes
  <2>1. ~GiveUp(c) /\ ~ReadHead(c) /\ ~MakeBranch(c)
    BY DEF GiveUp, ReadHead, MakeBranch
  <2>2. ~ApplyStep(c)
    BY DEF ApplyStep, ResolveBase, AddStaging, CheckStagingHead, FillStaging, VerifyApplied, ApplyRaises,
      RemoveWorktree, PruneWorktrees, RemoveTree, CleanFails
  <2>3. ~CommitStep(c)
    BY DEF CommitStep, CheckDrift, CheckContent, BuildCommit, MoveRef, SyncIndex, VerifyTree, VerifyDigest,
        CommitRaises, CommitEscapes, RevertRef, RevertRefFails, RevertIndex, RevertIndexFails
  <2>4. PublishStep(c)
    BY <1>4, <2>1, <2>2, <2>3 DEF RunStep
  <2> QED BY <2>4 DEF PublishStep, CheckState, Transfer, CheckObjects, CreateRef
<1> QED BY <1>2, <1>3, <1>4

\* Without a new ref, what was known of the ref stays known: runs that do not take
\* this step go on, and one that does says what it has done.
LEMMA RemoteStays ==
    ASSUME Kept, RemoteKnown, remote' \in Changes => remote' = remote,
           \A c \in Threads, a \in Approvals :
                Publishes(c, a) => Publishes(c, a)' \/ PublishTold(a)'
    PROVE  RemoteKnown'
<1> SUFFICES ASSUME remote' \in Changes PROVE RemoteKnown'
  BY DEF RemoteKnown
<1>1. PICK a \in Approvals :
        /\ request[Publish(a)] # "absent" /\ payload[Publish(a)] = remote
        /\ PublishTold(a) \/ \E c \in Threads : Publishes(c, a)
  BY DEF RemoteKnown
<1>2. request'[Publish(a)] # "absent" /\ payload'[Publish(a)] = remote'
  BY <1>1, RequestNames DEF Kept
<1>3. PublishTold(a) => PublishTold(a)'
  BY RequestNames DEF Kept, PublishTold
<1> QED BY <1>1, <1>2, <1>3 DEF RemoteKnown

LEMMA RemoteRunStep ==
    ASSUME Typed, Known, RemoteKnown, NEW c \in Threads, RunStep(c)
    PROVE  RemoteKnown'
<1>0. TypeOK /\ RunsFit /\ Kept /\ run[c] # NoRun /\ run[c].request \in Requests /\ Others(c)
      /\ request[run[c].request] # "absent"
  <2>1. Flows(c) /\ Next
    BY Flow DEF Typed, Next, RunStep
  <2> QED BY <2>1, AlwaysKept, PayloadTyped DEF Typed, RunsFit, Flows, Proceeds, Refuses, Succeeds, Lapses
<1>1. CASE remote' = remote
  <2>1. ASSUME NEW d \in Threads, NEW a \in Approvals, Publishes(d, a) PROVE Publishes(d, a)' \/ PublishTold(a)'
    <3>1. CASE d = c
      BY <2>1, <3>1, PublishesOn DEF PublishTold
    <3>2. CASE d # c
      BY <1>0, <2>1, <3>2 DEF Others, Publishes
    <3> QED BY <3>1, <3>2
  <2> QED BY <1>0, <1>1, <2>1, RemoteStays
<1>2. CASE CreateRef(c)
  <2>1. PICK a \in Approvals : run[c].request = Publish(a)
    BY <1>0, <1>2, Whose DEF CreateRef, At, PublishSteps
  <2>2. remote' = payload[Publish(a)]
    BY <1>2, <2>1 DEF CreateRef, Payload
  <2>3. request'[Publish(a)] # "absent" /\ payload'[Publish(a)] = remote'
    BY <1>0, <2>1, <2>2 DEF Kept
  <2>4. CASE GoOn(c, "confirm")
    <3>1. Publishes(c, a)'
      BY <1>0, <2>1, <2>4, GoesOn DEF Publishes, Steps
    <3> QED BY <2>3, <3>1 DEF RemoteKnown
  <2>5. CASE unreported' = unreported \cup {run[c].request}
    <3>1. PublishTold(a)'
      BY <2>1, <2>5 DEF PublishTold
    <3> QED BY <2>3, <3>1 DEF RemoteKnown
  <2> QED BY <1>2, <2>4, <2>5 DEF CreateRef, DoneOrKilled
<1> QED BY <1>1, <1>2, RunSteps

LEMMA RemoteStep == Typed /\ Known /\ RemoteKnown /\ [Next]_vars => RemoteKnown'
<1> SUFFICES ASSUME Typed, Known, RemoteKnown, [Next]_vars PROVE RemoteKnown'
  OBVIOUS
<1>0. TypeOK /\ RunsFit
  BY DEF Typed
<1>1. CASE UNCHANGED vars
  BY <1>1 DEF RemoteKnown, Publishes, PublishTold, vars, git, requests
<1>2. ASSUME Kept, UNCHANGED run, remote' \in Changes => remote' = remote
      PROVE  RemoteKnown'
  BY <1>2, RemoteStays DEF Publishes
<1>3. ASSUME Next, OfPeople \/ OfRequests \/ Meddling
      PROVE  RemoteKnown'
  <2>1. Kept
    BY <1>3, AlwaysKept DEF Known
  <2>2. CASE OfPeople
    BY <1>2, <2>1, <2>2, TypedOfPeople DEF git
  <2>3. CASE OfRequests
    BY <1>2, <2>1, <2>3, Created DEF CreateRequest, git
  <2>4. CASE Meddling
    <3>1. {None, Other} \cap Changes = {}
      BY HeadsAssumption DEF Changes
    <3>2. remote' \in Changes => remote' = remote
      BY <2>4, <3>1 DEF Meddling, SourceCommit, BranchMoved, RemoteWritten, StagingTouched
    <3> QED BY <1>2, <2>1, <2>4, <3>2, TypedMeddling
  <2> QED BY <1>3, <2>2, <2>3, <2>4
<1>4. ASSUME Next, NEW c \in Threads, NEW r \in Requests, StartRun(c, r)
      PROVE  RemoteKnown'
  <2>1. /\ Kept /\ UNCHANGED git /\ run[c] = NoRun /\ Others(c)
    BY <1>0, <1>4, AlwaysKept, Starts DEF Known, StartRun
  <2>2. \A d \in Threads, a \in Approvals : Publishes(d, a) => Publishes(d, a)'
    <3>1. \A a : ~Publishes(c, a)
      BY <2>1, RunOrNone DEF Publishes, Steps
    <3> QED BY <2>1, <3>1 DEF Others, Publishes
  <2> QED BY <2>1, <2>2, RemoteStays DEF git
<1>5. ASSUME Next, NEW c \in Threads, RunStep(c)
      PROVE  RemoteKnown'
  BY <1>5, RemoteRunStep
<1>6. ASSUME Next, NEW c \in Threads, WorkerDies(c)
      PROVE  RemoteKnown'
  <2>1. Kept /\ UNCHANGED git /\ Others(c)
    BY <1>0, <1>6, AlwaysKept, Dies DEF Known
  <2>2. ASSUME NEW d \in Threads, NEW a \in Approvals, Publishes(d, a) PROVE Publishes(d, a)' \/ PublishTold(a)'
    <3>1. CASE d = c
      BY <1>6, <2>2, <3>1, PublishesOn DEF PublishTold
    <3>2. CASE d # c
      BY <2>1, <2>2, <3>2 DEF Others, Publishes
    <3> QED BY <3>1, <3>2
  <2> QED BY <2>1, <2>2, RemoteStays DEF git
<1> QED BY <1>1, <1>3, <1>4, <1>5, <1>6, NextCases

\* A published ref has a publication of its commit that says so: execute_publish_branch
\* answers success or asks for reconciliation, unless what it did was cut off.
THEOREM PublicationIsAccounted == Spec => []PublicationAccounted
<1>1. Init => RemoteKnown
  <2>1. {None, Other} \cap Changes = {}
    BY HeadsAssumption DEF Changes
  <2> QED BY <2>1 DEF Init, RemoteKnown
<1>2. Typed /\ Known /\ RemoteKnown => PublicationAccounted
  <2> SUFFICES ASSUME Typed, RemoteKnown, remote \in Changes, \A a \in Approvals : Unexplained(Publish(a))
               PROVE  \E a \in Approvals :
                        payload[Publish(a)] = remote /\ reports[Publish(a)] \cap {"success", "reconcile"} # {}
    BY DEF PublicationAccounted, Publish
  <2>1. \A a \in Approvals : \A c \in Threads : ~Publishes(c, a)
    BY RunOrNone DEF Unexplained, Running, Publishes, Steps
  <2> QED BY <2>1 DEF RemoteKnown, PublishTold, Unexplained
<1> QED BY <1>1, <1>2, AccountsHold, RemoteStep, PTL DEF Spec

=============================================================================
