------------------------- MODULE GitHubPublication -------------------------
(***************************************************************************)
(* The adapters that publish a reviewed commit to GitHub and open a pull   *)
(* request for it (app/github_publish_executor.py,                         *)
(* app/github_pr_executor.py), and the requests the resolvers admit        *)
(* (app/github_publish_resolver.py, app/github_pr_resolver.py).            *)
(*                                                                         *)
(* A run of an adapter is a thread that makes one remote call after the    *)
(* other; owners of the repository write to it in between.  A call that    *)
(* writes is answered, refused, or not answered in time, and one that was  *)
(* not answered may be carried out later or never.  How requests come to   *)
(* be run, and that a stale execute may run one twice, is in               *)
(* ControlledExecutor.                                                     *)
(***************************************************************************)
EXTENDS Naturals

CONSTANTS
    Threads,        \* server threads
    Publishes,      \* publish_github_branch requests for one local publication
    Pulls,          \* create_pull_request requests for it
    MaxRuns         \* bound: how many runs there are in all

ASSUME KindsAssumption == Publishes \cap Pulls = {}
ASSUME MaxRunsAssumption == MaxRuns \in Nat

VARIABLES
    branch,         \* GitHub: head of the final branch
    staging,        \* GitHub: head of the staging ref of each request
    pull,           \* GitHub: a pull request is open for the branch
    late,           \* calls that were not answered and may still be carried out
    request,        \* executor_requests.status
    run,            \* the run each thread executes
    started,        \* how many runs there were
    reports,        \* the outcomes the runs of each request returned
    did,            \* the requests that created the branch, or opened a pull request
    unanswered,     \* writing calls that were not answered, by request
    died            \* requests of runs that were cut off

remote == <<branch, staging, pull>>
history == <<did, unanswered, died>>
vars == <<remote, late, request, run, started, reports, history>>

Requests == Publishes \cup Pulls
Heads == {"none", "reviewed", "other"}

\* What a run is about to do.
PublishSteps ==
    {"precheck_branch", "precheck_staging", "push", "verify_staged", "create", "verify_final", "cleanup"}
PullSteps == {"head", "search", "open", "verify_pull"}

\* `created` and `failure` are the locals of execute ("": none yet); `staged` is
\* true from the push on.
Failures == {"", "github_publication_failed", "post_verify_failed"}
Run == [request: Requests, at: PublishSteps \cup PullSteps, created: BOOLEAN, failure: Failures]
NoRun == [at |-> "idle"]

\* What an outcome says: success, a failure, or one that somebody has to look at
\* (manual_reconciliation_required).
Outcome == {"success", "failure", "reconcile"}

Writes == {"push", "create", "delete", "open"}
LateCall == [write: Writes, request: Requests]

TypeOK ==
    /\ branch \in Heads
    /\ staging \in [Publishes -> Heads]
    /\ pull \in BOOLEAN
    /\ late \subseteq LateCall
    /\ request \in [Requests -> {"absent", "ready", "running", "completed", "failed", "cancelled"}]
    /\ run \in [Threads -> Run \cup {NoRun}]
    /\ started \in 0..MaxRuns
    /\ reports \in [Requests -> SUBSET Outcome]
    /\ did \subseteq Requests
    /\ unanswered \subseteq LateCall
    /\ died \subseteq Requests

\* The commit is in the local bare repository; GitHub may have a branch of that name.
Init ==
    /\ branch \in {"none", "other"}
    /\ staging = [r \in Publishes |-> "none"]
    /\ pull = FALSE
    /\ late = {}
    /\ request = [r \in Requests |-> "absent"]
    /\ run = [c \in Threads |-> NoRun]
    /\ started = 0
    /\ reports = [r \in Requests |-> {}]
    /\ did = {}
    /\ unanswered = {}
    /\ died = {}

-----------------------------------------------------------------------------
(* Requests. *)

SetRequest(r, status) ==
    /\ request' = [request EXCEPT ![r] = status]
    /\ UNCHANGED <<remote, late, run, started, reports, history>>

\* A request is admitted if every other of its kind for this publication has
\* failed or was cancelled; the log of the execution orders two creations.
CreatePublishRequest(r) ==
    /\ request[r] = "absent"
    /\ \A prior \in Publishes : request[prior] \in {"absent", "failed", "cancelled"}
    /\ SetRequest(r, "ready")

CreatePullRequest(r) ==
    /\ request[r] = "absent"
    /\ \A prior \in Pulls : request[prior] \in {"absent", "failed", "cancelled"}
    /\ SetRequest(r, "ready")

\* Mutant of CancelRequest: a status that does not exist.
CancelMisspelt(r) ==
    /\ request[r] = "ready"
    /\ SetRequest(r, "canceled")

CancelRequest(r) ==
    /\ request[r] = "ready"
    /\ SetRequest(r, "cancelled")

\* An execute that read the request as released starts it, whatever it is by now.
StartRun(c, r) ==
    /\ run[c] = NoRun
    /\ request[r] # "absent"
    /\ started < MaxRuns
    /\ request' = [request EXCEPT ![r] = "running"]
    /\ started' = started + 1
    /\ run' = [run EXCEPT ![c] =
                  [request |-> r, at |-> IF r \in Publishes THEN "precheck_branch" ELSE "head",
                   created |-> FALSE, failure |-> ""]]
    /\ UNCHANGED <<remote, late, reports, history>>

\* The run returns the outcome o; the commit that records it may fail.
Return(c, o) ==
    LET r == run[c].request
    IN  /\ run' = [run EXCEPT ![c] = NoRun]
        /\ reports' = [reports EXCEPT ![r] = @ \cup {o}]
        /\ \/ request' = [request EXCEPT ![r] = IF o = "success" THEN "completed" ELSE "failed"]
           \/ UNCHANGED request
        /\ UNCHANGED started

GoOn(c, step) ==
    /\ run' = [run EXCEPT ![c].at = step]
    /\ UNCHANGED <<request, started, reports>>

At(c, step) == run[c].at = step

\* A call that writes gets no answer: GitHub may carry it out later.
Unanswered(c, write) ==
    LET call == [write |-> write, request |-> run[c].request]
    IN  /\ late' = late \cup {call}
        /\ unanswered' = unanswered \cup {call}
        /\ UNCHANGED <<remote, did, died>>

\* A call was answered, and changed nothing.
Unchanged == UNCHANGED <<remote, late, history>>

\* A call failed without effect, or was not answered in time.
FailsOrUnanswered(c, write) == Unchanged \/ Unanswered(c, write)

-----------------------------------------------------------------------------
(* GitHubBranchPublishExecutorAdapter.execute *)

\* Settings, credential or the local bare branch differ from what was resolved,
\* or GitHub cannot be asked.
PublishGivesUp(c) ==
    /\ run[c].at \in {"precheck_branch", "precheck_staging"}
    /\ Return(c, "failure")
    /\ Unchanged

PrecheckBranch(c) ==
    /\ At(c, "precheck_branch")
    /\ IF branch = "none" THEN GoOn(c, "precheck_staging") ELSE Return(c, "failure")
    /\ Unchanged

PrecheckStaging(c) ==
    /\ At(c, "precheck_staging")
    /\ IF staging[run[c].request] = "none" THEN GoOn(c, "push") ELSE Return(c, "failure")
    /\ Unchanged

\* git push with the lease that the staging ref does not exist.
PushAccepted(c) ==
    LET r == run[c].request
    IN  /\ At(c, "push")
        /\ staging[r] = "none"
        /\ staging' = [staging EXCEPT ![r] = "reviewed"]
        /\ run' = [run EXCEPT ![c].at = "verify_staged"]
        /\ UNCHANGED <<branch, pull, late, request, started, reports, history>>

\* A refusal, a broken connection and a timeout end the run before `staged`.
PushFails(c) ==
    /\ At(c, "push")
    /\ Return(c, "failure")
    /\ FailsOrUnanswered(c, "push")

\* What raises GitHubPublishError once the ref is staged leads to the cleanup.
FailWith(c, failure) ==
    /\ run' = [run EXCEPT ![c].at = "cleanup", ![c].failure = failure]
    /\ UNCHANGED <<request, started, reports>>

VerifyStaged(c) ==
    /\ At(c, "verify_staged")
    /\ \/ staging[run[c].request] = "reviewed" /\ GoOn(c, "create")
       \/ FailWith(c, "github_publication_failed")
    /\ Unchanged

\* Mutant of CreateAccepted: the final branch is pushed like the staging ref,
\* without the lease.
CreateForced(c) ==
    /\ At(c, "create")
    /\ branch' = "reviewed"
    /\ did' = did \cup {run[c].request}
    /\ run' = [run EXCEPT ![c].at = "verify_final", ![c].created = TRUE]
    /\ UNCHANGED <<staging, pull, late, request, started, reports, unanswered, died>>

CreateAccepted(c) ==
    /\ At(c, "create")
    /\ branch = "none"
    /\ branch' = "reviewed"
    /\ did' = did \cup {run[c].request}
    /\ run' = [run EXCEPT ![c].at = "verify_final", ![c].created = TRUE]
    /\ UNCHANGED <<staging, pull, late, request, started, reports, unanswered, died>>

CreateFails(c) ==
    /\ At(c, "create")
    /\ FailWith(c, "github_publication_failed")
    /\ FailsOrUnanswered(c, "create")

VerifyFinal(c) ==
    /\ At(c, "verify_final")
    /\ \/ branch = "reviewed" /\ GoOn(c, "cleanup")
       \/ branch # "reviewed" /\ FailWith(c, "post_verify_failed")
       \/ FailWith(c, "github_publication_failed")
    /\ Unchanged

\* Mutant of PublishOutcome: an error after the final branch was created looks
\* like one before.
CreationForgotten(q) ==
    CASE q.failure = ""                          -> "success"
      [] q.failure = "post_verify_failed"        -> "reconcile"
      [] q.failure = "github_publication_failed" -> "failure"

\* The outcome of a run whose staging ref is gone.
PublishOutcome(q) ==
    CASE q.failure = ""                          -> "success"
      [] q.failure = "post_verify_failed"        -> "reconcile"
      [] q.failure = "github_publication_failed" -> IF q.created THEN "reconcile" ELSE "failure"

CleanupAccepted(c) ==
    /\ At(c, "cleanup")
    /\ staging' = [staging EXCEPT ![run[c].request] = "none"]
    /\ Return(c, PublishOutcome(run[c]))
    /\ UNCHANGED <<branch, pull, late, history>>

\* Mutant of CleanupFails: an error of the cleanup is swallowed.
CleanupErrorIgnored(c) ==
    /\ At(c, "cleanup")
    /\ Return(c, PublishOutcome(run[c]))
    /\ FailsOrUnanswered(c, "delete")

\* temporary_ref_cleanup_failed, whatever happened before.
CleanupFails(c) ==
    /\ At(c, "cleanup")
    /\ Return(c, "reconcile")
    /\ FailsOrUnanswered(c, "delete")

PublishStep(c) ==
    \/ PublishGivesUp(c) \/ PrecheckBranch(c) \/ PrecheckStaging(c)
    \/ PushAccepted(c) \/ PushFails(c)
    \/ VerifyStaged(c) \/ CreateAccepted(c) \/ CreateFails(c) \/ VerifyFinal(c)
    \/ CleanupAccepted(c) \/ CleanupFails(c)

-----------------------------------------------------------------------------
(* GitHubPullRequestExecutorAdapter.execute *)

PullGivesUp(c) ==
    /\ run[c].at \in {"head", "search"}
    /\ Return(c, "failure")
    /\ Unchanged

ReadHead(c) ==
    /\ At(c, "head")
    /\ IF branch = "reviewed" THEN GoOn(c, "search") ELSE Return(c, "failure")
    /\ Unchanged

FindOpenPullRequest(c) ==
    /\ At(c, "search")
    /\ IF pull THEN Return(c, "failure") ELSE GoOn(c, "open")
    /\ Unchanged

\* GitHub takes one open pull request for a branch, and none for a missing one.
OpenAccepted(c) ==
    /\ At(c, "open")
    /\ branch # "none" /\ ~pull
    /\ pull' = TRUE
    /\ did' = did \cup {run[c].request}
    /\ run' = [run EXCEPT ![c].at = "verify_pull"]
    /\ UNCHANGED <<branch, staging, late, request, started, reports, unanswered, died>>

OpenFails(c) ==
    /\ At(c, "open")
    /\ Return(c, "failure")
    /\ FailsOrUnanswered(c, "open")

VerifyPull(c) ==
    /\ At(c, "verify_pull")
    /\ \/ branch = "reviewed" /\ Return(c, "success")
       \/ Return(c, "reconcile")
    /\ Unchanged

PullStep(c) ==
    PullGivesUp(c) \/ ReadHead(c) \/ FindOpenPullRequest(c) \/ OpenAccepted(c) \/ OpenFails(c) \/ VerifyPull(c)

-----------------------------------------------------------------------------
(* Everybody else. *)

\* GitHub carries out a call whose caller has given up, if it still can.
Lands(call) ==
    LET r == call.request
    IN  /\ CASE call.write = "push" ->
                  /\ staging' = [staging EXCEPT ![r] = IF @ = "none" THEN "reviewed" ELSE @]
                  /\ UNCHANGED <<branch, pull, did>>
             [] call.write = "delete" ->
                  /\ staging' = [staging EXCEPT ![r] = "none"]
                  /\ UNCHANGED <<branch, pull, did>>
             [] call.write = "create" ->
                  /\ branch = "none"
                  /\ branch' = "reviewed"
                  /\ did' = did \cup {r}
                  /\ UNCHANGED <<staging, pull>>
             [] call.write = "open" ->
                  /\ branch # "none" /\ ~pull
                  /\ pull' = TRUE
                  /\ did' = did \cup {r}
                  /\ UNCHANGED <<branch, staging>>
        /\ late' = late \ {call}
        /\ UNCHANGED <<request, run, started, reports, unanswered, died>>

IsLost(call) ==
    /\ late' = late \ {call}
    /\ UNCHANGED <<remote, request, run, started, reports, history>>

\* Owners of the repository.
BranchWritten ==
    /\ branch' \in {"none", "other"}
    /\ pull' = (pull /\ branch' # "none")
    /\ UNCHANGED <<staging, late, request, run, started, reports, history>>

StagingRemoved(r) ==
    /\ staging' = [staging EXCEPT ![r] = "none"]
    /\ UNCHANGED <<branch, pull, late, request, run, started, reports, history>>

PullClosed ==
    /\ pull
    /\ pull' = FALSE
    /\ UNCHANGED <<branch, staging, late, request, run, started, reports, history>>

\* The thread dies between two calls.
Dies(c) ==
    /\ run[c] # NoRun
    /\ run' = [run EXCEPT ![c] = NoRun]
    /\ died' = died \cup {run[c].request}
    /\ UNCHANGED <<remote, late, request, started, reports, did, unanswered>>

Next ==
    \/ \E r \in Publishes : CreatePublishRequest(r)
    \/ \E r \in Pulls : CreatePullRequest(r)
    \/ \E r \in Requests : CancelRequest(r) \/ \E c \in Threads : StartRun(c, r)
    \/ \E c \in Threads : PublishStep(c) \/ PullStep(c) \/ Dies(c)
    \/ \E call \in late : Lands(call) \/ IsLost(call)
    \/ BranchWritten \/ PullClosed \/ \E r \in Publishes : StagingRemoved(r)

Spec == Init /\ [][Next]_vars

-----------------------------------------------------------------------------
(* Properties. *)

Promise == INSTANCE FirstPublication WITH branch <- branch, pull <- pull, did <- did

\* "O branch final nunca e atualizado por esse push", and a branch that appears
\* in a race is not overwritten: whatever runs overlap, are repeated or land
\* late, the program only ever creates the missing branch at the reviewed
\* commit and opens a pull request for it.
KeepsPromise == Promise!Spec

Running(r) == \E c \in Threads : run[c] # NoRun /\ run[c].request = r

\* "A ref temporaria e removida no finally": a staging ref that outlives the
\* runs of its request was reported for manual reconciliation, unless the push
\* was never answered or the run was cut off.
StagingAccounted ==
    \A r \in Publishes :
        staging[r] # "none" /\ ~Running(r) =>
            \/ "reconcile" \in reports[r]
            \/ [write |-> "push", request |-> r] \in unanswered
            \/ r \in died

\* "Se a branch final for criada mas a pos-verificacao falhar, o resultado exige
\* reconciliacao manual", and alike for pull requests: what a request did on
\* GitHub is reported as a success or for reconciliation, unless the call that
\* did it was never answered or the run was cut off; and no success is reported
\* that did not happen.
EffectsAccounted ==
    \A r \in Requests :
        /\ r \in did /\ ~Running(r) =>
              \/ reports[r] \cap {"success", "reconcile"} # {}
              \/ \E call \in unanswered : call.request = r /\ call.write \in {"create", "open"}
              \/ r \in died
        /\ "success" \in reports[r] => r \in did

=============================================================================
