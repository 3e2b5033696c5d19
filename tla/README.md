# A TLA+ model of Super Chat

Super Chat (`app/`) is a FastAPI service over PostgreSQL that keeps projects,
tasks and their history, and lets an agent do approved work under supervision: a
human approves a *task pack*, hands it off, an *execution* is tracked with
evidence, and an *executor* may run allowed actions (tests, a Git pipeline, a
GitHub publication) on its behalf. Requests are served by a pool of threads,
each with its own SQLAlchemy session; nothing in the authorisation chain takes a
row lock. What goes wrong in such code goes wrong between the read of one
request and the commit of another, and that is what these modules model.

## The system

| part | code | state | operations | interacts with |
|---|---|---|---|---|
| task packs | `agent_routes.py` | `agent_task_packs.status`, unique fingerprint | create, approve, cancel | read by handoffs |
| handoffs | `handoff_routes.py` | `agent_handoffs.status` | create, release, complete, fail, cancel | blocked by, and written by, executions |
| executions | `execution_routes.py`, `agent_execution.py` | status, `event_sequence`, progress, references; append-only event log | create, progress, technical refs, evidence, complete, fail, cancel | ends its handoff; everybody below appends to its log |
| GitHub verification | `github_verification.py` | none of its own | verify: asks GitHub, appends one or two events | executions |
| executor requests | `executor_routes.py`, `executor_control.py` | `executor_requests.status`, unique fingerprint | create, release, execute, cancel | validates execution and handoff; calls an adapter |
| worker attempts | `worker_attempts.py`, `worker_attempt_routes.py` | `worker_attempts`: status, lease, unique number | lease, heartbeat, reconcile, retry; started and finished by execute | requests, executions |
| Git change approval | `git_change_routes.py` | approval by patch digest | prepare, approve, cancel | results of requests; admits the stages below |
| Git pipeline | `git_*_resolver.py`, `git_*_worker.py`, `worktree_diff.py` | the controlled branch, staging worktrees, a bare remote | create branch, apply, commit, publish | each a request; run by the isolated executor, one worker process per run |
| GitHub publication, pull requests | `github_publish_*.py`, `github_pr_*.py` | refs and pull requests of GitHub | publish, open a pull request | adapters of execute; publish what the pipeline committed |
| session memory | `session_memory.py`, `session_routes.py` | pending deltas, tasks, next action, summaries | create, apply, discard | the routes that write tasks and the next action; reviews |
| graph suggestions | `graph_suggestions.py`, `knowledge_graph.py` | batches, entities, relations | discover, apply, discard; scope of the graph | reads tasks and documents; relation routes |
| authentication | `auth.py`, `auth_routes.py` | sessions | login, resolve, logout, CSRF | every route |
| GitHub synchronisation, digests, onboarding | `github_sync.py`, `github_digest.py`, `github_onboarding.py`, `ops_github_sync.py` | events, cursors, digests | synchronise, digest, onboard | GitHub; digests are session deltas |
| Google synchronisation | `google_sync.py` | events | synchronise | Drive, Calendar |
| task reconciliation | `task_reconciliation.py`, `reconciliation_review_routes.py` | review events | review (the one `FOR UPDATE` of the code) | tasks |
| context engine | `context_engine.py` | none | select under a budget | reads all |
| operations | `scripts/ops_*.sh`, `scripts/ops_*.py` | dumps, lock directories, alert state | backup, restore check, alert | cron |

Hard behaviours: overlapping requests that decided on rows read earlier
(everywhere); a transaction that reads its rows one by one (executor); work
between two commits that a crash or a conflicting append cuts off (execute);
leases that expire while the work goes on; remote effects whose answer is lost, or
that are carried out late (GitHub); git commands killed after they took effect, and
rollbacks that fail themselves (pipeline); a repository that other people use too;
check-then-insert with nothing unique behind it (synchronisation, review);
scripts killed between two renames. What makes the parts correct: the
layers of authorisation cannot be skipped, a gate is passed by the log as it is
when the commit happens, a terminal record stays what it is, each run has its
attempt, and what was started is settled in the end.

## What a handler's session does

`app/database.py` opens each session with `autoflush=False,
expire_on_commit=False`: what a handler loaded stays as loaded, assignments are
sent at the commit, and only columns whose value changed are part of the UPDATE,
which is unconditional. `UnitOfWork!Flushed` is that rule for one column. At READ
COMMITTED nothing else orders two handlers but the unique constraints. The
important one is on `(execution_id, sequence)` of the event log: an event's number
is the row's `event_sequence` *as the handler loaded it* plus one, so of two
handlers that loaded the same row one fails. It works as an optimistic lock that
nobody declared as such; the modules show exactly how far it reaches.

## Modules

`TaskPack` models `agent_routes.py`. A call in `packCalls` is a request that has
loaded a pack and not committed; `CreateAgentTaskPack`, `ApproveAgentTaskPack`,
`CancelAgentTaskPack` are the guards and reads, `CommitPack` and `RollbackPack` the
end.

`ExecutionRecords` (no variables) has the rows, the completion gate and, for each
handler, the row and events it makes of a row it loaded (`ProgressStep`,
`TechnicalRefsStep`, ...). Messages, payloads, notes and timestamps are left out.
`"note"` events are those of the executor, worker and Git change routes, which
append to the log of an execution in any status, a terminal one too.

`ExecutionLedger` is the abstract specification: each of those steps, atomically,
on the current row and log.

`AgentExecution` composes packs, handoffs and executions. A call holds the row as
loaded and as changed and the events to insert; `Commit` checks the two unique
constraints and flushes column by column. Reading in one step is exact for these
handlers: they load the execution first, and a commit in between makes theirs fail.

`ControlledExecutor` models requests and attempts of one execution. Its handlers
load the request (and, for leases, retries and reconciliation, the attempts)
*before* the execution, so each SELECT is a step. The log is abstracted to its last
number, which is sound because `AgentExecution` proves the log gapless.
`StartRun` and `FinishRun` are the two commits of execute; between them the call
waits at its `adapter`. `runs` counts how often an adapter was called: what the
outside saw. `Abort` is any end without a commit: rejection, conflict, a result
that is too large, a crash. `OtherEvent`, `ExecutionEnds` and `HandoffWritten` are
the other handlers of the execution and its handoff. Nothing in the code asks what time
it is, only whether a lease has run out, so there is no clock: a lease counts the ticks
it has left, and whoever has an attempt in hand counts its age. Time passes without
bound, and a holder of the token may renew a lease as often as it likes, as in the code.

### Publication on GitHub

`FirstPublication` is what an owner of a repository is promised: the program creates
a missing branch at the reviewed commit, opens a pull request when none is open, and
touches nothing else. `GitHubPublication` has the two adapters as one remote call after
the other; `run[c].at` names the next call. A call that writes is answered, refused, or
*not answered*, and then carried out at once, later or never (`late`). Owners write the
same branch in between, threads die, and a request may be run twice at a time, which
`ControlledExecutor` shows to happen. `did`, `unanswered` and `died` are histories: what
was really done, which calls had no answer, which runs were cut off. They are the
exceptions of `StagingAccounted` and `EffectsAccounted`, and nothing else is. A failed
publication leaves a request whose fingerprint makes the identical payload
inadmissible; trying again takes a different payload.

### The Git pipeline

`ReviewedBranch` is the promise of the local stages: the branch is created on a base, gets
one commit on it where a change with an approved digest was seen, or has it taken back;
and what is published has an approved digest and is put where there was no ref.
`GitPipeline` implements it. A commit is identified by its base and its content
(`Changes`); its digest is any function of these (`DigestOf`), because the code's is a
sha256 of a redacted diff of the touched files with three lines of context
(`worktree_diff.py:230`-`272`): different contents, and in particular the same change on
different bases, may have the same one. All that the stages compare is the digest, and
`agreed` has those that a person confirmed. One action is one git command, those of a
cleanup included (`RemoveWorktree`, `PruneWorktrees`, `RemoveTree`), between which another
run may add the worktree again. A command may fail, or be killed by its deadline *after*
it took effect; the worker may die between any two; and people edit the files, commit, and
write the refs. A staging worktree has the branch checked out, so its HEAD is `branch`;
its own are its files and its index. `unreported` is the history of what no outcome can
tell:

- a command killed after it took effect, and a dead worker;
- a removal whose error is swallowed (`rmtree(ignore_errors=True)`);
- an exception in the last look at the remote ref, which `worker_entry.py:46` answers as a
  rejection although the ref was created (`git_publish_worker.py:287`);
- a read-tree or a rollback that cannot be started, because the staging directory is gone or
  there is no process to be had (`CommitEscapes`): the read-tree of
  `git_commit_worker.py:425` is outside the `try`, and the commands of `_rollback_ref`
  raise as well, so the worker answers a plain rejection while the branch may hold the
  commit. docs/EXPLICIT_COMMIT.md speaks of the rollback that is tried and not of this.

Three things the model shows and no passing property denies. The base a change was proposed
on is recorded nowhere (`worker_modify.py:77`-`100`) and not compared with the branch's
(`git_apply_resolver.py:86`), so a change reviewed on one base is committed on another
whenever their digests are the same, which the run `reviewed_base` shows. The cleanup of a
failed application prunes registrations *before* it removes the directory by hand
(`git_apply_worker.py:88`-`96`): if `git worktree remove` failed, the directory is gone,
git still has it registered (`Leftover`), the outcome says `completed`, and that
approval can never be applied. And an approval and a cancellation that both found the
approval pending both answer success, the later one winning (`deciding`).

### Memory and context

`SessionMemory` has the deltas with the routes that write the same tasks and the same
next action, and the audited review, the one place that locks a row. `raced` is the
history of deltas that two requests found pending at the same time. `ContextSync` extends
it with synchronisations, whose digests and onboardings are deltas, and
`GraphSuggestions` extends it with batches, relation routes and the scope of the graph,
for which the tasks are evidence. In each, a request is what it has loaded, and its
commit writes what `UnitOfWork` lets it write.

In `ContextSync` the selects of one synchronisation that nothing can separate
observably are one step. Of a source's metadata only the cursor is kept; a commit of
events, and the note of a failure, write it back as it was loaded, which can move it
backwards. A client may write a delta with the key of a digest or of an onboarding, which
`session_schemas.py` does not forbid (`kind` and `refs` of a proposal); such a digest counts
for the synchronisations, and may name any events that are there (`NamesEvents`).
`truncated`, `late` and `uncursored` name the events that
`EventsReachReview` excepts: left out of a full digest, after which the cursor passes
them; committed when another synchronisation had already chosen its events, held a
cursor beyond them, or had none and began later; recorded while some source had no cursor. That an event is recorded once is not a property:
two synchronisations that both looked before either committed record it twice, and so does
one whose project has a repository under two spellings, although
docs/M13_CONTINUOUS_CONTEXT.md:15 and :28 say that repeated events create no duplicates.
In `GraphSuggestions`
the texts of a project are its open tasks and documents, the wording that decides
between types of relation is left out, and entities are never deactivated. A batch
remembers what reviewers selected in the applications of it that were committed
(`selected`), and `GraphIsReviewed` compares the graph with that and with what the batch
suggested: nothing else may be there, and nothing of it may be missing, whichever
applications, removals and relation routes overlap and fail. That a batch is applied or
discarded once is not stated: two requests may both find it pending. The loop that finds the scope of the graph
(`Scope`, in passes over a list of relations) is compared with its meaning: the least
set of entities that has those a project has relations with, and that no relation between
entities leads out of or into (`ConnectedWith`).

The `MC...` modules are the instances for TLC, the `..._proofs` modules the proofs.
Definitions whose comment begins with "Mutant of" are plausible bugs; put in place of the
definition they name, they break the property PROJECT.json lists with them, which
shows the property can fail.

## Runs

| run | what it shows |
|---|---|
| `execution_log` | two pack handlers and two others in flight, one criterion, two reference columns, four events. The handlers implement `ExecutionLedger`; a completed execution passed its gate on the log as committed; the log is gapless; an execution ends once and is final but for notes; the references of the row are those the log records, and GitHub verified references that were recorded then; nothing runs that was not approved and released; an ended handoff changes only by a handler that found it open, or with the end of its execution. |
| `attempts` | one request, of the isolated worker or of a remote adapter, two calls in flight, two attempts, ten events, time without end (3.0 million states): attempts are numbered without gap, each run has its attempt, at most one runs, none is reopened and no late result is written over its end, an adapter is only called while the execution runs, and a remote answer is recorded only over the running status. |
| `attempts_settle` | liveness: if somebody keeps reconciling, no attempt stays leased or running, unless somebody renews its lease for ever (0.3 million states). |
| `publication` | two threads, three runs, one publication and two pull requests for it (0.4 million states). `GitHubPublication` implements `FirstPublication`; a staging ref that outlives its runs was reported, and so was every effect, with the excepted losses; a success was real. |
| `pipeline` | one change in up to five runs, two at a time, one of two bases with the same digest, one act of somebody else (2.4 million states). `GitPipeline` implements `ReviewedBranch`; a staging worktree and a commit that stay behind were reported, unless a run could not report them, and so was the remote ref that was created, by a publication of that commit; a commit request that only failed left branch, index and files as it found them; what a request recorded is on the base of its branch with an approved digest. |
| `reviewed_base` | violated: docs/GIT_CHANGE_APPROVAL.md:75 asks for a branch compatible with the reviewed base, and docs/APPLY_APPROVED_CHANGE.md:90 says that another base content makes the application fail; a change proposed on one base is committed on a branch of another that its diff does not tell apart. |
| `context` | two synchronisations, one of the script, two sources, two items, digests of one event (3.1 million states): events reach a digest, and digests wait one at a time, but for the excepted races. |
| `memory` | six requests, two at a time (1.5 million states): a delta is settled once, reviews stand, an owner's next action is kept, the graph has only what an owner made or a reviewer selected, and all of that, and the scope that is shown is connection, in whatever order relations are listed. |
| `handoff_follows` | violated: docs/AGENT_EXECUTIONS.md:151 says direct endings of a handoff are blocked while it has an execution; one that checked before the execution was committed goes through. |
| `request_replay` | violated: docs/CONTROLLED_EXECUTOR.md:123 says a terminal request cannot be executed again; an execute that read it as released, before another one finished it, runs it again. |
| `orphan_while_working` | violated: worker_attempts.py:31 says a run within its timeout cannot be orphaned; a run that takes over an old lease can. |
| `request_ends` | violated: docs/WORKER_PROVENANCE.md:52 says reconciling a running request's attempt makes it failed; if reconcile read the request before the run's first commit, the request stays running for ever, although nobody renews its lease. |

The common cause of the last three, which are of the executor, is that the constraint orders a commit after
the load of the *execution*, not after the load of the request or the attempts.
The same shape lets an approval and a cancellation of one pack both succeed,
a late handoff ending overwrite an earlier one, and two applications of one session
delta both go through, although docs/SESSION_MEMORY.md:118 says that an applied delta is
not applied again; docs/M13_3_DIGEST_REVIEW.md:17 says that one digest waits at a time,
and two overlapping synchronisations leave two. The model has those behaviours, and the
properties except exactly them (`raced`, the digest chosen before the earlier
existed, the handler that `EndedHandoffStays` lets change an ended handoff), so that
the runs show they are the only ones. The same goes for a reconciliation that overwrites
a result recorded since it read the attempt (`TerminalAttemptNotReopened`), and for an
application of an onboarding that had loaded the project before its owner set an action
(`OwnersActionKept`), which the comment at session_memory.py:160 denies.
`RemoteResultIsOfItsRun` does not tell two runs apart that are both answered while their
request runs, as `request_replay` shows there can be.

Bounds. Two handlers are what a conflict needs; a third that is not in conflict
commits before or after. Four events allow start, record, evidence on top, and an
end with a loser in flight. One handoff and one pack: no handler relates two. Ten
executor events reach the start of a second attempt after a failed first one; a lease of
two ticks and a run of one reach an expiry, a second lease and a run that starts on the
last tick of a lease, and time goes on from there without a bound. `MCOneRequest` lets a
behaviour use one request only, of either kind: reconciliation alone relates two, and
the proofs have any number. Numbers start at the first event of
the execution, reconciliation may append beyond `MaxEvents` so that the bound does
not stop it. Three runs of the publication are two that overlap, or a pull request next
to both, and a retry after either; a pull request needs two requests to be opened
twice. Five runs of the pipeline are its four stages and one repetition or
concurrent run of any. `MaxMeddled = 1` is not only a bound but an assumption: two
edits by somebody else, the second undoing the first between two commands of one
commit, get past the two digests the worker compares, and no sequence of commands
on a shared worktree could exclude that. Two items and digests of one event (100 in the code)
are enough to fill a digest and to leave one out; digests that clients write themselves are
left out of `context` (`Proposals = {}`), where they would not end in time, and are
in `memory` and in the proofs; the one race that needs three
synchronisations is covered by the proofs (below). Six requests create a delta and a batch
and let two requests overlap on either, with a task or relation route in between. Symmetry
is over threads, and sets of interchangeable requests or sources, in runs of safety
properties only.
Deadlock is not checked: the system may rest when nobody calls.

Fairness. `FairSpec` assumes that time passes, for ever (`Tick` has no bound), that a call
ends some way or other (a thread commits, fails or dies), and `OperatorReconciles`: no code calls
`/worker-attempts/reconcile` by itself, so settlement rests on an operator or a
cron job that keeps calling it, strongly fair because each attempt may conflict
with other appends. Nothing is assumed to succeed. Nothing is assumed of heartbeats either,
so `AttemptsSettle` and `RunningRequestEnds` have the escape the code has: a holder of the
token who renews a lease again and again (`[]<><<Renews(r, n)>>_vars`) keeps its attempt
for ever, since neither `heartbeat_attempt` nor its route limits that.

## Proofs

`AgentExecution_proofs` holds for any number of threads, packs, handoffs, criteria,
references and events, from the assumptions named in the modules (constants have
their types). The argument: `EventLogGapless` is not inductive alone, because a
commit numbers events from a row read earlier. `IInv` adds what each open call
knows: it loaded a sequence no greater than the row's, and *if they are equal* then
it loaded the row and the log as they are now and its change is one the ledger
allows. A commit that meets the unique constraint cannot have a smaller sequence,
since all numbers up to the row's are taken, so it is the ledger's step
(`Refinement`). Other open calls on the execution fall behind, which keeps `IInv`.
From there `EndsAreSound` (completed means passed, ended once) and
`TerminalIsFinal` are inductions over ledger steps. `ChainHolds` needs what calls may
write to packs and handoffs: a pack only goes to approved or cancelled once
decided, a handoff back to released at worst.
`EndedHandoffsStay` rests on what each handler writes to the handoff (`LeavesEnded`): its
row as it was loaded, or an end of it when it was loaded open; the other writers of an end
are the three events that end an execution, which the ledger step of `Refinement` lets only
a running execution take (`EndingSteps`).

`ControlledExecutor_proofs` holds for any number of clients, requests, attempts, ticks
and events; it assumes that the table of requests is finite and that a lease is longer than a
run. Here too the properties need what the open calls know: `Knows` says of a call what
it is by its kind (`Formed`), that the attempts it will settle were made (`Made`), and,
*if nothing was appended since it loaded the execution*, that what it read is current
(`Current`): the attempt it will run is leased or the next one and none runs, the
execution runs, the request whose adapter answers is running and so is its attempt. A call whose sequence has
been passed is known to be nothing, and needs to be nothing, because its commit fails.
So a commit has two halves: it finds its own `Current`, and it puts every other call behind
(`Behind`). What commits do to the rows is separated from that: `Settles` (no row is
made or started), `Leases` and `Runs` (one row is), which keep the numbering and the
count of starts.
The action properties follow from the same step (`Promises`).

`GitHubPublication_proofs` holds for any number of threads, requests and runs. Neither
`StagingAccounted` nor `EffectsAccounted` is inductive: while a run goes on, its staging
ref or its effect is accounted for by the step the run has reached, so `IInv` says which
steps may have staged, which may have created, and that only an unanswered call may still be
carried out. Most steps are one of a few shapes (a run goes on, a run ends before or
after it staged, a run did something), each a lemma, and each action is shown to be of
its shape. That every step is one of `FirstPublication` or changes nothing it speaks of
(`PromiseIsKept`) needs little of it, since the two guards that matter are GitHub's.

`GitPipeline_proofs` holds for any number of threads, approvals and runs, and however often
other people touch the repository; it assumes, as commit identifiers do, that the
program's commits are not commits of the source repository (`HeadsAssumption`). `TypeOK`
becomes inductive with what each run is doing (`RunsFit`: a run is at a step of its own
request and holds the commit that step needs). `Known` is where things come from: a
request of a later stage exists because the stage before it succeeded, and its payload
is what that stage recorded. `Accounts` then says who answers for what: a staging
worktree has a run that still holds it (`Holds`) or a request that told of it, and a
commit on the branch has a run that still owes its end (`Owes`) or a request that told
of it, or a run among `unreported`, where a rollback that cannot be started ends. Every step hands that over or keeps it; when no run is left, `StagingAccounted` and
`CommitAccounted` are what remains. `PublicationIsAccounted` is the same for the bare remote,
by an invariant of its own (`RemoteKnown`): the publication of the ref has a run that is about
to look at it for the last time, or told of it. Only a creation puts a commit of the program
there, and only where there was no ref (`RemoteStep`), so no later run takes the ref over
from the one that answers for it.

`GitPipelineReview_proofs` proves that what is recorded and published has a digest
somebody approved, whatever function the digest is; of the base it was reviewed on nothing
can be proved. The hypothesis `meddled <= 1` in `RecordedCommitsAreApproved` and
`PipelineKeepsReview` is needed: an edit after the content is compared and a second one that
undoes it before the digest is, within one run, put unreviewed content on the branch, and
both comparisons see what was approved. The invariant `Reviewed` has two worlds, and one touch
leaves at least one of them (`OneTouch`). In `Untampered` nothing without an approved digest is
in a staging worktree, on the branch or in the hands of a run, and all that was made is of
the base at HEAD: what an edit of the files ends. In `Undiverted` the branch is where the
runs put it: a run that moved it still finds its commit there, so it is the only one, and
what it built from edited files is what the files still are when it verifies them
(`Retained`), where the last comparison rejects it: what a move of the branch ends. In both,
everything is of one base (`OneBase`), that of the branch, and git checks a branch out once
(`OneThere`). The refinement `PipelineKeepsReview` and `RecordsReviewed` follow.
`FailedCommitsCanBeRetried` needs in addition what the index is while a run goes on
(`Retriable`): it differs from the base only if a run will restore it, or a request told
of it. A failed apply run is excluded there because the steps of its cleanup may take the
staging of another run, and a rollback that could not be started because it restores nothing.

`SessionMemory_proofs` has the lemmas for any number of requests, deltas, tasks and
reviews, from a finite set of titles. `SessionInv` says that a request about to settle a
delta found it, and as long as no other found it too (`raced`) the delta is pending; and
that a review's lock is its own and keeps the task as the review found it. `Beside` is what
any other process may do to these rows (append a pending delta, nothing else), so
the two modules that extend `SessionMemory` each prove that their processes are `Beside` it and
get the rest. `GraphSuggestions_proofs` adds what an application in flight will bring
(`Brings`): what was selected is of its batch, its entities are there or in its hands, and so
are its relations but for those of documents. A commit that meets no unique row
writes all of it, one that does writes nothing, so the graph has exactly what the batches
say was selected (`OriginsKnown`). With these `TypeOK`, `GraphIsReviewed`, `ReviewsStand` and
the two action properties hold for every instance.

`ContextSync_proofs` holds for any number of synchronisations, sources and requests, any
size of digest and a finite set of items. `EventsReachReview` speaks of committed rows, and
every synchronisation in flight may write its cursors back or move them on, so the
invariant (`SyncInv`) says of each one that no unseen event is *behind* it (`NotBehind`): the
event is not earlier than the cursor it holds, nor than its beginning when it holds none,
and is among what it chose; and that what it chose was in no digest of before
(`ChoosesFree`). Digests that clients write are among those it speaks of. The one
calculation is `MergedIsEarlier`: cursors that are merged back give the project a cursor no
later than theirs, or none. This invariant was false of an earlier form of the property:
of *three* synchronisations, one without a cursor can choose from its own beginning and
overlook an event that another commits with an earlier time, after a third had given the
project a cursor, which the two synchronisations of the run cannot show. `late` now counts
that race (the last disjunct of `Overlooks`), as the code does have it.

`RefsAreRecorded`, in `AgentExecution_proofs`, is an induction over ledger steps too: a step
either leaves the references and records none, or records exactly those it leaves with the
last number of the log (`RefsEffect`); in a gapless log later events do not
change what was in force earlier.

Only model-checked is liveness (`AttemptsSettle` and the violated `RunningRequestEnds`), with
the fairness it needs, which the prover does not do. Every invariant and every action
property of the passing runs has a theorem.

## Not modelled

- Authentication: one row per session, written by single unconditional statements.
  Login, logout and expiry relate no two rows; a revocation that meets a request in
  flight has one outcome, a late `last_seen_at`.
- Google synchronisation: the check-then-insert that `ContextSync` models for GitHub,
  without cursor, digest or review; the rest of the code is the two clients.
- Context engine and retrieval metrics: arithmetic on words, no state.
- Operations scripts: shell around `pg_dump` and `mv`; what a crash leaves is found by the
  next check, except a lock directory, which somebody removes.
- Secrets: a lookup for the duration of a call, no state in the database.
- The remaining CRUD routes, dashboard, web client, benchmarks, preflight: writes of
  single rows, read-only reports, presentation.
- In parts that are modelled: test runs and provenance receipts of the worker (they
  change nothing); which verdict a GitHub answer leads to in a verification; scores,
  confidences and texts; the reports that propose what to reconcile.
