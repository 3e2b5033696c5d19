------------------------- MODULE ControlledExecutor -------------------------
(***************************************************************************)
(* Executor requests of one agent execution and the worker attempts that   *)
(* run them (app/executor_routes.py, app/worker_attempts.py,               *)
(* app/worker_attempt_routes.py).                                          *)
(*                                                                         *)
(* Unlike the handlers of AgentExecution these load the request first and  *)
(* the execution later, each in a SELECT of its own at READ COMMITTED, and *)
(* execute commits twice: once before the adapter runs, once after.  Every *)
(* SELECT whose place matters is a step here.  Every commit but that of a  *)
(* heartbeat appends to the log of the execution, from the event_sequence  *)
(* the call loaded, so it fails if anybody appended since (the unique      *)
(* constraint on (execution_id, sequence); AgentExecution shows the log is *)
(* gapless, so the number of the last event stands for the log).           *)
(*                                                                         *)
(* SELECTs after the one of the execution are taken together with it: all  *)
(* they read but the handoff's status only changes with a commit that      *)
(* makes this one fail, so a call that commits may as well have read       *)
(* everything when it read the handoff.  An UPDATE writes its new value    *)
(* over whatever the row holds by then.                                    *)
(***************************************************************************)
EXTENDS Naturals, FiniteSets

CONSTANTS
    Clients,        \* server threads
    Requests,       \* executor requests, by fingerprint
    Local,          \* those of the isolated-local adapter
    Remote,         \* those of the github-publish and github-pr adapters; the
                    \* rest have the manual adapter, which is never available
    MaxAttempts,    \* executor_worker_max_attempts
    Lease,          \* effective lease of an attempt, in ticks
    MaxRun,         \* ticks in which an adapter answers or times out
    MaxEvents       \* bound: events of the execution, reconciliation aside

ASSUME RequestsAssumption == Local \subseteq Requests /\ Remote \subseteq Requests \ Local
\* Rows of a table.
ASSUME FiniteAssumption == IsFiniteSet(Requests)
ASSUME MaxAttemptsAssumption == MaxAttempts \in Nat \ {0}
\* _effective_lease_seconds: never less than the longest run and a margin.
ASSUME LeaseAssumption == MaxRun \in Nat /\ Lease \in Nat /\ Lease > MaxRun
ASSUME BoundsAssumption == MaxEvents \in Nat

VARIABLES
    request,        \* executor_requests.status
    attempt,        \* worker_attempts, by request and attempt number
    execution,      \* the execution: still running, handoff still released, event_sequence
    calls,          \* requests being served
    runs            \* how often the adapter was handed a request: what the world saw

vars == <<request, attempt, execution, calls, runs>>

Numbers == 1..MaxAttempts

TerminalRequestStates == {"completed", "failed", "cancelled"}
RequestStatus == {"absent", "prepared", "released", "running"} \cup TerminalRequestStates

ActiveAttemptStates == {"leased", "running"}
TerminalAttemptStates == {"completed", "failed", "orphaned", "expired"}
AttemptStatus == {"absent"} \cup ActiveAttemptStates \cup TerminalAttemptStates

\* Nothing asks what time it is, only whether a lease has run out: `left` counts the
\* ticks of lease_expires_at that are left, the present one included (0: expired).
\* `token`: somebody holds the lease token, and may send heartbeats.
Ticks == 0..Lease + 1
Attempt == [status: AttemptStatus, left: Ticks, started: BOOLEAN, token: BOOLEAN]

NoAttempt == [status |-> "absent", left |-> 0, started |-> FALSE, token |-> FALSE]

AttemptOf(status, left, started, token) ==
    [status |-> status, left |-> left, started |-> started, token |-> token]

\* What is left of a lease that was given so many ticks ago.
LeftOf(age) == Lease + 1 - age

Expiry == [request: Requests, number: Numbers, status: {"orphaned", "expired"}]

\* A call has yet to read what `at` names, or to commit, or waits for its
\* adapter.  `seq` is the event sequence it loaded, `number` its attempt (0:
\* none), `age` the ticks since that was made or the adapter started, `expiries` and
\* `failing` what a reconciliation found.
Call ==
    [client: Clients, request: Requests,
     op: {"create", "release", "execute", "cancel", "lease", "heartbeat", "reconcile", "retry"},
     at: {"active", "history", "execution", "commit", "adapter", "request"},
     seq: Nat, number: 0..MaxAttempts, age: Ticks,
     expiries: SUBSET Expiry, failing: SUBSET Requests]

NewCall(c, op, r, at) ==
    [client |-> c, request |-> r, op |-> op, at |-> at, seq |-> 0, number |-> 0, age |-> 0,
     expiries |-> {}, failing |-> {}]

TypeOK ==
    /\ request \in [Requests -> RequestStatus]
    /\ attempt \in [Requests -> [Numbers -> Attempt]]
    /\ execution \in [running: BOOLEAN, released: BOOLEAN, seq: Nat]
    /\ calls \subseteq Call
    /\ runs \in [Requests -> Nat]

\* The execution was just created, for a released handoff.
Init ==
    /\ request = [r \in Requests |-> "absent"]
    /\ attempt = [r \in Requests |-> [n \in Numbers |-> NoAttempt]]
    /\ execution = [running |-> TRUE, released |-> TRUE, seq |-> 1]
    /\ calls = {}
    /\ runs = [r \in Requests |-> 0]

-----------------------------------------------------------------------------
History(r) == {n \in Numbers : attempt[r][n].status # "absent"}
Active(r) == {n \in Numbers : attempt[r][n].status \in ActiveAttemptStates}
Leased(r) == {n \in Numbers : attempt[r][n].status = "leased"}

\* validate_authorization; the allowlist of the handoff is part of the request.
Authorized == execution.running /\ execution.released

Idle(c) == \A q \in calls : q.client # c

Database == <<request, attempt, execution, runs>>

\* Client c starts the call q.
Start(c, q) ==
    /\ Idle(c)
    /\ calls' = calls \cup {q}
    /\ UNCHANGED Database

Begin(c, op, r, at) == Start(c, NewCall(c, op, r, at))

\* The call q has read, and goes on as p.
ReadOn(q, p) ==
    /\ calls' = (calls \ {q}) \cup {p}
    /\ UNCHANGED Database

\* The call q loads the execution, and its commit is next.
Loaded(q) == [q EXCEPT !.at = "commit", !.seq = execution.seq]

-----------------------------------------------------------------------------
(* Creating, releasing and cancelling a request. *)

\* The execution is loaded first: one step is exact.
CreateExecutorRequest(c, r) ==
    /\ Authorized
    /\ request[r] = "absent"
    /\ Start(c, Loaded(NewCall(c, "create", r, "commit")))

ReleaseExecutorRequest(c, r) ==
    /\ request[r] = "prepared"
    /\ Begin(c, "release", r, "execution")

ReleaseReadsExecution(q) ==
    /\ q.op = "release" /\ q.at = "execution"
    /\ Authorized
    /\ ReadOn(q, Loaded(q))

\* Cancelling does not ask whether the execution still runs.
CancelExecutorRequest(c, r) ==
    /\ request[r] \in {"prepared", "released"}
    /\ Begin(c, "cancel", r, "execution")

CancelReadsExecution(q) ==
    /\ q.op = "cancel" /\ q.at = "execution"
    /\ ReadOn(q, Loaded(q))

-----------------------------------------------------------------------------
(* Executing a request. *)

ExecuteExecutorRequest(c, r) ==
    /\ request[r] = "released"
    /\ Begin(c, "execute", r, "execution")

\* Mutant of AttemptToRun: the new row is counted with the others.
AttemptToRunCountingItself(r, n) ==
    /\ \A m \in Active(r) : attempt[r][m].status # "running"
    /\ IF Leased(r) # {} THEN n \in Leased(r)
       ELSE n = Cardinality(History(r)) + 2

\* An isolated-local request runs in an attempt: the one already leased, any of
\* them, or a new one (create_attempt).
AttemptToRun(r, n) ==
    /\ \A m \in Active(r) : attempt[r][m].status # "running"
    /\ IF Leased(r) # {} THEN n \in Leased(r)
       ELSE n = Cardinality(History(r)) + 1

ExecuteReadsExecution(q) ==
    /\ q.op = "execute" /\ q.at = "execution"
    /\ Authorized
    /\ \/ /\ q.request \in Local
          /\ \E n \in Numbers :
                /\ AttemptToRun(q.request, n)
                /\ ReadOn(q, [Loaded(q) EXCEPT !.number = n])
       \/ /\ q.request \in Remote
          /\ ReadOn(q, Loaded(q))

-----------------------------------------------------------------------------
(* Leases, heartbeats, reconciliation and retries of worker attempts. *)

LeaseAttempt(c, r) ==
    /\ r \in Local
    /\ request[r] = "released"
    /\ Begin(c, "lease", r, "active")

LeaseReadsActive(q) ==
    /\ q.op = "lease" /\ q.at = "active"
    /\ Active(q.request) = {}
    /\ ReadOn(q, [q EXCEPT !.at = "execution"])

\* The count is flushed with the new row before the execution is read; another
\* attempt in between takes the number, and the commit fails on it.
LeaseReadsExecution(q) ==
    /\ q.op = "lease" /\ q.at = "execution"
    /\ Cardinality(History(q.request)) < MaxAttempts
    /\ ReadOn(q, [Loaded(q) EXCEPT !.number = Cardinality(History(q.request)) + 1])

\* Only the response to a lease carries the token.
Heartbeat(c, r, n) ==
    /\ attempt[r][n].token
    /\ attempt[r][n].status \in ActiveAttemptStates
    /\ attempt[r][n].left > 0
    /\ Start(c, [NewCall(c, "heartbeat", r, "commit") EXCEPT !.number = n])

\* Mutant of Expired: only what was started is looked for.
ExpiredRuns ==
    {[request |-> x[1], number |-> x[2], status |-> "orphaned"] :
         x \in {y \in Requests \X Numbers :
                   attempt[y[1]][y[2]].status = "running" /\ attempt[y[1]][y[2]].left = 0}}

\* The active attempts whose lease has expired, and what becomes of them.
Expired ==
    {[request |-> x[1], number |-> x[2],
      status |-> IF attempt[x[1]][x[2]].started THEN "orphaned" ELSE "expired"] :
         x \in {y \in Requests \X Numbers :
                   y[2] \in Active(y[1]) /\ attempt[y[1]][y[2]].left = 0}}

Reconcile(c) ==
    \E first \in Expired :
        Start(c, [NewCall(c, "reconcile", first.request, "request") EXCEPT !.expiries = Expired])

Running(rs) == {r \in rs : request[r] = "running"}

\* The loop over the attempts loads the request of the first, then the
\* execution, then the requests of the others.
ReconcileReadsRequest(q) ==
    /\ q.op = "reconcile" /\ q.at = "request"
    /\ ReadOn(q, [q EXCEPT !.at = "execution", !.failing = Running({q.request})])

ReconcileReadsExecution(q) ==
    /\ q.op = "reconcile" /\ q.at = "execution"
    /\ LET others == {x.request : x \in q.expiries} \ {q.request}
       IN  ReadOn(q, [Loaded(q) EXCEPT !.failing = @ \cup Running(others)])

RetryRequest(c, r) ==
    /\ r \in Local
    /\ request[r] = "failed"
    /\ Begin(c, "retry", r, "active")

RetryReadsActive(q) ==
    /\ q.op = "retry" /\ q.at = "active"
    /\ Active(q.request) = {}
    /\ ReadOn(q, [q EXCEPT !.at = "history"])

RetryReadsHistory(q) ==
    /\ q.op = "retry" /\ q.at = "history"
    /\ History(q.request) # {}
    /\ Cardinality(History(q.request)) < MaxAttempts
    /\ ReadOn(q, [q EXCEPT !.at = "execution"])

RetryReadsExecution(q) ==
    /\ q.op = "retry" /\ q.at = "execution"
    /\ ReadOn(q, Loaded(q))

-----------------------------------------------------------------------------
(* Commits. *)

\* Mutant of Append: the sequence is not checked.
AppendUnchecked(q, n, rest) ==
    /\ q.op # "reconcile" => q.seq + n <= MaxEvents
    /\ execution' = [execution EXCEPT !.seq = @ + n]
    /\ calls' = (calls \ {q}) \cup rest

\* The call q appends n events, in sequence, and goes on as the calls in `rest`.
Append(q, n, rest) ==
    /\ execution.seq = q.seq
    /\ q.op # "reconcile" => q.seq + n <= MaxEvents
    /\ execution' = [execution EXCEPT !.seq = @ + n]
    /\ calls' = (calls \ {q}) \cup rest

Commit(q, n, rest) == q.at = "commit" /\ Append(q, n, rest)

\* Release, cancel and retry write one status, each its own.
CommitStatus(q, op, status) ==
    /\ q.op = op
    /\ Commit(q, 1, {})
    /\ request' = [request EXCEPT ![q.request] = status]
    /\ UNCHANGED <<attempt, runs>>

\* The fingerprint is unique.
CommitCreate(q) ==
    /\ request[q.request] = "absent"
    /\ CommitStatus(q, "create", "prepared")

CommitRelease(q) == CommitStatus(q, "release", "released")
\* Mutant of CommitCancel: a status that does not exist.
CommitMisspelt(q) == CommitStatus(q, "cancel", "canceled")

CommitCancel(q) == CommitStatus(q, "cancel", "cancelled")
CommitRetry(q) == CommitStatus(q, "retry", "released")

\* create_attempt; the number is unique in its request.
CommitLease(q) ==
    /\ q.op = "lease"
    /\ Commit(q, 1, {})
    /\ attempt[q.request][q.number].status = "absent"
    /\ attempt' = [attempt EXCEPT ![q.request][q.number] =
                      AttemptOf("leased", LeftOf(q.age), FALSE, TRUE)]
    /\ UNCHANGED <<request, runs>>

\* Mutant of StartedAttempt: started_at is not set on a leased attempt.
StartedUndated(stored, age) ==
    IF stored.status = "absent" THEN AttemptOf("running", LeftOf(age), TRUE, FALSE)
                                ELSE [stored EXCEPT !.status = "running"]

\* mark_attempt_running, on a leased attempt or on one made for this run.
StartedAttempt(stored, age) ==
    IF stored.status = "absent" THEN AttemptOf("running", LeftOf(age), TRUE, FALSE)
                                ELSE [stored EXCEPT !.status = "running", !.started = TRUE]

\* The first commit of execute, and the call of the adapter.
StartRun(q) ==
    /\ q.op = "execute"
    /\ LET n == IF q.number = 0 THEN 1 ELSE 2
       IN  Commit(q, n, {[q EXCEPT !.at = "adapter", !.seq = @ + n, !.age = 0]})
    /\ request' = [request EXCEPT ![q.request] = "running"]
    /\ attempt' = IF q.number = 0 THEN attempt
                  ELSE [attempt EXCEPT ![q.request][q.number] = StartedAttempt(@, q.age)]
    /\ runs' = [runs EXCEPT ![q.request] = @ + 1]

\* The adapter answers, or its exception is caught, and the second commit goes
\* through.  It appends to the sequence of the first, so what the call still
\* holds in memory of the request and the attempt is what the rows hold.
FinishRun(q, ok) ==
    LET result == IF ok THEN "completed" ELSE "failed"
    IN  /\ q.at = "adapter"
        /\ Append(q, IF q.number = 0 THEN 1 ELSE 2, {})
        /\ request' = [request EXCEPT ![q.request] = result]
        /\ attempt' = IF q.number = 0 THEN attempt
                      ELSE [attempt EXCEPT ![q.request][q.number].status = result]
        /\ UNCHANGED runs

\* A heartbeat writes its two columns, and nothing guards the write.
CommitHeartbeat(q) ==
    /\ q.op = "heartbeat"
    /\ attempt' = [attempt EXCEPT ![q.request][q.number].left = LeftOf(q.age)]
    /\ calls' = calls \ {q}
    /\ UNCHANGED <<request, execution, runs>>

CommitReconcile(q) ==
    /\ q.op = "reconcile"
    /\ Commit(q, Cardinality(q.expiries), {})
    /\ request' = [r \in Requests |-> IF r \in q.failing THEN "failed" ELSE request[r]]
    /\ attempt' = [r \in Requests |-> [n \in Numbers |->
                      IF \E x \in q.expiries : x.request = r /\ x.number = n
                      THEN [attempt[r][n] EXCEPT !.status =
                              (CHOOSE x \in q.expiries : x.request = r /\ x.number = n).status]
                      ELSE attempt[r][n]]]
    /\ UNCHANGED runs

\* A call ends without a (further) commit: it is rejected, its commit conflicts,
\* the result is too large (bounded_result), or the server dies.  A running
\* adapter is not undone, nor is the first commit.
Abort(q) ==
    /\ calls' = calls \ {q}
    /\ UNCHANGED Database

-----------------------------------------------------------------------------
(* The rest of the system. *)

\* Another handler appends to the log of the execution.
OtherEvent ==
    /\ execution.seq < MaxEvents
    /\ execution' = [execution EXCEPT !.seq = @ + 1]
    /\ UNCHANGED <<request, attempt, calls, runs>>

\* The execution is completed, failed or cancelled, and its handoff with it.
ExecutionEnds ==
    /\ execution.running
    /\ execution.seq < MaxEvents
    /\ execution' = [running |-> FALSE, released |-> FALSE, seq |-> execution.seq + 1]
    /\ UNCHANGED <<request, attempt, calls, runs>>

\* A handler of the handoff that loaded it before there was an execution ends
\* it, or releases it, late.
HandoffWritten ==
    /\ execution' = [execution EXCEPT !.released = ~@]
    /\ UNCHANGED <<request, attempt, calls, runs>>

\* What has an attempt or an adapter in hand grows older.
Older(q) ==
    IF q.number # 0 \/ q.at = "adapter" THEN [q EXCEPT !.age = IF @ > Lease THEN @ ELSE @ + 1] ELSE q

\* Time passes, for ever, but no adapter runs longer than MaxRun.
Tick ==
    /\ \A q \in calls : q.at = "adapter" => q.age < MaxRun
    /\ calls' = {Older(q) : q \in calls}
    /\ attempt' = [r \in Requests |-> [n \in Numbers |->
                      [attempt[r][n] EXCEPT !.left = IF @ = 0 THEN 0 ELSE @ - 1]]]
    /\ UNCHANGED <<request, execution, runs>>

-----------------------------------------------------------------------------
BeginCall(c) ==
    \/ \E r \in Requests :
          \/ CreateExecutorRequest(c, r) \/ ReleaseExecutorRequest(c, r)
          \/ ExecuteExecutorRequest(c, r) \/ CancelExecutorRequest(c, r)
          \/ LeaseAttempt(c, r) \/ RetryRequest(c, r)
          \/ \E n \in Numbers : Heartbeat(c, r, n)
    \/ Reconcile(c)

ReadStep(q) ==
    \/ ReleaseReadsExecution(q) \/ CancelReadsExecution(q) \/ ExecuteReadsExecution(q)
    \/ LeaseReadsActive(q) \/ LeaseReadsExecution(q)
    \/ ReconcileReadsRequest(q) \/ ReconcileReadsExecution(q)
    \/ RetryReadsActive(q) \/ RetryReadsHistory(q) \/ RetryReadsExecution(q)

CommitStep(q) ==
    \/ CommitCreate(q) \/ CommitRelease(q) \/ CommitCancel(q) \/ CommitRetry(q)
    \/ CommitLease(q) \/ StartRun(q) \/ (\E ok \in BOOLEAN : FinishRun(q, ok))
    \/ CommitHeartbeat(q) \/ CommitReconcile(q)

Advance(q) == ReadStep(q) \/ CommitStep(q) \/ Abort(q)

Next ==
    \/ \E c \in Clients : BeginCall(c)
    \/ \E q \in calls : Advance(q)
    \/ OtherEvent \/ ExecutionEnds \/ HandoffWritten
    \/ Tick

Spec == Init /\ [][Next]_vars

\* Time passes and every call ends.  Nothing in the program reconciles on its
\* own: an operator who keeps asking for it gets through in the end.  Nothing is
\* assumed of heartbeats: they may stop at any time, or go on for ever.
OperatorReconciles ==
    /\ SF_vars(\E c \in Clients : Reconcile(c))
    /\ SF_vars(\E q \in calls : ReconcileReadsRequest(q))
    /\ SF_vars(\E q \in calls : ReconcileReadsExecution(q))
    /\ SF_vars(\E q \in calls : CommitReconcile(q))

FairSpec ==
    /\ Spec
    /\ WF_vars(Tick)
    /\ \A c \in Clients : WF_vars(\E q \in calls : q.client = c /\ Advance(q))
    /\ OperatorReconciles

-----------------------------------------------------------------------------
(* Properties. *)

\* An adapter is handed a request only while the execution runs: validated
\* before the first commit of execute, it still holds in that commit.
StartsAreAuthorised == [][runs' # runs => execution.running]_vars

\* The attempts of a request are numbered from 1 without a gap, and there are
\* never more than executor_worker_max_attempts of them.
AttemptsNumbered == \A r \in Requests : History(r) = 1..Cardinality(History(r))

\* Each time the isolated worker was started there is an attempt that records
\* it, and no attempt records two starts.
AttemptPerRun ==
    \A r \in Local : runs[r] = Cardinality({n \in History(r) : attempt[r][n].started})

\* No two attempts of one request run at once, whatever calls race.
AtMostOneRunning ==
    \A r \in Requests : \A m, n \in Numbers :
        attempt[r][m].status = "running" /\ attempt[r][n].status = "running" => m = n

\* The answer of a remote adapter is recorded on a request that is running, never over
\* a cancelled request or an answer that was recorded before.  Of two runs that are
\* answered while the request runs it does not say which was recorded.
RemoteResultIsOfItsRun ==
    [][\A r \in Remote :
         request'[r] \in {"completed", "failed"} /\ request'[r] # request[r] =>
             request[r] = "running"]_vars

\* An attempt that has ended is never leased or run again: a retry makes a new one.
\* Nor is a late result written over a reconciliation (docs/WORKER_PROVENANCE.md).
\* The opposite happens: a reconciliation that read the attempt while it was active
\* writes "orphaned" or "expired" over the result that was recorded since.
TerminalAttemptNotReopened ==
    [][\A r \in Requests : \A n \in Numbers :
         attempt[r][n].status \in TerminalAttemptStates =>
             attempt'[r][n].status \in {attempt[r][n].status, "orphaned", "expired"}]_vars

\* The lease of attempt n is renewed.
Renews(r, n) == \E q \in calls : q.request = r /\ q.number = n /\ CommitHeartbeat(q)

\* If somebody keeps reconciling, no attempt stays leased or running for ever,
\* whatever crashed, unless somebody renews its lease for ever: nothing in the
\* program limits how often a holder of the token may do that.
AttemptsSettle ==
    \A r \in Requests : \A n \in Numbers :
        \/ attempt[r][n].status \in ActiveAttemptStates ~>
              attempt[r][n].status \in TerminalAttemptStates
        \/ []<><<Renews(r, n)>>_vars

-----------------------------------------------------------------------------
(* What the documentation says, and the code does not do. *)

\* docs/CONTROLLED_EXECUTOR.md: a request that is completed, failed or
\* cancelled cannot be executed again.
TerminalRequestNotReplayed ==
    [][\A r \in Requests : request[r] \in TerminalRequestStates => runs'[r] = runs[r]]_vars

\* The comment of _effective_lease_seconds: an attempt is not reconciled as an
\* orphan while its run is within the longest timeout.
NoOrphanWhileWorking ==
    \A q \in calls : q.at = "adapter" /\ q.number # 0 =>
        attempt[q.request][q.number].status \notin {"orphaned", "expired"}

\* docs/WORKER_PROVENANCE.md: a request that still runs when its attempt is
\* reconciled fails; so a running request ends, unless its lease is renewed for ever.
RunningRequestEnds ==
    \A r \in Requests :
        \/ request[r] = "running" ~> request[r] # "running"
        \/ \E n \in Numbers : []<><<Renews(r, n)>>_vars

=============================================================================
