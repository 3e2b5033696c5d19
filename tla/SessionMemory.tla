--------------------------- MODULE SessionMemory ---------------------------
(***************************************************************************)
(* The reviewed memory of one project: session deltas that wait to be      *)
(* applied or discarded (app/session_memory.py, app/session_routes.py),    *)
(* the tasks and the next action they change, the routes that change the   *)
(* same rows directly (app/routes.py), and the audited reviews of tasks    *)
(* (app/reconciliation_review_routes.py).                                  *)
(*                                                                         *)
(* A request loads its rows and commits later; others commit in between.   *)
(* The session neither flushes before its commit nor reads a row again     *)
(* (app/database.py: autoflush=False, expire_on_commit=False), and only    *)
(* the review locks a row.                                                 *)
(***************************************************************************)
EXTENDS Naturals, FiniteSets, SequencesExt, UnitOfWork

CONSTANTS
    Requests,       \* requests that apply, discard or review
    Titles,         \* titles of tasks
    Keys,           \* session keys that clients choose
    Proposals,      \* what a client's delta may propose
    Reviews,        \* request ids of reviews
    MaxTasks,       \* bound: tasks that routes create
    MaxEdits        \* bound: how often routes change a task or the next action

ASSUME FiniteTitles == IsFiniteSet(Titles)
ASSUME MaxEditsAssumption == MaxEdits \in Nat

ASSUME ProposalsAssumption ==
    \A p \in Proposals :
        /\ DOMAIN p = {"kind", "closes", "titles", "acts", "refs"}
        /\ p.kind \in {"session", "digest", "onboarding"}
        /\ p.closes \subseteq Nat /\ p.titles \subseteq Titles /\ p.acts \in BOOLEAN
        /\ p.refs \subseteq Nat

VARIABLES
    deltas,         \* session_deltas, in the order of their creation
    tasks,          \* tasks
    nextAction,     \* projects.next_action: "" or what it comes from
    summaries,      \* the delta each session_summaries row was written for
    reviews,        \* events of type reconciliation.review
    requests,       \* what each request has loaded
    edits,          \* how often routes changed a task or the next action
    raced           \* deltas that two requests found pending at the same time

memory == <<deltas, tasks, nextAction, summaries, reviews>>
sessionVars == <<memory, requests, edits, raced>>

Statuses == {"pending", "applied", "discarded"}
Idle == [at |-> "idle"]

Task(title) == [title |-> title, open |-> TRUE, version |-> 1]
OpenTitles == {tasks[t].title : t \in {u \in DOMAIN tasks : tasks[u].open}}

\* A delta as its creator fills it in.  Its kind is the prefix of its key, acts says
\* that it has a next action, refs are the events it names; known is of the digests that
\* are prepared: how many deltas there were when their events were chosen.
Delta(key, proposal, refs, known) ==
    [kind |-> proposal.kind, key |-> key, status |-> "pending", closes |-> proposal.closes,
     titles |-> proposal.titles, acts |-> proposal.acts, refs |-> refs, known |-> known]

SessionInit ==
    /\ deltas = <<>> /\ tasks = <<>> /\ nextAction = "" /\ summaries = <<>> /\ reviews = <<>>
    /\ requests = [q \in Requests |-> Idle]
    /\ edits = 0
    /\ raced = {}

-----------------------------------------------------------------------------
(* POST /projects/{id}/session-deltas: a key is used once in a project, and *)
(* nothing keeps a client from the prefix of an onboarding or of a digest.  *)

CreateDelta(key, proposal) ==
    /\ \A d \in DOMAIN deltas : deltas[d].key # key
    /\ deltas' = Append(deltas, Delta(key, proposal, proposal.refs, 0))
    /\ UNCHANGED <<tasks, nextAction, summaries, reviews, requests, edits, raced>>

-----------------------------------------------------------------------------
(* POST /session-deltas/{id}/apply and /discard.  Both answer 409 unless    *)
(* they find the delta pending; what they commit does not look again.       *)

\* Mutant of FoundPending: only a delta that was applied is refused.
FoundUnapplied(q, d) ==
    /\ requests[q] = Idle
    /\ deltas[d].status # "applied"
    /\ raced' = IF \E p \in Requests : requests[p].at \in {"apply", "discard"} /\ requests[p].delta = d
                THEN raced \cup {d} ELSE raced

FoundPending(q, d) ==
    /\ requests[q] = Idle
    /\ deltas[d].status = "pending"
    /\ raced' = IF \E p \in Requests : requests[p].at \in {"apply", "discard"} /\ requests[p].delta = d
                THEN raced \cup {d} ELSE raced

\* A delta that closes a task it cannot find is refused with 422 and stays pending.
LoadToApply(q, d) ==
    /\ FoundPending(q, d)
    /\ deltas[d].closes \subseteq DOMAIN tasks
    /\ requests' = [requests EXCEPT ![q] =
        [at |-> "apply", delta |-> d, action |-> nextAction,
         open |-> {t \in deltas[d].closes : tasks[t].open}]]
    /\ UNCHANGED <<memory, edits>>

LoadToDiscard(q, d) ==
    /\ FoundPending(q, d)
    /\ requests' = [requests EXCEPT ![q] = [at |-> "discard", delta |-> d]]
    /\ UNCHANGED <<memory, edits>>

\* Mutant of Locked: the review reads the task without FOR UPDATE.
NeverLocked(t) == FALSE

Locked(t) == \E q \in Requests : requests[q].at = "review" /\ requests[q].task = t

\* Mutant of ActionAfter: an onboarding replaces the action it found.
ActionReplaced(delta, found) == IF delta.acts THEN delta.kind ELSE found

\* The next action after the delta: an onboarding keeps one that it found.
ActionAfter(delta, found) ==
    IF ~delta.acts \/ (delta.kind = "onboarding" /\ found # "") THEN found ELSE delta.kind

Closed(t, r) ==
    IF t \in deltas[r.delta].closes
    THEN [tasks[t] EXCEPT !.open = @ /\ t \notin r.open, !.version = @ + 1]
    ELSE tasks[t]

\* One transaction: the summary, the tasks, the tasks closed, the next action and
\* the status of the delta.
Apply(q) ==
    LET r == requests[q]
        delta == deltas[r.delta]
    IN  /\ r.at = "apply"
        /\ \A t \in delta.closes : ~Locked(t)
        /\ summaries' = Append(summaries, r.delta)
        /\ tasks' = [t \in DOMAIN tasks |-> Closed(t, r)]
                        \o [i \in 1..Cardinality(delta.titles) |-> Task(SetToSeq(delta.titles)[i])]
        /\ nextAction' = Flushed(nextAction, r.action, ActionAfter(delta, r.action))
        /\ deltas' = [deltas EXCEPT ![r.delta].status = "applied"]
        /\ requests' = [requests EXCEPT ![q] = Idle]
        /\ UNCHANGED <<reviews, edits, raced>>

Discard(q) ==
    /\ requests[q].at = "discard"
    /\ deltas' = [deltas EXCEPT ![requests[q].delta].status = "discarded"]
    /\ requests' = [requests EXCEPT ![q] = Idle]
    /\ UNCHANGED <<tasks, nextAction, summaries, reviews, edits, raced>>

\* A request whose process dies, or whose commit fails, leaves nothing behind.
AbandonRequest(q) ==
    /\ requests[q] # Idle
    /\ requests' = [requests EXCEPT ![q] = Idle]
    /\ UNCHANGED <<memory, edits, raced>>

-----------------------------------------------------------------------------
(* The routes that write tasks and the next action without any check. *)

CreateTask(title) ==
    /\ Len(tasks) < MaxTasks
    /\ tasks' = Append(tasks, Task(title))
    /\ UNCHANGED <<deltas, nextAction, summaries, reviews, requests, edits, raced>>

UpdateTask(t, open) ==
    /\ edits < MaxEdits /\ edits' = edits + 1
    /\ ~Locked(t)
    /\ tasks' = [tasks EXCEPT ![t].open = open, ![t].version = @ + 1]
    /\ UNCHANGED <<deltas, nextAction, summaries, reviews, requests, raced>>

SetNextAction ==
    /\ edits < MaxEdits /\ edits' = edits + 1
    /\ nextAction' = "owner"
    /\ UNCHANGED <<deltas, tasks, summaries, reviews, requests, raced>>

-----------------------------------------------------------------------------
(* POST /ops/task-reconciliation/reviews.  SELECT ... FOR UPDATE holds the  *)
(* task until the review is committed.  A review that exists is answered    *)
(* again (or 409 when it says something else); a closed task and a version  *)
(* that is not the current one are answered 409.                            *)

LockTask(q, id, t) ==
    /\ requests[q] = Idle
    /\ ~Locked(t)
    /\ \A i \in DOMAIN reviews : reviews[i].id # id
    /\ tasks[t].open
    /\ requests' = [requests EXCEPT ![q] =
        [at |-> "review", id |-> id, task |-> t, expected |-> tasks[t].version, known |-> Len(reviews)]]
    /\ UNCHANGED <<memory, edits, raced>>

\* What the review says of the task, and what the task was when it was recorded.
RecordReview(q) ==
    LET r == requests[q]
    IN  /\ r.at = "review"
        /\ reviews' = Append(reviews,
            [id |-> r.id, task |-> r.task, known |-> r.known,
             current |-> tasks[r.task].open /\ tasks[r.task].version = r.expected])
        /\ requests' = [requests EXCEPT ![q] = Idle]
        /\ UNCHANGED <<deltas, tasks, nextAction, summaries, edits, raced>>

-----------------------------------------------------------------------------
SessionNext ==
    \/ \E key \in Keys, proposal \in Proposals : CreateDelta(key, proposal)
    \/ \E title \in Titles : CreateTask(title)
    \/ \E t \in DOMAIN tasks, open \in BOOLEAN : UpdateTask(t, open)
    \/ SetNextAction
    \/ \E q \in Requests :
        \/ Apply(q) \/ Discard(q) \/ RecordReview(q) \/ AbandonRequest(q)
        \/ \E d \in DOMAIN deltas : LoadToApply(q, d) \/ LoadToDiscard(q, d)
        \/ \E id \in Reviews, t \in DOMAIN tasks : LockTask(q, id, t)

-----------------------------------------------------------------------------
(* Properties *)

Deltas ==
    [kind : {"session", "digest", "onboarding"}, key : Keys \cup {"generated"}, status : Statuses,
     closes : SUBSET Nat, titles : SUBSET Titles, acts : BOOLEAN,
     refs : SUBSET Nat, known : Nat]

SessionTypeOK ==
    /\ deltas \in Seq(Deltas)
    /\ tasks \in Seq([title : Titles, open : BOOLEAN, version : Nat])
    /\ nextAction \in {"", "owner", "session", "digest", "onboarding"}
    /\ summaries \in Seq(DOMAIN deltas)
    /\ edits \in 0..MaxEdits
    /\ raced \subseteq DOMAIN deltas

SummariesOf(d) == Cardinality({i \in DOMAIN summaries : summaries[i] = d})

\* A delta that was applied or discarded stays so and is not applied again, unless two
\* requests found it pending at the same time (docs/SESSION_MEMORY.md:118-119 promises
\* it without that exception).
DeltaSettledOnce ==
    [][\A d \in (DOMAIN deltas) \ raced :
        deltas[d].status # "pending" =>
            deltas'[d].status = deltas[d].status /\ SummariesOf(d)' = SummariesOf(d)
      ]_sessionVars

\* A recorded review is about an open task at the version the reviewer saw, and a
\* request id has one review of a task; it has two only of different tasks, when
\* neither request could see the other's.
ReviewsStand ==
    /\ \A i \in DOMAIN reviews : reviews[i].current
    /\ \A i, j \in DOMAIN reviews :
        i < j /\ reviews[i].id = reviews[j].id =>
            reviews[i].task # reviews[j].task /\ reviews[j].known < i

\* An onboarding takes the place of an action of the project's owner only when the
\* owner set it after the application had loaded the project.
OwnersActionKept ==
    [][nextAction = "owner" /\ nextAction' = "onboarding" =>
        \E q \in Requests : requests[q].at = "apply" /\ requests[q].action = "" /\ requests'[q] = Idle
      ]_sessionVars

=============================================================================
