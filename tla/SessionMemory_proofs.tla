------------------------ MODULE SessionMemory_proofs ------------------------
(***************************************************************************)
(* What the requests of SessionMemory keep true, for any number of         *)
(* requests, deltas, tasks and reviews: the lemmas with which the proofs   *)
(* of ContextSync and GraphSuggestions, whose processes run next to these  *)
(* requests, start.                                                        *)
(***************************************************************************)
EXTENDS SessionMemory, FiniteSetTheorems, TLAPS

-----------------------------------------------------------------------------
(* Sequences made from sets *)

\* SetToSeq lists a finite set: a sequence as long as the set has members, of members.
LEMMA SetToSeqLists ==
    ASSUME NEW S, IsFiniteSet(S)
    PROVE  /\ Cardinality(S) \in Nat
           /\ SetToSeq(S) \in [1..Cardinality(S) -> S]
<1>1. Cardinality(S) \in Nat /\ ExistsBijection(1..Cardinality(S), S)
  BY FS_CardinalityType
<1>2. \E f \in [1..Cardinality(S) -> S] : IsInjective(f)
  BY <1>1 DEF ExistsBijection, Bijection, Injection
<1> QED BY <1>1, <1>2 DEF SetToSeq

LEMMA MinIsLeast ==
    ASSUME NEW S \in SUBSET Nat, S # {}
    PROVE  /\ Min(S) \in S
           /\ \A n \in S : Min(S) <= n
<1>1. IsWellFoundedOn(OpToRel(<, Nat), Nat)
  BY NatLessThanWellFounded
<1>2. PICK m \in S : \A n \in S : ~ (<<n, m>> \in OpToRel(<, Nat))
  BY <1>1, WFMin
<1>3. m \in S /\ \A n \in S : m <= n
  <2> SUFFICES ASSUME NEW n \in S PROVE m <= n
    OBVIOUS
  <2>1. ~ (n < m)
    BY <1>2 DEF OpToRel
  <2> QED BY <2>1
<1> QED BY <1>3 DEF Min

-----------------------------------------------------------------------------
(* The inductive invariant *)

\* What a review is, once recorded.
ReviewRows == [id : Reviews, task : Nat, known : Nat, current : BOOLEAN]

\* The rows are well formed.
RowsFit ==
    /\ SessionTypeOK
    /\ reviews \in Seq(ReviewRows)
    /\ requests = [q \in Requests |-> requests[q]]

Settles(q, d) == requests[q].at \in {"apply", "discard"} /\ requests[q].delta = d

\* A request that is about to settle a delta found it, with the tasks it closes; and as
\* long as it was the only one to find it so, the delta is pending.
SettlesKnown ==
    /\ \A q \in Requests :
        requests[q].at \in {"apply", "discard"} =>
            /\ requests[q].delta \in DOMAIN deltas
            /\ requests[q].at = "apply" => deltas[requests[q].delta].closes \subseteq DOMAIN tasks
    /\ \A q \in Requests, d \in (DOMAIN deltas) \ raced :
        Settles(q, d) =>
            /\ deltas[d].status = "pending"
            /\ \A p \in Requests : Settles(p, d) => p = q

\* The lock a review holds is its own, and keeps the task as the review found it; what
\* was recorded under its id since is about other tasks.
LocksHold ==
    \A q \in Requests :
        requests[q].at = "review" =>
            LET r == requests[q]
            IN  /\ r.id \in Reviews /\ r.task \in DOMAIN tasks /\ r.known \in 0..Len(reviews)
                /\ tasks[r.task].open /\ tasks[r.task].version = r.expected
                /\ \A p \in Requests : requests[p].at = "review" /\ requests[p].task = r.task => p = q
                /\ \A i \in DOMAIN reviews :
                    reviews[i].id = r.id => r.known < i /\ reviews[i].task # r.task

SessionInv == RowsFit /\ SettlesKnown /\ LocksHold /\ ReviewsStand

LEMMA SessionStarts == SessionInit => SessionInv
<1> SUFFICES ASSUME SessionInit PROVE SessionInv
  OBVIOUS
<1>1. /\ deltas = <<>> /\ tasks = <<>> /\ nextAction = "" /\ summaries = <<>> /\ reviews = <<>>
      /\ edits = 0 /\ raced = {}
      /\ requests = [q \in Requests |-> Idle]
  BY DEF SessionInit
<1>e. (\A S : <<>> \in Seq(S)) /\ DOMAIN <<>> = {}
  OBVIOUS
<1>r. requests = [q \in Requests |-> requests[q]]
  BY <1>1
<1>2. RowsFit
  <2>1. /\ deltas \in Seq(Deltas)
        /\ tasks \in Seq([title : Titles, open : BOOLEAN, version : Nat])
        /\ summaries \in Seq(DOMAIN deltas)
        /\ reviews \in Seq(ReviewRows)
        /\ DOMAIN deltas = {}
    BY <1>1, <1>e
  <2>2. edits \in 0..MaxEdits /\ raced \subseteq DOMAIN deltas
    <3>1. edits \in 0..MaxEdits
      <4>1. MaxEdits \in Nat
        BY MaxEditsAssumption
      <4>2. edits = 0
        BY <1>1
      <4>3. 0 \in 0..MaxEdits
        BY <4>1
      <4> QED BY <4>2, <4>3
    <3>2. raced \subseteq DOMAIN deltas
      BY <1>1
    <3> QED BY <3>1, <3>2
  <2> QED BY <1>1, <1>r, <2>1, <2>2 DEF RowsFit, SessionTypeOK
<1>3. \A q \in Requests : requests[q].at = "idle"
  BY <1>1 DEF Idle
<1>4. SettlesKnown /\ LocksHold
  BY <1>3 DEF SettlesKnown, LocksHold, Settles
<1>5. ReviewsStand
  <2>1. DOMAIN reviews = {}
    BY <1>1, <1>e
  <2> QED BY <2>1 DEF ReviewsStand
<1> QED BY <1>2, <1>4, <1>5 DEF SessionInv

-----------------------------------------------------------------------------
(* What the steps do to the rows *)

LEMMA DeltaFits ==
    ASSUME NEW key \in Keys \cup {"generated"}, NEW refs \in SUBSET Nat, NEW known \in Nat,
           NEW p, p.kind \in {"session", "digest", "onboarding"}, p.closes \subseteq Nat,
           p.titles \subseteq Titles, p.acts \in BOOLEAN
    PROVE  /\ Delta(key, p, refs, known) \in Deltas
           /\ Delta(key, p, refs, known).status = "pending"
           /\ Delta(key, p, refs, known).kind = p.kind
           /\ Delta(key, p, refs, known).acts = p.acts
           /\ Delta(key, p, refs, known).refs = refs
           /\ Delta(key, p, refs, known).known = known
  BY DEF Delta, Deltas, Statuses

\* One more delta, at the end.
OneMore(new) == deltas' = Append(deltas, new)

LEMMA OneMoreFits ==
    ASSUME RowsFit, NEW new \in Deltas, OneMore(new)
    PROVE  /\ deltas' \in Seq(Deltas)
           /\ Len(deltas') = Len(deltas) + 1
           /\ DOMAIN deltas \subseteq DOMAIN deltas'
           /\ \A d \in DOMAIN deltas : deltas'[d] = deltas[d]
           /\ \A d \in DOMAIN deltas' : d \notin DOMAIN deltas => d = Len(deltas) + 1 /\ deltas'[d] = new
<1>1. deltas \in Seq(Deltas)
  BY DEF RowsFit, SessionTypeOK
<1>2. /\ deltas' \in Seq(Deltas)
      /\ Len(deltas') = Len(deltas) + 1
      /\ DOMAIN deltas \subseteq DOMAIN deltas'
      /\ \A d \in DOMAIN deltas : deltas'[d] = deltas[d]
      /\ \A d \in DOMAIN deltas' : d \notin DOMAIN deltas => d = Len(deltas) + 1 /\ deltas'[d] = new
  BY <1>1 DEF OneMore
<1> QED BY <1>2

\* A delta that is settled changes its status and nothing else.
SetStatus(d, status) == deltas' = [deltas EXCEPT ![d].status = status]

LEMMA SetStatusFits ==
    ASSUME RowsFit, NEW c \in DOMAIN deltas, NEW status \in {"applied", "discarded"}, SetStatus(c, status)
    PROVE  /\ deltas' \in Seq(Deltas)
           /\ DOMAIN deltas' = DOMAIN deltas
           /\ deltas'[c] = [deltas[c] EXCEPT !.status = status]
           /\ \A d \in DOMAIN deltas : d # c => deltas'[d] = deltas[d]
           /\ deltas'[c].status = status
           /\ \A d \in DOMAIN deltas :
                /\ deltas'[d].kind = deltas[d].kind /\ deltas'[d].closes = deltas[d].closes
                /\ deltas'[d].refs = deltas[d].refs /\ deltas'[d].known = deltas[d].known
                /\ deltas'[d].acts = deltas[d].acts
<1>1. deltas \in Seq(Deltas)
  BY DEF RowsFit, SessionTypeOK
<1>2. DOMAIN deltas' = DOMAIN deltas /\ Len(deltas') = Len(deltas)
  BY <1>1 DEF SetStatus
<1>3. deltas'[c] = [deltas[c] EXCEPT !.status = status]
  BY <1>1 DEF SetStatus
<1>4. \A d \in DOMAIN deltas : d # c => deltas'[d] = deltas[d]
  BY <1>1 DEF SetStatus
<1>5. deltas[c] \in Deltas
  BY <1>1
<1>6. deltas'[c] \in Deltas /\ deltas'[c].status = status
  BY <1>3, <1>5 DEF Deltas, Statuses
<1>7. deltas' \in Seq(Deltas)
  BY <1>1, <1>2, <1>4, <1>6 DEF SetStatus
<1>8. /\ deltas'[c].kind = deltas[c].kind /\ deltas'[c].closes = deltas[c].closes
      /\ deltas'[c].refs = deltas[c].refs /\ deltas'[c].known = deltas[c].known
      /\ deltas'[c].acts = deltas[c].acts
  BY <1>3, <1>5 DEF Deltas
<1>9. \A d \in DOMAIN deltas :
        /\ deltas'[d].kind = deltas[d].kind /\ deltas'[d].closes = deltas[d].closes
        /\ deltas'[d].refs = deltas[d].refs /\ deltas'[d].known = deltas[d].known
        /\ deltas'[d].acts = deltas[d].acts
  BY <1>4, <1>8
<1> QED BY <1>2, <1>3, <1>4, <1>6, <1>7, <1>9

-----------------------------------------------------------------------------
(* The tasks that an application leaves *)

TaskRows == [title : Titles, open : BOOLEAN, version : Nat]

\* What every step does to the tasks: none disappears, and a locked one stays as it is.
TasksKept ==
    /\ tasks' \in Seq(TaskRows)
    /\ DOMAIN tasks \subseteq DOMAIN tasks'
    /\ \A t \in DOMAIN tasks : Locked(t) => tasks'[t] = tasks[t]

LEMMA Reworked ==
    ASSUME NEW row \in TaskRows, NEW open \in BOOLEAN
    PROVE  [row EXCEPT !.open = open, !.version = @ + 1] \in TaskRows
<1>1. row.version + 1 \in Nat
  BY DEF TaskRows
<1> DEFINE version == row.version + 1
           opened == [row EXCEPT !.open = open]
<1>2. opened \in TaskRows /\ opened.version = row.version
  BY DEF TaskRows
<1>3. version \in Nat
  BY <1>1
<1> HIDE DEF opened, version
<1>4. [opened EXCEPT !.version = version] \in TaskRows
  BY <1>2, <1>3 DEF TaskRows
<1> QED BY <1>2, <1>4 DEF opened, version

LEMMA AppliedTasks ==
    ASSUME RowsFit, SettlesKnown, NEW q \in Requests, Apply(q)
    PROVE  TasksKept
<1> DEFINE r == requests[q]
           delta == deltas[r.delta]
           changed == [t \in DOMAIN tasks |-> Closed(t, r)]
           added == [i \in 1..Cardinality(delta.titles) |-> Task(SetToSeq(delta.titles)[i])]
<1>1. tasks \in Seq(TaskRows) /\ deltas \in Seq(Deltas)
  BY DEF RowsFit, SessionTypeOK, TaskRows
<1>2. r.at = "apply" /\ r.delta \in DOMAIN deltas /\ delta.closes \subseteq DOMAIN tasks
  BY DEF Apply, SettlesKnown
<1>3. tasks' = changed \o added
  BY DEF Apply
<1>4. \A t \in delta.closes : ~Locked(t)
  BY DEF Apply
<1>5. \A t \in DOMAIN tasks : Closed(t, r) \in TaskRows /\ (Locked(t) => Closed(t, r) = tasks[t])
  <2> SUFFICES ASSUME NEW t \in DOMAIN tasks
               PROVE  Closed(t, r) \in TaskRows /\ (Locked(t) => Closed(t, r) = tasks[t])
    OBVIOUS
  <2>1. tasks[t] \in TaskRows
    BY <1>1
  <2>2. CASE t \in delta.closes
    <3>1. Closed(t, r) = [tasks[t] EXCEPT !.open = @ /\ t \notin r.open, !.version = @ + 1]
      BY <2>2 DEF Closed
    <3>2. Closed(t, r) \in TaskRows
      <4> DEFINE open == tasks[t].open /\ t \notin r.open
      <4>1. Closed(t, r) = [tasks[t] EXCEPT !.open = open, !.version = @ + 1]
        BY <3>1
      <4>2. open \in BOOLEAN
        OBVIOUS
      <4> HIDE DEF open
      <4> QED BY <2>1, <4>1, <4>2, Reworked
    <3> QED BY <1>4, <2>2, <3>2
  <2>3. CASE t \notin delta.closes
    BY <2>1, <2>3 DEF Closed
  <2> QED BY <2>2, <2>3
<1>6. changed \in Seq(TaskRows) /\ Len(changed) = Len(tasks) /\ \A t \in DOMAIN tasks : changed[t] = Closed(t, r)
  <2>1. DOMAIN tasks = 1..Len(tasks) /\ Len(tasks) \in Nat
    BY <1>1
  <2>2. changed \in [1..Len(tasks) -> TaskRows]
    BY <1>5, <2>1
  <2>3. changed \in Seq(TaskRows) /\ Len(changed) = Len(tasks)
    BY <2>1, <2>2
  <2> QED BY <2>3
<1>7. added \in Seq(TaskRows)
  <2>1. delta.titles \subseteq Titles
    <3>1. delta \in Deltas
      BY <1>1, <1>2
    <3> HIDE DEF delta
    <3> QED BY <3>1 DEF Deltas
  <2>2. IsFiniteSet(delta.titles)
    BY <2>1, FiniteTitles, FS_Subset
  <2>3. Cardinality(delta.titles) \in Nat /\ SetToSeq(delta.titles) \in [1..Cardinality(delta.titles) -> delta.titles]
    BY <2>2, SetToSeqLists
  <2>4. \A title \in Titles : Task(title) \in TaskRows
    BY DEF Task, TaskRows
  <2>5. added \in [1..Cardinality(delta.titles) -> TaskRows]
    BY <2>1, <2>3, <2>4
  <2> QED BY <2>3, <2>5
<1> HIDE DEF changed, added
<1>8. /\ tasks' \in Seq(TaskRows)
      /\ DOMAIN tasks \subseteq DOMAIN tasks'
      /\ \A t \in DOMAIN tasks : tasks'[t] = changed[t]
  BY <1>1, <1>3, <1>6, <1>7
<1> QED BY <1>5, <1>6, <1>8 DEF TasksKept

LEMMA TasksStay ==
    ASSUME RowsFit, SettlesKnown, SessionNext
    PROVE  TasksKept
<1>1. tasks \in Seq(TaskRows)
  BY DEF RowsFit, SessionTypeOK, TaskRows
<1>2. ASSUME UNCHANGED tasks PROVE TasksKept
  BY <1>1, <1>2 DEF TasksKept
<1>3. ASSUME NEW title \in Titles, CreateTask(title) PROVE TasksKept
  <2>1. Task(title) \in TaskRows
    BY DEF Task, TaskRows
  <2>2. tasks' = Append(tasks, Task(title))
    BY <1>3 DEF CreateTask
  <2> QED BY <1>1, <2>1, <2>2 DEF TasksKept
<1>4. ASSUME NEW t \in DOMAIN tasks, NEW open \in BOOLEAN, UpdateTask(t, open) PROVE TasksKept
  <2> DEFINE row == [tasks[t] EXCEPT !.open = open, !.version = @ + 1]
  <2>1. row \in TaskRows
    <3>1. tasks[t] \in TaskRows
      BY <1>1
    <3> QED BY <3>1, Reworked
  <2>2. tasks' = [tasks EXCEPT ![t] = row] /\ ~Locked(t)
    BY <1>4, <1>1 DEF UpdateTask
  <2> HIDE DEF row
  <2> QED BY <1>1, <2>1, <2>2 DEF TasksKept
<1>5. ASSUME NEW q \in Requests, Apply(q) PROVE TasksKept
  BY <1>5, AppliedTasks
<1>6. ASSUME ~UNCHANGED tasks
      PROVE  \/ \E title \in Titles : CreateTask(title)
             \/ \E t \in DOMAIN tasks, open \in BOOLEAN : UpdateTask(t, open)
             \/ \E q \in Requests : Apply(q)
  BY <1>6 DEF SessionNext, CreateDelta, SetNextAction, Discard, RecordReview, AbandonRequest,
              LoadToApply, LoadToDiscard, LockTask, memory
<1> QED BY <1>2, <1>3, <1>4, <1>5, <1>6

-----------------------------------------------------------------------------
(* What every step does to the deltas *)

\* None disappears or is written again, but for its status, which never returns to
\* pending; what is new is pending, and was chosen by nobody.
DeltasKept ==
    /\ deltas' \in Seq(Deltas)
    /\ Len(deltas) <= Len(deltas')
    /\ DOMAIN deltas \subseteq DOMAIN deltas'
    /\ \A d \in DOMAIN deltas :
        /\ deltas'[d].kind = deltas[d].kind /\ deltas'[d].closes = deltas[d].closes
        /\ deltas'[d].refs = deltas[d].refs /\ deltas'[d].known = deltas[d].known
        /\ deltas'[d].acts = deltas[d].acts
        /\ deltas[d].status # "pending" => deltas'[d].status # "pending"
    /\ \A d \in DOMAIN deltas' :
        d \notin DOMAIN deltas => deltas'[d].status = "pending" /\ deltas'[d].known = 0

LEMMA DeltasStay ==
    ASSUME RowsFit, SettlesKnown, SessionNext
    PROVE  DeltasKept
<1>1. deltas \in Seq(Deltas)
  BY DEF RowsFit, SessionTypeOK
<1>2. CASE UNCHANGED deltas
  BY <1>1, <1>2 DEF DeltasKept
<1>3. ASSUME NEW key \in Keys, NEW p \in Proposals, CreateDelta(key, p)
      PROVE  DeltasKept
  <2> DEFINE new == Delta(key, p, p.refs, 0)
  <2>1. /\ p.kind \in {"session", "digest", "onboarding"} /\ p.closes \subseteq Nat
        /\ p.titles \subseteq Titles /\ p.acts \in BOOLEAN /\ p.refs \in SUBSET Nat
    BY ProposalsAssumption
  <2>2. new \in Deltas /\ new.status = "pending" /\ new.known = 0
    BY <2>1, DeltaFits
  <2>3. OneMore(new)
    BY <1>3 DEF CreateDelta, OneMore
  <2> HIDE DEF new
  <2>4. /\ deltas' \in Seq(Deltas)
        /\ Len(deltas') = Len(deltas) + 1
        /\ DOMAIN deltas \subseteq DOMAIN deltas'
        /\ \A d \in DOMAIN deltas : deltas'[d] = deltas[d]
        /\ \A d \in DOMAIN deltas' : d \notin DOMAIN deltas => d = Len(deltas) + 1 /\ deltas'[d] = new
    BY <2>2, <2>3, OneMoreFits
  <2>5. Len(deltas) <= Len(deltas')
    BY <1>1, <2>4
  <2> QED BY <2>2, <2>4, <2>5 DEF DeltasKept
<1>4. ASSUME NEW q \in Requests, Apply(q) \/ Discard(q)
      PROVE  DeltasKept
  <2>1. requests[q].delta \in DOMAIN deltas
    BY <1>4 DEF Apply, Discard, SettlesKnown
  <2>2. PICK status \in {"applied", "discarded"} : SetStatus(requests[q].delta, status)
    BY <1>4 DEF Apply, Discard, SetStatus
  <2>3. /\ deltas' \in Seq(Deltas)
        /\ DOMAIN deltas' = DOMAIN deltas
        /\ \A d \in DOMAIN deltas : d # requests[q].delta => deltas'[d] = deltas[d]
        /\ deltas'[requests[q].delta].status = status
        /\ \A d \in DOMAIN deltas :
            /\ deltas'[d].kind = deltas[d].kind /\ deltas'[d].closes = deltas[d].closes
            /\ deltas'[d].refs = deltas[d].refs /\ deltas'[d].known = deltas[d].known
            /\ deltas'[d].acts = deltas[d].acts
    BY <2>1, <2>2, SetStatusFits
  <2>4. Len(deltas) <= Len(deltas')
    BY <1>1, <2>3
  <2>5. \A d \in DOMAIN deltas : deltas[d].status # "pending" => deltas'[d].status # "pending"
    BY <2>3
  <2> QED BY <1>1, <2>3, <2>4, <2>5 DEF DeltasKept
<1>5. ASSUME ~UNCHANGED deltas
      PROVE  \/ \E key \in Keys, p \in Proposals : CreateDelta(key, p)
             \/ \E q \in Requests : Apply(q) \/ Discard(q)
  BY <1>5 DEF SessionNext, CreateTask, UpdateTask, SetNextAction, RecordReview, AbandonRequest,
              LoadToApply, LoadToDiscard, LockTask, memory
<1> QED BY <1>2, <1>3, <1>4, <1>5

-----------------------------------------------------------------------------
(* What every step does to reviews and requests *)

LEMMA ReviewsStay ==
    ASSUME RowsFit, LocksHold, SessionNext
    PROVE  reviews' \in Seq(ReviewRows) /\ requests' = [q \in Requests |-> requests'[q]]
<1>1. tasks \in Seq(TaskRows) /\ reviews \in Seq(ReviewRows)
  BY DEF RowsFit, SessionTypeOK, TaskRows
<1>2. ASSUME NEW q \in Requests, RecordReview(q) PROVE reviews' \in Seq(ReviewRows)
  <2> DEFINE r == requests[q]
             new == [id |-> r.id, task |-> r.task, known |-> r.known,
                     current |-> tasks[r.task].open /\ tasks[r.task].version = r.expected]
  <2>1. r.id \in Reviews /\ r.task \in DOMAIN tasks /\ r.known \in 0..Len(reviews)
    BY <1>2 DEF RecordReview, LocksHold
  <2>2. r.task \in Nat /\ r.known \in Nat
    BY <1>1, <2>1
  <2>3. new \in ReviewRows
    BY <2>1, <2>2 DEF ReviewRows
  <2>4. reviews' = Append(reviews, new)
    BY <1>2 DEF RecordReview
  <2> HIDE DEF new
  <2> QED BY <1>1, <2>3, <2>4
<1>3. ASSUME ~UNCHANGED reviews PROVE \E q \in Requests : RecordReview(q)
  BY <1>3 DEF SessionNext, CreateDelta, CreateTask, UpdateTask, SetNextAction, Apply, Discard, AbandonRequest,
              LoadToApply, LoadToDiscard, LockTask, memory
<1>4. reviews' \in Seq(ReviewRows)
  BY <1>1, <1>2, <1>3
<1>5. requests = [q \in Requests |-> requests[q]]
  BY DEF RowsFit
<1>6. UNCHANGED requests \/ \E q \in Requests : \E v : requests' = [requests EXCEPT ![q] = v]
  <2>1. ASSUME NEW q \in Requests, NEW d \in DOMAIN deltas, LoadToApply(q, d) \/ LoadToDiscard(q, d)
        PROVE  \E v : requests' = [requests EXCEPT ![q] = v]
    BY <2>1 DEF LoadToApply, LoadToDiscard
  <2>2. ASSUME NEW q \in Requests, NEW id \in Reviews, NEW t \in DOMAIN tasks, LockTask(q, id, t)
        PROVE  \E v : requests' = [requests EXCEPT ![q] = v]
    BY <2>2 DEF LockTask
  <2>3. ASSUME NEW q \in Requests, Apply(q) \/ Discard(q) \/ RecordReview(q) \/ AbandonRequest(q)
        PROVE  \E v : requests' = [requests EXCEPT ![q] = v]
    BY <2>3 DEF Apply, Discard, RecordReview, AbandonRequest
  <2> QED BY <2>1, <2>2, <2>3 DEF SessionNext, CreateDelta, CreateTask, UpdateTask, SetNextAction
<1>7. requests' = [q \in Requests |-> requests'[q]]
  BY <1>5, <1>6
<1> QED BY <1>4, <1>7

LEMMA RowsStay ==
    ASSUME RowsFit, SettlesKnown, LocksHold, SessionNext
    PROVE  RowsFit'
<1>1. tasks' \in Seq(TaskRows)
  BY TasksStay DEF TasksKept
<1>2. /\ deltas' \in Seq(Deltas) /\ DOMAIN deltas \subseteq DOMAIN deltas'
  BY DeltasStay DEF DeltasKept
<1>3. reviews' \in Seq(ReviewRows) /\ requests' = [q \in Requests |-> requests'[q]]
  BY ReviewsStay
<1>4. /\ summaries \in Seq(DOMAIN deltas) /\ edits \in 0..MaxEdits /\ raced \subseteq DOMAIN deltas
      /\ nextAction \in {"", "owner", "session", "digest", "onboarding"}
  BY DEF RowsFit, SessionTypeOK
<1>5. nextAction' \in {"", "owner", "session", "digest", "onboarding"}
  <2>1. ASSUME NEW q \in Requests, Apply(q)
        PROVE  nextAction' \in {"", "owner", "session", "digest", "onboarding"}
    <3> DEFINE r == requests[q]
    <3>0. r.delta \in DOMAIN deltas
      BY <2>1 DEF SettlesKnown, Apply
    <3>1. deltas[r.delta] \in Deltas
      <4>1. deltas \in Seq(Deltas)
        BY DEF RowsFit, SessionTypeOK
      <4> QED BY <3>0, <4>1
    <3>2. deltas[r.delta].kind \in {"session", "digest", "onboarding"}
      BY <3>1 DEF Deltas
    <3>3. nextAction' = nextAction \/ (deltas[r.delta].acts /\ nextAction' = deltas[r.delta].kind)
      BY <2>1 DEF Apply, Flushed, ActionAfter
    <3> QED BY <1>4, <3>1, <3>2, <3>3
  <2>2. ASSUME ~UNCHANGED nextAction PROVE nextAction' = "owner" \/ \E q \in Requests : Apply(q)
    BY <2>2 DEF SessionNext, CreateDelta, CreateTask, UpdateTask, SetNextAction, Discard, RecordReview, AbandonRequest,
                LoadToApply, LoadToDiscard, LockTask, memory
  <2> QED BY <1>4, <2>1, <2>2
<1>6. summaries' \in Seq(DOMAIN deltas')
  <2>1. summaries \in Seq(DOMAIN deltas')
    <3>1. ASSUME NEW S, NEW T, S \subseteq T, NEW s \in Seq(S) PROVE s \in Seq(T)
      BY <3>1
    <3>2. DOMAIN deltas \subseteq DOMAIN deltas' /\ summaries \in Seq(DOMAIN deltas)
      BY <1>2, <1>4
    <3> QED BY <3>1, <3>2
  <2>2. UNCHANGED summaries \/ \E q \in Requests : Apply(q)
    BY DEF SessionNext, CreateDelta, CreateTask, UpdateTask, SetNextAction, Discard, RecordReview, AbandonRequest,
           LoadToApply, LoadToDiscard, LockTask, memory
  <2>3. ASSUME NEW q \in Requests, Apply(q) PROVE summaries' \in Seq(DOMAIN deltas')
    <3>1. requests[q].delta \in DOMAIN deltas' /\ summaries' = Append(summaries, requests[q].delta)
      BY <1>2, <2>3 DEF SettlesKnown, Apply
    <3> QED BY <2>1, <3>1
  <2> QED BY <2>1, <2>2, <2>3
<1>7. edits' \in 0..MaxEdits
  <2>1. UNCHANGED edits \/ (edits < MaxEdits /\ edits' = edits + 1)
    BY DEF SessionNext, CreateDelta, CreateTask, UpdateTask, SetNextAction, Apply, Discard, RecordReview,
           AbandonRequest, LoadToApply, LoadToDiscard, LockTask, memory
  <2>2. MaxEdits \in Nat /\ edits \in 0..MaxEdits
    BY <1>4, MaxEditsAssumption
  <2> QED BY <2>1, <2>2
<1>8. raced' \subseteq DOMAIN deltas'
  <2>1. UNCHANGED raced \/ \E d \in DOMAIN deltas : raced' \subseteq raced \cup {d}
    BY DEF SessionNext, CreateDelta, CreateTask, UpdateTask, SetNextAction, Apply, Discard, RecordReview,
           AbandonRequest, LoadToApply, LoadToDiscard, LockTask, FoundPending
  <2> QED BY <1>2, <1>4, <2>1
<1> QED BY <1>1, <1>2, <1>3, <1>5, <1>6, <1>7, <1>8 DEF RowsFit, SessionTypeOK, TaskRows

-----------------------------------------------------------------------------
(* Who settles a delta *)

LEMMA Tasked ==
    ASSUME RowsFit, NEW q \in Requests, NEW v, requests' = [requests EXCEPT ![q] = v]
    PROVE  requests'[q] = v /\ \A p \in Requests : p # q => requests'[p] = requests[p]
  BY DEF RowsFit

\* A request that has ended, or holds a task, settles nothing.
LEMMA SettlesStay ==
    ASSUME RowsFit, SettlesKnown, LocksHold, SessionNext
    PROVE  SettlesKnown'
<1>1. DOMAIN tasks \subseteq DOMAIN tasks'
  BY TasksStay DEF TasksKept
<1>2. /\ DOMAIN deltas \subseteq DOMAIN deltas'
      /\ \A d \in DOMAIN deltas : deltas'[d].closes = deltas[d].closes
  BY DeltasStay DEF DeltasKept
<1>3. raced \subseteq DOMAIN deltas
  BY DEF RowsFit, SessionTypeOK
<1> DEFINE Carried(q) == requests'[q] = requests[q]
<1>4. ASSUME raced \subseteq raced',
             \A d \in DOMAIN deltas : deltas'[d].status # deltas[d].status =>
                \E q \in Requests : Settles(q, d) /\ ~Settles(q, d)',
             \A q \in Requests : requests'[q].at \in {"apply", "discard"} => Carried(q)
      PROVE  SettlesKnown'
  <2>1. ASSUME NEW q \in Requests, requests'[q].at \in {"apply", "discard"}
        PROVE  /\ requests'[q].delta \in DOMAIN deltas'
               /\ requests'[q].at = "apply" => deltas'[requests'[q].delta].closes \subseteq DOMAIN tasks'
    <3>1. requests'[q] = requests[q]
      BY <1>4, <2>1
    <3> QED BY <1>1, <1>2, <2>1, <3>1 DEF SettlesKnown
  <2>2. ASSUME NEW q \in Requests, NEW d \in (DOMAIN deltas') \ raced', Settles(q, d)'
        PROVE  deltas'[d].status = "pending" /\ \A p \in Requests : Settles(p, d)' => p = q
    <3>1. \A p \in Requests : Settles(p, d)' => Settles(p, d)
      BY <1>4 DEF Settles
    <3>2. d \in (DOMAIN deltas) \ raced
      BY <1>4, <2>2, <3>1 DEF SettlesKnown, Settles
    <3>3. deltas[d].status = "pending" /\ \A p \in Requests : Settles(p, d) => p = q
      BY <2>2, <3>1, <3>2 DEF SettlesKnown
    <3>4. deltas'[d].status = deltas[d].status
      BY <1>4, <2>2, <3>2, <3>3
    <3> QED BY <3>1, <3>3, <3>4
  <2> QED BY <2>1, <2>2 DEF SettlesKnown
<1>5. ASSUME NEW q \in Requests, NEW d \in DOMAIN deltas, LoadToApply(q, d) \/ LoadToDiscard(q, d)
      PROVE  SettlesKnown'
  <2>1. UNCHANGED <<deltas, tasks>> /\ FoundPending(q, d)
    BY <1>5 DEF LoadToApply, LoadToDiscard, memory
  <2>2. PICK v : /\ requests' = [requests EXCEPT ![q] = v] /\ v.at \in {"apply", "discard"} /\ v.delta = d
                 /\ v.at = "apply" => deltas[d].closes \subseteq DOMAIN tasks
    <3>1. CASE LoadToApply(q, d)
      <4> DEFINE v == [at |-> "apply", delta |-> d, action |-> nextAction,
                       open |-> {t \in deltas[d].closes : tasks[t].open}]
      <4>1. requests' = [requests EXCEPT ![q] = v] /\ deltas[d].closes \subseteq DOMAIN tasks
        BY <3>1 DEF LoadToApply
      <4>2. v.at \in {"apply", "discard"} /\ v.delta = d
        OBVIOUS
      <4> HIDE DEF v
      <4> QED BY <4>1, <4>2
    <3>2. CASE LoadToDiscard(q, d)
      <4> DEFINE v == [at |-> "discard", delta |-> d]
      <4>1. requests' = [requests EXCEPT ![q] = v] /\ v.at = "discard" /\ v.delta = d
        BY <3>2 DEF LoadToDiscard
      <4> HIDE DEF v
      <4> QED BY <4>1
    <3> QED BY <1>5, <3>1, <3>2
  <2>3. requests'[q] = v /\ \A p \in Requests : p # q => requests'[p] = requests[p]
    BY <2>2, Tasked
  <2>4. raced \subseteq raced' /\ ((\E p \in Requests : Settles(p, d)) => d \in raced')
    BY <2>1 DEF FoundPending, Settles
  <2>5. deltas[d].status = "pending"
    BY <2>1 DEF FoundPending
  <2>6. ASSUME NEW p \in Requests, requests'[p].at \in {"apply", "discard"}
        PROVE  /\ requests'[p].delta \in DOMAIN deltas'
               /\ requests'[p].at = "apply" => deltas'[requests'[p].delta].closes \subseteq DOMAIN tasks'
    BY <2>1, <2>2, <2>3, <2>6 DEF SettlesKnown
  <2>7. ASSUME NEW p \in Requests, NEW e \in (DOMAIN deltas') \ raced', Settles(p, e)'
        PROVE  deltas'[e].status = "pending" /\ \A o \in Requests : Settles(o, e)' => o = p
    <3>1. e \in (DOMAIN deltas) \ raced
      BY <2>1, <2>4, <2>7
    <3>2. CASE e = d
      <4>1. \A o \in Requests : ~Settles(o, d)
        BY <2>4, <2>7, <3>2
      <4>2. \A o \in Requests : Settles(o, d)' => o = q
        BY <2>3, <4>1 DEF Settles
      <4> QED BY <2>1, <2>5, <2>7, <3>2, <4>2
    <3>3. CASE e # d
      <4>1. \A o \in Requests : Settles(o, e)' => Settles(o, e)
        BY <2>2, <2>3, <3>3 DEF Settles
      <4> QED BY <2>1, <2>7, <3>1, <4>1 DEF SettlesKnown
    <3> QED BY <3>2, <3>3
  <2> QED BY <2>6, <2>7 DEF SettlesKnown
<1>6. ASSUME NEW q \in Requests, Apply(q) \/ Discard(q) PROVE SettlesKnown'
  <2>1. PICK status \in {"applied", "discarded"} : SetStatus(requests[q].delta, status)
    BY <1>6 DEF Apply, Discard, SetStatus
  <2>2. requests[q].at \in {"apply", "discard"} /\ requests[q].delta \in DOMAIN deltas
    BY <1>6 DEF Apply, Discard, SettlesKnown
  <2>3. \A d \in DOMAIN deltas : d # requests[q].delta => deltas'[d] = deltas[d]
    BY <2>1, <2>2, SetStatusFits
  <2>4. requests' = [requests EXCEPT ![q] = Idle] /\ UNCHANGED raced
    BY <1>6 DEF Apply, Discard
  <2>5. requests'[q] = Idle /\ \A p \in Requests : p # q => requests'[p] = requests[p]
    BY <2>4, Tasked
  <2>6. \A d \in DOMAIN deltas : d = requests[q].delta => Settles(q, d) /\ ~Settles(q, d)'
    BY <2>2, <2>5 DEF Settles, Idle
  <2>7. \A p \in Requests : requests'[p].at \in {"apply", "discard"} => Carried(p)
    BY <2>5 DEF Idle
  <2>8. \A d \in DOMAIN deltas : deltas'[d].status # deltas[d].status =>
            \E o \in Requests : Settles(o, d) /\ ~Settles(o, d)'
    BY <2>3, <2>6
  <2> QED BY <1>4, <2>4, <2>7, <2>8
<1>7. ASSUME UNCHANGED raced, \A d \in DOMAIN deltas : deltas'[d].status = deltas[d].status,
             NEW q \in Requests, NEW v, v.at \notin {"apply", "discard"}, requests' = [requests EXCEPT ![q] = v]
      PROVE  SettlesKnown'
  <2>1. requests'[q] = v /\ \A p \in Requests : p # q => requests'[p] = requests[p]
    BY <1>7, Tasked
  <2> QED BY <1>4, <1>7, <2>1
<1>8. ASSUME NEW q \in Requests, RecordReview(q) \/ AbandonRequest(q) PROVE SettlesKnown'
  BY <1>7, <1>8 DEF RecordReview, AbandonRequest, memory, Idle
<1>9. ASSUME NEW q \in Requests, NEW id \in Reviews, NEW t \in DOMAIN tasks, LockTask(q, id, t) PROVE SettlesKnown'
  BY <1>7, <1>9 DEF LockTask, memory
<1>10. ASSUME NEW key \in Keys, NEW p \in Proposals, CreateDelta(key, p) PROVE SettlesKnown'
  <2>1. \A d \in DOMAIN deltas : deltas'[d] = deltas[d]
    <3>1. deltas \in Seq(Deltas) /\ deltas' = Append(deltas, Delta(key, p, p.refs, 0))
      BY <1>10 DEF RowsFit, SessionTypeOK, CreateDelta
    <3> HIDE DEF Delta
    <3> QED BY <3>1
  <2>2. UNCHANGED <<requests, raced>>
    BY <1>10 DEF CreateDelta
  <2> QED BY <1>4, <2>1, <2>2
<1>11. ASSUME \/ \E title \in Titles : CreateTask(title)
              \/ \E t \in DOMAIN tasks, open \in BOOLEAN : UpdateTask(t, open)
              \/ SetNextAction
       PROVE  SettlesKnown'
  <2>1. UNCHANGED <<deltas, requests, raced>>
    BY <1>11 DEF CreateTask, UpdateTask, SetNextAction
  <2> QED BY <1>4, <2>1
<1> QED BY <1>5, <1>6, <1>8, <1>9, <1>10, <1>11 DEF SessionNext

-----------------------------------------------------------------------------
(* Reviews and the locks they are made under *)

LEMMA LocksStay ==
    ASSUME RowsFit, LocksHold, ReviewsStand, SettlesKnown, SessionNext
    PROVE  LocksHold' /\ ReviewsStand'
<1>1. /\ DOMAIN tasks \subseteq DOMAIN tasks'
      /\ \A t \in DOMAIN tasks : Locked(t) => tasks'[t] = tasks[t]
  BY TasksStay DEF TasksKept
<1>2. reviews \in Seq(ReviewRows)
  BY DEF RowsFit
<1>3. ASSUME UNCHANGED reviews, \A q \in Requests : requests'[q].at = "review" => requests'[q] = requests[q]
      PROVE  LocksHold' /\ ReviewsStand'
  <2>1. ReviewsStand'
    BY <1>3 DEF ReviewsStand
  <2>2. ASSUME NEW q \in Requests, requests'[q].at = "review"
        PROVE  LET r == requests'[q]
               IN  /\ r.id \in Reviews /\ r.task \in DOMAIN tasks' /\ r.known \in 0..Len(reviews')
                   /\ tasks'[r.task].open /\ tasks'[r.task].version = r.expected
                   /\ \A p \in Requests : requests'[p].at = "review" /\ requests'[p].task = r.task => p = q
                   /\ \A i \in DOMAIN reviews' :
                        reviews'[i].id = r.id => r.known < i /\ reviews'[i].task # r.task
    <3>1. requests'[q] = requests[q] /\ requests[q].at = "review"
      BY <1>3, <2>2
    <3>2. requests[q].task \in DOMAIN tasks /\ Locked(requests[q].task)
      BY <3>1 DEF LocksHold, Locked
    <3>3. tasks'[requests[q].task] = tasks[requests[q].task]
      BY <1>1, <3>2
    <3> QED BY <1>1, <1>3, <3>1, <3>2, <3>3 DEF LocksHold
  <2> QED BY <2>1, <2>2 DEF LocksHold
<1>4. ASSUME NEW q \in Requests, NEW id \in Reviews, NEW t \in DOMAIN tasks, LockTask(q, id, t)
      PROVE  LocksHold' /\ ReviewsStand'
  <2> DEFINE v == [at |-> "review", id |-> id, task |-> t, expected |-> tasks[t].version, known |-> Len(reviews)]
  <2>1. /\ UNCHANGED <<reviews, tasks>> /\ ~Locked(t) /\ tasks[t].open
        /\ \A i \in DOMAIN reviews : reviews[i].id # id
        /\ requests' = [requests EXCEPT ![q] = v]
    BY <1>4 DEF LockTask, memory
  <2>2. v.at = "review" /\ v.id = id /\ v.task = t /\ v.expected = tasks[t].version /\ v.known = Len(reviews)
    OBVIOUS
  <2> HIDE DEF v
  <2>3. requests'[q] = v /\ \A p \in Requests : p # q => requests'[p] = requests[p]
    BY <2>1, Tasked
  <2>4. ReviewsStand'
    BY <2>1 DEF ReviewsStand
  <2>5. Len(reviews) \in 0..Len(reviews)
    BY <1>2
  <2>6. ASSUME NEW p \in Requests, requests'[p].at = "review"
        PROVE  LET r == requests'[p]
               IN  /\ r.id \in Reviews /\ r.task \in DOMAIN tasks' /\ r.known \in 0..Len(reviews')
                   /\ tasks'[r.task].open /\ tasks'[r.task].version = r.expected
                   /\ \A o \in Requests : requests'[o].at = "review" /\ requests'[o].task = r.task => o = p
                   /\ \A i \in DOMAIN reviews' :
                        reviews'[i].id = r.id => r.known < i /\ reviews'[i].task # r.task
    <3>1. CASE p = q
      <4>1. \A o \in Requests : requests'[o].at = "review" /\ requests'[o].task = t => o = q
        BY <2>1, <2>3 DEF Locked
      <4>2. /\ v.id \in Reviews /\ v.task \in DOMAIN tasks' /\ v.known \in 0..Len(reviews')
            /\ tasks'[v.task].open /\ tasks'[v.task].version = v.expected
            /\ \A i \in DOMAIN reviews' : reviews'[i].id # v.id
        BY <2>1, <2>2, <2>5
      <4> QED BY <2>2, <2>3, <3>1, <4>1, <4>2
    <3>2. CASE p # q
      <4>1. requests'[p] = requests[p] /\ requests[p].at = "review"
        BY <2>3, <2>6, <3>2
      <4>2. requests[p].task # t
        BY <2>1, <4>1 DEF Locked
      <4>3. \A o \in Requests : requests'[o].at = "review" /\ requests'[o].task = requests[p].task => o = p
        BY <2>2, <2>3, <4>1, <4>2 DEF LocksHold
      <4> QED BY <2>1, <4>1, <4>3 DEF LocksHold
    <3> QED BY <3>1, <3>2
  <2> QED BY <2>4, <2>6 DEF LocksHold
<1>5. ASSUME NEW q \in Requests, RecordReview(q)
      PROVE  LocksHold' /\ ReviewsStand'
  <2> DEFINE r == requests[q]
             new == [id |-> r.id, task |-> r.task, known |-> r.known,
                     current |-> tasks[r.task].open /\ tasks[r.task].version = r.expected]
             last == Len(reviews) + 1
  <2>1. /\ requests[q].at = "review" /\ UNCHANGED tasks /\ reviews' = Append(reviews, new)
        /\ requests' = [requests EXCEPT ![q] = Idle]
    BY <1>5 DEF RecordReview
  <2>2. requests'[q] = Idle /\ \A p \in Requests : p # q => requests'[p] = requests[p]
    BY <2>1, Tasked
  <2>3. /\ r.task \in DOMAIN tasks /\ r.known \in 0..Len(reviews)
        /\ tasks[r.task].open /\ tasks[r.task].version = r.expected
        /\ \A p \in Requests : requests[p].at = "review" /\ requests[p].task = r.task => p = q
        /\ \A i \in DOMAIN reviews : reviews[i].id = r.id => r.known < i /\ reviews[i].task # r.task
    BY <2>1 DEF LocksHold
  <2>4. new.id = r.id /\ new.task = r.task /\ new.known = r.known /\ new.current
    BY <2>3
  <2> HIDE DEF new
  <2>5. /\ DOMAIN reviews' = DOMAIN reviews \cup {last} /\ last \notin DOMAIN reviews
        /\ Len(reviews') = last /\ reviews'[last] = new
        /\ \A i \in DOMAIN reviews : reviews'[i] = reviews[i] /\ i \in Nat /\ i < last
    BY <1>2, <2>1
  <2>6. last \in Nat /\ Len(reviews) \in Nat /\ Len(reviews) < last
    BY <1>2
  <2> HIDE DEF last
  <2>7. ReviewsStand'
    <3>1. \A i \in DOMAIN reviews' : reviews'[i].current
      BY <2>4, <2>5 DEF ReviewsStand
    <3>2. ASSUME NEW i \in DOMAIN reviews', NEW j \in DOMAIN reviews', i < j, reviews'[i].id = reviews'[j].id
          PROVE  reviews'[i].task # reviews'[j].task /\ reviews'[j].known < i
      <4>1. i \in DOMAIN reviews
        BY <2>5, <2>6, <3>2
      <4>2. CASE j = last
        BY <2>3, <2>4, <2>5, <3>2, <4>1, <4>2
      <4>3. CASE j # last
        BY <2>5, <3>2, <4>1, <4>3 DEF ReviewsStand
      <4> QED BY <4>2, <4>3
    <3> QED BY <3>1, <3>2 DEF ReviewsStand
  <2>8. ASSUME NEW p \in Requests, requests'[p].at = "review"
        PROVE  LET s == requests'[p]
               IN  /\ s.id \in Reviews /\ s.task \in DOMAIN tasks' /\ s.known \in 0..Len(reviews')
                   /\ tasks'[s.task].open /\ tasks'[s.task].version = s.expected
                   /\ \A o \in Requests : requests'[o].at = "review" /\ requests'[o].task = s.task => o = p
                   /\ \A i \in DOMAIN reviews' :
                        reviews'[i].id = s.id => s.known < i /\ reviews'[i].task # s.task
    <3>1. p # q /\ requests'[p] = requests[p] /\ requests[p].at = "review"
      BY <2>2, <2>8 DEF Idle
    <3>2. /\ requests[p].id \in Reviews /\ requests[p].task \in DOMAIN tasks /\ requests[p].known \in 0..Len(reviews)
          /\ tasks[requests[p].task].open /\ tasks[requests[p].task].version = requests[p].expected
          /\ \A o \in Requests : requests[o].at = "review" /\ requests[o].task = requests[p].task => o = p
          /\ \A i \in DOMAIN reviews :
                reviews[i].id = requests[p].id => requests[p].known < i /\ reviews[i].task # requests[p].task
      BY <3>1 DEF LocksHold
    <3>3. requests[p].task # r.task
      BY <2>1, <3>1, <3>2
    <3>4. requests[p].known < last
      BY <2>6, <3>2
    <3>5. \A i \in DOMAIN reviews' :
            reviews'[i].id = requests[p].id => requests[p].known < i /\ reviews'[i].task # requests[p].task
      BY <2>4, <2>5, <3>2, <3>3, <3>4
    <3>6. \A o \in Requests : requests'[o].at = "review" /\ requests'[o].task = requests[p].task => o = p
      BY <2>2, <3>2 DEF Idle
    <3>7. requests[p].known \in 0..Len(reviews')
      BY <2>5, <2>6, <3>2
    <3> QED BY <2>1, <3>1, <3>2, <3>5, <3>6, <3>7
  <2> QED BY <2>7, <2>8 DEF LocksHold
<1>6. ASSUME UNCHANGED reviews, NEW q \in Requests, NEW v, v.at # "review", requests' = [requests EXCEPT ![q] = v]
      PROVE  LocksHold' /\ ReviewsStand'
  <2>1. requests'[q] = v /\ \A p \in Requests : p # q => requests'[p] = requests[p]
    BY <1>6, Tasked
  <2> QED BY <1>3, <1>6, <2>1
<1>7. ASSUME NEW q \in Requests, Apply(q) \/ Discard(q) \/ AbandonRequest(q)
      PROVE  LocksHold' /\ ReviewsStand'
  BY <1>6, <1>7 DEF Apply, Discard, AbandonRequest, memory, Idle
<1>8. ASSUME NEW q \in Requests, NEW d \in DOMAIN deltas, LoadToApply(q, d) \/ LoadToDiscard(q, d)
      PROVE  LocksHold' /\ ReviewsStand'
  BY <1>6, <1>8 DEF LoadToApply, LoadToDiscard, memory
<1>9. ASSUME \/ \E title \in Titles : CreateTask(title)
             \/ \E key \in Keys, p \in Proposals : CreateDelta(key, p)
             \/ \E t \in DOMAIN tasks, open \in BOOLEAN : UpdateTask(t, open)
             \/ SetNextAction
      PROVE  LocksHold' /\ ReviewsStand'
  <2>1. UNCHANGED <<reviews, requests>>
    BY <1>9 DEF CreateTask, CreateDelta, UpdateTask, SetNextAction
  <2> QED BY <1>3, <2>1
<1> QED BY <1>4, <1>5, <1>7, <1>8, <1>9 DEF SessionNext

\* Every step of the requests keeps the invariant.
LEMMA SessionStep == SessionInv /\ SessionNext => SessionInv'
  BY RowsStay, SettlesStay, LocksStay DEF SessionInv

\* What other processes may do next to the requests: create deltas, keep something else
\* in a request, count an edit.
Beside ==
    /\ UNCHANGED <<tasks, nextAction, summaries, reviews, raced>>
    /\ edits' \in 0..MaxEdits
    /\ requests' = [q \in Requests |-> requests'[q]]
    /\ \A q \in Requests : requests'[q].at \in {"apply", "discard", "review"} => requests'[q] = requests[q]
    /\ \/ UNCHANGED deltas
       \/ \E new \in Deltas : OneMore(new) 

LEMMA StutterIsBeside == SessionInv /\ UNCHANGED sessionVars => Beside
<1> SUFFICES ASSUME SessionInv, UNCHANGED sessionVars PROVE Beside
  OBVIOUS
<1>1. UNCHANGED <<deltas, tasks, nextAction, summaries, reviews, requests, edits, raced>>
  BY DEF sessionVars, memory
<1>2. edits \in 0..MaxEdits /\ requests = [q \in Requests |-> requests[q]]
  BY DEF SessionInv, RowsFit, SessionTypeOK
<1> QED BY <1>1, <1>2 DEF Beside

LEMMA BesideStep == SessionInv /\ Beside => SessionInv'
<1> SUFFICES ASSUME SessionInv, Beside PROVE SessionInv'
  OBVIOUS
<1>0. RowsFit /\ SettlesKnown /\ LocksHold /\ ReviewsStand
  BY DEF SessionInv
<1>1. /\ deltas' \in Seq(Deltas)
      /\ DOMAIN deltas \subseteq DOMAIN deltas'
      /\ \A d \in DOMAIN deltas : deltas'[d] = deltas[d]
  <2>1. CASE UNCHANGED deltas
    BY <1>0, <2>1 DEF RowsFit, SessionTypeOK
  <2>2. ASSUME NEW new \in Deltas, OneMore(new)
        PROVE  /\ deltas' \in Seq(Deltas)
               /\ DOMAIN deltas \subseteq DOMAIN deltas'
               /\ \A d \in DOMAIN deltas : deltas'[d] = deltas[d]
    BY <1>0, <2>2, OneMoreFits
  <2> QED BY <2>1, <2>2 DEF Beside
<1>2. RowsFit'
  <2>1. /\ tasks' \in Seq([title : Titles, open : BOOLEAN, version : Nat])
        /\ nextAction' \in {"", "owner", "session", "digest", "onboarding"}
        /\ raced' \subseteq DOMAIN deltas'
        /\ reviews' \in Seq(ReviewRows)
    BY <1>0, <1>1 DEF Beside, RowsFit, SessionTypeOK
  <2>2. summaries' \in Seq(DOMAIN deltas')
    <3>1. ASSUME NEW S, NEW T, S \subseteq T, NEW s \in Seq(S) PROVE s \in Seq(T)
      BY <3>1
    <3>2. summaries \in Seq(DOMAIN deltas) /\ summaries' = summaries
      BY <1>0 DEF Beside, RowsFit, SessionTypeOK
    <3> QED BY <1>1, <3>1, <3>2
  <2>3. edits' \in 0..MaxEdits /\ requests' = [q \in Requests |-> requests'[q]]
    BY DEF Beside
  <2> QED BY <1>1, <2>1, <2>2, <2>3 DEF RowsFit, SessionTypeOK
<1>3. \A q \in Requests : requests'[q].at \in {"apply", "discard", "review"} => requests'[q] = requests[q]
  BY DEF Beside
<1>4. UNCHANGED <<tasks, reviews, raced>>
  BY DEF Beside
<1>5. SettlesKnown'
  <2>1. ASSUME NEW q \in Requests, requests'[q].at \in {"apply", "discard"}
        PROVE  /\ requests'[q].delta \in DOMAIN deltas'
               /\ requests'[q].at = "apply" => deltas'[requests'[q].delta].closes \subseteq DOMAIN tasks'
    <3>1. requests'[q] = requests[q]
      BY <1>3, <2>1
    <3>2. requests[q].delta \in DOMAIN deltas
      BY <1>0, <2>1, <3>1 DEF SettlesKnown
    <3> QED BY <1>0, <1>1, <1>4, <2>1, <3>1, <3>2 DEF SettlesKnown
  <2>2. ASSUME NEW q \in Requests, NEW d \in (DOMAIN deltas') \ raced', Settles(q, d)'
        PROVE  deltas'[d].status = "pending" /\ \A p \in Requests : Settles(p, d)' => p = q
    <3>1. \A p \in Requests : Settles(p, d)' => Settles(p, d)
      BY <1>3 DEF Settles
    <3>2. d \in (DOMAIN deltas) \ raced
      BY <1>0, <1>4, <2>2, <3>1 DEF SettlesKnown, Settles
    <3> QED BY <1>0, <1>1, <2>2, <3>1, <3>2 DEF SettlesKnown
  <2> QED BY <2>1, <2>2 DEF SettlesKnown
<1>6. ReviewsStand'
  BY <1>0, <1>4 DEF ReviewsStand
<1>7. LocksHold'
  <2> SUFFICES ASSUME NEW q \in Requests, requests'[q].at = "review"
               PROVE  LET r == requests'[q]
                      IN  /\ r.id \in Reviews /\ r.task \in DOMAIN tasks' /\ r.known \in 0..Len(reviews')
                          /\ tasks'[r.task].open /\ tasks'[r.task].version = r.expected
                          /\ \A p \in Requests : requests'[p].at = "review" /\ requests'[p].task = r.task => p = q
                          /\ \A i \in DOMAIN reviews' :
                                reviews'[i].id = r.id => r.known < i /\ reviews'[i].task # r.task
    BY DEF LocksHold
  <2>1. requests'[q] = requests[q] /\ requests[q].at = "review"
    BY <1>3
  <2>2. \A p \in Requests : requests'[p].at = "review" /\ requests'[p].task = requests[q].task => p = q
    BY <1>0, <1>3, <2>1 DEF LocksHold
  <2> QED BY <1>0, <1>4, <2>1, <2>2 DEF LocksHold
<1> QED BY <1>2, <1>5, <1>6, <1>7 DEF SessionInv

-----------------------------------------------------------------------------
(* The promises of a step *)

\* A delta settled by at most one request at a time is settled once.
LEMMA SettledOnce ==
    ASSUME SessionInv, SessionNext
    PROVE  \A d \in (DOMAIN deltas) \ raced :
              deltas[d].status # "pending" =>
                  deltas'[d].status = deltas[d].status /\ SummariesOf(d)' = SummariesOf(d)
<1> SUFFICES ASSUME NEW d \in (DOMAIN deltas) \ raced, deltas[d].status # "pending"
             PROVE  deltas'[d].status = deltas[d].status /\ SummariesOf(d)' = SummariesOf(d)
  OBVIOUS
<1>0. RowsFit /\ SettlesKnown
  BY DEF SessionInv
<1>1. deltas \in Seq(Deltas) /\ summaries \in Seq(DOMAIN deltas)
  BY <1>0 DEF RowsFit, SessionTypeOK
<1>2. CASE UNCHANGED <<deltas, summaries>>
  BY <1>2 DEF SummariesOf
<1>3. ASSUME NEW key \in Keys, NEW p \in Proposals, CreateDelta(key, p)
      PROVE  deltas'[d].status = deltas[d].status /\ SummariesOf(d)' = SummariesOf(d)
  <2>1. deltas' = Append(deltas, Delta(key, p, p.refs, 0)) /\ UNCHANGED summaries
    BY <1>3 DEF CreateDelta
  <2>2. deltas'[d] = deltas[d]
    BY <1>1, <2>1
  <2> QED BY <2>1, <2>2 DEF SummariesOf
<1>4. ASSUME NEW q \in Requests, Apply(q) \/ Discard(q)
      PROVE  deltas'[d].status = deltas[d].status /\ SummariesOf(d)' = SummariesOf(d)
  <2> DEFINE c == requests[q].delta
  <2>1. c \in DOMAIN deltas /\ Settles(q, c)
    BY <1>0, <1>4 DEF SettlesKnown, Settles, Apply, Discard
  <2>2. d # c
    BY <1>0, <2>1 DEF SettlesKnown
  <2>3. PICK status \in {"applied", "discarded"} : SetStatus(c, status)
    BY <1>4 DEF Apply, Discard, SetStatus
  <2> HIDE DEF c
  <2>4. deltas'[d] = deltas[d]
    BY <1>0, <2>1, <2>2, <2>3, SetStatusFits
  <2>5. UNCHANGED summaries \/ summaries' = Append(summaries, c)
    BY <1>4 DEF Apply, Discard, c
  <2>6. {i \in DOMAIN summaries' : summaries'[i] = d} = {i \in DOMAIN summaries : summaries[i] = d}
    <3>1. CASE UNCHANGED summaries
      BY <3>1
    <3>2. CASE summaries' = Append(summaries, c)
      <4>1. /\ DOMAIN summaries' = DOMAIN summaries \cup {Len(summaries) + 1}
            /\ summaries'[Len(summaries) + 1] = c
            /\ \A i \in DOMAIN summaries : summaries'[i] = summaries[i]
        BY <1>1, <3>2
      <4> QED BY <2>2, <4>1
    <3> QED BY <2>5, <3>1, <3>2
  <2> QED BY <2>4, <2>6 DEF SummariesOf
<1>5. ASSUME ~UNCHANGED <<deltas, summaries>>
      PROVE  \/ \E key \in Keys, p \in Proposals : CreateDelta(key, p)
             \/ \E q \in Requests : Apply(q) \/ Discard(q)
  BY <1>5 DEF SessionNext, CreateTask, UpdateTask, SetNextAction, RecordReview, AbandonRequest,
              LoadToApply, LoadToDiscard, LockTask, memory
<1> QED BY <1>2, <1>3, <1>4, <1>5

\* An onboarding that puts its action in the place of the owner's found none.
LEMMA OwnersActionStep ==
    ASSUME SessionInv, SessionNext, nextAction = "owner", nextAction' = "onboarding"
    PROVE  \E q \in Requests : requests[q].at = "apply" /\ requests[q].action = "" /\ requests'[q] = Idle
<1>1. PICK q \in Requests : Apply(q)
  BY DEF SessionNext, CreateDelta, CreateTask, UpdateTask, SetNextAction, Discard, RecordReview, AbandonRequest,
         LoadToApply, LoadToDiscard, LockTask, memory
<1>2. requests[q].at = "apply" /\ requests' = [requests EXCEPT ![q] = Idle]
  BY <1>1 DEF Apply
<1>3. requests'[q] = Idle
  BY <1>2, Tasked DEF SessionInv
<1>4. nextAction' = Flushed(nextAction, requests[q].action, ActionAfter(deltas[requests[q].delta], requests[q].action))
  BY <1>1 DEF Apply
<1>5. requests[q].action = ""
  BY <1>4 DEF Flushed, ActionAfter
<1> QED BY <1>2, <1>3, <1>5

\* Whatever runs next to the requests settles no delta and keeps the next action.
LEMMA BesideSettles ==
    ASSUME SessionInv, Beside
    PROVE  /\ nextAction' = nextAction
           /\ \A d \in (DOMAIN deltas) \ raced :
                deltas'[d].status = deltas[d].status /\ SummariesOf(d)' = SummariesOf(d)
<1>1. deltas \in Seq(Deltas)
  BY DEF SessionInv, RowsFit, SessionTypeOK
<1>2. UNCHANGED <<nextAction, summaries>>
  BY DEF Beside
<1>3. \A d \in DOMAIN deltas : deltas'[d] = deltas[d]
  <2>1. ASSUME NEW new, OneMore(new) PROVE \A d \in DOMAIN deltas : deltas'[d] = deltas[d]
    BY <1>1, <2>1 DEF OneMore
  <2> QED BY <2>1 DEF Beside
<1> QED BY <1>2, <1>3 DEF SummariesOf

\* A request of another kind goes on as it was, unless it is abandoned.
LEMMA OthersGoOn ==
    ASSUME RowsFit, SessionNext
    PROVE  \A q \in Requests :
              requests'[q].at \notin {"idle", "apply", "discard", "review"} => requests'[q] = requests[q]
<1>1. ASSUME NEW q \in Requests, NEW v, v.at \in {"idle", "apply", "discard", "review"},
             requests' = [requests EXCEPT ![q] = v]
      PROVE  \A p \in Requests :
                requests'[p].at \notin {"idle", "apply", "discard", "review"} => requests'[p] = requests[p]
  BY <1>1, Tasked
<1>2. ASSUME NEW q \in Requests, Apply(q) \/ Discard(q) \/ RecordReview(q) \/ AbandonRequest(q)
      PROVE  requests' = [requests EXCEPT ![q] = Idle]
  BY <1>2 DEF Apply, Discard, RecordReview, AbandonRequest
<1>3. Idle.at = "idle"
  BY DEF Idle
<1>4. ASSUME NEW q \in Requests, NEW d \in DOMAIN deltas, LoadToApply(q, d)
      PROVE  \E v : v.at = "apply" /\ requests' = [requests EXCEPT ![q] = v]
  <2> DEFINE v == [at |-> "apply", delta |-> d, action |-> nextAction,
                   open |-> {t \in deltas[d].closes : tasks[t].open}]
  <2>1. v.at = "apply" /\ requests' = [requests EXCEPT ![q] = v]
    BY <1>4 DEF LoadToApply
  <2> HIDE DEF v
  <2> QED BY <2>1
<1>5. ASSUME NEW q \in Requests, NEW d \in DOMAIN deltas, LoadToDiscard(q, d)
      PROVE  \E v : v.at = "discard" /\ requests' = [requests EXCEPT ![q] = v]
  <2> DEFINE v == [at |-> "discard", delta |-> d]
  <2>1. v.at = "discard" /\ requests' = [requests EXCEPT ![q] = v]
    BY <1>5 DEF LoadToDiscard
  <2> HIDE DEF v
  <2> QED BY <2>1
<1>6. ASSUME NEW q \in Requests, NEW id \in Reviews, NEW t \in DOMAIN tasks, LockTask(q, id, t)
      PROVE  \E v : v.at = "review" /\ requests' = [requests EXCEPT ![q] = v]
  <2> DEFINE v == [at |-> "review", id |-> id, task |-> t, expected |-> tasks[t].version, known |-> Len(reviews)]
  <2>1. v.at = "review" /\ requests' = [requests EXCEPT ![q] = v]
    BY <1>6 DEF LockTask
  <2> HIDE DEF v
  <2> QED BY <2>1
<1>7. ASSUME \/ \E title \in Titles : CreateTask(title)
             \/ \E key \in Keys, p \in Proposals : CreateDelta(key, p)
             \/ \E t \in DOMAIN tasks, open \in BOOLEAN : UpdateTask(t, open)
             \/ SetNextAction
      PROVE  UNCHANGED requests
  BY <1>7 DEF CreateTask, CreateDelta, UpdateTask, SetNextAction
<1> DEFINE Goal == \A p \in Requests :
                requests'[p].at \notin {"idle", "apply", "discard", "review"} => requests'[p] = requests[p]
<1>8. ASSUME NEW q \in Requests, Apply(q) \/ Discard(q) \/ RecordReview(q) \/ AbandonRequest(q) PROVE Goal
  BY <1>1, <1>2, <1>3, <1>8
<1>9. ASSUME NEW q \in Requests, NEW d \in DOMAIN deltas, LoadToApply(q, d) \/ LoadToDiscard(q, d) PROVE Goal
  <2>1. PICK v : v.at \in {"apply", "discard"} /\ requests' = [requests EXCEPT ![q] = v]
    BY <1>4, <1>5, <1>9
  <2> QED BY <1>1, <2>1
<1>10. ASSUME NEW q \in Requests, NEW id \in Reviews, NEW t \in DOMAIN tasks, LockTask(q, id, t) PROVE Goal
  <2>1. PICK v : v.at = "review" /\ requests' = [requests EXCEPT ![q] = v]
    BY <1>6, <1>10
  <2> QED BY <1>1, <2>1
<1>11. ASSUME UNCHANGED requests PROVE Goal
  BY <1>11
<1> HIDE DEF Goal
<1>12. Goal
  BY <1>7, <1>8, <1>9, <1>10, <1>11 DEF SessionNext
<1> QED BY <1>12 DEF Goal

=============================================================================
