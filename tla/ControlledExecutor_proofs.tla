---------------------- MODULE ControlledExecutor_proofs ----------------------
(***************************************************************************)
(* Proofs about ControlledExecutor, for any number of clients, requests,   *)
(* attempts, ticks and events.  The unique sequence of the log is all that *)
(* orders two calls, so the invariant says what a call knows as long as    *)
(* nobody has appended since it loaded the execution, and nothing at all   *)
(* of what it knows afterwards: its commit cannot go through then.         *)
(***************************************************************************)
EXTENDS ControlledExecutor, FiniteSetTheorems, TLAPS

\* The rows of attempts, without regard to calls.
AttemptRows ==
    \A r \in Requests : \A n \in Numbers :
        /\ attempt[r][n].status # "absent" => r \in Local
        /\ attempt[r][n].status \in {"absent", "leased"} => ~attempt[r][n].started

AttemptsInv == AttemptRows /\ AttemptsNumbered /\ AttemptPerRun /\ AtMostOneRunning

\* What a call is, by its kind.
Formed(q) ==
    /\ q.at = "adapter" => q.op = "execute"
    /\ q.op = "execute" /\ q.at = "execution" => q.number = 0
    /\ q.op = "execute" /\ q.at \in {"commit", "adapter"} =>
          q.request \in (IF q.number = 0 THEN Remote ELSE Local)
    /\ q.op = "lease" => q.request \in Local /\ (q.at = "commit" => q.number # 0)
    /\ q.op = "heartbeat" => q.number # 0
    /\ q.op = "reconcile" => /\ q.expiries # {} /\ IsFiniteSet(q.expiries)
                             /\ q.failing \subseteq Local
                             /\ q.request \in Local

\* The attempts that a call is to settle were made.
Made(q) ==
    /\ \A x \in q.expiries : attempt[x.request][x.number].status # "absent"
    /\ q.at = "adapter" /\ q.number # 0 => attempt[q.request][q.number].status # "absent"

\* An attempt may be run: it is leased, or it will be the next one.
Runnable(r, n) ==
    /\ \A m \in Numbers : attempt[r][m].status # "running"
    /\ \/ attempt[r][n].status = "leased"
       \/ attempt[r][n].status = "absent" /\ n = Cardinality(History(r)) + 1

\* What a call may rely on while nothing was appended since it loaded the execution.
Current(q) ==
    /\ q.op = "execute" /\ q.at = "commit" =>
          execution.running /\ (q.number # 0 => Runnable(q.request, q.number))
    /\ q.op = "lease" => q.number = Cardinality(History(q.request)) + 1
    /\ q.at = "adapter" =>
          /\ request[q.request] = "running"
          /\ q.number # 0 => attempt[q.request][q.number].status = "running"

Knows(q) ==
    /\ Formed(q)
    /\ Made(q)
    /\ q.at \in {"commit", "adapter"} =>
          q.seq <= execution.seq /\ (q.seq = execution.seq => Current(q))

CallsInv == \A q \in calls : Knows(q)

IInv == TypeOK /\ AttemptsInv /\ CallsInv

-----------------------------------------------------------------------------
LEMMA NumbersFacts ==
    /\ Numbers \subseteq Nat
    /\ 0 \notin Numbers
    /\ 0..MaxAttempts = Numbers \cup {0}
    /\ IsFiniteSet(Numbers)
    /\ \A n \in Nat : n # 0 /\ n <= MaxAttempts => n \in Numbers
    /\ \A n \in Numbers : n <= MaxAttempts /\ n >= 1
BY MaxAttemptsAssumption, FS_Interval DEF Numbers

LEMMA TickFacts ==
    /\ 0 \in Ticks
    /\ \A age \in Ticks : LeftOf(age) \in Ticks
    /\ \A left \in Ticks : left # 0 => left - 1 \in Ticks
    /\ \A age \in Ticks : ~(age > Lease) => age + 1 \in Ticks
BY LeaseAssumption DEF Ticks, LeftOf

LEMMA HistoryFacts ==
    ASSUME NEW r \in Requests
    PROVE  IsFiniteSet(History(r)) /\ Cardinality(History(r)) \in Nat
BY NumbersFacts, FS_Subset, FS_CardinalityType DEF History

LEMMA ExpiredFacts ==
    ASSUME TypeOK, AttemptRows
    PROVE  /\ Expired \subseteq Expiry
           /\ IsFiniteSet(Expired)
           /\ \A x \in Expired : x.request \in Local /\ attempt[x.request][x.number].status # "absent"
<1> DEFINE S == {y \in Requests \X Numbers :
                   y[2] \in Active(y[1]) /\ attempt[y[1]][y[2]].left = 0}
           f == [x \in S |-> [request |-> x[1], number |-> x[2],
                   status |-> IF attempt[x[1]][x[2]].started THEN "orphaned" ELSE "expired"]]
<1>1. IsFiniteSet(Requests \X Numbers)
  BY FiniteAssumption, NumbersFacts, FS_Product
<1>2. IsFiniteSet(S)
  BY <1>1, FS_Subset
<1>3. Expired = {f[x] : x \in S}
  BY DEF Expired
<1>4. f \in Surjection(S, Expired)
  BY <1>3 DEF Surjection
<1>5. IsFiniteSet(Expired)
  BY <1>2, <1>4, FS_Surjection
<1>6. Expired \subseteq Expiry
  BY DEF Expired, Expiry
<1>7. \A x \in Expired : x.request \in Local /\ attempt[x.request][x.number].status # "absent"
  BY DEF Expired, Active, ActiveAttemptStates, AttemptRows
<1> QED BY <1>5, <1>6, <1>7

THEOREM InitIInv == Init => IInv
<1> SUFFICES ASSUME Init PROVE IInv
  OBVIOUS
<1>1. TypeOK
  BY LeaseAssumption DEF Init, TypeOK, RequestStatus, Attempt, NoAttempt, AttemptStatus, Ticks
<1>2. \A r \in Requests : History(r) = {}
  BY DEF Init, History, NoAttempt
<1>3. AttemptRows /\ AtMostOneRunning
  BY DEF Init, AttemptRows, AtMostOneRunning, NoAttempt
<1>4. AttemptsNumbered
  BY <1>2, FS_EmptySet DEF AttemptsNumbered
<1>5. AttemptPerRun
  <2> SUFFICES ASSUME NEW r \in Local
               PROVE  runs[r] = Cardinality({n \in History(r) : attempt[r][n].started})
    BY DEF AttemptPerRun
  <2>1. {n \in History(r) : attempt[r][n].started} = {} /\ runs[r] = 0
    BY <1>2, RequestsAssumption DEF Init
  <2> QED BY <2>1, FS_EmptySet
<1>6. CallsInv
  BY DEF Init, CallsInv
<1> QED BY <1>1, <1>3, <1>4, <1>5, <1>6 DEF IInv, AttemptsInv

-----------------------------------------------------------------------------
(* What commits do to the attempts. *)

\* No row is started or made: leases are extended, or active attempts end.
LEMMA Settles ==
    ASSUME TypeOK, AttemptsInv, UNCHANGED runs,
           \A r \in Requests : \A n \in Numbers :
               /\ attempt'[r][n].started = attempt[r][n].started
               /\ \/ attempt'[r][n].status = attempt[r][n].status
                  \/ attempt[r][n].status # "absent" /\ attempt'[r][n].status \in TerminalAttemptStates
    PROVE  /\ AttemptsInv'
           /\ \A r \in Requests : History(r)' = History(r)
<1>1. \A r \in Requests : \A n \in Numbers :
         /\ attempt[r][n].status = "absent" <=> attempt'[r][n].status = "absent"
         /\ attempt'[r][n].status \in {"absent", "leased"} => attempt[r][n].status = attempt'[r][n].status
         /\ attempt'[r][n].status = "running" => attempt[r][n].status = "running"
  BY DEF TerminalAttemptStates
<1>2. \A r \in Requests : History(r)' = History(r)
  BY <1>1 DEF History
<1>3. AttemptRows' /\ AtMostOneRunning'
  BY <1>1 DEF AttemptsInv, AttemptRows, AtMostOneRunning
<1>4. AttemptsNumbered'
  BY <1>2 DEF AttemptsInv, AttemptsNumbered
<1>5. AttemptPerRun'
  <2> SUFFICES ASSUME NEW r \in Local
               PROVE  runs'[r] = Cardinality({n \in History(r)' : attempt'[r][n].started})
    BY DEF AttemptPerRun
  <2>1. {n \in History(r)' : attempt'[r][n].started} = {n \in History(r) : attempt[r][n].started}
    BY <1>2, RequestsAssumption DEF History
  <2> QED BY <2>1 DEF AttemptsInv, AttemptPerRun
<1> QED BY <1>2, <1>3, <1>4, <1>5 DEF AttemptsInv

\* A new row takes the next number.
LEMMA NextNumber ==
    ASSUME AttemptsNumbered, NEW r \in Requests, NEW n \in Numbers,
           n = Cardinality(History(r)) + 1, attempt'[r][n].status # "absent",
           \A m \in Numbers \ {n} : attempt'[r][m] = attempt[r][m]
    PROVE  /\ History(r)' = History(r) \cup {n}
           /\ History(r)' = 1..Cardinality(History(r)')
<1>1. History(r)' = History(r) \cup {n}
  BY DEF History
<1>2. Cardinality(History(r)) \in Nat /\ History(r) = 1..Cardinality(History(r))
  BY HistoryFacts DEF AttemptsNumbered
<1>3. History(r)' = 1..n
  BY <1>1, <1>2
<1>4. Cardinality(1..n) = n
  BY <1>2, FS_Interval
<1> QED BY <1>1, <1>3, <1>4

\* One row is made or changed, neither before nor after it an ended one.
OneRow(r, n, row) ==
    /\ r \in Local /\ n \in Numbers /\ row \in Attempt
    /\ attempt' = [attempt EXCEPT ![r][n] = row]
    /\ \/ attempt[r][n].status = "leased"
       \/ attempt[r][n].status = "absent" /\ n = Cardinality(History(r)) + 1
    /\ row.status \in ActiveAttemptStates

LEMMA OneRowFacts ==
    ASSUME TypeOK, AttemptsInv, NEW r, NEW n, NEW row, OneRow(r, n, row)
    PROVE  /\ r \in Requests
           /\ attempt'[r][n] = row
           /\ attempt' \in [Requests -> [Numbers -> Attempt]]
           /\ \A s \in Requests : s # r => attempt'[s] = attempt[s]
           /\ \A m \in Numbers \ {n} : attempt'[r][m] = attempt[r][m]
           /\ AttemptsNumbered'
           /\ \A s \in Requests : History(s) \subseteq History(s)'
           /\ History(r)' = History(r) \cup {n}
           /\ ~attempt[r][n].started
<1>1. /\ r \in Requests /\ n \in Numbers
      /\ attempt \in [Requests -> [Numbers -> Attempt]]
      /\ row.status # "absent"
  BY RequestsAssumption DEF OneRow, TypeOK, ActiveAttemptStates
<1>2. /\ attempt'[r][n] = row
      /\ attempt' \in [Requests -> [Numbers -> Attempt]]
      /\ \A s \in Requests : s # r => attempt'[s] = attempt[s]
      /\ \A m \in Numbers \ {n} : attempt'[r][m] = attempt[r][m]
  BY <1>1 DEF OneRow
<1>3. \A s \in Requests : s # r => History(s)' = History(s)
  BY <1>2 DEF History
<1>4. History(r)' = History(r) \cup {n} /\ History(r)' = 1..Cardinality(History(r)')
  <2>1. CASE attempt[r][n].status = "leased"
    <3>1. History(r)' = History(r) /\ n \in History(r)
      BY <1>1, <1>2, <2>1 DEF History
    <3> QED BY <1>1, <3>1 DEF AttemptsInv, AttemptsNumbered
  <2>2. CASE attempt[r][n].status = "absent" /\ n = Cardinality(History(r)) + 1
    BY <1>1, <1>2, <2>2, NextNumber DEF AttemptsInv
  <2> QED BY <2>1, <2>2 DEF OneRow
<1>5. AttemptsNumbered'
  <2> SUFFICES ASSUME NEW s \in Requests PROVE History(s)' = 1..Cardinality(History(s)')
    BY DEF AttemptsNumbered
  <2>1. CASE s = r
    BY <1>4, <2>1
  <2>2. CASE s # r
    BY <1>3, <2>2 DEF AttemptsInv, AttemptsNumbered
  <2> QED BY <2>1, <2>2
<1>6. ~attempt[r][n].started
  BY <1>1 DEF OneRow, AttemptsInv, AttemptRows
<1> QED BY <1>1, <1>2, <1>3, <1>4, <1>5, <1>6

\* create_attempt on its own.
LEMMA Leases ==
    ASSUME TypeOK, AttemptsInv, NEW r, NEW n, NEW row, OneRow(r, n, row),
           row.status = "leased", ~row.started, UNCHANGED runs
    PROVE  AttemptsInv'
<1>1. /\ r \in Requests /\ n \in Numbers /\ r \in Local
      /\ attempt'[r][n] = row
      /\ \A s \in Requests : s # r => attempt'[s] = attempt[s]
      /\ \A m \in Numbers \ {n} : attempt'[r][m] = attempt[r][m]
      /\ AttemptsNumbered'
      /\ ~attempt[r][n].started
  BY OneRowFacts DEF OneRow
<1>2. AttemptRows' /\ AtMostOneRunning'
  BY <1>1 DEF AttemptsInv, AttemptRows, AtMostOneRunning
<1>3. AttemptPerRun'
  <2> SUFFICES ASSUME NEW s \in Local
               PROVE  runs'[s] = Cardinality({m \in History(s)' : attempt'[s][m].started})
    BY DEF AttemptPerRun
  <2>1. s \in Requests
    BY RequestsAssumption
  <2>2. \A m \in Numbers : attempt'[s][m].started /\ attempt'[s][m].status # "absent"
                           <=> attempt[s][m].started /\ attempt[s][m].status # "absent"
    <3>1. CASE s = r
      BY <1>1, <3>1
    <3>2. CASE s # r
      BY <1>1, <2>1, <3>2
    <3> QED BY <3>1, <3>2
  <2>3. {m \in History(s)' : attempt'[s][m].started} = {m \in History(s) : attempt[s][m].started}
    BY <2>2 DEF History
  <2> QED BY <2>3 DEF AttemptsInv, AttemptPerRun
<1> QED BY <1>1, <1>2, <1>3 DEF AttemptsInv

\* mark_attempt_running.
LEMMA Runs ==
    ASSUME TypeOK, AttemptsInv, NEW r, NEW n, NEW row, OneRow(r, n, row),
           row.status = "running", row.started, runs' = [runs EXCEPT ![r] = @ + 1],
           \A m \in Numbers : attempt[r][m].status # "running"
    PROVE  AttemptsInv'
<1>1. /\ r \in Requests /\ n \in Numbers /\ r \in Local
      /\ attempt'[r][n] = row
      /\ \A s \in Requests : s # r => attempt'[s] = attempt[s]
      /\ \A m \in Numbers \ {n} : attempt'[r][m] = attempt[r][m]
      /\ AttemptsNumbered'
      /\ History(r)' = History(r) \cup {n}
      /\ ~attempt[r][n].started
  BY OneRowFacts DEF OneRow
<1>2. AttemptRows'
  BY <1>1 DEF AttemptsInv, AttemptRows
<1>3. AtMostOneRunning'
  <2> SUFFICES ASSUME NEW s \in Requests, NEW l \in Numbers, NEW m \in Numbers,
                      attempt'[s][l].status = "running", attempt'[s][m].status = "running"
               PROVE  l = m
    BY DEF AtMostOneRunning
  <2>1. CASE s = r
    <3>1. l = n /\ m = n
      BY <1>1, <2>1
    <3> QED BY <3>1
  <2>2. CASE s # r
    BY <1>1, <2>2 DEF AttemptsInv, AtMostOneRunning
  <2> QED BY <2>1, <2>2
<1>4. AttemptPerRun'
  <2> SUFFICES ASSUME NEW s \in Local
               PROVE  runs'[s] = Cardinality({m \in History(s)' : attempt'[s][m].started})
    BY DEF AttemptPerRun
  <2> DEFINE S == {m \in History(s) : attempt[s][m].started}
  <2>1. s \in Requests /\ runs[s] = Cardinality(S) /\ runs \in [Requests -> Nat]
    BY RequestsAssumption DEF AttemptsInv, AttemptPerRun, TypeOK
  <2>2. CASE s = r
    <3>1. {m \in History(s)' : attempt'[s][m].started} = S \cup {n}
      BY <1>1, <2>2 DEF History
    <3>2. n \notin S
      BY <1>1, <2>2
    <3>3. IsFiniteSet(S)
      BY <2>1, HistoryFacts, FS_Subset
    <3>4. Cardinality(S \cup {n}) = Cardinality(S) + 1
      BY <3>2, <3>3, FS_AddElement
    <3> QED BY <2>1, <2>2, <3>1, <3>4
  <2>3. CASE s # r
    <3>1. {m \in History(s)' : attempt'[s][m].started} = S
      BY <1>1, <2>1, <2>3 DEF History
    <3> QED BY <2>1, <2>3, <3>1
  <2> QED BY <2>2, <2>3
<1> QED BY <1>1, <1>2, <1>3, <1>4 DEF AttemptsInv

-----------------------------------------------------------------------------
(* What steps do to calls. *)

\* The action properties of the specification, for one step.
Promises ==
    /\ runs' # runs => execution.running
    /\ \A r \in Remote :
          request'[r] \in {"completed", "failed"} /\ request'[r] # request[r] =>
              request[r] = "running"
    /\ \A r \in Requests : \A n \in Numbers :
          attempt[r][n].status \in TerminalAttemptStates =>
              attempt'[r][n].status \in {attempt[r][n].status, "orphaned", "expired"}

LEMMA UnchangedPromises ==
    ASSUME TypeOK, UNCHANGED <<request, attempt, runs>>
    PROVE  Promises
BY RequestsAssumption DEF Promises

\* The database is as it was: a call is added, or goes on, knowing what it says.
LEMMA Adds ==
    ASSUME IInv, UNCHANGED Database, NEW p \in Call, Knows(p), calls' \subseteq calls \cup {p}
    PROVE  IInv' /\ Promises
<1> USE DEF Database
<1>1. TypeOK'
  BY DEF IInv, TypeOK
<1>2. AttemptsInv'
  BY Settles DEF IInv
<1>3. \A q : Knows(q) => Knows(q)'
  BY DEF Knows, Made, Current, Runnable, History
<1>4. CallsInv'
  BY <1>3 DEF IInv, CallsInv
<1> QED BY <1>1, <1>2, <1>4, UnchangedPromises DEF IInv

\* A call ends and nothing else.
LEMMA Drops ==
    ASSUME IInv, UNCHANGED Database, calls' \subseteq calls
    PROVE  IInv' /\ Promises
<1> USE DEF Database
<1>1. TypeOK'
  BY DEF IInv, TypeOK
<1>2. AttemptsInv'
  BY Settles DEF IInv
<1>3. \A q : Knows(q) => Knows(q)'
  BY DEF Knows, Made, Current, Runnable, History
<1>4. CallsInv'
  BY <1>3 DEF IInv, CallsInv
<1> QED BY <1>1, <1>2, <1>4, UnchangedPromises DEF IInv

\* Somebody appends: every call that stays is behind from now on.
LEMMA Behind ==
    ASSUME IInv, TypeOK', execution.seq < execution'.seq,
           \A r \in Requests : \A n \in Numbers :
               attempt[r][n].status # "absent" => attempt'[r][n].status # "absent",
           NEW q \in calls
    PROVE  Knows(q)'
<1>1. q \in Call /\ Knows(q)
  BY DEF IInv, TypeOK, CallsInv
<1>2. Formed(q)
  BY <1>1 DEF Knows
<1>3. Made(q)'
  <2>1. \A x \in q.expiries : x.request \in Requests /\ x.number \in Numbers
    BY <1>1 DEF Call, Expiry
  <2>2. q.request \in Requests /\ (q.number # 0 => q.number \in Numbers)
    BY <1>1, NumbersFacts DEF Call
  <2> QED BY <1>1, <2>1, <2>2 DEF Knows, Made
<1>4. q.at \in {"commit", "adapter"} => q.seq < execution'.seq
  <2>1. q.seq \in Nat /\ execution.seq \in Nat /\ execution'.seq \in Nat
    BY <1>1 DEF Call, IInv, TypeOK
  <2> QED BY <1>1, <2>1 DEF Knows
<1>5. q.seq \in Nat /\ execution'.seq \in Nat
  BY <1>1 DEF Call, TypeOK
<1> QED BY <1>2, <1>3, <1>4, <1>5 DEF Knows, Formed

\* A call whose turn it is to commit: what it loaded is current.
LEMMA Turn ==
    ASSUME IInv, NEW q \in calls, q.at \in {"commit", "adapter"}, execution.seq = q.seq
    PROVE  q \in Call /\ Formed(q) /\ Made(q) /\ Current(q)
BY DEF IInv, TypeOK, CallsInv, Knows

\* The effect of Append on the types, for a positive count.
LEMMA Appends ==
    ASSUME IInv, NEW q \in calls, NEW n \in Nat \ {0}, NEW rest, rest \subseteq Call, Append(q, n, rest)
    PROVE  /\ execution.seq = q.seq
           /\ execution' \in [running: BOOLEAN, released: BOOLEAN, seq: Nat]
           /\ execution'.seq = q.seq + n
           /\ execution.seq < execution'.seq
           /\ calls' \subseteq Call
           /\ calls' \subseteq calls \cup rest
BY DEF Append, IInv, TypeOK

\* An append that ends its call.
LEMMA Ends ==
    ASSUME IInv, NEW q \in calls, NEW n \in Nat \ {0}, Append(q, n, {}),
           request' \in [Requests -> RequestStatus], attempt' \in [Requests -> [Numbers -> Attempt]],
           runs' \in [Requests -> Nat], AttemptsInv',
           \A r \in Requests : \A m \in Numbers :
               attempt[r][m].status # "absent" => attempt'[r][m].status # "absent"
    PROVE  IInv'
<1>1. TypeOK'
  BY Appends DEF TypeOK
<1>2. execution.seq < execution'.seq /\ calls' \subseteq calls
  BY Appends
<1>3. CallsInv'
  BY <1>1, <1>2, Behind DEF CallsInv
<1> QED BY <1>1, <1>3 DEF IInv

-----------------------------------------------------------------------------
(* Calls begin. *)

LEMMA NewCalls ==
    ASSUME NEW c \in Clients, NEW r \in Requests,
           NEW op \in {"create", "release", "execute", "cancel", "lease", "heartbeat", "reconcile", "retry"},
           NEW at \in {"active", "history", "execution", "commit", "adapter", "request"}
    PROVE  NewCall(c, op, r, at) \in Call
BY NumbersFacts, TickFacts DEF NewCall, Call

LEMMA BeginKeeps ==
    ASSUME IInv, NEW c \in Clients, BeginCall(c)
    PROVE  IInv' /\ Promises
<1>0. execution.seq \in Nat /\ 0 \in 0..MaxAttempts /\ 0 \in Ticks /\ Numbers \subseteq 0..MaxAttempts
  BY NumbersFacts, TickFacts DEF IInv, TypeOK
<1>1. ASSUME NEW r \in Requests, CreateExecutorRequest(c, r)
      PROVE  IInv' /\ Promises
  <2> DEFINE p == Loaded(NewCall(c, "create", r, "commit"))
  <2>1. p \in Call
    BY <1>0 DEF Loaded, NewCall, Call
  <2>2. Knows(p)
    BY DEF Loaded, NewCall, Knows, Formed, Made, Current, IInv, TypeOK
  <2> QED BY <1>1, <2>1, <2>2, Adds DEF CreateExecutorRequest, Start
<1>2. ASSUME NEW r \in Requests,
             \/ ReleaseExecutorRequest(c, r) \/ ExecuteExecutorRequest(c, r)
             \/ CancelExecutorRequest(c, r) \/ RetryRequest(c, r)
      PROVE  IInv' /\ Promises
  <2>1. PICK op \in {"release", "execute", "cancel", "retry"}, at \in {"execution", "active"} :
          Begin(c, op, r, at)
    BY <1>2 DEF ReleaseExecutorRequest, ExecuteExecutorRequest, CancelExecutorRequest, RetryRequest
  <2> DEFINE p == NewCall(c, op, r, at)
  <2>2. p \in Call
    BY NewCalls
  <2>3. Knows(p)
    BY DEF NewCall, Knows, Formed, Made
  <2> QED BY <2>1, <2>2, <2>3, Adds DEF Begin, Start
<1>3. ASSUME NEW r \in Requests, LeaseAttempt(c, r)
      PROVE  IInv' /\ Promises
  <2> DEFINE p == NewCall(c, "lease", r, "active")
  <2>1. p \in Call
    BY NewCalls
  <2>2. Knows(p)
    BY <1>3 DEF LeaseAttempt, NewCall, Knows, Formed, Made
  <2> QED BY <1>3, <2>1, <2>2, Adds DEF LeaseAttempt, Begin, Start
<1>4. ASSUME NEW r \in Requests, NEW n \in Numbers, Heartbeat(c, r, n)
      PROVE  IInv' /\ Promises
  <2> DEFINE p == [NewCall(c, "heartbeat", r, "commit") EXCEPT !.number = n]
  <2>1. p \in Call
    BY <1>0 DEF NewCall, Call
  <2>2. Knows(p)
    BY NumbersFacts DEF NewCall, Knows, Formed, Made, Current, IInv, TypeOK
  <2> QED BY <1>4, <2>1, <2>2, Adds DEF Heartbeat, Start
<1>5. ASSUME Reconcile(c)
      PROVE  IInv' /\ Promises
  <2>1. PICK first \in Expired :
          Start(c, [NewCall(c, "reconcile", first.request, "request") EXCEPT !.expiries = Expired])
    BY <1>5 DEF Reconcile
  <2> DEFINE p == [NewCall(c, "reconcile", first.request, "request") EXCEPT !.expiries = Expired]
  <2>2. /\ Expired \subseteq Expiry /\ IsFiniteSet(Expired)
        /\ \A x \in Expired : x.request \in Local /\ attempt[x.request][x.number].status # "absent"
    BY ExpiredFacts DEF IInv, AttemptsInv
  <2>3. p \in Call
    BY <2>2, NewCalls, RequestsAssumption DEF Call
  <2>4. Knows(p)
    BY <2>2 DEF NewCall, Knows, Formed, Made
  <2> QED BY <2>1, <2>3, <2>4, Adds DEF Start
<1> QED BY <1>1, <1>2, <1>3, <1>4, <1>5 DEF BeginCall

-----------------------------------------------------------------------------
(* Calls read. *)

LEMMA Continues ==
    ASSUME IInv, NEW q, NEW p \in Call, Knows(p), ReadOn(q, p)
    PROVE  IInv' /\ Promises
BY Adds DEF ReadOn

\* Loading the execution is all that a release, a cancellation or a retry does.
LEMMA LoadedKnows ==
    ASSUME IInv, NEW q \in calls, q.op \in {"release", "cancel", "retry"}
    PROVE  Loaded(q) \in Call /\ Knows(Loaded(q))
<1>1. q \in Call /\ Made(q) /\ execution.seq \in Nat
  BY DEF IInv, TypeOK, CallsInv, Knows
<1>2. Loaded(q) \in Call
  BY <1>1 DEF Loaded, Call
<1>3. /\ Loaded(q).op = q.op /\ Loaded(q).at = "commit" /\ Loaded(q).seq = execution.seq
      /\ Loaded(q).expiries = q.expiries
  BY <1>1 DEF Loaded, Call
<1>4. Knows(Loaded(q))
  BY <1>1, <1>3 DEF Knows, Formed, Made, Current
<1> QED BY <1>2, <1>4

\* Execute may run the attempt it has found.
LEMMA ToRunIsRunnable ==
    ASSUME IInv, NEW r \in Requests, NEW n \in Numbers, AttemptToRun(r, n)
    PROVE  Runnable(r, n)
<1>1. \A m \in Numbers : attempt[r][m].status # "running"
  BY DEF AttemptToRun, Active, ActiveAttemptStates
<1>2. CASE Leased(r) # {}
  <2>1. n \in Leased(r)
    BY <1>2 DEF AttemptToRun
  <2> QED BY <1>1, <2>1 DEF Runnable, Leased
<1>3. CASE Leased(r) = {}
  <2>1. n = Cardinality(History(r)) + 1
    BY <1>3 DEF AttemptToRun
  <2>2. Cardinality(History(r)) \in Nat /\ History(r) = 1..Cardinality(History(r))
    BY HistoryFacts DEF IInv, AttemptsInv, AttemptsNumbered
  <2>3. n \notin History(r)
    BY <2>1, <2>2
  <2> QED BY <1>1, <2>1, <2>3 DEF Runnable, History
<1> QED BY <1>2, <1>3

LEMMA ExecuteReadsKeeps ==
    ASSUME IInv, NEW q \in calls, ExecuteReadsExecution(q)
    PROVE  IInv' /\ Promises
<1>1. /\ q \in Call /\ Formed(q) /\ Made(q)
      /\ execution.seq \in Nat /\ q.request \in Requests
      /\ q.op = "execute" /\ q.at = "execution" /\ execution.running
  <2>1. q \in Call /\ Formed(q) /\ Made(q)
    BY DEF IInv, TypeOK, CallsInv, Knows
  <2>2. execution.seq \in Nat
    BY DEF IInv, TypeOK
  <2>3. q.op = "execute" /\ q.at = "execution" /\ execution.running
    BY DEF ExecuteReadsExecution, Authorized
  <2> QED BY <2>1, <2>2, <2>3 DEF Call
<1>2. ASSUME q.request \in Local, NEW n \in Numbers, AttemptToRun(q.request, n),
             ReadOn(q, [Loaded(q) EXCEPT !.number = n])
      PROVE  IInv' /\ Promises
  <2> DEFINE p == [Loaded(q) EXCEPT !.number = n]
  <2>1. n \in 0..MaxAttempts /\ n # 0
    BY NumbersFacts
  <2>2. p \in Call
    BY <1>1, <2>1 DEF Loaded, Call
  <2>3. /\ p.op = "execute" /\ p.at = "commit" /\ p.seq = execution.seq /\ p.number = n
        /\ p.request = q.request /\ p.expiries = q.expiries
    BY <1>1 DEF Loaded, Call
  <2>4. Runnable(q.request, n)
    BY <1>1, <1>2, ToRunIsRunnable
  <2>5. Knows(p)
    BY <1>1, <1>2, <2>1, <2>3, <2>4 DEF Knows, Formed, Made, Current
  <2> QED BY <1>2, <2>2, <2>5, Continues
<1>3. ASSUME q.request \in Remote, ReadOn(q, Loaded(q))
      PROVE  IInv' /\ Promises
  <2> DEFINE p == Loaded(q)
  <2>1. p \in Call
    BY <1>1 DEF Loaded, Call
  <2>2. /\ p.op = "execute" /\ p.at = "commit" /\ p.seq = execution.seq /\ p.number = 0
        /\ p.request = q.request /\ p.expiries = q.expiries
    BY <1>1 DEF Loaded, Call, Formed
  <2>3. Knows(p)
    BY <1>1, <1>3, <2>2 DEF Knows, Formed, Made, Current
  <2> QED BY <1>3, <2>1, <2>3, Continues
<1> QED BY <1>2, <1>3 DEF ExecuteReadsExecution

LEMMA LeaseReadsKeeps ==
    ASSUME IInv, NEW q \in calls, LeaseReadsActive(q) \/ LeaseReadsExecution(q)
    PROVE  IInv' /\ Promises
<1>1. /\ q \in Call /\ Formed(q) /\ Made(q) /\ q.op = "lease" /\ q.request \in Requests
      /\ execution.seq \in Nat
  BY DEF IInv, TypeOK, CallsInv, Knows, Call, LeaseReadsActive, LeaseReadsExecution
<1>2. CASE LeaseReadsActive(q)
  <2> DEFINE p == [q EXCEPT !.at = "execution"]
  <2>1. p \in Call
    BY <1>1 DEF Call
  <2>2. p.op = "lease" /\ p.at = "execution" /\ p.request = q.request /\ p.expiries = q.expiries
    BY <1>1 DEF Call
  <2>3. Knows(p)
    BY <1>1, <2>2 DEF Knows, Formed, Made
  <2> QED BY <1>2, <2>1, <2>3, Continues DEF LeaseReadsActive
<1>3. CASE LeaseReadsExecution(q)
  <2> DEFINE n == Cardinality(History(q.request)) + 1
             p == [Loaded(q) EXCEPT !.number = n]
  <2>1. n \in 0..MaxAttempts /\ n # 0
    BY <1>1, <1>3, HistoryFacts, MaxAttemptsAssumption DEF LeaseReadsExecution
  <2>2. p \in Call
    BY <1>1, <2>1 DEF Loaded, Call
  <2>3. /\ p.op = "lease" /\ p.at = "commit" /\ p.seq = execution.seq /\ p.number = n
        /\ p.request = q.request /\ p.expiries = q.expiries
    BY <1>1 DEF Loaded, Call
  <2>4. Knows(p)
    BY <1>1, <2>1, <2>3 DEF Knows, Formed, Made, Current
  <2> QED BY <1>3, <2>2, <2>4, Continues DEF LeaseReadsExecution
<1> QED BY <1>2, <1>3

LEMMA ReconcileReadsKeeps ==
    ASSUME IInv, NEW q \in calls, ReconcileReadsRequest(q) \/ ReconcileReadsExecution(q)
    PROVE  IInv' /\ Promises
<1>1. /\ q \in Call /\ Formed(q) /\ Made(q) /\ q.op = "reconcile"
      /\ q.request \in Local /\ Local \subseteq Requests
      /\ execution.seq \in Nat
  BY RequestsAssumption
     DEF IInv, TypeOK, CallsInv, Knows, Formed, ReconcileReadsRequest, ReconcileReadsExecution
<1>2. CASE ReconcileReadsRequest(q)
  <2> DEFINE p == [q EXCEPT !.at = "execution", !.failing = Running({q.request})]
  <2>1. Running({q.request}) \subseteq Local
    BY <1>1 DEF Running
  <2>2. p \in Call
    BY <1>1, <2>1 DEF Call
  <2>3. /\ p.op = "reconcile" /\ p.at = "execution" /\ p.request = q.request
        /\ p.expiries = q.expiries /\ p.failing = Running({q.request})
    BY <1>1 DEF Call
  <2>4. Knows(p)
    BY <1>1, <2>1, <2>3 DEF Knows, Formed, Made
  <2> QED BY <1>2, <2>2, <2>4, Continues DEF ReconcileReadsRequest
<1>3. CASE ReconcileReadsExecution(q)
  <2> DEFINE others == {x.request : x \in q.expiries} \ {q.request}
             p == [Loaded(q) EXCEPT !.failing = @ \cup Running(others)]
  <2>1. \A x \in q.expiries : x.request \in Local
    BY <1>1 DEF Made, IInv, AttemptsInv, AttemptRows, Call, Expiry
  <2>2. q.failing \cup Running(others) \subseteq Local
    BY <1>1, <2>1 DEF Running, Formed
  <2>3. p \in Call /\ p.failing = q.failing \cup Running(others)
    BY <1>1, <2>2 DEF Loaded, Call
  <2>4. /\ p.op = "reconcile" /\ p.at = "commit" /\ p.seq = execution.seq
        /\ p.request = q.request /\ p.expiries = q.expiries
    BY <1>1 DEF Loaded, Call
  <2>5. Knows(p)
    <3> HIDE DEF p, others
    <3>1. Formed(p)
      BY <1>1, <2>2, <2>3, <2>4 DEF Formed
    <3>2. Made(p) /\ Current(p)
      BY <1>1, <2>4 DEF Made, Current
    <3> QED BY <1>1, <2>4, <3>1, <3>2 DEF Knows
  <2> QED BY <1>3, <2>3, <2>5, Continues DEF ReconcileReadsExecution
<1> QED BY <1>2, <1>3

LEMMA RetryReadsKeeps ==
    ASSUME IInv, NEW q \in calls, RetryReadsActive(q) \/ RetryReadsHistory(q)
    PROVE  IInv' /\ Promises
<1>1. q \in Call /\ Made(q) /\ q.op = "retry"
  BY DEF IInv, TypeOK, CallsInv, Knows, RetryReadsActive, RetryReadsHistory
<1>2. PICK at \in {"history", "execution"} : ReadOn(q, [q EXCEPT !.at = at])
  BY DEF RetryReadsActive, RetryReadsHistory
<1> DEFINE p == [q EXCEPT !.at = at]
<1>3. p \in Call
  BY <1>1 DEF Call
<1>4. p.op = "retry" /\ p.at = at /\ p.expiries = q.expiries
  BY <1>1 DEF Call
<1>5. Knows(p)
  BY <1>1, <1>4 DEF Knows, Formed, Made
<1> QED BY <1>2, <1>3, <1>5, Continues

LEMMA ReadKeeps ==
    ASSUME IInv, NEW q \in calls, ReadStep(q)
    PROVE  IInv' /\ Promises
<1>1. CASE ReleaseReadsExecution(q) \/ CancelReadsExecution(q) \/ RetryReadsExecution(q)
  BY <1>1, LoadedKnows, Continues
     DEF ReleaseReadsExecution, CancelReadsExecution, RetryReadsExecution
<1> QED BY <1>1, ExecuteReadsKeeps, LeaseReadsKeeps, ReconcileReadsKeeps, RetryReadsKeeps DEF ReadStep

-----------------------------------------------------------------------------
(* Calls commit. *)

LEMMA CommitStatusKeeps ==
    ASSUME IInv, NEW q \in calls,
           CommitCreate(q) \/ CommitRelease(q) \/ CommitCancel(q) \/ CommitRetry(q)
    PROVE  IInv' /\ Promises
<1>1. PICK op \in {"create", "release", "cancel", "retry"},
           status \in {"prepared", "released", "cancelled"} : CommitStatus(q, op, status)
  BY DEF CommitCreate, CommitRelease, CommitCancel, CommitRetry
<1>2. /\ Append(q, 1, {}) /\ request' = [request EXCEPT ![q.request] = status]
      /\ UNCHANGED <<attempt, runs>>
  BY <1>1 DEF CommitStatus, Commit
<1>3. status \in RequestStatus
  BY DEF RequestStatus, TerminalRequestStates
<1>4. request' \in [Requests -> RequestStatus]
  BY <1>2, <1>3 DEF IInv, TypeOK
<1>5. AttemptsInv'
  BY <1>2, Settles DEF IInv
<1>6. IInv'
  BY <1>2, <1>4, <1>5, Ends DEF IInv, TypeOK
<1>7. \A r \in Remote : request'[r] \in {"completed", "failed"} => request'[r] = request[r]
  BY <1>2, RequestsAssumption DEF IInv, TypeOK
<1>8. Promises
  BY <1>2, <1>7 DEF Promises
<1> QED BY <1>6, <1>8

LEMMA CommitLeaseKeeps ==
    ASSUME IInv, NEW q \in calls, CommitLease(q)
    PROVE  IInv' /\ Promises
<1>1. /\ q.op = "lease" /\ q.at = "commit" /\ Append(q, 1, {})
      /\ attempt[q.request][q.number].status = "absent"
      /\ UNCHANGED <<request, runs>>
  BY DEF CommitLease, Commit
<1>2. q \in Call /\ Formed(q) /\ Current(q)
  BY <1>1, Turn, Appends
<1>3. q.request \in Local /\ q.number \in Numbers /\ q.number = Cardinality(History(q.request)) + 1
  BY <1>1, <1>2, NumbersFacts DEF Formed, Current, Call
<1> DEFINE row == AttemptOf("leased", LeftOf(q.age), FALSE, TRUE)
<1>4. row \in Attempt /\ row.status = "leased" /\ ~row.started
  BY <1>2, TickFacts DEF AttemptOf, Attempt, AttemptStatus, ActiveAttemptStates, Call
<1>5. OneRow(q.request, q.number, row)
  BY <1>1, <1>3, <1>4 DEF OneRow, CommitLease, ActiveAttemptStates
<1>6. AttemptsInv'
  BY <1>1, <1>4, <1>5, Leases DEF IInv
<1>7. /\ attempt' \in [Requests -> [Numbers -> Attempt]]
      /\ \A r \in Requests : History(r) \subseteq History(r)'
      /\ \A s \in Requests : s # q.request => attempt'[s] = attempt[s]
      /\ \A m \in Numbers \ {q.number} : attempt'[q.request][m] = attempt[q.request][m]
  BY <1>5, OneRowFacts DEF IInv
<1>8. \A r \in Requests : \A m \in Numbers :
         attempt[r][m].status # "absent" => attempt'[r][m].status # "absent"
  BY <1>7 DEF History
<1>9. IInv'
  BY <1>1, <1>6, <1>7, <1>8, Ends DEF IInv, TypeOK
<1>10. Promises
  BY <1>1, <1>7, RequestsAssumption DEF Promises, TerminalAttemptStates
<1> QED BY <1>9, <1>10

\* The first commit of execute and the start of its adapter.
LEMMA StartRunKeeps ==
    ASSUME IInv, NEW q \in calls, StartRun(q)
    PROVE  IInv' /\ Promises
<1>1. PICK n \in Nat \ {0} :
        /\ q.op = "execute" /\ q.at = "commit"
        /\ Append(q, n, {[q EXCEPT !.at = "adapter", !.seq = @ + n, !.age = 0]})
        /\ request' = [request EXCEPT ![q.request] = "running"]
        /\ runs' = [runs EXCEPT ![q.request] = @ + 1]
  <2> DEFINE k == IF q.number = 0 THEN 1 ELSE 2
  <2>1. /\ q.op = "execute" /\ q.at = "commit"
        /\ Append(q, k, {[q EXCEPT !.at = "adapter", !.seq = @ + k, !.age = 0]})
        /\ request' = [request EXCEPT ![q.request] = "running"]
        /\ runs' = [runs EXCEPT ![q.request] = @ + 1]
    BY DEF StartRun, Commit
  <2>2. k \in Nat \ {0}
    OBVIOUS
  <2> HIDE DEF k
  <2> QED BY <2>1, <2>2
<1>2. execution.seq = q.seq
  BY <1>1 DEF Append
<1>3. q \in Call /\ Formed(q) /\ Current(q) /\ Made(q)
  BY <1>1, <1>2, Turn
<1>4. /\ q.request \in Requests /\ q.number \in 0..MaxAttempts
      /\ 0 \in Ticks /\ q.seq \in Nat /\ q.seq + n \in Nat
  BY <1>3, TickFacts DEF Call, IInv, TypeOK
<1>5. [q EXCEPT !.at = "adapter", !.seq = @ + n, !.age = 0] \in Call
  BY <1>3, <1>4 DEF Call
<1>6. PICK p \in Call :
        /\ p = [q EXCEPT !.at = "adapter", !.seq = @ + n, !.age = 0]
        /\ p.op = "execute" /\ p.at = "adapter" /\ p.seq = q.seq + n /\ p.number = q.number
        /\ p.request = q.request /\ p.expiries = q.expiries
  BY <1>1, <1>3, <1>5 DEF Call
<1>7. /\ execution' \in [running: BOOLEAN, released: BOOLEAN, seq: Nat]
      /\ execution'.seq = q.seq + n
      /\ execution.seq < execution'.seq
      /\ calls' \subseteq Call /\ calls' \subseteq calls \cup {p}
  BY <1>1, <1>6, Appends
<1>8. request' \in [Requests -> RequestStatus] /\ runs' \in [Requests -> Nat]
  BY <1>1, <1>4 DEF IInv, TypeOK, RequestStatus
<1>9. /\ attempt' \in [Requests -> [Numbers -> Attempt]]
      /\ AttemptsInv'
      /\ \A r \in Requests : \A m \in Numbers :
             attempt[r][m].status # "absent" => attempt'[r][m].status # "absent"
      /\ \A r \in Requests : \A m \in Numbers :
             attempt[r][m].status \in TerminalAttemptStates => attempt'[r][m] = attempt[r][m]
      /\ q.number # 0 => attempt'[q.request][q.number].status = "running"
  <2>1. CASE q.number = 0
    <3>1. attempt' = attempt
      BY <2>1 DEF StartRun
    <3>2. q.request \in Remote
      BY <1>1, <1>3, <2>1 DEF Formed
    <3>3. \A r \in Local : runs'[r] = runs[r]
      BY <1>1, <3>2, RequestsAssumption DEF IInv, TypeOK
    <3>4. AttemptsInv'
      BY <3>1, <3>3 DEF IInv, AttemptsInv, AttemptRows, AttemptsNumbered, AttemptPerRun,
                       AtMostOneRunning, History
    <3> QED BY <2>1, <3>1, <3>4 DEF IInv, TypeOK
  <2>2. CASE q.number # 0
    <3> DEFINE stored == attempt[q.request][q.number]
               row == StartedAttempt(stored, q.age)
    <3>1. q.number \in Numbers /\ q.request \in Local
      BY <1>1, <1>3, <1>4, <2>2, NumbersFacts DEF Formed
    <3>2. Runnable(q.request, q.number)
      BY <1>1, <1>3, <2>2 DEF Current
    <3>3. stored \in Attempt /\ LeftOf(q.age) \in Ticks
      BY <1>3, <1>4, <3>1, TickFacts DEF IInv, TypeOK, Call
    <3>4. row \in Attempt /\ row.status = "running" /\ row.started
      BY <3>3 DEF StartedAttempt, AttemptOf, Attempt, AttemptStatus, ActiveAttemptStates
    <3>5. attempt' = [attempt EXCEPT ![q.request][q.number] = row]
      BY <2>2 DEF StartRun
    <3>6. OneRow(q.request, q.number, row)
      BY <3>1, <3>2, <3>4, <3>5 DEF OneRow, Runnable, ActiveAttemptStates
    <3>7. AttemptsInv'
      BY <1>1, <3>2, <3>4, <3>6, Runs DEF IInv, Runnable
    <3>8. /\ attempt' \in [Requests -> [Numbers -> Attempt]]
          /\ attempt'[q.request][q.number] = row
          /\ \A r \in Requests : History(r) \subseteq History(r)'
          /\ \A s \in Requests : s # q.request => attempt'[s] = attempt[s]
          /\ \A m \in Numbers \ {q.number} : attempt'[q.request][m] = attempt[q.request][m]
      BY <3>6, OneRowFacts DEF IInv
    <3>9. stored.status \notin TerminalAttemptStates
      BY <3>2 DEF Runnable, TerminalAttemptStates
    <3>10. \A r \in Requests : \A m \in Numbers :
             attempt[r][m].status \in TerminalAttemptStates => attempt'[r][m] = attempt[r][m]
      BY <3>8, <3>9
    <3> QED BY <3>4, <3>7, <3>8, <3>10 DEF History
  <2> QED BY <2>1, <2>2
<1>10. TypeOK'
  BY <1>7, <1>8, <1>9 DEF TypeOK
<1>11. Knows(p)'
  <2>1. Formed(p)
    BY <1>1, <1>3, <1>6 DEF Formed
  <2>2. Made(p)'
    <3>1. \A x \in q.expiries : x.request \in Requests /\ x.number \in Numbers
      BY <1>3 DEF Call, Expiry
    <3> QED BY <1>3, <1>4, <1>6, <1>9, <3>1 DEF Made
  <2>3. Current(p)'
    <3>1. request'[p.request] = "running"
      BY <1>1, <1>4, <1>6 DEF IInv, TypeOK
    <3>2. p.number # 0 => attempt'[p.request][p.number].status = "running"
      BY <1>6, <1>9
    <3> QED BY <1>6, <3>1, <3>2 DEF Current
  <2> QED BY <1>4, <1>6, <1>7, <2>1, <2>2, <2>3 DEF Knows, Formed
<1>12. CallsInv'
  <2>1. \A d \in calls : Knows(d)'
    BY <1>7, <1>9, <1>10, Behind
  <2> QED BY <1>7, <1>11, <2>1 DEF CallsInv
<1>13. IInv'
  BY <1>9, <1>10, <1>12 DEF IInv
<1>14. Promises
  <2>1. execution.running
    BY <1>1, <1>3 DEF Current
  <2>2. \A r \in Remote : request'[r] \in {"completed", "failed"} => request'[r] = request[r]
    BY <1>1, <1>4, RequestsAssumption DEF IInv, TypeOK
  <2> QED BY <1>9, <2>1, <2>2 DEF Promises
<1> QED BY <1>13, <1>14

\* The second commit of execute.
LEMMA FinishRunKeeps ==
    ASSUME IInv, NEW q \in calls, NEW ok \in BOOLEAN, FinishRun(q, ok)
    PROVE  IInv' /\ Promises
<1> DEFINE result == IF ok THEN "completed" ELSE "failed"
           n == IF q.number = 0 THEN 1 ELSE 2
<1>1. /\ q.at = "adapter" /\ Append(q, n, {})
      /\ request' = [request EXCEPT ![q.request] = result]
      /\ UNCHANGED runs
  BY DEF FinishRun
<1>2. execution.seq = q.seq /\ n \in Nat \ {0}
  BY <1>1 DEF Append
<1>3. /\ q \in Call /\ Made(q) /\ Current(q)
      /\ q.request \in Requests /\ q.number \in 0..MaxAttempts
      /\ request[q.request] = "running"
      /\ q.number # 0 => attempt[q.request][q.number].status = "running"
  BY <1>1, <1>2, Turn DEF Call, Current
<1>4. /\ attempt' \in [Requests -> [Numbers -> Attempt]]
      /\ \A r \in Requests : \A m \in Numbers :
            /\ attempt'[r][m].started = attempt[r][m].started
            /\ \/ attempt'[r][m].status = attempt[r][m].status
               \/ attempt[r][m].status = "running" /\ attempt'[r][m].status \in TerminalAttemptStates
  <2>1. CASE q.number = 0
    BY <2>1 DEF FinishRun, IInv, TypeOK
  <2>2. CASE q.number # 0
    <3>1. q.number \in Numbers /\ attempt[q.request][q.number].status = "running"
      BY <1>1, <1>3, <2>2, NumbersFacts
    <3>2. attempt' = [attempt EXCEPT ![q.request][q.number].status = result]
      BY <2>2 DEF FinishRun
    <3>3. result \in AttemptStatus /\ result \in TerminalAttemptStates
      BY DEF AttemptStatus, TerminalAttemptStates
    <3> HIDE DEF result
    <3>4. attempt \in [Requests -> [Numbers -> Attempt]]
      BY DEF IInv, TypeOK
    <3> DEFINE row == [attempt[q.request][q.number] EXCEPT !.status = result]
    <3>a. row \in Attempt
      BY <1>3, <3>1, <3>3, <3>4 DEF Attempt
    <3>b. attempt' = [attempt EXCEPT ![q.request][q.number] = row]
      BY <3>2
    <3>5. attempt' \in [Requests -> [Numbers -> Attempt]]
      <4> HIDE DEF row
      <4> QED BY <1>3, <3>1, <3>4, <3>a, <3>b
    <3>6. /\ attempt'[q.request][q.number].started = attempt[q.request][q.number].started
          /\ attempt'[q.request][q.number].status = result
          /\ \A r \in Requests : r # q.request => attempt'[r] = attempt[r]
          /\ \A m \in Numbers \ {q.number} : attempt'[q.request][m] = attempt[q.request][m]
      BY <1>3, <3>1, <3>2, <3>4 DEF Attempt
    <3> QED BY <3>1, <3>3, <3>5, <3>6
  <2> QED BY <2>1, <2>2
<1>5. /\ AttemptsInv'
      /\ \A r \in Requests : \A m \in Numbers :
            attempt[r][m].status \in TerminalAttemptStates => attempt'[r][m].status = attempt[r][m].status
  BY <1>1, <1>4, Settles DEF IInv, TerminalAttemptStates
<1>6. \A r \in Requests : \A m \in Numbers :
         attempt[r][m].status # "absent" => attempt'[r][m].status # "absent"
  BY <1>4 DEF TerminalAttemptStates
<1>7. request' \in [Requests -> RequestStatus]
  BY <1>1, <1>3 DEF IInv, TypeOK, RequestStatus, TerminalRequestStates
<1>8. IInv'
  BY <1>1, <1>2, <1>4, <1>5, <1>6, <1>7, Ends DEF IInv, TypeOK
<1>9. \A r \in Remote : request'[r] # request[r] => request[r] = "running"
  BY <1>1, <1>3, RequestsAssumption DEF IInv, TypeOK
<1>10. Promises
  BY <1>1, <1>5, <1>9 DEF Promises
<1> QED BY <1>8, <1>10

\* Nothing a call relies on changes, but leases and the clock may.
LEMMA Quiet ==
    ASSUME IInv, TypeOK', UNCHANGED <<request, runs>>, calls' \subseteq calls,
           execution'.seq = execution.seq, execution'.running = execution.running,
           \A r \in Requests : \A n \in Numbers :
               /\ attempt'[r][n].status = attempt[r][n].status
               /\ attempt'[r][n].started = attempt[r][n].started
    PROVE  IInv' /\ Promises
<1>1. /\ AttemptsInv'
      /\ \A r \in Requests : History(r)' = History(r)
  BY Settles DEF IInv
<1>2. ASSUME NEW q \in calls PROVE Knows(q)'
  <2>1. q \in Call /\ Knows(q) /\ q.request \in Requests
    BY DEF IInv, TypeOK, CallsInv, Call
  <2>2. \A x \in q.expiries : x.request \in Requests /\ x.number \in Numbers
    BY <2>1 DEF Call, Expiry
  <2>3. q.number # 0 => q.number \in Numbers
    BY <2>1, NumbersFacts DEF Call
  <2>4. Formed(q) /\ Made(q)'
    BY <2>1, <2>2, <2>3 DEF Knows, Made
  <2>5. ASSUME Current(q) PROVE Current(q)'
    <3>1. q.number # 0 /\ Runnable(q.request, q.number) => Runnable(q.request, q.number)'
      BY <1>1, <2>1, <2>3 DEF Runnable
    <3>2. q.number # 0 => attempt'[q.request][q.number].status = attempt[q.request][q.number].status
      BY <2>1, <2>3
    <3> QED BY <1>1, <2>1, <2>5, <3>1, <3>2 DEF Current
  <2> QED BY <2>1, <2>4, <2>5 DEF Knows
<1>3. CallsInv'
  BY <1>2 DEF CallsInv
<1>4. Promises
  BY <1>1, RequestsAssumption DEF Promises
<1> QED BY <1>1, <1>3, <1>4 DEF IInv

LEMMA CommitHeartbeatKeeps ==
    ASSUME IInv, NEW q \in calls, CommitHeartbeat(q)
    PROVE  IInv' /\ Promises
<1>1. /\ q \in Call /\ Formed(q) /\ q.op = "heartbeat" /\ q.request \in Requests
      /\ attempt \in [Requests -> [Numbers -> Attempt]]
  BY DEF IInv, TypeOK, CallsInv, Knows, Call, CommitHeartbeat
<1>2. q.number \in Numbers /\ LeftOf(q.age) \in Ticks
  BY <1>1, NumbersFacts, TickFacts DEF Formed, Call
<1> DEFINE row == [attempt[q.request][q.number] EXCEPT !.left = LeftOf(q.age)]
<1>3. /\ row \in Attempt
      /\ row.status = attempt[q.request][q.number].status
      /\ row.started = attempt[q.request][q.number].started
  BY <1>1, <1>2 DEF Attempt
<1>4. attempt' = [attempt EXCEPT ![q.request][q.number] = row]
  BY DEF CommitHeartbeat
<1> HIDE DEF row
<1>5. /\ attempt' \in [Requests -> [Numbers -> Attempt]]
      /\ attempt'[q.request][q.number] = row
      /\ \A r \in Requests : r # q.request => attempt'[r] = attempt[r]
      /\ \A m \in Numbers \ {q.number} : attempt'[q.request][m] = attempt[q.request][m]
  BY <1>1, <1>2, <1>3, <1>4
<1>6. UNCHANGED <<request, execution, runs>> /\ calls' = calls \ {q}
  BY DEF CommitHeartbeat
<1>7. TypeOK'
  BY <1>5, <1>6 DEF IInv, TypeOK
<1>8. \A r \in Requests : \A n \in Numbers :
         /\ attempt'[r][n].status = attempt[r][n].status
         /\ attempt'[r][n].started = attempt[r][n].started
  BY <1>3, <1>5
<1> QED BY <1>6, <1>7, <1>8, Quiet

LEMMA CommitReconcileKeeps ==
    ASSUME IInv, NEW q \in calls, CommitReconcile(q)
    PROVE  IInv' /\ Promises
<1> DEFINE n == Cardinality(q.expiries)
           Hit(r, m) == \E x \in q.expiries : x.request = r /\ x.number = m
<1>1. /\ q.op = "reconcile" /\ q.at = "commit" /\ Append(q, n, {})
      /\ request' = [r \in Requests |-> IF r \in q.failing THEN "failed" ELSE request[r]]
      /\ UNCHANGED runs
  BY DEF CommitReconcile, Commit
<1>2. q \in Call /\ Formed(q) /\ Made(q)
  BY DEF IInv, TypeOK, CallsInv, Knows
<1>3. n \in Nat \ {0}
  BY <1>1, <1>2, FS_EmptySet, FS_CardinalityType DEF Formed
<1> HIDE DEF n
<1>4. request' \in [Requests -> RequestStatus]
  BY <1>1 DEF IInv, TypeOK, RequestStatus, TerminalRequestStates
<1>5. ASSUME NEW r \in Requests, NEW m \in Numbers
      PROVE  /\ attempt'[r][m] \in Attempt
             /\ attempt'[r][m].started = attempt[r][m].started
             /\ \/ attempt'[r][m].status = attempt[r][m].status
                \/ attempt[r][m].status # "absent" /\ attempt'[r][m].status \in {"orphaned", "expired"}
  <2>1. attempt[r][m] \in Attempt
    BY DEF IInv, TypeOK
  <2>2. CASE Hit(r, m)
    <3> DEFINE hit == CHOOSE x \in q.expiries : x.request = r /\ x.number = m
    <3>1. hit \in q.expiries /\ hit.request = r /\ hit.number = m
      BY <2>2
    <3>2. attempt'[r][m] = [attempt[r][m] EXCEPT !.status = hit.status]
      BY <2>2 DEF CommitReconcile
    <3> HIDE DEF hit
    <3>3. hit.status \in {"orphaned", "expired"}
      BY <1>2, <3>1 DEF Call, Expiry
    <3>4. attempt[r][m].status # "absent"
      BY <1>2, <3>1 DEF Made
    <3> QED BY <2>1, <3>2, <3>3, <3>4 DEF Attempt, AttemptStatus, TerminalAttemptStates
  <2>3. CASE ~Hit(r, m)
    <3>1. attempt'[r][m] = attempt[r][m]
      BY <2>3 DEF CommitReconcile
    <3> QED BY <2>1, <3>1
  <2> QED BY <2>2, <2>3
<1>6. attempt' \in [Requests -> [Numbers -> Attempt]]
  <2> DEFINE f(r) == [m \in Numbers |->
                      IF \E x \in q.expiries : x.request = r /\ x.number = m
                      THEN [attempt[r][m] EXCEPT !.status =
                              (CHOOSE x \in q.expiries : x.request = r /\ x.number = m).status]
                      ELSE attempt[r][m]]
  <2>1. attempt' = [r \in Requests |-> f(r)]
    BY DEF CommitReconcile
  <2>2. ASSUME NEW r \in Requests PROVE f(r) \in [Numbers -> Attempt]
    <3>1. attempt'[r] = f(r)
      BY <2>1
    <3>2. \A m \in Numbers : f(r)[m] \in Attempt
      BY <1>5, <3>1
    <3>3. f(r) = [m \in Numbers |-> f(r)[m]]
      OBVIOUS
    <3> HIDE DEF f
    <3> QED BY <3>2, <3>3
  <2> HIDE DEF f
  <2> QED BY <2>1, <2>2
<1>7. /\ AttemptsInv'
      /\ \A r \in Requests : \A m \in Numbers :
            attempt'[r][m].status \in {attempt[r][m].status, "orphaned", "expired"}
  BY <1>1, <1>5, Settles DEF IInv, TerminalAttemptStates
<1>8. \A r \in Requests : \A m \in Numbers :
         attempt[r][m].status # "absent" => attempt'[r][m].status # "absent"
  BY <1>5 DEF TerminalAttemptStates
<1>9. IInv'
  BY <1>1, <1>3, <1>4, <1>6, <1>7, <1>8, Ends DEF IInv, TypeOK
<1>10. \A r \in Remote : request'[r] = request[r]
  BY <1>1, <1>2, RequestsAssumption DEF Formed
<1>11. Promises
  BY <1>1, <1>7, <1>10 DEF Promises
<1> QED BY <1>9, <1>11

LEMMA AdvanceKeeps ==
    ASSUME IInv, NEW q \in calls, Advance(q)
    PROVE  IInv' /\ Promises
<1>1. CASE ReadStep(q)
  BY <1>1, ReadKeeps
<1>2. CASE CommitStep(q)
  BY <1>2, CommitStatusKeeps, CommitLeaseKeeps, StartRunKeeps, FinishRunKeeps,
     CommitHeartbeatKeeps, CommitReconcileKeeps DEF CommitStep
<1>3. CASE Abort(q)
  BY <1>3, Drops DEF Abort
<1> QED BY <1>1, <1>2, <1>3 DEF Advance

-----------------------------------------------------------------------------
(* The rest of the system. *)

LEMMA EventKeeps ==
    ASSUME IInv, OtherEvent \/ ExecutionEnds
    PROVE  IInv' /\ Promises
<1>1. UNCHANGED <<request, attempt, calls, runs>>
  BY DEF OtherEvent, ExecutionEnds
<1>2. /\ execution' \in [running: BOOLEAN, released: BOOLEAN, seq: Nat]
      /\ execution.seq < execution'.seq
  <2>1. execution \in [running: BOOLEAN, released: BOOLEAN, seq: Nat]
    BY DEF IInv, TypeOK
  <2>2. CASE OtherEvent
    BY <2>1, <2>2 DEF OtherEvent
  <2>3. CASE ExecutionEnds
    BY <2>1, <2>3 DEF ExecutionEnds
  <2> QED BY <2>2, <2>3
<1>3. TypeOK'
  BY <1>1, <1>2 DEF IInv, TypeOK
<1>4. AttemptsInv'
  BY <1>1, Settles DEF IInv
<1>5. CallsInv'
  BY <1>1, <1>2, <1>3, Behind DEF CallsInv
<1> QED BY <1>1, <1>3, <1>4, <1>5, UnchangedPromises DEF IInv

LEMMA HandoffKeeps ==
    ASSUME IInv, HandoffWritten
    PROVE  IInv' /\ Promises
<1>1. /\ UNCHANGED <<request, attempt, calls, runs>>
      /\ execution'.seq = execution.seq /\ execution'.running = execution.running
      /\ execution' \in [running: BOOLEAN, released: BOOLEAN, seq: Nat]
  BY DEF HandoffWritten, IInv, TypeOK
<1>2. TypeOK'
  BY <1>1 DEF IInv, TypeOK
<1> QED BY <1>1, <1>2, Quiet

\* Time changes what is left of the leases and the ages of the calls, nothing else.
LEMMA TickKeeps ==
    ASSUME IInv, Tick
    PROVE  IInv' /\ Promises
<1>1. /\ UNCHANGED <<request, execution, runs>>
      /\ calls' = {Older(q) : q \in calls}
  BY DEF Tick
<1>2. ASSUME NEW r \in Requests, NEW n \in Numbers
      PROVE  /\ attempt'[r][n] \in Attempt
             /\ attempt'[r][n].status = attempt[r][n].status
             /\ attempt'[r][n].started = attempt[r][n].started
  <2>1. attempt[r][n] \in Attempt
    BY DEF IInv, TypeOK
  <2>2. attempt'[r][n] = [attempt[r][n] EXCEPT !.left = IF @ = 0 THEN 0 ELSE @ - 1]
    BY DEF Tick
  <2>3. (IF attempt[r][n].left = 0 THEN 0 ELSE attempt[r][n].left - 1) \in Ticks
    BY <2>1, TickFacts DEF Attempt
  <2> QED BY <2>1, <2>2, <2>3 DEF Attempt
<1>3. attempt' \in [Requests -> [Numbers -> Attempt]]
  <2> DEFINE f(r) == [n \in Numbers |-> [attempt[r][n] EXCEPT !.left = IF @ = 0 THEN 0 ELSE @ - 1]]
  <2>1. attempt' = [r \in Requests |-> f(r)]
    BY DEF Tick
  <2>2. ASSUME NEW r \in Requests PROVE f(r) \in [Numbers -> Attempt]
    <3>1. attempt'[r] = f(r)
      BY <2>1
    <3>2. \A n \in Numbers : f(r)[n] \in Attempt
      BY <1>2, <3>1
    <3>3. f(r) = [n \in Numbers |-> f(r)[n]]
      OBVIOUS
    <3> HIDE DEF f
    <3> QED BY <3>2, <3>3
  <2> HIDE DEF f
  <2> QED BY <2>1, <2>2
<1>4. ASSUME NEW q \in calls
      PROVE  /\ Older(q) \in Call
             /\ Older(q).client = q.client /\ Older(q).request = q.request /\ Older(q).op = q.op
             /\ Older(q).at = q.at /\ Older(q).seq = q.seq /\ Older(q).number = q.number
             /\ Older(q).expiries = q.expiries /\ Older(q).failing = q.failing
  <2>1. q \in Call
    BY DEF IInv, TypeOK
  <2>2. (IF q.age > Lease THEN q.age ELSE q.age + 1) \in Ticks
    BY <2>1, TickFacts DEF Call
  <2> QED BY <2>1, <2>2 DEF Older, Call
<1>5. TypeOK'
  BY <1>1, <1>3, <1>4 DEF IInv, TypeOK
<1>6. AttemptsInv'
  BY <1>1, <1>2, Settles DEF IInv
<1>7. ASSUME NEW q \in calls
      PROVE  Knows(Older(q))'
  <2>1. q \in Call /\ Knows(q)
    BY DEF IInv, TypeOK, CallsInv
  <2>2. /\ q.request \in Requests /\ (q.number # 0 => q.number \in Numbers)
        /\ \A x \in q.expiries : x.request \in Requests /\ x.number \in Numbers
    BY <2>1, NumbersFacts DEF Call, Expiry
  <2>3. \A r \in Requests : History(r)' = History(r)
    BY <1>2 DEF History
  <2>4. Formed(Older(q))
    BY <1>4, <2>1 DEF Knows, Formed
  <2>5. Made(Older(q))'
    BY <1>2, <1>4, <2>1, <2>2 DEF Knows, Made
  <2>6. Current(q) => Current(Older(q))'
    BY <1>1, <1>2, <1>4, <2>2, <2>3 DEF Current, Runnable
  <2> QED BY <1>1, <1>4, <2>1, <2>4, <2>5, <2>6 DEF Knows, Formed
<1>8. CallsInv'
  BY <1>1, <1>7 DEF CallsInv
<1>9. Promises
  BY <1>1, <1>2 DEF Promises
<1> QED BY <1>5, <1>6, <1>8, <1>9 DEF IInv

\* Every step preserves the invariant and keeps the promises.
THEOREM NextKeeps ==
    ASSUME IInv, [Next]_vars
    PROVE  IInv' /\ Promises
<1>1. CASE Next
  BY <1>1, BeginKeeps, AdvanceKeeps, EventKeeps, HandoffKeeps, TickKeeps DEF Next
<1>2. CASE UNCHANGED vars
  BY <1>2, Drops DEF vars, Database
<1> QED BY <1>1, <1>2

-----------------------------------------------------------------------------
(***************************************************************************)
(* The theorems.                                                           *)
(***************************************************************************)

\* Every call knows what it must know of the execution, its request and the
\* attempts when it commits (the unique constraint of the log).
THEOREM Safety == Spec => []IInv
BY InitIInv, NextKeeps, PTL DEF Spec

\* The rows and the calls have their types.
THEOREM TypeCorrect == Spec => []TypeOK
<1>1. IInv => TypeOK
  BY DEF IInv
<1> QED BY <1>1, Safety, PTL

\* create_attempt numbers the attempts of a request without a gap, however many
\* leases, runs and retries race, and never exceeds its maximum.
THEOREM NumbersHaveNoGap == Spec => []AttemptsNumbered
<1>1. IInv => AttemptsNumbered
  BY DEF IInv, AttemptsInv
<1> QED BY <1>1, Safety, PTL

\* Each start of the isolated worker is recorded by an attempt of its own.
THEOREM EachRunHasItsAttempt == Spec => []AttemptPerRun
<1>1. IInv => AttemptPerRun
  BY DEF IInv, AttemptsInv
<1> QED BY <1>1, Safety, PTL

\* No two attempts of a request run at once.
THEOREM RunsExclude == Spec => []AtMostOneRunning
<1>1. IInv => AtMostOneRunning
  BY DEF IInv, AttemptsInv
<1> QED BY <1>1, Safety, PTL

\* Authorisation was checked before the first commit of execute, and holds in it.
THEOREM AuthorisationHolds == Spec => StartsAreAuthorised
<1>1. ASSUME IInv, [Next]_vars PROVE [runs' # runs => execution.running]_vars
  BY <1>1, NextKeeps DEF Promises
<1> QED BY <1>1, Safety, PTL DEF Spec, StartsAreAuthorised

\* app/executor_routes.py records a remote answer only over the running status of its
\* request.
THEOREM AnswersAreOfTheirRuns == Spec => RemoteResultIsOfItsRun
<1>1. ASSUME IInv, [Next]_vars
      PROVE  [\A r \in Remote :
                request'[r] \in {"completed", "failed"} /\ request'[r] # request[r] =>
                    request[r] = "running"]_vars
  BY <1>1, NextKeeps DEF Promises
<1> QED BY <1>1, Safety, PTL DEF Spec, RemoteResultIsOfItsRun

\* No late call of app/worker_attempts.py reopens an attempt that has ended or records a
\* result over its end; a reconciliation may still overwrite a result.
THEOREM EndedAttemptsStayEnded == Spec => TerminalAttemptNotReopened
<1>1. ASSUME IInv, [Next]_vars
      PROVE  [\A r \in Requests : \A n \in Numbers :
                attempt[r][n].status \in TerminalAttemptStates =>
                    attempt'[r][n].status \in {attempt[r][n].status, "orphaned", "expired"}]_vars
  BY <1>1, NextKeeps DEF Promises
<1> QED BY <1>1, Safety, PTL DEF Spec, TerminalAttemptNotReopened

=============================================================================
