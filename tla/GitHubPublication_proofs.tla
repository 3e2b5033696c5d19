---------------------- MODULE GitHubPublication_proofs ----------------------
(***************************************************************************)
(* Proofs about GitHubPublication, for any number of threads, requests and *)
(* runs.  None of the properties is inductive alone: what a staging ref or *)
(* an effect is accounted for by, while its run goes on, is the step that  *)
(* the run has reached and its locals.  IInv says so.                      *)
(***************************************************************************)
EXTENDS GitHubPublication, TLAPS

\* Runs and calls of a request are of its kind, and a call that may still be carried
\* out is one that was not answered.
Kinds ==
    /\ \A c \in Threads :
        run[c] # NoRun =>
            /\ run[c].request \in Publishes => run[c].at \in PublishSteps
            /\ run[c].request \in Pulls => run[c].at \in PullSteps
    /\ late \subseteq unanswered
    /\ \A call \in unanswered : call.request \in Pulls <=> call.write = "open"

\* What the locals of a run say of what was done.
Locals ==
    \A c \in Threads :
        run[c] # NoRun =>
            /\ run[c].created => run[c].at \in {"verify_final", "cleanup"}
            /\ run[c].at = "verify_final" => run[c].created
            /\ run[c].at = "cleanup" /\ run[c].failure = "" => run[c].created
            /\ run[c].created \/ run[c].at = "verify_pull" => run[c].request \in did

Staged == {"verify_staged", "create", "verify_final", "cleanup"}

StagingKnown ==
    \A r \in Publishes :
        staging[r] # "none" =>
            \/ \E c \in Threads : run[c] # NoRun /\ run[c].request = r /\ run[c].at \in Staged
            \/ "reconcile" \in reports[r]
            \/ [write |-> "push", request |-> r] \in unanswered
            \/ r \in died

EffectsKnown ==
    \A r \in did :
        \/ \E c \in Threads : run[c] # NoRun /\ run[c].request = r /\ (run[c].created \/ run[c].at = "verify_pull")
        \/ reports[r] \cap {"success", "reconcile"} # {}
        \/ \E call \in unanswered : call.request = r /\ call.write \in {"create", "open"}
        \/ r \in died

Successes == \A r \in Requests : "success" \in reports[r] => r \in did

IInv == TypeOK /\ Kinds /\ Locals /\ StagingKnown /\ EffectsKnown /\ Successes

-----------------------------------------------------------------------------
THEOREM InitIInv == Init => IInv
<1> SUFFICES ASSUME Init PROVE IInv
  OBVIOUS
<1>1. TypeOK
  <2>1. started \in 0..MaxRuns
    BY MaxRunsAssumption DEF Init
  <2>2. branch \in Heads /\ staging \in [Publishes -> Heads] /\ pull \in BOOLEAN
    BY DEF Init, Heads
  <2>3. /\ request \in [Requests -> {"absent", "ready", "running", "completed", "failed", "cancelled"}]
        /\ run \in [Threads -> Run \cup {NoRun}]
        /\ reports \in [Requests -> SUBSET Outcome]
    BY DEF Init
  <2> QED BY <2>1, <2>2, <2>3 DEF Init, TypeOK
<1>2. Kinds /\ Locals /\ StagingKnown
  BY DEF Init, Kinds, Locals, StagingKnown
<1>3. EffectsKnown /\ Successes
  BY DEF Init, EffectsKnown, Successes
<1> QED BY <1>1, <1>2, <1>3 DEF IInv

USE KindsAssumption, MaxRunsAssumption DEF Requests, remote, history

\* The two kinds of entry of `run` differ.
LEMMA RunOrNone ==
    ASSUME TypeOK, NEW c \in Threads
    PROVE  /\ run[c] # NoRun => run[c] \in Run
           /\ \A q \in Run : q # NoRun /\ q.at # "idle"
           /\ NoRun \notin Run
           /\ NoRun.at = "idle"
BY DEF TypeOK, Run, NoRun, PublishSteps, PullSteps

(***************************************************************************)
(* Steps of the same shape preserve IInv for the same reason: a run goes   *)
(* on; it ends before anything was staged or done; it ends with a report.  *)
(***************************************************************************)

\* The locals a run may have.
Sound(q) ==
    /\ q.request \in Publishes => q.at \in PublishSteps
    /\ q.request \in Pulls => q.at \in PullSteps
    /\ q.created => q.at \in {"verify_final", "cleanup"}
    /\ q.at = "verify_final" => q.created
    /\ q.at = "cleanup" /\ q.failure = "" => q.created

\* A run goes on to q without losing what it has staged and done; the call it
\* made may have stayed without an answer.
LEMMA GoesOn ==
    ASSUME IInv, NEW c \in Threads, run[c] # NoRun, NEW q \in Run,
           run' = [run EXCEPT ![c] = q], q.request = run[c].request, Sound(q),
           run[c].at \in Staged => q.at \in Staged,
           run[c].created <=> q.created, q.at # "verify_pull", run[c].at # "verify_pull",
           UNCHANGED <<remote, request, started, reports, did, died>>,
           unanswered \subseteq unanswered', late' \subseteq unanswered', unanswered' \subseteq LateCall,
           \A call \in unanswered' : call.request \in Pulls <=> call.write = "open"
    PROVE  IInv'
<1>1. /\ run'[c] = q /\ q # NoRun /\ run[c] \in Run
      /\ \A d \in Threads : d # c => run'[d] = run[d]
      /\ run' \in [Threads -> Run \cup {NoRun}]
  BY RunOrNone DEF IInv, TypeOK
<1>2. TypeOK'
  BY <1>1 DEF IInv, TypeOK
<1>3. Kinds'
  BY <1>1 DEF IInv, Kinds, Sound
<1>4. Locals'
  <2> SUFFICES ASSUME NEW d \in Threads, run'[d] # NoRun
               PROVE  /\ run'[d].created => run'[d].at \in {"verify_final", "cleanup"}
                      /\ run'[d].at = "verify_final" => run'[d].created
                      /\ run'[d].at = "cleanup" /\ run'[d].failure = "" => run'[d].created
                      /\ run'[d].created \/ run'[d].at = "verify_pull" => run'[d].request \in did'
    BY DEF Locals
  <2>1. CASE d = c
    BY <1>1, <2>1 DEF IInv, Locals, Sound
  <2>2. CASE d # c
    BY <1>1, <2>2 DEF IInv, Locals
  <2> QED BY <2>1, <2>2
<1>5. StagingKnown'
  BY <1>1 DEF IInv, StagingKnown
<1>6. EffectsKnown'
  BY <1>1 DEF IInv, EffectsKnown
<1>7. Successes'
  BY DEF IInv, Successes
<1> QED BY <1>2, <1>3, <1>4, <1>5, <1>6, <1>7 DEF IInv

\* A run ends with the outcome o, leaving nothing that is not known otherwise.
LEMMA Ends ==
    ASSUME IInv, NEW c \in Threads, run[c] # NoRun, NEW o \in Outcome, Return(c, o),
           UNCHANGED <<branch, pull, did, died>>, staging' \in [Publishes -> Heads],
           \A r \in Publishes : staging'[r] \in {"none", staging[r]},
           o = "failure" => run[c].at \notin Staged \/ staging'[run[c].request] = "none",
           o = "failure" => ~run[c].created /\ run[c].at # "verify_pull",
           o = "success" => run[c].request \in did /\ (run[c].at \in Staged => staging'[run[c].request] = "none"),
           unanswered \subseteq unanswered', late' \subseteq unanswered', unanswered' \subseteq LateCall,
           \A call \in unanswered' : call.request \in Pulls <=> call.write = "open"
    PROVE  IInv'
<1> DEFINE r == run[c].request
<1>1. /\ run[c] \in Run /\ r \in Requests
      /\ run'[c] = NoRun
      /\ \A d \in Threads : d # c => run'[d] = run[d]
      /\ run' \in [Threads -> Run \cup {NoRun}]
  BY RunOrNone DEF IInv, TypeOK, Return, Run
<1>2. /\ reports'[r] = reports[r] \cup {o}
      /\ \A s \in Requests : s # r => reports'[s] = reports[s]
      /\ reports' \in [Requests -> SUBSET Outcome]
  BY <1>1 DEF IInv, TypeOK, Return
<1>3. TypeOK'
  BY <1>1, <1>2 DEF IInv, TypeOK, Return
<1>4. Kinds' /\ Locals'
  BY <1>1 DEF IInv, Kinds, Locals
<1>5. StagingKnown'
  <2> SUFFICES ASSUME NEW s \in Publishes, staging'[s] # "none"
               PROVE  \/ \E d \in Threads : run'[d] # NoRun /\ run'[d].request = s /\ run'[d].at \in Staged
                      \/ "reconcile" \in reports'[s]
                      \/ [write |-> "push", request |-> s] \in unanswered'
                      \/ s \in died'
    BY DEF StagingKnown
  <2>1. staging[s] # "none" /\ reports[s] \subseteq reports'[s]
    BY <1>1, <1>2
  <2>2. CASE \E d \in Threads : run[d] # NoRun /\ run[d].request = s /\ run[d].at \in Staged
    BY <1>1, <1>2, <2>2 DEF Outcome
  <2> QED BY <2>1, <2>2 DEF IInv, StagingKnown
<1>6. EffectsKnown'
  <2> SUFFICES ASSUME NEW s \in did
               PROVE  \/ \E d \in Threads :
                           run'[d] # NoRun /\ run'[d].request = s /\ (run'[d].created \/ run'[d].at = "verify_pull")
                      \/ reports'[s] \cap {"success", "reconcile"} # {}
                      \/ \E call \in unanswered' : call.request = s /\ call.write \in {"create", "open"}
                      \/ s \in died'
    BY DEF EffectsKnown
  <2>1. reports[s] \subseteq reports'[s]
    BY <1>1, <1>2 DEF IInv, TypeOK
  <2>2. CASE \E d \in Threads : run[d] # NoRun /\ run[d].request = s /\ (run[d].created \/ run[d].at = "verify_pull")
    BY <1>1, <1>2, <2>2 DEF Outcome
  <2> QED BY <2>1, <2>2 DEF IInv, EffectsKnown
<1>7. Successes'
  BY <1>1, <1>2 DEF IInv, Successes
<1> QED BY <1>3, <1>4, <1>5, <1>6, <1>7 DEF IInv

\* A run is of the kind of its step.
LEMMA KindOfStep ==
    ASSUME IInv, NEW c \in Threads
    PROVE  /\ run[c].at \in PublishSteps =>
                /\ run[c] # NoRun /\ run[c] \in Run /\ run[c].request \in Publishes
                /\ run[c].request \notin Pulls
           /\ run[c].at \in PullSteps =>
                /\ run[c] # NoRun /\ run[c] \in Run /\ run[c].request \in Pulls
                /\ run[c].request \notin Publishes
<1>1. "idle" \notin PublishSteps /\ "idle" \notin PullSteps /\ PublishSteps \cap PullSteps = {}
  BY DEF PublishSteps, PullSteps
<1>2. run[c] # NoRun => run[c].request \in Requests
  BY RunOrNone DEF IInv, Run
<1> QED BY <1>1, <1>2, RunOrNone DEF IInv, Kinds

\* What a call without an answer adds to the calls.
LEMMA CallsKnown ==
    ASSUME IInv, NEW c \in Threads, run[c] # NoRun, NEW w \in Writes, FailsOrUnanswered(c, w),
           run[c].request \in Pulls <=> w = "open"
    PROVE  /\ UNCHANGED <<remote, did, died>>
           /\ unanswered \subseteq unanswered' /\ late' \subseteq unanswered' /\ unanswered' \subseteq LateCall
           /\ \A call \in unanswered' : call.request \in Pulls <=> call.write = "open"
<1>1. run[c].request \in Requests
  BY RunOrNone DEF IInv, Run
<1>2. CASE Unchanged
  BY <1>2 DEF Unchanged, IInv, TypeOK, Kinds
<1>3. CASE Unanswered(c, w)
  BY <1>1, <1>3 DEF Unanswered, IInv, TypeOK, Kinds, LateCall
<1> QED BY <1>2, <1>3 DEF FailsOrUnanswered

\* A run that has neither staged nor done anything fails.
LEMMA FailsEarly ==
    ASSUME IInv, NEW c \in Threads, run[c] # NoRun, Return(c, "failure"), NEW w \in Writes, FailsOrUnanswered(c, w),
           run[c].request \in Pulls <=> w = "open",
           run[c].at \notin Staged \cup {"verify_pull"}
    PROVE  IInv'
<1>1. ~run[c].created
  BY DEF IInv, Locals, Staged
<1>2. staging' \in [Publishes -> Heads] /\ \A r \in Publishes : staging'[r] = staging[r]
  BY CallsKnown DEF IInv, TypeOK
<1>3. "failure" \in Outcome /\ "failure" # "success"
  BY DEF Outcome
<1> QED BY <1>1, <1>2, <1>3, CallsKnown, Ends

-----------------------------------------------------------------------------
(* The steps of the two adapters. *)

\* Only a run at one of these steps goes on without a write.
LEMMA GoesOnTo ==
    ASSUME IInv, NEW c \in Threads, NEW step \in PublishSteps \cup PullSteps, GoOn(c, step), Unchanged,
           run[c].at \in PublishSteps \cup PullSteps,
           run[c].at \in PublishSteps <=> step \in PublishSteps,
           run[c].at \in Staged => step \in Staged,
           run[c].created => step = "cleanup",
           step = "cleanup" => run[c].created,
           step # "verify_final", step # "verify_pull", run[c].at # "verify_pull"
    PROVE  IInv'
<1> DEFINE q == [run[c] EXCEPT !.at = step]
<1>1. run[c] # NoRun /\ run[c] \in Run
  BY KindOfStep
<1>2. q \in Run /\ q.request = run[c].request /\ q.at = step /\ q.created = run[c].created
  BY <1>1 DEF Run
<1>3. Sound(q)
  <2>1. q.request \in Publishes => step \in PublishSteps
    BY <1>2, KindOfStep
  <2>2. q.request \in Pulls => step \in PullSteps
    BY <1>2, KindOfStep
  <2> QED BY <1>2, <2>1, <2>2 DEF Sound
<1>4. run' = [run EXCEPT ![c] = q]
  BY DEF GoOn
<1>5. /\ UNCHANGED <<remote, request, started, reports, did, died, unanswered, late>>
      /\ late' \subseteq unanswered' /\ unanswered' \subseteq LateCall
      /\ \A call \in unanswered' : call.request \in Pulls <=> call.write = "open"
  BY DEF GoOn, Unchanged, IInv, TypeOK, Kinds
<1> QED BY <1>1, <1>2, <1>3, <1>4, <1>5, GoesOn

\* A run whose ref is staged notes a failure and goes on to the cleanup.
LEMMA FailsStaged ==
    ASSUME IInv, NEW c \in Threads, NEW failure \in Failures \ {""}, FailWith(c, failure),
           FailsOrUnanswered(c, "create"), run[c].at \in {"verify_staged", "create", "verify_final"}
    PROVE  IInv'
<1> DEFINE q == [run[c] EXCEPT !.at = "cleanup", !.failure = failure]
<1>1. run[c] # NoRun /\ run[c] \in Run /\ run[c].request \in Publishes /\ run[c].request \notin Pulls
  BY KindOfStep DEF PublishSteps
<1>2. q \in Run /\ q.request = run[c].request /\ q.at = "cleanup" /\ q.created = run[c].created /\ q.failure = failure
  BY <1>1 DEF Run, PublishSteps
<1>3. Sound(q)
  BY <1>1, <1>2 DEF Sound, PublishSteps
<1>4. run' = [run EXCEPT ![c] = q]
  BY <1>1 DEF FailWith, Run
<1>5. "create" \in Writes /\ "create" # "open" /\ "cleanup" \in Staged /\ "cleanup" # "verify_pull"
  BY DEF Writes, Staged
<1>6. /\ UNCHANGED <<remote, did, died, request, started, reports>>
      /\ unanswered \subseteq unanswered' /\ late' \subseteq unanswered' /\ unanswered' \subseteq LateCall
      /\ \A call \in unanswered' : call.request \in Pulls <=> call.write = "open"
  BY <1>1, <1>5, CallsKnown DEF FailWith
<1> QED BY <1>1, <1>2, <1>3, <1>4, <1>5, <1>6, GoesOn

LEMMA PushAcceptedKeeps ==
    ASSUME IInv, NEW c \in Threads, PushAccepted(c)
    PROVE  IInv'
<1> DEFINE r == run[c].request
<1>1. run[c] \in Run /\ r \in Publishes /\ run[c] # NoRun
  BY KindOfStep DEF PushAccepted, At, PublishSteps
<1>2. TypeOK'
  BY <1>1 DEF IInv, TypeOK, PushAccepted, Heads, Run, PublishSteps
<1>3. Kinds'
  BY <1>1 DEF IInv, TypeOK, Kinds, PushAccepted, PublishSteps, Run, NoRun
<1>4. Locals'
  <2>1. ~run[c].created /\ run'[c] = [run[c] EXCEPT !.at = "verify_staged"] /\ \A d \in Threads : d # c => run'[d] = run[d]
    BY <1>1 DEF IInv, TypeOK, Locals, PushAccepted, At
  <2>2. run'[c].at = "verify_staged" /\ ~run'[c].created
    BY <1>1, <2>1 DEF Run
  <2>3. run'[c].at \notin {"cleanup", "verify_final", "verify_pull"} /\ did' = did
    BY <2>2 DEF PushAccepted
  <2> QED BY <2>1, <2>2, <2>3 DEF IInv, Locals
<1>5. StagingKnown'
  BY <1>1 DEF IInv, TypeOK, StagingKnown, PushAccepted, At, Run, NoRun, Staged
<1>6. EffectsKnown' /\ Successes'
  BY <1>1 DEF IInv, TypeOK, EffectsKnown, Locals, Successes, PushAccepted, At, Run, NoRun
<1> QED BY <1>2, <1>3, <1>4, <1>5, <1>6 DEF IInv

\* GitHub does what a run asks for, and the run goes on to q, which knows it.
LEMMA Does ==
    ASSUME IInv, NEW c \in Threads, run[c] # NoRun, NEW q \in Run,
           run' = [run EXCEPT ![c] = q], q.request = run[c].request, Sound(q),
           run[c].at \in Staged => q.at \in Staged,
           q.created \/ q.at = "verify_pull",
           branch' \in Heads, pull' \in BOOLEAN, did' = did \cup {q.request},
           UNCHANGED <<staging, late, request, started, reports, unanswered, died>>
    PROVE  IInv'
<1>1. /\ run'[c] = q /\ q # NoRun /\ q.request \in Requests
      /\ \A d \in Threads : d # c => run'[d] = run[d]
      /\ run' \in [Threads -> Run \cup {NoRun}]
  BY RunOrNone DEF IInv, TypeOK, Run
<1>2. TypeOK'
  BY <1>1 DEF IInv, TypeOK
<1>3. Kinds'
  BY <1>1 DEF IInv, Kinds, Sound
<1>4. Locals'
  <2> SUFFICES ASSUME NEW d \in Threads, run'[d] # NoRun
               PROVE  /\ run'[d].created => run'[d].at \in {"verify_final", "cleanup"}
                      /\ run'[d].at = "verify_final" => run'[d].created
                      /\ run'[d].at = "cleanup" /\ run'[d].failure = "" => run'[d].created
                      /\ run'[d].created \/ run'[d].at = "verify_pull" => run'[d].request \in did'
    BY DEF Locals
  <2>1. CASE d = c
    BY <1>1, <2>1 DEF Sound
  <2>2. CASE d # c
    BY <1>1, <2>2 DEF IInv, Locals
  <2> QED BY <2>1, <2>2
<1>5. StagingKnown'
  BY <1>1 DEF IInv, StagingKnown
<1>6. EffectsKnown'
  BY <1>1 DEF IInv, EffectsKnown
<1>7. Successes'
  BY DEF IInv, Successes
<1> QED BY <1>2, <1>3, <1>4, <1>5, <1>6, <1>7 DEF IInv

LEMMA CreateAcceptedKeeps ==
    ASSUME IInv, NEW c \in Threads, CreateAccepted(c)
    PROVE  IInv'
<1> DEFINE q == [run[c] EXCEPT !.at = "verify_final", !.created = TRUE]
<1>1. run[c] \in Run /\ run[c].request \in Publishes /\ run[c].request \notin Pulls /\ run[c] # NoRun
  BY KindOfStep DEF CreateAccepted, At, PublishSteps
<1>2. q \in Run /\ q.request = run[c].request /\ q.at = "verify_final" /\ q.created
  BY <1>1 DEF Run, PublishSteps
<1>3. Sound(q) /\ q.at \in Staged
  BY <1>1, <1>2 DEF Sound, PublishSteps, Staged
<1>4. run' = [run EXCEPT ![c] = q]
  BY <1>1 DEF CreateAccepted, Run
<1>5. branch' \in Heads /\ pull' \in BOOLEAN /\ did' = did \cup {q.request}
  BY <1>2 DEF CreateAccepted, Heads, IInv, TypeOK
<1>6. UNCHANGED <<staging, late, request, started, reports, unanswered, died>>
  BY DEF CreateAccepted
<1> QED BY <1>1, <1>2, <1>3, <1>4, <1>5, <1>6, Does

LEMMA OpenAcceptedKeeps ==
    ASSUME IInv, NEW c \in Threads, OpenAccepted(c)
    PROVE  IInv'
<1> DEFINE q == [run[c] EXCEPT !.at = "verify_pull"]
<1>1. run[c] \in Run /\ run[c].request \in Pulls /\ run[c].request \notin Publishes /\ run[c] # NoRun
  BY KindOfStep DEF OpenAccepted, At, PullSteps
<1>2. q \in Run /\ q.request = run[c].request /\ q.at = "verify_pull" /\ ~q.created
  BY <1>1 DEF Run, PullSteps, IInv, Locals, OpenAccepted, At
<1>3. Sound(q) /\ run[c].at \notin Staged
  BY <1>1, <1>2 DEF Sound, PullSteps, Staged, OpenAccepted, At
<1>4. run' = [run EXCEPT ![c] = q]
  BY DEF OpenAccepted
<1>5. branch' \in Heads /\ pull' \in BOOLEAN /\ did' = did \cup {q.request}
  BY <1>2 DEF OpenAccepted, IInv, TypeOK
<1>6. UNCHANGED <<staging, late, request, started, reports, unanswered, died>>
  BY DEF OpenAccepted
<1> QED BY <1>1, <1>2, <1>3, <1>4, <1>5, <1>6, Does

LEMMA CleanupAcceptedKeeps ==
    ASSUME IInv, NEW c \in Threads, CleanupAccepted(c)
    PROVE  IInv'
<1> DEFINE r == run[c].request
           o == PublishOutcome(run[c])
<1>1. run[c] \in Run /\ r \in Publishes /\ run[c] # NoRun /\ run[c].at = "cleanup"
  BY KindOfStep DEF CleanupAccepted, At, PublishSteps
<1>2. /\ o \in Outcome
      /\ o = "failure" => ~run[c].created
      /\ o = "success" => run[c].failure = ""
  BY <1>1 DEF PublishOutcome, Run, Failures, Outcome
<1>3. o = "success" => r \in did
  BY <1>1, <1>2 DEF IInv, Locals
<1>4. /\ staging' \in [Publishes -> Heads] /\ staging'[r] = "none"
      /\ \A s \in Publishes : staging'[s] \in {"none", staging[s]}
  BY <1>1 DEF CleanupAccepted, IInv, TypeOK, Heads
<1>5. /\ Return(c, o) /\ UNCHANGED <<branch, pull, did, died, unanswered, late>>
      /\ late' \subseteq unanswered' /\ unanswered' \subseteq LateCall
      /\ \A call \in unanswered' : call.request \in Pulls <=> call.write = "open"
  BY DEF CleanupAccepted, IInv, TypeOK, Kinds
<1> HIDE DEF o
<1> QED BY <1>1, <1>2, <1>3, <1>4, <1>5, Ends

LEMMA CleanupFailsKeeps ==
    ASSUME IInv, NEW c \in Threads, CleanupFails(c)
    PROVE  IInv'
<1>1. run[c] # NoRun /\ run[c].request \notin Pulls
  BY KindOfStep DEF CleanupFails, At, PublishSteps
<1>2. "delete" \in Writes /\ "delete" # "open" /\ "reconcile" \in Outcome /\ "reconcile" \notin {"failure", "success"}
  BY DEF Writes, Outcome
<1>3. Return(c, "reconcile") /\ FailsOrUnanswered(c, "delete")
  BY DEF CleanupFails
<1>4. staging' \in [Publishes -> Heads] /\ \A s \in Publishes : staging'[s] = staging[s]
  BY <1>1, <1>2, <1>3, CallsKnown DEF IInv, TypeOK
<1> QED BY <1>1, <1>2, <1>3, <1>4, CallsKnown, Ends

LEMMA VerifyPullKeeps ==
    ASSUME IInv, NEW c \in Threads, VerifyPull(c)
    PROVE  IInv'
<1>1. run[c] # NoRun /\ run[c].at = "verify_pull" /\ run[c].request \in did
  BY KindOfStep DEF VerifyPull, At, PullSteps, IInv, Locals
<1>2. PICK o \in {"success", "reconcile"} : Return(c, o)
  BY DEF VerifyPull
<1>3. o \in Outcome /\ o # "failure" /\ run[c].at \notin Staged
  BY <1>1, <1>2 DEF Outcome, Staged
<1>4. /\ UNCHANGED <<branch, staging, pull, did, died, unanswered, late>> /\ staging' \in [Publishes -> Heads]
      /\ late' \subseteq unanswered' /\ unanswered' \subseteq LateCall
      /\ \A call \in unanswered' : call.request \in Pulls <=> call.write = "open"
  BY DEF VerifyPull, Unchanged, IInv, TypeOK, Kinds
<1> QED BY <1>1, <1>2, <1>3, <1>4, Ends

LEMMA PublishStepKeeps ==
    ASSUME IInv, NEW c \in Threads, PublishStep(c)
    PROVE  IInv'
<1>1. \A step \in PublishSteps : At(c, step) => run[c] # NoRun /\ run[c].request \notin Pulls
  BY KindOfStep DEF At
<1>2. ASSUME Return(c, "failure"), Unchanged, run[c].at \in {"precheck_branch", "precheck_staging"}
      PROVE  IInv'
  <2>1. FailsOrUnanswered(c, "push") /\ "push" \in Writes /\ run[c].at \notin Staged \cup {"verify_pull"}
    BY <1>2 DEF FailsOrUnanswered, Writes, Staged
  <2> QED BY <1>1, <1>2, <2>1, FailsEarly DEF At, PublishSteps
<1>3. \A step \in PublishSteps : step # "verify_pull"
  BY DEF PublishSteps
<1>4. ASSUME NEW step \in {"precheck_staging", "push", "create"}, GoOn(c, step), Unchanged,
             run[c].at \in {"precheck_branch", "precheck_staging", "verify_staged"},
             run[c].at = "verify_staged" => step = "create"
      PROVE  IInv'
  <2>1. /\ run[c].at \in PublishSteps /\ step \in PublishSteps
        /\ run[c].at \notin {"verify_pull", "verify_final", "cleanup"}
        /\ step \notin {"verify_pull", "verify_final", "cleanup"}
        /\ run[c].at \in Staged => step \in Staged
    BY <1>4 DEF PublishSteps, Staged
  <2>2. ~run[c].created
    BY <1>1, <2>1 DEF IInv, Locals, At
  <2> QED BY <1>4, <2>1, <2>2, GoesOnTo
<1>5. CASE PublishGivesUp(c)
  BY <1>2, <1>5 DEF PublishGivesUp
<1>6. CASE PrecheckBranch(c)
  <2>1. CASE GoOn(c, "precheck_staging")
    BY <1>4, <1>6, <2>1 DEF PrecheckBranch, At
  <2> QED BY <1>2, <1>6, <2>1 DEF PrecheckBranch, At
<1>7. CASE PrecheckStaging(c)
  <2>1. CASE GoOn(c, "push")
    BY <1>4, <1>7, <2>1 DEF PrecheckStaging, At
  <2> QED BY <1>2, <1>7, <2>1 DEF PrecheckStaging, At
<1>8. CASE PushFails(c)
  BY <1>1, <1>8, FailsEarly DEF PushFails, At, PublishSteps, Staged, Writes
<1>9. CASE VerifyStaged(c)
  <2>1. CASE GoOn(c, "create")
    BY <1>4, <1>9, <2>1 DEF VerifyStaged, At
  <2>2. CASE FailWith(c, "github_publication_failed")
    BY <1>9, <2>2, FailsStaged DEF VerifyStaged, At, Failures, FailsOrUnanswered
  <2> QED BY <1>9, <2>1, <2>2 DEF VerifyStaged
<1>10. CASE CreateFails(c)
  BY <1>10, FailsStaged DEF CreateFails, At, Failures
<1>11. CASE VerifyFinal(c)
  <2>1. CASE GoOn(c, "cleanup")
    <3>1. run[c].created
      BY <1>1, <1>11 DEF VerifyFinal, At, IInv, Locals, PublishSteps
    <3> QED BY <1>3, <1>11, <2>1, <3>1, GoesOnTo DEF VerifyFinal, At, PublishSteps, Staged
  <2>2. CASE \E failure \in Failures \ {""} : FailWith(c, failure)
    BY <1>11, <2>2, FailsStaged DEF VerifyFinal, At, FailsOrUnanswered
  <2> QED BY <1>11, <2>1, <2>2 DEF VerifyFinal, Failures
<1> QED BY <1>5, <1>6, <1>7, <1>8, <1>9, <1>10, <1>11, PushAcceptedKeeps, CreateAcceptedKeeps,
           CleanupAcceptedKeeps, CleanupFailsKeeps DEF PublishStep

LEMMA PullStepKeeps ==
    ASSUME IInv, NEW c \in Threads, PullStep(c)
    PROVE  IInv'
<1>1. \A step \in PullSteps : At(c, step) => run[c] # NoRun /\ run[c].request \in Pulls
  BY KindOfStep DEF At
<1>2. ASSUME Return(c, "failure"), FailsOrUnanswered(c, "open"), run[c].at \in {"head", "search", "open"}
      PROVE  IInv'
  <2>1. "open" \in Writes /\ run[c].at \notin Staged \cup {"verify_pull"} /\ run[c].at \in PullSteps
    BY <1>2 DEF Writes, Staged, PullSteps
  <2> QED BY <1>1, <1>2, <2>1, FailsEarly DEF At
<1>3. \A step \in PullSteps : step \notin PublishSteps \cup Staged
  BY DEF PullSteps, PublishSteps, Staged
<1>4. ASSUME NEW step \in {"search", "open"}, GoOn(c, step), Unchanged, run[c].at \in {"head", "search"}
      PROVE  IInv'
  <2>1. /\ run[c].at \in PullSteps /\ step \in PullSteps
        /\ run[c].at \notin {"verify_pull", "verify_final", "cleanup"}
        /\ step \notin {"verify_pull", "verify_final", "cleanup"}
    BY <1>4 DEF PullSteps
  <2>2. ~run[c].created
    BY <1>1, <2>1 DEF IInv, Locals, At
  <2> QED BY <1>3, <1>4, <2>1, <2>2, GoesOnTo
<1>5. CASE PullGivesUp(c)
  BY <1>2, <1>5 DEF PullGivesUp, FailsOrUnanswered
<1>6. CASE ReadHead(c)
  <2>1. ASSUME GoOn(c, "search") PROVE IInv'
    BY <1>6, <1>4, <2>1 DEF ReadHead, At
  <2> QED BY <1>2, <1>6, <2>1 DEF ReadHead, At, FailsOrUnanswered
<1>7. CASE FindOpenPullRequest(c)
  <2>1. ASSUME GoOn(c, "open") PROVE IInv'
    BY <1>7, <1>4, <2>1 DEF FindOpenPullRequest, At
  <2> QED BY <1>2, <1>7, <2>1 DEF FindOpenPullRequest, At, FailsOrUnanswered
<1>8. CASE OpenFails(c)
  BY <1>2, <1>8 DEF OpenFails, At
<1> QED BY <1>5, <1>6, <1>7, <1>8, OpenAcceptedKeeps, VerifyPullKeeps DEF PullStep

-----------------------------------------------------------------------------
(* Requests, GitHub, owners and deaths. *)

LEMMA RequestsKeep ==
    ASSUME IInv, NEW r \in Requests, NEW status \in {"ready", "cancelled"}, SetRequest(r, status)
    PROVE  IInv'
BY DEF IInv, SetRequest, TypeOK, Kinds, Locals, StagingKnown, EffectsKnown, Successes

LEMMA StartRunKeeps ==
    ASSUME IInv, NEW c \in Threads, NEW r \in Requests, StartRun(c, r)
    PROVE  IInv'
<1> DEFINE q == [request |-> r, at |-> IF r \in Publishes THEN "precheck_branch" ELSE "head",
                 created |-> FALSE, failure |-> ""]
<1>1. q \in Run
  BY DEF Run, PublishSteps, PullSteps, Failures
<1>2. q.request = r /\ ~q.created /\ q.at \in {"precheck_branch", "head"}
      /\ (r \in Publishes => q.at \in PublishSteps) /\ (r \in Pulls => q.at \in PullSteps)
  BY DEF PublishSteps, PullSteps
<1>3. run' = [run EXCEPT ![c] = q]
  BY DEF StartRun
<1> HIDE DEF q
<1>4. run'[c] = q /\ (\A d \in Threads : d # c => run'[d] = run[d]) /\ run' \in [Threads -> Run \cup {NoRun}]
  BY <1>1, <1>3 DEF IInv, TypeOK
<1>5. TypeOK'
  <2>1. started' \in 0..MaxRuns
    <3>1. started \in 0..MaxRuns
      BY DEF IInv, TypeOK
    <3>2. started < MaxRuns /\ started' = started + 1
      BY DEF StartRun
    <3> QED BY <3>1, <3>2
  <2> QED BY <1>4, <2>1 DEF StartRun, IInv, TypeOK
<1>6. Kinds' /\ Locals'
  BY <1>2, <1>4 DEF StartRun, IInv, Kinds, Locals
<1>7. StagingKnown' /\ EffectsKnown' /\ Successes'
  BY <1>4 DEF StartRun, IInv, StagingKnown, EffectsKnown, Successes
<1> QED BY <1>5, <1>6, <1>7 DEF IInv

LEMMA LandsKeeps ==
    ASSUME IInv, NEW call \in late, Lands(call)
    PROVE  IInv'
<1> DEFINE r == call.request
<1>1. call \in LateCall /\ call \in unanswered /\ (r \in Pulls <=> call.write = "open")
  BY DEF IInv, TypeOK, Kinds
<1>2. call = [write |-> call.write, request |-> r] /\ r \in Requests /\ call.write \in Writes
  BY <1>1 DEF LateCall
<1>3. UNCHANGED <<request, run, started, reports, unanswered, died>> /\ late' \subseteq late
  BY DEF Lands
<1>4. CASE call.write \in {"push", "delete"}
  <2>1. /\ UNCHANGED <<branch, pull, did>> /\ staging' \in [Publishes -> Heads]
        /\ \A s \in Publishes : s # r \/ call.write = "delete" => staging'[s] \in {"none", staging[s]}
    BY <1>4 DEF Lands, IInv, TypeOK, Heads
  <2>2. TypeOK' /\ Kinds' /\ Locals'
    BY <1>3, <2>1 DEF IInv, TypeOK, Kinds, Locals
  <2>3. StagingKnown'
    <3>1. CASE call.write = "push"
      <4>1. [write |-> "push", request |-> r] \in unanswered
        BY <1>1, <1>2, <3>1
      <4> QED BY <1>3, <2>1, <4>1 DEF IInv, StagingKnown
    <3>2. CASE call.write = "delete"
      <4>1. \A q \in Publishes : staging'[q] # "none" => staging[q] # "none"
        BY <2>1, <3>2
      <4> QED BY <1>3, <4>1 DEF IInv, StagingKnown
    <3> QED BY <1>4, <3>1, <3>2
  <2>4. EffectsKnown' /\ Successes'
    BY <1>3, <2>1 DEF IInv, EffectsKnown, Successes
  <2> QED BY <2>2, <2>3, <2>4 DEF IInv
<1>5. CASE call.write \in {"create", "open"}
  <2>1. branch' \in Heads /\ pull' \in BOOLEAN /\ did' = did \cup {r} /\ UNCHANGED staging
    BY <1>5 DEF Lands, IInv, TypeOK, Heads
  <2>2. TypeOK' /\ Kinds' /\ Locals'
    BY <1>2, <1>3, <2>1 DEF IInv, TypeOK, Kinds, Locals
  <2>3. StagingKnown' /\ Successes'
    BY <1>3, <2>1 DEF IInv, StagingKnown, Successes
  <2>4. EffectsKnown'
    BY <1>1, <1>3, <1>5, <2>1 DEF IInv, EffectsKnown
  <2> QED BY <2>2, <2>3, <2>4 DEF IInv
<1> QED BY <1>2, <1>4, <1>5 DEF Writes

LEMMA OthersKeep ==
    ASSUME IInv, \/ \E call \in late : IsLost(call)
                 \/ BranchWritten \/ PullClosed \/ \E r \in Publishes : StagingRemoved(r)
    PROVE  IInv'
<1>1. /\ UNCHANGED <<request, run, started, reports, history>> /\ late' \subseteq late
      /\ branch' \in Heads /\ pull' \in BOOLEAN /\ staging' \in [Publishes -> Heads]
      /\ \A s \in Publishes : staging'[s] \in {"none", staging[s]}
  BY DEF IsLost, BranchWritten, PullClosed, StagingRemoved, IInv, TypeOK, Heads
<1>2. TypeOK' /\ Kinds' /\ Locals'
  BY <1>1 DEF IInv, TypeOK, Kinds, Locals
<1>3. StagingKnown' /\ EffectsKnown' /\ Successes'
  BY <1>1 DEF IInv, StagingKnown, EffectsKnown, Successes
<1> QED BY <1>2, <1>3 DEF IInv

LEMMA DiesKeeps ==
    ASSUME IInv, NEW c \in Threads, Dies(c)
    PROVE  IInv'
<1>1. /\ run[c].request \in Requests /\ died' = died \cup {run[c].request}
      /\ run'[c] = NoRun /\ (\A d \in Threads : d # c => run'[d] = run[d])
      /\ run' \in [Threads -> Run \cup {NoRun}]
      /\ UNCHANGED <<remote, late, request, started, reports, did, unanswered>>
  BY RunOrNone DEF Dies, IInv, TypeOK, Run
<1>2. TypeOK' /\ Kinds' /\ Locals'
  BY <1>1 DEF IInv, TypeOK, Kinds, Locals
<1>3. StagingKnown' /\ EffectsKnown' /\ Successes'
  BY <1>1 DEF IInv, StagingKnown, EffectsKnown, Successes
<1> QED BY <1>2, <1>3 DEF IInv

-----------------------------------------------------------------------------
\* Whatever threads, GitHub and owners do, what a request staged and did is known
\* from the steps its runs have reached, from its reports, or from a call without
\* an answer or a run that was cut off.
THEOREM Safety == Spec => []IInv
<1>1. ASSUME IInv, [Next]_vars
      PROVE  IInv'
  <2>1. CASE UNCHANGED vars
    BY <1>1, <2>1 DEF vars, IInv, TypeOK, Kinds, Locals, StagingKnown, EffectsKnown, Successes
  <2>2. CASE \E r \in Requests : CreatePublishRequest(r) \/ CreatePullRequest(r) \/ CancelRequest(r)
    BY <1>1, <2>2, RequestsKeep DEF CreatePublishRequest, CreatePullRequest, CancelRequest
  <2>3. CASE \E r \in Requests, c \in Threads : StartRun(c, r)
    BY <1>1, <2>3, StartRunKeeps
  <2>4. CASE \E c \in Threads : PublishStep(c) \/ PullStep(c) \/ Dies(c)
    BY <1>1, <2>4, PublishStepKeeps, PullStepKeeps, DiesKeeps
  <2>5. CASE \E call \in late : Lands(call)
    BY <1>1, <2>5, LandsKeeps
  <2>6. CASE \/ \E call \in late : IsLost(call)
             \/ BranchWritten \/ PullClosed \/ \E r \in Publishes : StagingRemoved(r)
    BY <1>1, <2>6, OthersKeep
  <2> QED BY <1>1, <2>1, <2>2, <2>3, <2>4, <2>5, <2>6 DEF Next
<1> QED BY <1>1, InitIInv, PTL DEF Spec

\* The state of GitHub, of the requests and of the runs is well formed.
THEOREM TypeCorrect == Spec => []TypeOK
<1>1. IInv => TypeOK
  BY DEF IInv
<1> QED BY <1>1, Safety, PTL

\* A staging ref that outlives the runs of its request was reported for
\* reconciliation, or the push had no answer, or a run was cut off.
THEOREM StagingIsAccounted == Spec => []StagingAccounted
<1>1. IInv => StagingAccounted
  BY DEF IInv, StagingKnown, StagingAccounted, Running
<1> QED BY <1>1, Safety, PTL

\* What a request did on GitHub is in its reports, or the call had no answer, or a
\* run was cut off; and no success is reported that did not happen.
THEOREM EffectsAreAccounted == Spec => []EffectsAccounted
<1>1. IInv => EffectsAccounted
  BY DEF IInv, EffectsKnown, Successes, EffectsAccounted, Running
<1> QED BY <1>1, Safety, PTL

\* Whatever runs overlap, are repeated or land late, every step creates the
\* missing branch at the reviewed commit, opens a pull request for it, or is
\* somebody else's.
THEOREM PromiseIsKept == Spec => KeepsPromise
<1>1. Init => Promise!Init
  BY DEF Init, Promise!Init
<1>2. ASSUME IInv, [Next]_vars
      PROVE  [Promise!Next]_(Promise!promiseVars)
  <2> DEFINE Stutters == UNCHANGED <<branch, pull, did>>
  <2>1. CASE UNCHANGED vars
    BY <2>1 DEF vars, Promise!promiseVars
  <2>2. CASE \E r \in Requests : \/ CreatePublishRequest(r) \/ CreatePullRequest(r) \/ CancelRequest(r)
                                \/ \E c \in Threads : StartRun(c, r)
    BY <2>2 DEF CreatePublishRequest, CreatePullRequest, CancelRequest, SetRequest, StartRun, Promise!promiseVars
  <2>3. ASSUME NEW c \in Threads, PublishStep(c)
        PROVE  Stutters \/ \E r \in Publishes : Promise!CreateBranch(r)
    <3>1. CASE CreateAccepted(c)
      <4>1. run[c].request \in Publishes
        BY <1>2, <3>1, KindOfStep DEF CreateAccepted, At, PublishSteps
      <4> QED BY <3>1, <4>1 DEF CreateAccepted, Promise!CreateBranch
    <3>2. CASE ~CreateAccepted(c)
      BY <2>3, <3>2 DEF PublishStep, PublishGivesUp, PrecheckBranch, PrecheckStaging, PushAccepted, PushFails,
          VerifyStaged, CreateFails, VerifyFinal, CleanupAccepted, CleanupFails, FailsOrUnanswered,
          Unchanged, Unanswered
    <3> QED BY <3>1, <3>2
  <2>4. ASSUME NEW c \in Threads, PullStep(c)
        PROVE  Stutters \/ \E r \in Pulls : Promise!OpenPull(r)
    <3>1. CASE OpenAccepted(c)
      <4>1. run[c].request \in Pulls
        BY <1>2, <3>1, KindOfStep DEF OpenAccepted, At, PullSteps
      <4> QED BY <3>1, <4>1 DEF OpenAccepted, Promise!OpenPull
    <3>2. CASE ~OpenAccepted(c)
      BY <2>4, <3>2 DEF PullStep, PullGivesUp, ReadHead, FindOpenPullRequest, OpenFails, VerifyPull,
          FailsOrUnanswered, Unchanged, Unanswered
    <3> QED BY <3>1, <3>2
  <2>5. ASSUME NEW call \in late, Lands(call)
        PROVE  Stutters \/ (\E r \in Publishes : Promise!CreateBranch(r)) \/ \E r \in Pulls : Promise!OpenPull(r)
    <3>1. /\ call.write \in Writes /\ call.request \in Requests
          /\ call.request \in Pulls <=> call.write = "open"
      BY <1>2 DEF IInv, TypeOK, Kinds, LateCall
    <3> QED BY <2>5, <3>1 DEF Lands, Writes, Promise!CreateBranch, Promise!OpenPull
  <2>6. CASE \/ \E call \in late : IsLost(call)
             \/ BranchWritten \/ PullClosed \/ \E r \in Publishes : StagingRemoved(r)
    <3>1. branch' \in {branch, "none", "other"} /\ pull' \in {pull, FALSE} /\ UNCHANGED did
      BY <1>2, <2>6 DEF IsLost, BranchWritten, PullClosed, StagingRemoved, IInv, TypeOK
    <3> QED BY <3>1 DEF Promise!Next, Promise!SomebodyElse
  <2>7. CASE \E c \in Threads : Dies(c)
    BY <2>7 DEF Dies, Promise!promiseVars
  <2>8. Stutters \/ (\E r \in Publishes : Promise!CreateBranch(r)) \/ (\E r \in Pulls : Promise!OpenPull(r))
            => [Promise!Next]_(Promise!promiseVars)
    BY DEF Promise!Next, Promise!promiseVars
  <2> QED BY <1>2, <2>1, <2>2, <2>3, <2>4, <2>5, <2>6, <2>7, <2>8 DEF Next
<1> QED BY <1>1, <1>2, Safety, PTL DEF Spec, KeepsPromise, Promise!Spec

=============================================================================
