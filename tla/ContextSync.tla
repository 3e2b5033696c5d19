---------------------------- MODULE ContextSync ----------------------------
(***************************************************************************)
(* How the history of GitHub reaches the memory of a project: the          *)
(* synchronisation that records events (app/github_sync.py), the digest    *)
(* that names new events for review (app/github_digest.py) and the         *)
(* onboarding of a project (app/github_onboarding.py), started by routes   *)
(* and by the scheduled script (scripts/ops_github_sync.py), next to the   *)
(* requests of SessionMemory.                                              *)
(*                                                                         *)
(* Nothing keeps two synchronisations of one project apart: the script     *)
(* locks out itself only, and the database has no unique event.  The clock *)
(* moves with each commit of events, which is when a synchronisation is    *)
(* complete; an event has the time at which its transaction wrote it.      *)
(***************************************************************************)
EXTENDS SessionMemory

CONSTANTS
    Syncs,          \* processes that synchronise
    Scripts,        \* those of them that hold the script's lock file
    Sources,        \* GitHub sources the project may have
    Items,          \* what GitHub may list: a commit, a pull request, an issue, a run
    Offers,         \* what the repository of each source may list
    DigestTitles,   \* the task titles a digest suggests for an item
    OnboardingTitles, \* the task titles an onboarding suggests for a listed item
    SnapshotTitle,  \* the title it suggests when nothing is listed
    Limit,          \* the most events in one digest: 100 in the code
    MaxSyncs        \* bound: how many synchronisations there are in all

ASSUME ItemsAssumption == IsFiniteSet(Items)
ASSUME LimitAssumption == Limit \in Nat \ {0}
ASSUME OffersAssumption == Offers \in [Sources -> SUBSET Items]
ASSUME TitlesAssumption ==
    /\ DigestTitles \in [Items -> SUBSET Titles]
    /\ OnboardingTitles \in [Items -> SUBSET Titles]
    /\ SnapshotTitle \in Titles

VARIABLES
    cursors,        \* github_digest_cursor_at of each active source, 0 when it has none
    events,         \* events of GitHub, in the order in which they were committed
    clock,          \* the time
    syncs,          \* what each synchronisation has loaded and is about to do
    started,        \* how many there were
    truncated,      \* events a digest left out because it was full
    late,           \* events committed behind the back of another synchronisation
    uncursored      \* events that were in no digest while a source had no cursor

syncVars == <<cursors, events, clock, syncs, started, truncated, late, uncursored>>
vars == <<sessionVars, syncVars>>

Waiting == [at |-> "idle"]

\* The cursor of a project: the earliest of its sources', and none when one of them
\* has none.
CursorOf(c) == IF DOMAIN c = {} \/ \E s \in DOMAIN c : c[s] = 0 THEN 0 ELSE Min({c[s] : s \in DOMAIN c})

DigestsOf(all) == {d \in DOMAIN all : all[d].kind = "digest"}
\* Mutant of Digested: only a digest that was applied counts as a review.
DigestedAndApplied == UNION {deltas[d].refs : d \in {x \in DigestsOf(deltas) : deltas[x].status = "applied"}}

Digested == UNION {deltas[d].refs : d \in DigestsOf(deltas)}

IsPending(kind) == \E d \in DOMAIN deltas : deltas[d].kind = kind /\ deltas[d].status = "pending"

\* The events that wait outside every digest while the project has no cursor.
Uncursored(c, e) == IF CursorOf(c) = 0 THEN uncursored \cup ((DOMAIN e) \ Digested) ELSE uncursored

\* A new project, or one whose first synchronisation, of an empty repository, has set
\* the cursor.
SyncInit ==
    /\ cursors = <<>> \/ \E source \in Sources : cursors = [x \in {source} |-> 1]
    /\ events = <<>> /\ clock = 1
    /\ syncs = [s \in Syncs |-> Waiting] /\ started = 0
    /\ truncated = {} /\ late = {} /\ uncursored = {}

\* POST /projects/{id}/sources: the check compares the identifiers as they were
\* given, so one repository may be a source twice, spelt differently.
AddSource(source) ==
    /\ source \notin DOMAIN cursors
    /\ cursors' = [x \in DOMAIN cursors \cup {source} |-> IF x = source THEN 0 ELSE cursors[x]]
    /\ uncursored' = Uncursored(cursors', events)
    /\ UNCHANGED <<events, clock, syncs, started, truncated, late>>

-----------------------------------------------------------------------------
(* One synchronisation *)

\* The script starts only with its lock file, and only synchronises.
ScriptMayStart(s, mode) == mode = "digest" /\ \A o \in Scripts : syncs[o] = Waiting

\* The sources are loaded, with the cursors this process goes on with.
StartSync(s, mode) ==
    /\ syncs[s] = Waiting
    /\ DOMAIN cursors # {}
    /\ s \in Scripts => ScriptMayStart(s, mode)
    /\ mode = "onboarding" => ~IsPending("onboarding")
    /\ started < MaxSyncs /\ started' = started + 1
    /\ syncs' = [syncs EXCEPT ![s] = [at |-> "fetch", mode |-> mode, cursors |-> cursors, began |-> clock]]
    /\ UNCHANGED <<cursors, events, clock, truncated, late, uncursored>>

Recorded(item) == \E e \in DOMAIN events : events[e].item = item

\* What the lists of GitHub may hold for the sources that were loaded.
Listable(r) == UNION {Offers[x] : x \in DOMAIN r.cursors}

\* What is inserted, for each source: an item is looked for among the events of before,
\* as what this synchronisation has itself added is not flushed yet.
Inserts(r, seen) ==
    LET found == SetToSeq({p \in (DOMAIN r.cursors) \X seen : p[2] \in Offers[p[1]] /\ ~Recorded(p[2])})
    IN  [n \in DOMAIN found |-> found[n][2]]

Fetch(s, seen) ==
    LET r == syncs[s]
    IN  /\ r.at = "fetch"
        /\ seen \subseteq Listable(r)
        /\ syncs' = [syncs EXCEPT ![s] =
            [at |-> "commit", mode |-> r.mode, cursors |-> r.cursors, began |-> r.began,
             seen |-> IF r.mode = "onboarding" THEN seen ELSE {},
             new |-> Inserts(r, seen), looked |-> clock]]
        /\ UNCHANGED <<cursors, events, clock, started, truncated, late, uncursored>>

\* Of each source the cursor as it was loaded, where it was.
MergedWith(loaded) == [x \in DOMAIN cursors |-> IF x \in DOMAIN loaded THEN loaded[x] ELSE cursors[x]]

\* Another synchronisation will not see an event of this time, and move the cursor
\* past it: it has chosen what it names, or looks from a later cursor, or, without one,
\* from its own beginning.
Overlooks(s, at) ==
    \/ syncs[s].at \in {"create", "advance"}
    \/ syncs[s].at \in {"fetch", "commit", "look", "note"} /\ CursorOf(syncs[s].cursors) > at
    \/ syncs[s].at \in {"fetch", "commit", "look"} /\ CursorOf(syncs[s].cursors) = 0 /\ syncs[s].began > at

\* The events become visible, with the time at which the commit began to write them,
\* and the metadata of the sources is what was loaded, merged with what was read: the
\* cursors among it.
CommitEvents(s, at) ==
    LET r == syncs[s]
        all == events \o [n \in DOMAIN r.new |-> [item |-> r.new[n], at |-> at]]
    IN  /\ r.at = "commit"
        /\ at \in r.looked..clock
        /\ r.new = <<>> => at = clock
        /\ events' = all
        /\ clock' = clock + 1
        /\ cursors' = MergedWith(r.cursors)
        /\ late' = IF \E o \in Syncs \ {s} : Overlooks(o, at)
                   THEN late \cup ((DOMAIN all) \ DOMAIN events) ELSE late
        /\ uncursored' = Uncursored(cursors', all)
        /\ syncs' = [syncs EXCEPT ![s] =
            IF r.mode = "onboarding" THEN [at |-> "onboard", seen |-> r.seen]
            ELSE [at |-> "look", cursors |-> r.cursors, began |-> r.began, completed |-> clock']]
        /\ UNCHANGED <<started, truncated>>

\* An error, or the end of the process: what was not committed is rolled back.
AbandonSync(s) ==
    /\ syncs[s] # Waiting
    /\ syncs' = [syncs EXCEPT ![s] = Waiting]
    /\ UNCHANGED <<cursors, events, clock, started, truncated, late, uncursored>>

\* The script notes any failure in the metadata of the sources, which it loads for
\* that; a route notes an error of GitHub, and an onboarding none.
FailSync(s) ==
    /\ syncs[s].at \notin {"idle", "note"}
    /\ s \notin Scripts => syncs[s].at = "fetch" /\ syncs[s].mode = "digest"
    /\ syncs' = [syncs EXCEPT ![s] = [at |-> "note", cursors |-> cursors]]
    /\ UNCHANGED <<cursors, events, clock, started, truncated, late, uncursored>>

NoteFailure(s) ==
    /\ syncs[s].at = "note"
    /\ cursors' = MergedWith(syncs[s].cursors)
    /\ uncursored' = Uncursored(cursors', events)
    /\ syncs' = [syncs EXCEPT ![s] = Waiting]
    /\ UNCHANGED <<events, clock, started, truncated, late>>

-----------------------------------------------------------------------------
(* The digest that follows *)

\* The sources it knows are as it loaded them: the session does not read a row again.
Since(r) == IF CursorOf(MergedWith(r.cursors)) = 0 THEN r.began ELSE CursorOf(MergedWith(r.cursors))

\* Mutant of Eligible: events of the very time of the cursor are left out.
EligibleAfter(r) == {e \in (DOMAIN events) \ Digested : events[e].at > Since(r)}

Eligible(r) == {e \in (DOMAIN events) \ Digested : events[e].at >= Since(r)}

\* The first of the eligible events, by time and then by an id that says nothing.
IsFirst(chosen, from) ==
    /\ chosen \subseteq from
    /\ Cardinality(chosen) = IF Cardinality(from) < Limit THEN Cardinality(from) ELSE Limit
    /\ \A e \in chosen, o \in from \ chosen : events[e].at <= events[o].at

PendingIsEnough(s) ==
    /\ syncs[s].at = "look"
    /\ IsPending("digest")
    /\ syncs' = [syncs EXCEPT ![s] = Waiting]
    /\ UNCHANGED <<cursors, events, clock, started, truncated, late, uncursored>>

Choose(s) ==
    LET r == syncs[s]
    IN  /\ r.at = "look"
        /\ ~IsPending("digest")
        /\ \E chosen \in SUBSET Eligible(r) :
            /\ IsFirst(chosen, Eligible(r))
            /\ truncated' = truncated \cup (Eligible(r) \ chosen)
            /\ syncs' = [syncs EXCEPT ![s] =
                IF chosen = {} THEN [at |-> "advance", completed |-> r.completed]
                ELSE [at |-> "create", completed |-> r.completed, chosen |-> chosen, known |-> Len(deltas)]]
        /\ UNCHANGED <<cursors, events, clock, started, late, uncursored>>

\* A task that is open already is not suggested.
TaskSuggestions(chosen) == UNION {DigestTitles[events[e].item] : e \in chosen} \ OpenTitles

\* The delta that waits for review.
CreateDigest(s) ==
    LET r == syncs[s]
    IN  /\ r.at = "create"
        /\ deltas' = Append(deltas, Delta("generated",
                        [kind |-> "digest", closes |-> {}, titles |-> TaskSuggestions(r.chosen), acts |-> FALSE],
                        r.chosen, r.known))
        /\ syncs' = [syncs EXCEPT ![s] = [at |-> "advance", completed |-> r.completed]]
        /\ UNCHANGED <<tasks, nextAction, summaries, reviews, requests, edits, raced>>
        /\ UNCHANGED <<cursors, events, clock, started, truncated, late, uncursored>>

\* Mutant of AdvanceCursor: the cursor is set past the synchronisation.
AdvanceCursorPast(s) ==
    /\ syncs[s].at = "advance"
    /\ cursors' = [x \in DOMAIN cursors |-> syncs[s].completed + 1]
    /\ syncs' = [syncs EXCEPT ![s] = Waiting]
    /\ UNCHANGED <<events, clock, started, truncated, late, uncursored>>

AdvanceCursor(s) ==
    /\ syncs[s].at = "advance"
    /\ cursors' = [x \in DOMAIN cursors |-> syncs[s].completed]
    /\ syncs' = [syncs EXCEPT ![s] = Waiting]
    /\ UNCHANGED <<events, clock, started, truncated, late, uncursored>>

-----------------------------------------------------------------------------
(* The onboarding that follows instead *)

\* Its tasks come from what was listed.
OnboardingTasks(seen) ==
    LET listed == UNION {OnboardingTitles[i] : i \in seen}
    IN  (IF listed = {} THEN {SnapshotTitle} ELSE listed) \ OpenTitles

\* Its next action is the first of them.
CreateOnboarding(s) ==
    LET titles == OnboardingTasks(syncs[s].seen)
    IN  /\ syncs[s].at = "onboard"
        /\ deltas' = Append(deltas, Delta("generated",
                        [kind |-> "onboarding", closes |-> {}, titles |-> titles, acts |-> titles # {}], {}, 0))
        /\ syncs' = [syncs EXCEPT ![s] = Waiting]
        /\ UNCHANGED <<tasks, nextAction, summaries, reviews, requests, edits, raced>>
        /\ UNCHANGED <<cursors, events, clock, started, truncated, late, uncursored>>

-----------------------------------------------------------------------------
Synchronise ==
    \/ \E source \in Sources : AddSource(source)
    \/ \E s \in Syncs :
        \/ AbandonSync(s) \/ FailSync(s) \/ NoteFailure(s)
        \/ PendingIsEnough(s) \/ Choose(s) \/ AdvanceCursor(s)
        \/ \E mode \in {"digest", "onboarding"} : StartSync(s, mode)
        \/ \E seen \in SUBSET Items : Fetch(s, seen)
        \/ \E at \in 1..clock : CommitEvents(s, at)

Prepare == \E s \in Syncs : CreateDigest(s) \/ CreateOnboarding(s)

\* A client names events that are there; any other name is nothing to a digest.
NamesEvents == \A d \in DOMAIN deltas' : deltas'[d].refs \subseteq DOMAIN events

Init == SessionInit /\ SyncInit

Next ==
    \/ Synchronise /\ UNCHANGED sessionVars
    \/ Prepare
    \/ SessionNext /\ NamesEvents /\ UNCHANGED syncVars

Spec == Init /\ [][Next]_vars

-----------------------------------------------------------------------------
(* Properties *)

TypeOK ==
    /\ SessionTypeOK
    /\ DOMAIN cursors \subseteq Sources /\ \A x \in DOMAIN cursors : cursors[x] \in 0..clock
    /\ \A e \in DOMAIN events : events[e].item \in Items /\ events[e].at \in 1..clock
    /\ \A d \in DOMAIN deltas : deltas[d].refs \subseteq DOMAIN events
    /\ truncated \cup late \cup uncursored \subseteq DOMAIN events

\* No event passes unseen: each is named by a digest, a client's own included, or still
\* ahead of the cursor, unless a digest was full, a synchronisation overtook another, or
\* a source had no cursor while it waited.
EventsReachReview ==
    \A e \in (DOMAIN events) \ (truncated \cup late \cup uncursored) :
        e \in Digested \/ (CursorOf(cursors) # 0 /\ events[e].at >= CursorOf(cursors))

\* Two digests wait for review, or name the same event, only when the events of the
\* later were chosen before the earlier existed, or a client wrote the later itself.
OneDigestAtATime ==
    \A d, e \in DigestsOf(deltas) :
        /\ d < e
        /\ \/ deltas[d].status = "pending" /\ deltas[e].status = "pending"
           \/ deltas[d].refs \cap deltas[e].refs # {}
        => deltas[e].known < d

=============================================================================
