------------------------- MODULE ContextSync_proofs -------------------------
(***************************************************************************)
(* That no event of GitHub passes unseen, and that an event is named once  *)
(* unless two synchronisations overlapped, for any number of               *)
(* synchronisations, sources, items and requests.                          *)
(***************************************************************************)
EXTENDS ContextSync, SessionMemory_proofs

-----------------------------------------------------------------------------
(* The inductive invariant *)

\* Cursors of finitely many sources, none later than a time.
CursorsUpTo(top, c) ==
    /\ DOMAIN c \subseteq Sources /\ IsFiniteSet(DOMAIN c)
    /\ \A x \in DOMAIN c : c[x] \in 0..top

EventRows == [item : Items, at : Nat]

\* The rows of the sources and the events are well formed.
HistoryFits ==
    /\ clock \in Nat \ {0}
    /\ CursorsUpTo(clock, cursors)
    /\ events \in Seq(EventRows)
    /\ \A e \in DOMAIN events : events[e].at \in 1..clock
    /\ \A d \in DOMAIN deltas : deltas[d].refs \subseteq DOMAIN events
    /\ truncated \cup late \cup uncursored \subseteq DOMAIN events

\* The synchronisations that have a beginning, and those that hold cursors.
Running == {"fetch", "commit", "look"}
Holding == Running \cup {"note"}

\* What a synchronisation holds is of the past: the cursors it loaded are of sources the
\* project still has and no later than its beginning, its beginning no later than the
\* time at which it looked for what is recorded.
HoldsThePast(s) ==
    LET r == syncs[s]
    IN  /\ r.at # "idle" => DOMAIN cursors # {}
        /\ r.at \in Holding =>
            DOMAIN r.cursors # {} /\ DOMAIN r.cursors \subseteq DOMAIN cursors /\ CursorsUpTo(clock, r.cursors)
        /\ r.at \in Running => r.began \in 1..clock /\ CursorsUpTo(r.began, r.cursors)
        /\ r.at = "commit" => r.looked \in r.began..clock /\ r.new \in Seq(Items)
        /\ r.at \in {"look", "create", "advance"} => r.completed \in 1..clock
        /\ r.at = "create" => r.chosen \subseteq DOMAIN events /\ r.known \in 0..Len(deltas)
        /\ r.at \in {"commit", "onboard"} => r.seen \subseteq Items

\* The events in no digest that nothing excuses.
Unseen == (DOMAIN events) \ (truncated \cup late \cup uncursored \cup Digested)

\* An event is not behind a synchronisation: it is ahead of the cursor that the
\* synchronisation would write back or look from, and among what it has chosen; none
\* is left when it is about to advance the cursor.
NotBehind(s, e) ==
    LET r == syncs[s]
    IN  /\ r.at \in Holding /\ CursorOf(r.cursors) # 0 => events[e].at >= CursorOf(r.cursors)
        /\ r.at \in Running /\ CursorOf(r.cursors) = 0 => events[e].at >= r.began
        /\ r.at = "create" => e \in r.chosen
        /\ r.at # "advance"

\* A synchronisation names nothing that a digest of before names, and no digest of
\* before waits for review.
ChoosesFree(s) ==
    syncs[s].at = "create" =>
        \A d \in DigestsOf(deltas) :
            d <= syncs[s].known => deltas[d].status # "pending" /\ deltas[d].refs \cap syncs[s].chosen = {}

SyncInv(s) ==
    /\ HoldsThePast(s)
    /\ \A e \in Unseen : NotBehind(s, e)
    /\ ChoosesFree(s)

SyncsInv == syncs = [s \in Syncs |-> syncs[s]] /\ \A s \in Syncs : SyncInv(s)

EventsInv == HistoryFits /\ SyncsInv /\ EventsReachReview /\ OneDigestAtATime

HistoryInv == SessionInv /\ EventsInv

-----------------------------------------------------------------------------
(* Cursors *)

\* The cursor of a project is none, or the earliest of its sources'.
LEMMA CursorIsLeast ==
    ASSUME NEW top \in Nat, NEW c, CursorsUpTo(top, c), CursorOf(c) # 0
    PROVE  /\ CursorOf(c) \in 0..top
           /\ \A x \in DOMAIN c : CursorOf(c) <= c[x] /\ c[x] # 0
           /\ \E x \in DOMAIN c : CursorOf(c) = c[x]
<1> DEFINE S == {c[x] : x \in DOMAIN c}
<1>1. DOMAIN c # {} /\ (\A x \in DOMAIN c : c[x] # 0) /\ CursorOf(c) = Min(S)
  BY DEF CursorOf
<1>2. S \in SUBSET Nat /\ S # {}
  BY <1>1 DEF CursorsUpTo
<1>3. Min(S) \in S /\ \A n \in S : Min(S) <= n
  BY <1>2, MinIsLeast
<1> QED BY <1>1, <1>3 DEF CursorsUpTo

\* Cursors that were written back leave the project with none, or with one that is no
\* later than theirs.
LEMMA MergedIsEarlier ==
    ASSUME NEW top \in Nat, NEW c, CursorsUpTo(top, cursors), CursorsUpTo(top, c),
           DOMAIN c # {}, DOMAIN c \subseteq DOMAIN cursors
    PROVE  /\ CursorsUpTo(top, MergedWith(c))
           /\ DOMAIN MergedWith(c) = DOMAIN cursors
           /\ CursorOf(MergedWith(c)) # 0 => CursorOf(c) # 0 /\ CursorOf(MergedWith(c)) <= CursorOf(c)
           /\ CursorOf(MergedWith(c)) = 0 /\ CursorOf(c) # 0 => CursorOf(cursors) = 0
<1> DEFINE m == MergedWith(c)
<1>1. DOMAIN m = DOMAIN cursors /\ \A x \in DOMAIN cursors : m[x] = IF x \in DOMAIN c THEN c[x] ELSE cursors[x]
  BY DEF MergedWith
<1>2. CursorsUpTo(top, m)
  BY <1>1 DEF CursorsUpTo
<1>3. DOMAIN cursors # {}
  OBVIOUS
<1> HIDE DEF m
<1>4. ASSUME CursorOf(m) # 0 PROVE CursorOf(c) # 0 /\ CursorOf(m) <= CursorOf(c)
  <2>1. \A x \in DOMAIN m : CursorOf(m) <= m[x] /\ m[x] # 0
    BY <1>2, <1>4, CursorIsLeast
  <2>2. \A x \in DOMAIN c : c[x] # 0
    BY <1>1, <2>1
  <2>3. CursorOf(c) # 0
    <3> DEFINE S == {c[x] : x \in DOMAIN c}
    <3>1. S \in SUBSET Nat /\ S # {} /\ 0 \notin S
      BY <2>2 DEF CursorsUpTo
    <3>2. Min(S) \in S
      BY <3>1, MinIsLeast
    <3>3. CursorOf(c) = Min(S)
      BY <2>2 DEF CursorOf
    <3> QED BY <3>1, <3>2, <3>3
  <2>4. PICK x \in DOMAIN c : CursorOf(c) = c[x]
    BY <2>3, CursorIsLeast
  <2> QED BY <1>1, <2>1, <2>3, <2>4
<1>5. ASSUME CursorOf(m) = 0, CursorOf(c) # 0 PROVE CursorOf(cursors) = 0
  <2>1. \A x \in DOMAIN c : c[x] # 0
    BY <1>5, CursorIsLeast
  <2>2. \E x \in DOMAIN m : m[x] = 0
    <3> SUFFICES ASSUME \A x \in DOMAIN m : m[x] # 0 PROVE FALSE
      OBVIOUS
    <3> DEFINE S == {m[x] : x \in DOMAIN m}
    <3>1. S \in SUBSET Nat /\ S # {} /\ 0 \notin S
      BY <1>1, <1>2, <1>3 DEF CursorsUpTo
    <3>2. Min(S) \in S
      BY <3>1, MinIsLeast
    <3>3. CursorOf(m) = Min(S)
      BY <1>1, <1>3 DEF CursorOf
    <3> QED BY <1>5, <3>1, <3>2, <3>3
  <2>3. \E x \in DOMAIN cursors : cursors[x] = 0
    BY <1>1, <2>1, <2>2
  <2> QED BY <2>3 DEF CursorOf
<1> QED BY <1>1, <1>2, <1>4, <1>5 DEF m

\* A later time takes the same cursors.
LEMMA CursorsAgree ==
    ASSUME NEW low \in Nat, NEW top \in Nat, low <= top, NEW c, CursorsUpTo(low, c)
    PROVE  CursorsUpTo(top, c)
  BY DEF CursorsUpTo

-----------------------------------------------------------------------------
(* The beginning *)

LEMMA HistoryStarts == Init => HistoryInv
<1> SUFFICES ASSUME Init PROVE HistoryInv
  OBVIOUS
<1>1. SessionInv
  BY SessionStarts DEF Init
<1>2. /\ cursors = <<>> \/ \E source \in Sources : cursors = [x \in {source} |-> 1]
      /\ events = <<>> /\ clock = 1
      /\ syncs = [s \in Syncs |-> Waiting]
      /\ truncated = {} /\ late = {} /\ uncursored = {}
  BY DEF Init, SyncInit
<1>3. DOMAIN deltas = {}
  <2>1. deltas = <<>>
    BY DEF Init, SessionInit
  <2> QED BY <2>1
<1>4. events \in Seq(EventRows) /\ DOMAIN events = {}
  BY <1>2
<1>5. CursorsUpTo(1, cursors)
  <2>1. CASE cursors = <<>>
    <3>1. DOMAIN cursors = {}
      BY <2>1
    <3> QED BY <3>1, FS_EmptySet DEF CursorsUpTo
  <2>2. ASSUME NEW source \in Sources, cursors = [x \in {source} |-> 1] PROVE CursorsUpTo(1, cursors)
    <3>1. DOMAIN cursors = {source} /\ cursors[source] = 1
      BY <2>2
    <3> QED BY <3>1, FS_Singleton DEF CursorsUpTo
  <2> QED BY <1>2, <2>1, <2>2
<1>6. \A s \in Syncs : syncs[s].at = "idle"
  BY <1>2 DEF Waiting
<1>7. HistoryFits
  BY <1>2, <1>3, <1>4, <1>5 DEF HistoryFits
<1>8. SyncsInv
  <2>1. syncs = [s \in Syncs |-> syncs[s]]
    BY <1>2
  <2>2. Unseen = {}
    BY <1>4 DEF Unseen
  <2>3. ASSUME NEW s \in Syncs PROVE SyncInv(s)
    BY <1>6, <2>2 DEF SyncInv, HoldsThePast, ChoosesFree, Holding, Running
  <2> QED BY <2>1, <2>3 DEF SyncsInv
<1>9. EventsReachReview
  BY <1>4 DEF EventsReachReview
<1>10. OneDigestAtATime
  BY <1>3 DEF OneDigestAtATime, DigestsOf
<1> QED BY <1>1, <1>7, <1>8, <1>9, <1>10 DEF HistoryInv, EventsInv

-----------------------------------------------------------------------------
(* What no step takes away *)

\* The deltas that there are keep what they name, and do not return to wait.
DeltasGrow ==
    /\ deltas' \in Seq(Deltas) /\ Len(deltas) <= Len(deltas')
    /\ \A d \in DOMAIN deltas :
        /\ deltas'[d].kind = deltas[d].kind /\ deltas'[d].refs = deltas[d].refs
        /\ deltas'[d].known = deltas[d].known
        /\ deltas[d].status # "pending" => deltas'[d].status # "pending"

\* Time, events and deltas only grow, and what excuses an event stays.
Grows ==
    /\ clock' \in Nat /\ clock <= clock'
    /\ events' \in Seq(EventRows) /\ Len(events) <= Len(events')
    /\ \A e \in DOMAIN events : events'[e] = events[e]
    /\ DOMAIN cursors \subseteq DOMAIN cursors'
    /\ truncated \subseteq truncated' /\ late \subseteq late' /\ uncursored \subseteq uncursored'
    /\ DeltasGrow

\* A step creates no digest whose events were chosen earlier.
NoneChosen == \A d \in (DOMAIN deltas') \ DOMAIN deltas : deltas'[d].kind # "digest" \/ deltas'[d].known = 0

LEMMA RowsGrow ==
    ASSUME SessionInv, HistoryFits, Grows
    PROVE  /\ deltas \in Seq(Deltas) /\ events \in Seq(EventRows) /\ clock \in Nat
           /\ DOMAIN deltas = 1..Len(deltas) /\ DOMAIN deltas' = 1..Len(deltas')
           /\ DOMAIN events = 1..Len(events) /\ DOMAIN events' = 1..Len(events')
           /\ Len(deltas) \in Nat /\ Len(deltas') \in Nat /\ Len(events) \in Nat /\ Len(events') \in Nat
           /\ DOMAIN deltas \subseteq DOMAIN deltas' /\ DOMAIN events \subseteq DOMAIN events'
           /\ DigestsOf(deltas) \subseteq DigestsOf(deltas')
<1>1. deltas \in Seq(Deltas) /\ events \in Seq(EventRows) /\ clock \in Nat
  BY DEF SessionInv, RowsFit, SessionTypeOK, HistoryFits
<1>2. deltas' \in Seq(Deltas) /\ Len(deltas) <= Len(deltas')
  BY DEF Grows, DeltasGrow
<1>3. events' \in Seq(EventRows) /\ Len(events) <= Len(events')
  BY DEF Grows
<1>4. DOMAIN deltas = 1..Len(deltas) /\ DOMAIN deltas' = 1..Len(deltas')
      /\ Len(deltas) \in Nat /\ Len(deltas') \in Nat
  BY <1>1, <1>2
<1>5. DOMAIN events = 1..Len(events) /\ DOMAIN events' = 1..Len(events')
      /\ Len(events) \in Nat /\ Len(events') \in Nat
  BY <1>1, <1>3
<1>6. DOMAIN deltas \subseteq DOMAIN deltas' /\ DOMAIN events \subseteq DOMAIN events'
  BY <1>2, <1>3, <1>4, <1>5
<1>7. DigestsOf(deltas) \subseteq DigestsOf(deltas')
  BY <1>6 DEF DigestsOf, Grows, DeltasGrow
<1> QED BY <1>1, <1>4, <1>5, <1>6, <1>7

\* An event that was seen, or excused, stays so.
LEMMA SeenStays ==
    ASSUME SessionInv, HistoryFits, Grows
    PROVE  Unseen' \cap DOMAIN events \subseteq Unseen
<1>1. Digested \subseteq Digested'
  <2>1. DigestsOf(deltas) \subseteq DigestsOf(deltas')
    BY RowsGrow
  <2>2. \A d \in DigestsOf(deltas) : deltas'[d].refs = deltas[d].refs
    BY DEF Grows, DeltasGrow, DigestsOf
  <2> QED BY <2>1, <2>2 DEF Digested
<1> QED BY <1>1 DEF Unseen, Grows

\* A synchronisation that waits while others move.
LEMMA OtherWaits ==
    ASSUME SessionInv, HistoryFits, Grows, NEW o \in Syncs, SyncInv(o), syncs'[o] = syncs[o]
    PROVE  /\ HoldsThePast(o)' /\ ChoosesFree(o)'
           /\ \A e \in Unseen' \cap DOMAIN events : NotBehind(o, e)'
<1> DEFINE r == syncs[o]
<1>1. HoldsThePast(o) /\ ChoosesFree(o) /\ \A e \in Unseen : NotBehind(o, e)
  BY DEF SyncInv
<1>2. /\ DOMAIN deltas = 1..Len(deltas) /\ DOMAIN deltas' = 1..Len(deltas')
      /\ DOMAIN events = 1..Len(events) /\ DOMAIN events' = 1..Len(events')
      /\ Len(deltas) \in Nat /\ Len(deltas') \in Nat /\ Len(events) \in Nat /\ Len(events') \in Nat
      /\ DOMAIN deltas \subseteq DOMAIN deltas' /\ DOMAIN events \subseteq DOMAIN events' /\ clock \in Nat
  BY RowsGrow
<1>3. /\ clock' \in Nat /\ clock <= clock' /\ Len(events) <= Len(events') /\ Len(deltas) <= Len(deltas')
      /\ DOMAIN cursors \subseteq DOMAIN cursors'
      /\ \A e \in DOMAIN events : events'[e] = events[e]
  BY DEF Grows, DeltasGrow
<1>4. HoldsThePast(o)'
  <2>1. ASSUME r.at \in Holding
        PROVE  /\ DOMAIN r.cursors # {} /\ DOMAIN r.cursors \subseteq DOMAIN cursors'
               /\ CursorsUpTo(clock', r.cursors)
    <3>1. DOMAIN r.cursors # {} /\ DOMAIN r.cursors \subseteq DOMAIN cursors /\ CursorsUpTo(clock, r.cursors)
      BY <1>1, <2>1 DEF HoldsThePast
    <3>2. CursorsUpTo(clock', r.cursors)
      BY <1>2, <1>3, <3>1, CursorsAgree
    <3> QED BY <1>3, <3>1, <3>2
  <2>2. ASSUME r.at \in Running PROVE r.began \in 1..clock' /\ CursorsUpTo(r.began, r.cursors)
    <3>1. r.began \in 1..clock /\ CursorsUpTo(r.began, r.cursors)
      BY <1>1, <2>2 DEF HoldsThePast
    <3> QED BY <1>2, <1>3, <3>1
  <2>3. ASSUME r.at = "commit"
        PROVE  r.looked \in r.began..clock' /\ r.new \in Seq(Items)
    <3>1. r.looked \in r.began..clock /\ r.new \in Seq(Items) /\ r.began \in 1..clock
      BY <1>1, <2>3 DEF HoldsThePast, Running
    <3>2. r.looked \in r.began..clock'
      BY <1>2, <1>3, <3>1
    <3> QED BY <3>1, <3>2
  <2>4. ASSUME r.at \in {"look", "create", "advance"} PROVE r.completed \in 1..clock'
    <3>1. r.completed \in 1..clock
      BY <1>1, <2>4 DEF HoldsThePast
    <3> QED BY <1>2, <1>3, <3>1
  <2>5. ASSUME r.at = "create" PROVE r.chosen \subseteq DOMAIN events' /\ r.known \in 0..Len(deltas')
    <3>1. r.chosen \subseteq DOMAIN events /\ r.known \in 0..Len(deltas)
      BY <1>1, <2>5 DEF HoldsThePast
    <3>2. r.known \in 0..Len(deltas')
      BY <1>2, <1>3, <3>1
    <3> QED BY <1>2, <3>1, <3>2
  <2>6. r.at # "idle" => DOMAIN cursors' # {}
    BY <1>1, <1>3 DEF HoldsThePast
  <2>7. ASSUME r.at \in {"commit", "onboard"} PROVE r.seen \subseteq Items
    BY <1>1, <2>7 DEF HoldsThePast
  <2> HIDE DEF r
  <2>8. syncs'[o] = r
    BY DEF r
  <2> QED BY <2>1, <2>2, <2>3, <2>4, <2>5, <2>6, <2>7, <2>8 DEF HoldsThePast
<1>5. ChoosesFree(o)'
  <2> SUFFICES ASSUME r.at = "create", NEW d \in DigestsOf(deltas'), d <= r.known
               PROVE  deltas'[d].status # "pending" /\ deltas'[d].refs \cap r.chosen = {}
    BY DEF ChoosesFree
  <2>1. r.known \in 0..Len(deltas)
    BY <1>1 DEF HoldsThePast
  <2>2. d \in DOMAIN deltas
    BY <1>2, <2>1 DEF DigestsOf
  <2>3. d \in DigestsOf(deltas)
    BY <2>2 DEF DigestsOf, Grows, DeltasGrow
  <2>4. deltas[d].status # "pending" /\ deltas[d].refs \cap r.chosen = {}
    BY <1>1, <2>3 DEF ChoosesFree
  <2> QED BY <2>2, <2>4 DEF Grows, DeltasGrow
<1>6. ASSUME NEW e \in Unseen' \cap DOMAIN events PROVE NotBehind(o, e)'
  <2>1. e \in Unseen /\ events'[e] = events[e]
    BY <1>3, SeenStays
  <2>2. NotBehind(o, e)
    BY <1>1, <2>1
  <2> QED BY <2>1, <2>2 DEF NotBehind
<1> QED BY <1>4, <1>5, <1>6

\* Where every new digest was chosen by nobody the digests stay apart.
LEMMA DigestsStayApart ==
    ASSUME OneDigestAtATime, deltas \in Seq(Deltas), DeltasGrow, NoneChosen
    PROVE  OneDigestAtATime'
<1> SUFFICES ASSUME NEW d \in DigestsOf(deltas'), NEW e \in DigestsOf(deltas'), d < e,
                    \/ deltas'[d].status = "pending" /\ deltas'[e].status = "pending"
                    \/ deltas'[d].refs \cap deltas'[e].refs # {}
             PROVE  deltas'[e].known < d
  BY DEF OneDigestAtATime
<1>1. /\ DOMAIN deltas = 1..Len(deltas) /\ DOMAIN deltas' = 1..Len(deltas') /\ Len(deltas) \in Nat /\ Len(deltas') \in Nat
      /\ d \in DOMAIN deltas' /\ e \in DOMAIN deltas'
      /\ deltas'[d].kind = "digest" /\ deltas'[e].kind = "digest"
  BY DEF DigestsOf, DeltasGrow
<1>2. CASE e \in DOMAIN deltas
  <2>1. d \in DOMAIN deltas
    BY <1>1, <1>2
  <2>2. d \in DigestsOf(deltas) /\ e \in DigestsOf(deltas)
    BY <1>1, <1>2, <2>1 DEF DeltasGrow, DigestsOf
  <2>3. \/ deltas[d].status = "pending" /\ deltas[e].status = "pending"
        \/ deltas[d].refs \cap deltas[e].refs # {}
    BY <1>2, <2>1 DEF DeltasGrow
  <2>4. deltas[e].known < d
    BY <2>2, <2>3 DEF OneDigestAtATime
  <2> QED BY <1>2, <2>4 DEF DeltasGrow
<1>3. CASE e \notin DOMAIN deltas
  <2>1. deltas'[e].known = 0
    BY <1>1, <1>3 DEF NoneChosen
  <2> QED BY <1>1, <2>1
<1> QED BY <1>2, <1>3

\* As long as the cursor and the events are as they were, the unseen events are ahead.
LEMMA ReachStays ==
    ASSUME SessionInv, HistoryFits, Grows, EventsReachReview, UNCHANGED <<events, cursors>>
    PROVE  EventsReachReview'
<1>1. Unseen' \subseteq Unseen
  BY SeenStays DEF Unseen
<1>2. ASSUME NEW e \in Unseen PROVE CursorOf(cursors) # 0 /\ events[e].at >= CursorOf(cursors)
  BY DEF EventsReachReview, Unseen
<1> QED BY <1>1, <1>2 DEF EventsReachReview, Unseen

-----------------------------------------------------------------------------
(* Steps of one synchronisation that commit no event and no delta *)

LEMMA AtRest ==
    ASSUME NEW s, syncs'[s].at = "idle"
    PROVE  SyncInv(s)'
  BY DEF SyncInv, HoldsThePast, NotBehind, ChoosesFree, Holding, Running

Quiet ==
    /\ UNCHANGED <<deltas, events, clock, late>>
    /\ CursorsUpTo(clock, cursors') /\ DOMAIN cursors \subseteq DOMAIN cursors'
    /\ truncated \subseteq truncated' /\ truncated' \subseteq DOMAIN events
    /\ uncursored \subseteq uncursored' /\ uncursored' \subseteq DOMAIN events

LEMMA QuietGrows ==
    ASSUME HistoryInv, Quiet
    PROVE  Grows /\ HistoryFits' /\ NoneChosen /\ Unseen' \subseteq Unseen
<1>1. SessionInv /\ HistoryFits /\ deltas \in Seq(Deltas)
  BY DEF HistoryInv, EventsInv, SessionInv, RowsFit, SessionTypeOK
<1>2. Len(deltas) \in Nat /\ Len(events) \in Nat /\ clock \in Nat
  BY <1>1 DEF HistoryFits
<1>3. DeltasGrow
  BY <1>1, <1>2 DEF DeltasGrow, Quiet
<1>4. Grows
  BY <1>1, <1>2, <1>3 DEF Grows, Quiet, HistoryFits
<1>5. HistoryFits'
  BY <1>1 DEF HistoryFits, Quiet
<1>6. NoneChosen
  BY DEF NoneChosen, Quiet
<1>7. Unseen' \subseteq Unseen
  BY <1>1, <1>4, SeenStays DEF Quiet, Unseen
<1> QED BY <1>4, <1>5, <1>6, <1>7

LEMMA QuietMoves ==
    ASSUME HistoryInv, Quiet, EventsReachReview',
           syncs' = [o \in Syncs |-> syncs'[o]],
           \A o \in Syncs : syncs'[o] = syncs[o] \/ SyncInv(o)'
    PROVE  EventsInv'
<1>1. /\ SessionInv /\ HistoryFits /\ OneDigestAtATime /\ deltas \in Seq(Deltas)
      /\ \A o \in Syncs : SyncInv(o)
  BY DEF HistoryInv, EventsInv, SyncsInv, SessionInv, RowsFit, SessionTypeOK
<1>2. Grows /\ HistoryFits' /\ NoneChosen /\ Unseen' \subseteq Unseen
  BY QuietGrows
<1>3. Unseen' \subseteq DOMAIN events
  BY DEF Unseen, Quiet
<1>4. ASSUME NEW o \in Syncs PROVE SyncInv(o)'
  <2>1. CASE syncs'[o] = syncs[o]
    <3>1. /\ HoldsThePast(o)' /\ ChoosesFree(o)'
          /\ \A e \in Unseen' \cap DOMAIN events : NotBehind(o, e)'
      BY <1>1, <1>2, <2>1, OtherWaits
    <3> QED BY <1>3, <3>1 DEF SyncInv
  <2> QED BY <2>1
<1>5. OneDigestAtATime'
  BY <1>1, <1>2, DigestsStayApart DEF Grows
<1> QED BY <1>2, <1>4, <1>5 DEF EventsInv, SyncsInv

LEMMA Moved ==
    ASSUME HistoryInv, NEW s \in Syncs, NEW v, syncs' = [syncs EXCEPT ![s] = v]
    PROVE  /\ syncs' = [o \in Syncs |-> syncs'[o]]
           /\ syncs'[s] = v
           /\ \A o \in Syncs : o # s => syncs'[o] = syncs[o]
  BY DEF HistoryInv, EventsInv, SyncsInv

\* Every event waits outside the digests while there is no cursor.
LEMMA NoCursorExcuses ==
    ASSUME HistoryInv, UNCHANGED deltas, CursorOf(cursors') = 0, uncursored' = Uncursored(cursors', events')
    PROVE  Unseen' = {}
  BY DEF Unseen, Uncursored, Digested

LEMMA UncursoredFits ==
    ASSUME HistoryInv, NEW c
    PROVE  uncursored \subseteq Uncursored(c, events) /\ Uncursored(c, events) \subseteq DOMAIN events
  BY DEF Uncursored, HistoryInv, EventsInv, HistoryFits

\* What is nowhere behind is ahead of the cursor.
LEMMA NoneUnseen ==
    ASSUME Unseen' = {}
    PROVE  EventsReachReview'
  BY DEF EventsReachReview, Unseen

LEMMA AddSourceKeeps ==
    ASSUME HistoryInv, NEW source \in Sources, AddSource(source), UNCHANGED sessionVars
    PROVE  EventsInv'
<1>1. UNCHANGED <<deltas, events, clock, syncs, truncated, late>>
  BY DEF AddSource, sessionVars, memory
<1>2. CursorsUpTo(clock, cursors) /\ clock \in Nat /\ truncated \subseteq DOMAIN events
  BY DEF HistoryInv, EventsInv, HistoryFits
<1>3. DOMAIN cursors' = DOMAIN cursors \cup {source} /\ cursors'[source] = 0
      /\ \A x \in DOMAIN cursors : cursors'[x] = IF x = source THEN 0 ELSE cursors[x]
  BY DEF AddSource
<1>4. IsFiniteSet(DOMAIN cursors')
  BY <1>2, <1>3, FS_AddElement DEF CursorsUpTo
<1>5. CursorsUpTo(clock, cursors')
  BY <1>2, <1>3, <1>4 DEF CursorsUpTo
<1>6. CursorOf(cursors') = 0 /\ uncursored' = Uncursored(cursors', events')
  BY <1>1, <1>3 DEF CursorOf, AddSource
<1>7. Quiet
  BY <1>1, <1>2, <1>3, <1>5, <1>6, UncursoredFits DEF Quiet
<1>8. EventsReachReview'
  BY <1>1, <1>6, NoCursorExcuses, NoneUnseen
<1>9. syncs' = [o \in Syncs |-> syncs'[o]]
  BY <1>1 DEF HistoryInv, EventsInv, SyncsInv
<1> QED BY <1>1, <1>7, <1>8, <1>9, QuietMoves

\* A step of one synchronisation that leaves the cursors.
LEMMA CursorsLeft ==
    ASSUME HistoryInv, UNCHANGED <<deltas, cursors, events, clock, late, uncursored>>,
           truncated \subseteq truncated', truncated' \subseteq DOMAIN events
    PROVE  Quiet /\ EventsReachReview'
<1>1. Quiet
  BY DEF Quiet, HistoryInv, EventsInv, HistoryFits
<1>2. EventsReachReview'
  BY <1>1, QuietGrows, ReachStays DEF HistoryInv, EventsInv
<1> QED BY <1>1, <1>2

LEMMA RestKeeps ==
    ASSUME HistoryInv, NEW s \in Syncs, AbandonSync(s) \/ PendingIsEnough(s), UNCHANGED sessionVars
    PROVE  EventsInv'
<1>1. /\ UNCHANGED <<deltas, cursors, events, clock, truncated, late, uncursored>>
      /\ syncs' = [syncs EXCEPT ![s] = Waiting]
  BY DEF AbandonSync, PendingIsEnough, sessionVars, memory
<1>2. Quiet /\ EventsReachReview'
  BY <1>1, CursorsLeft DEF HistoryInv, EventsInv, HistoryFits
<1>3. SyncInv(s)'
  <2>1. syncs'[s].at = "idle"
    BY <1>1, Moved DEF Waiting
  <2> QED BY <2>1, AtRest
<1> QED BY <1>1, <1>2, <1>3, Moved, QuietMoves

\* The cursors of the project are, for a synchronisation that loads them, its own.
LEMMA LoadingKeeps ==
    ASSUME HistoryInv, NEW s \in Syncs, DOMAIN cursors # {}, UNCHANGED sessionVars,
           UNCHANGED <<cursors, events, clock, truncated, late, uncursored>>,
           NEW v, syncs' = [syncs EXCEPT ![s] = v], v.cursors = cursors,
           v.at = "note" \/ (v.at = "fetch" /\ v.began = clock)
    PROVE  EventsInv'
<1>1. UNCHANGED <<deltas, cursors, events, clock, truncated, late, uncursored>>
  BY DEF sessionVars, memory
<1>2. Quiet /\ EventsReachReview'
  BY <1>1, CursorsLeft DEF HistoryInv, EventsInv, HistoryFits
<1>3. syncs'[s] = v
  BY Moved
<1>4. CursorsUpTo(clock, cursors) /\ clock \in Nat \ {0}
  BY DEF HistoryInv, EventsInv, HistoryFits
<1>5. HoldsThePast(s)'
  BY <1>1, <1>3, <1>4 DEF HoldsThePast, Holding, Running
<1>6. ChoosesFree(s)'
  BY <1>3 DEF ChoosesFree
<1>7. ASSUME NEW e \in Unseen' PROVE NotBehind(s, e)'
  <2>1. CursorOf(cursors) # 0 /\ events'[e].at >= CursorOf(cursors)
    BY <1>1, <1>2 DEF EventsReachReview, Unseen
  <2> QED BY <1>3, <2>1 DEF NotBehind
<1>8. SyncInv(s)'
  BY <1>5, <1>6, <1>7 DEF SyncInv
<1> QED BY <1>2, <1>8, Moved, QuietMoves

LEMMA StartKeeps ==
    ASSUME HistoryInv, NEW s \in Syncs, NEW mode, StartSync(s, mode), UNCHANGED sessionVars
    PROVE  EventsInv'
<1>1. \E v : /\ v = [at |-> "fetch", mode |-> mode, cursors |-> cursors, began |-> clock]
             /\ syncs' = [syncs EXCEPT ![s] = v]
  BY DEF StartSync
<1>2. DOMAIN cursors # {} /\ UNCHANGED <<cursors, events, clock, truncated, late, uncursored>>
  BY DEF StartSync
<1>3. PICK v : /\ v.at = "fetch" /\ v.cursors = cursors /\ v.began = clock
               /\ syncs' = [syncs EXCEPT ![s] = v]
  BY <1>1
<1> QED BY <1>2, <1>3, LoadingKeeps

LEMMA FailureKeeps ==
    ASSUME HistoryInv, NEW s \in Syncs, FailSync(s), UNCHANGED sessionVars
    PROVE  EventsInv'
<1>1. \E v : v = [at |-> "note", cursors |-> cursors] /\ syncs' = [syncs EXCEPT ![s] = v]
  BY DEF FailSync
<1>2. DOMAIN cursors # {}
  BY DEF FailSync, HistoryInv, EventsInv, SyncsInv, SyncInv, HoldsThePast
<1>3. UNCHANGED <<cursors, events, clock, truncated, late, uncursored>>
  BY DEF FailSync
<1>4. PICK v : v.at = "note" /\ v.cursors = cursors /\ syncs' = [syncs EXCEPT ![s] = v]
  BY <1>1
<1>5. v.at = "note" \/ (v.at = "fetch" /\ v.began = clock)
  BY <1>4
<1>6. v.cursors = cursors /\ syncs' = [syncs EXCEPT ![s] = v]
  BY <1>4
<1> HIDE <1>4
<1> QED BY <1>2, <1>3, <1>5, <1>6, LoadingKeeps

LEMMA NoteKeeps ==
    ASSUME HistoryInv, NEW s \in Syncs, NoteFailure(s), UNCHANGED sessionVars
    PROVE  EventsInv'
<1> DEFINE c == syncs[s].cursors
<1>1. /\ UNCHANGED <<deltas, events, clock, truncated, late>>
      /\ cursors' = MergedWith(c) /\ uncursored' = Uncursored(cursors', events)
      /\ syncs' = [syncs EXCEPT ![s] = Waiting] /\ syncs[s].at = "note"
  BY DEF NoteFailure, sessionVars, memory
<1>2. /\ DOMAIN c # {} /\ DOMAIN c \subseteq DOMAIN cursors /\ CursorsUpTo(clock, c)
      /\ CursorsUpTo(clock, cursors) /\ clock \in Nat /\ truncated \subseteq DOMAIN events
  BY <1>1 DEF HistoryInv, EventsInv, HistoryFits, SyncsInv, SyncInv, HoldsThePast, Holding
<1>3. \A e \in Unseen : CursorOf(c) # 0 => events[e].at >= CursorOf(c)
  BY <1>1 DEF HistoryInv, EventsInv, SyncsInv, SyncInv, NotBehind, Holding
<1> HIDE DEF c
<1>4. /\ CursorsUpTo(clock, cursors') /\ DOMAIN cursors' = DOMAIN cursors
      /\ CursorOf(cursors') # 0 => CursorOf(c) # 0 /\ CursorOf(cursors') <= CursorOf(c)
  BY <1>1, <1>2, MergedIsEarlier
<1>5. Quiet
  BY <1>1, <1>2, <1>4, UncursoredFits DEF Quiet
<1>6. EventsReachReview'
  <2>1. CASE CursorOf(cursors') = 0
    BY <1>1, <2>1, NoCursorExcuses, NoneUnseen
  <2>2. CASE CursorOf(cursors') # 0
    <3>1. CursorOf(c) \in Nat /\ CursorOf(cursors') \in Nat
      BY <1>2, <1>4, <2>2, CursorIsLeast
    <3>2. Unseen' \subseteq Unseen
      BY <1>5, QuietGrows
    <3>3. ASSUME NEW e \in Unseen' PROVE events'[e].at >= CursorOf(cursors')
      <4>1. e \in Unseen /\ events'[e] = events[e]
        BY <1>1, <3>2
      <4>2. events[e].at \in Nat
        BY <4>1 DEF Unseen, HistoryInv, EventsInv, HistoryFits
      <4> QED BY <1>3, <1>4, <2>2, <3>1, <4>1, <4>2
    <3> QED BY <2>2, <3>3 DEF EventsReachReview, Unseen
  <2> QED BY <2>1, <2>2
<1>7. SyncInv(s)'
  <2>1. syncs'[s].at = "idle"
    BY <1>1, Moved DEF Waiting
  <2> QED BY <2>1, AtRest
<1> QED BY <1>1, <1>5, <1>6, <1>7, Moved, QuietMoves

LEMMA AdvanceKeeps ==
    ASSUME HistoryInv, NEW s \in Syncs, AdvanceCursor(s), UNCHANGED sessionVars
    PROVE  EventsInv'
<1>1. /\ UNCHANGED <<deltas, events, clock, truncated, late, uncursored>>
      /\ cursors' = [x \in DOMAIN cursors |-> syncs[s].completed]
      /\ syncs' = [syncs EXCEPT ![s] = Waiting] /\ syncs[s].at = "advance"
  BY DEF AdvanceCursor, sessionVars, memory
<1>2. syncs[s].completed \in 1..clock
  BY <1>1 DEF HistoryInv, EventsInv, SyncsInv, SyncInv, HoldsThePast
<1>3. CursorsUpTo(clock, cursors) /\ clock \in Nat /\ truncated \subseteq DOMAIN events /\ uncursored \subseteq DOMAIN events
  BY DEF HistoryInv, EventsInv, HistoryFits
<1>4. CursorsUpTo(clock, cursors')
  BY <1>1, <1>2, <1>3 DEF CursorsUpTo
<1>5. Quiet
  BY <1>1, <1>3, <1>4 DEF Quiet
<1>6. Unseen = {}
  BY <1>1 DEF HistoryInv, EventsInv, SyncsInv, SyncInv, NotBehind
<1>7. EventsReachReview'
  BY <1>5, <1>6, QuietGrows, NoneUnseen
<1>8. SyncInv(s)'
  <2>1. syncs'[s].at = "idle"
    BY <1>1, Moved DEF Waiting
  <2> QED BY <2>1, AtRest
<1> QED BY <1>1, <1>5, <1>7, <1>8, Moved, QuietMoves

\* A digest is chosen from everything unseen: what is left out is noted.
LEMMA EverythingIsEligible ==
    ASSUME HistoryInv, NEW s \in Syncs, syncs[s].at = "look"
    PROVE  Unseen \subseteq Eligible(syncs[s])
<1> DEFINE r == syncs[s]
           c == r.cursors
<1>1. /\ DOMAIN c # {} /\ DOMAIN c \subseteq DOMAIN cursors /\ CursorsUpTo(clock, c) /\ r.began \in 1..clock
      /\ CursorsUpTo(clock, cursors) /\ clock \in Nat
  BY DEF HistoryInv, EventsInv, HistoryFits, SyncsInv, SyncInv, HoldsThePast, Holding, Running
<1>2. /\ CursorOf(MergedWith(c)) # 0 => CursorOf(c) # 0 /\ CursorOf(MergedWith(c)) <= CursorOf(c)
      /\ CursorOf(MergedWith(c)) = 0 /\ CursorOf(c) # 0 => CursorOf(cursors) = 0
      /\ CursorsUpTo(clock, MergedWith(c))
  BY <1>1, MergedIsEarlier
<1>3. ASSUME NEW e \in Unseen PROVE events[e].at >= Since(r)
  <2>1. e \in DOMAIN events /\ events[e].at \in Nat
    BY DEF Unseen, HistoryInv, EventsInv, HistoryFits
  <2>2. /\ CursorOf(c) # 0 => events[e].at >= CursorOf(c)
        /\ CursorOf(c) = 0 => events[e].at >= r.began
    BY DEF HistoryInv, EventsInv, SyncsInv, SyncInv, NotBehind, Holding, Running
  <2>3. CASE CursorOf(MergedWith(c)) # 0
    <3>1. CursorOf(MergedWith(c)) \in Nat /\ CursorOf(c) \in Nat
      BY <1>1, <1>2, <2>3, CursorIsLeast
    <3>2. events[e].at >= CursorOf(MergedWith(c))
      BY <1>2, <2>1, <2>2, <2>3, <3>1
    <3> QED BY <2>3, <3>2 DEF Since
  <2>4. CASE CursorOf(MergedWith(c)) = 0
    <3>1. CursorOf(cursors) # 0
      BY DEF HistoryInv, EventsInv, EventsReachReview, Unseen
    <3>2. CursorOf(c) = 0
      BY <1>2, <2>4, <3>1
    <3> QED BY <2>2, <2>4, <3>2 DEF Since
  <2> QED BY <2>3, <2>4
<1> QED BY <1>3 DEF Eligible, Unseen

LEMMA ChoiceKeeps ==
    ASSUME HistoryInv, NEW s \in Syncs, Choose(s), UNCHANGED sessionVars
    PROVE  EventsInv'
<1>1. /\ syncs[s].at = "look" /\ ~IsPending("digest")
      /\ UNCHANGED <<deltas, cursors, events, clock, late, uncursored>>
  BY DEF Choose, sessionVars, memory
<1> DEFINE all == Eligible(syncs[s])
<1>2. \E chosen \in SUBSET all :
        /\ truncated' = truncated \cup (all \ chosen)
        /\ syncs' = [syncs EXCEPT ![s] =
                IF chosen = {} THEN [at |-> "advance", completed |-> syncs[s].completed]
                ELSE [at |-> "create", completed |-> syncs[s].completed, chosen |-> chosen, known |-> Len(deltas)]]
  BY DEF Choose
<1>3. PICK chosen \in SUBSET all :
        /\ truncated' = truncated \cup (all \ chosen)
        /\ syncs' = [syncs EXCEPT ![s] =
                IF chosen = {} THEN [at |-> "advance", completed |-> syncs[s].completed]
                ELSE [at |-> "create", completed |-> syncs[s].completed, chosen |-> chosen, known |-> Len(deltas)]]
  BY <1>2
<1>4. all \subseteq (DOMAIN events) \ Digested /\ Unseen \subseteq all
  BY <1>1, EverythingIsEligible DEF Eligible
<1> HIDE DEF all
<1>5. /\ deltas \in Seq(Deltas) /\ truncated \subseteq DOMAIN events
      /\ DOMAIN cursors # {} /\ syncs[s].completed \in 1..clock
  BY <1>1 DEF HistoryInv, EventsInv, HistoryFits, SyncsInv, SyncInv, HoldsThePast, SessionInv, RowsFit, SessionTypeOK
<1>6. Quiet /\ EventsReachReview'
  BY <1>1, <1>3, <1>4, <1>5, CursorsLeft
<1>7. Unseen' \subseteq chosen
  <2>1. Unseen' \subseteq Unseen
    BY <1>6, QuietGrows
  <2>2. Unseen' \cap truncated' = {}
    BY DEF Unseen
  <2> QED BY <1>3, <1>4, <2>1, <2>2
<1>8. SyncInv(s)'
  <2>1. CASE chosen = {}
    <3> DEFINE v == [at |-> "advance", completed |-> syncs[s].completed]
    <3>1. syncs' = [syncs EXCEPT ![s] = v]
      BY <1>3, <2>1
    <3> HIDE DEF v
    <3>2. syncs'[s].at = "advance" /\ syncs'[s].completed = syncs[s].completed
      <4>1. syncs'[s] = v
        BY <3>1, Moved
      <4> QED BY <4>1 DEF v
    <3>3. HoldsThePast(s)' /\ ChoosesFree(s)'
      BY <1>1, <1>5, <3>2 DEF HoldsThePast, ChoosesFree, Holding, Running
    <3>4. Unseen' = {}
      BY <1>7, <2>1
    <3> QED BY <3>3, <3>4 DEF SyncInv
  <2>2. CASE chosen # {}
    <3> DEFINE v == [at |-> "create", completed |-> syncs[s].completed, chosen |-> chosen, known |-> Len(deltas)]
    <3>1. syncs' = [syncs EXCEPT ![s] = v]
      BY <1>3, <2>2
    <3> HIDE DEF v
    <3>2. /\ syncs'[s].at = "create" /\ syncs'[s].completed = syncs[s].completed
          /\ syncs'[s].chosen = chosen /\ syncs'[s].known = Len(deltas)
      <4>1. syncs'[s] = v
        BY <3>1, Moved
      <4> QED BY <4>1 DEF v
    <3>3. Len(deltas) \in 0..Len(deltas)
      BY <1>5
    <3>4. HoldsThePast(s)'
      BY <1>1, <1>4, <1>5, <3>2, <3>3 DEF HoldsThePast, Holding, Running
    <3>6. ASSUME NEW d \in DigestsOf(deltas)
          PROVE  deltas[d].status # "pending" /\ deltas[d].refs \cap chosen = {}
      <4>1. deltas[d].status # "pending"
        BY <1>1 DEF IsPending, DigestsOf
      <4>2. deltas[d].refs \subseteq Digested
        BY DEF Digested
      <4> QED BY <1>4, <4>1, <4>2
    <3>7. ChoosesFree(s)'
      BY <1>1, <3>2, <3>6 DEF ChoosesFree
    <3>8. ASSUME NEW e \in Unseen' PROVE NotBehind(s, e)'
      BY <1>7, <3>2 DEF NotBehind, Holding, Running
    <3> QED BY <3>4, <3>7, <3>8 DEF SyncInv
  <2> QED BY <2>1, <2>2
<1> QED BY <1>3, <1>6, <1>8, Moved, QuietMoves

-----------------------------------------------------------------------------
(* Looking for what is recorded, and recording *)

\* What is to be inserted is a sequence of items.
LEMMA InsertsAreItems ==
    ASSUME NEW r, IsFiniteSet(DOMAIN r.cursors), NEW seen \in SUBSET Items
    PROVE  Inserts(r, seen) \in Seq(Items)
<1> DEFINE S == {p \in (DOMAIN r.cursors) \X seen : p[2] \in Offers[p[1]] /\ ~Recorded(p[2])}
           found == SetToSeq(S)
<1>1. IsFiniteSet(seen)
  BY ItemsAssumption, FS_Subset
<1>2. IsFiniteSet((DOMAIN r.cursors) \X seen)
  BY <1>1, FS_Product
<1>3. IsFiniteSet(S)
  BY <1>2, FS_Subset
<1>4. \A p \in S : p[2] \in Items
  OBVIOUS
<1>5. Inserts(r, seen) = [n \in DOMAIN found |-> found[n][2]]
  BY DEF Inserts
<1> HIDE DEF S
<1>6. Cardinality(S) \in Nat /\ found \in [1..Cardinality(S) -> S]
  BY <1>3, SetToSeqLists
<1> HIDE DEF found
<1>7. DOMAIN found = 1..Cardinality(S) /\ \A n \in 1..Cardinality(S) : found[n] \in S
  BY <1>6
<1>8. Inserts(r, seen) \in [1..Cardinality(S) -> Items]
  BY <1>4, <1>5, <1>7
<1> QED BY <1>6, <1>8

LEMMA FetchKeeps ==
    ASSUME HistoryInv, NEW s \in Syncs, NEW seen \in SUBSET Items, Fetch(s, seen), UNCHANGED sessionVars
    PROVE  EventsInv'
<1>1. /\ syncs[s].at = "fetch"
      /\ UNCHANGED <<deltas, cursors, events, clock, truncated, late, uncursored>>
  BY DEF Fetch, sessionVars, memory
<1> DEFINE v == [at |-> "commit", mode |-> syncs[s].mode, cursors |-> syncs[s].cursors,
                 began |-> syncs[s].began,
                 seen |-> IF syncs[s].mode = "onboarding" THEN seen ELSE {},
                 new |-> Inserts(syncs[s], seen), looked |-> clock]
<1>2. syncs' = [syncs EXCEPT ![s] = v]
  BY DEF Fetch
<1> HIDE DEF v
<1>3. /\ syncs'[s].at = "commit" /\ syncs'[s].cursors = syncs[s].cursors /\ syncs'[s].began = syncs[s].began
      /\ syncs'[s].new = Inserts(syncs[s], seen) /\ syncs'[s].looked = clock
      /\ syncs'[s].seen \subseteq Items
  <2>1. syncs'[s] = v
    BY <1>2, Moved
  <2> QED BY <2>1 DEF v
<1>4. /\ DOMAIN cursors # {} /\ DOMAIN syncs[s].cursors # {} /\ DOMAIN syncs[s].cursors \subseteq DOMAIN cursors
      /\ CursorsUpTo(clock, syncs[s].cursors) /\ syncs[s].began \in 1..clock
      /\ CursorsUpTo(syncs[s].began, syncs[s].cursors)
      /\ clock \in Nat /\ events \in Seq(EventRows) /\ truncated \subseteq DOMAIN events
  BY <1>1 DEF HistoryInv, EventsInv, HistoryFits, SyncsInv, SyncInv, HoldsThePast, Holding, Running
<1>5. Quiet /\ EventsReachReview'
  BY <1>1, <1>4, CursorsLeft
<1>6. Inserts(syncs[s], seen) \in Seq(Items)
  <2>1. IsFiniteSet(DOMAIN syncs[s].cursors)
    BY <1>4 DEF CursorsUpTo
  <2> QED BY <2>1, InsertsAreItems
<1>7. HoldsThePast(s)'
  <2>1. clock \in syncs[s].began..clock
    BY <1>4
  <2> QED BY <1>1, <1>3, <1>4, <1>6, <2>1 DEF HoldsThePast, Holding, Running
<1>8. ChoosesFree(s)'
  BY <1>3 DEF ChoosesFree
<1>9. ASSUME NEW e \in Unseen' PROVE NotBehind(s, e)'
  <2>1. e \in Unseen
    BY <1>5, QuietGrows
  <2>2. NotBehind(s, e)
    BY <2>1 DEF HistoryInv, EventsInv, SyncsInv, SyncInv
  <2> QED BY <1>1, <1>3, <2>2 DEF NotBehind, Holding, Running
<1>10. SyncInv(s)'
  BY <1>7, <1>8, <1>9 DEF SyncInv
<1> QED BY <1>2, <1>5, <1>10, Moved, QuietMoves

\* What a commit adds.
LEMMA Committed ==
    ASSUME HistoryInv, NEW s \in Syncs, NEW at, CommitEvents(s, at)
    PROVE  /\ at \in 1..clock /\ at >= syncs[s].began /\ syncs[s].began \in 1..clock
           /\ events' \in Seq(EventRows) /\ Len(events) \in Nat /\ Len(events') \in Nat /\ Len(events) <= Len(events')
           /\ \A e \in DOMAIN events : events'[e] = events[e]
           /\ \A e \in DOMAIN events' : e \notin DOMAIN events =>
                e > Len(events) /\ events'[e].at = at
<1> DEFINE r == syncs[s]
           row(n) == [item |-> r.new[n], at |-> at]
           fresh == [n \in DOMAIN r.new |-> row(n)]
<1>1. r.at = "commit" /\ at \in r.looked..clock /\ events' = events \o fresh
  BY DEF CommitEvents
<1>2. /\ r.looked \in r.began..clock /\ r.began \in 1..clock /\ r.new \in Seq(Items)
      /\ events \in Seq(EventRows) /\ clock \in Nat
  BY <1>1 DEF HistoryInv, EventsInv, HistoryFits, SyncsInv, SyncInv, HoldsThePast, Running
<1> HIDE DEF r
<1>3. at \in 1..clock /\ at >= r.began
  BY <1>1, <1>2
<1>4. Len(events) \in Nat /\ Len(r.new) \in Nat /\ DOMAIN r.new = 1..Len(r.new) /\ at \in Nat
  BY <1>2, <1>3
<1>5. \A n \in 1..Len(r.new) : row(n) \in EventRows
  BY <1>2, <1>4 DEF EventRows
<1>6. fresh \in [1..Len(r.new) -> EventRows] /\ \A n \in 1..Len(r.new) : fresh[n] = row(n)
  BY <1>4, <1>5
<1>7. \A n \in 1..Len(r.new) : row(n).at = at
  OBVIOUS
<1> HIDE DEF fresh, row
<1>8. fresh \in Seq(EventRows) /\ Len(fresh) = Len(r.new)
  BY <1>4, <1>6
<1>9. /\ events' \in Seq(EventRows) /\ Len(events') = Len(events) + Len(fresh)
      /\ \A e \in DOMAIN events : events'[e] = events[e]
      /\ \A e \in DOMAIN events' : e \notin DOMAIN events =>
            e > Len(events) /\ e - Len(events) \in 1..Len(fresh) /\ events'[e] = fresh[e - Len(events)]
  <2>1. ASSUME NEW S, NEW t \in Seq(S), NEW u \in Seq(S)
        PROVE  /\ t \o u \in Seq(S) /\ Len(t \o u) = Len(t) + Len(u)
               /\ \A e \in DOMAIN t : (t \o u)[e] = t[e]
               /\ \A e \in DOMAIN (t \o u) : e \notin DOMAIN t =>
                    e > Len(t) /\ e - Len(t) \in 1..Len(u) /\ (t \o u)[e] = u[e - Len(t)]
    OBVIOUS
  <2>2. /\ events \o fresh \in Seq(EventRows) /\ Len(events \o fresh) = Len(events) + Len(fresh)
        /\ \A e \in DOMAIN events : (events \o fresh)[e] = events[e]
        /\ \A e \in DOMAIN (events \o fresh) : e \notin DOMAIN events =>
              e > Len(events) /\ e - Len(events) \in 1..Len(fresh) /\ (events \o fresh)[e] = fresh[e - Len(events)]
    <3>1. events \in Seq(EventRows) /\ fresh \in Seq(EventRows)
      BY <1>2, <1>8
    <3> QED BY <2>1, <3>1, Zenon
  <2> QED BY <1>1, <2>2, Zenon
<1>10. ASSUME NEW e \in DOMAIN events', e \notin DOMAIN events
       PROVE  events'[e].at = at
  BY <1>4, <1>6, <1>7, <1>8, <1>9, <1>10
<1>11. Len(events') \in Nat /\ Len(events) <= Len(events')
  BY <1>4, <1>8, <1>9
<1> QED BY <1>2, <1>3, <1>4, <1>9, <1>10, <1>11 DEF r

LEMMA CommitKeeps ==
    ASSUME HistoryInv, NEW s \in Syncs, NEW at, CommitEvents(s, at), UNCHANGED sessionVars
    PROVE  EventsInv'
<1> DEFINE c == syncs[s].cursors
           added == (DOMAIN events') \ DOMAIN events
<1>1. /\ UNCHANGED <<deltas, truncated>> /\ clock' = clock + 1 /\ syncs[s].at = "commit"
      /\ cursors' = MergedWith(c) /\ uncursored' = Uncursored(cursors', events')
      /\ late' = IF \E o \in Syncs \ {s} : Overlooks(o, at) THEN late \cup added ELSE late
  BY DEF CommitEvents, sessionVars, memory
<1>2. /\ DOMAIN c # {} /\ DOMAIN c \subseteq DOMAIN cursors /\ CursorsUpTo(clock, c)
      /\ CursorsUpTo(syncs[s].began, c)
      /\ CursorsUpTo(clock, cursors) /\ clock \in Nat \ {0} /\ DOMAIN cursors # {}
      /\ deltas \in Seq(Deltas) /\ events \in Seq(EventRows)
      /\ (\A e \in DOMAIN events : events[e].at \in 1..clock)
      /\ (\A d \in DOMAIN deltas : deltas[d].refs \subseteq DOMAIN events)
      /\ truncated \cup late \cup uncursored \subseteq DOMAIN events
      /\ SessionInv /\ HistoryFits
  BY <1>1 DEF HistoryInv, EventsInv, HistoryFits, SyncsInv, SyncInv, HoldsThePast, Holding, Running,
              SessionInv, RowsFit, SessionTypeOK
<1>3. /\ at \in 1..clock /\ at >= syncs[s].began /\ syncs[s].began \in 1..clock
      /\ events' \in Seq(EventRows) /\ Len(events) \in Nat /\ Len(events') \in Nat /\ Len(events) <= Len(events')
      /\ \A e \in DOMAIN events : events'[e] = events[e]
      /\ \A e \in added : e > Len(events) /\ events'[e].at = at
  BY Committed
<1>4. DOMAIN events \subseteq DOMAIN events'
  BY <1>2, <1>3
<1>5. /\ CursorsUpTo(clock, cursors') /\ DOMAIN cursors' = DOMAIN cursors
      /\ CursorOf(cursors') # 0 => CursorOf(c) # 0 /\ CursorOf(cursors') <= CursorOf(c)
  BY <1>1, <1>2, MergedIsEarlier
<1>6. CursorsUpTo(clock', cursors')
  BY <1>1, <1>2, <1>5, CursorsAgree
<1> HIDE DEF c
<1>7. Grows
  <2>1. DeltasGrow
    BY <1>1, <1>2 DEF DeltasGrow
  <2>2. clock' \in Nat /\ clock <= clock'
    BY <1>1, <1>2
  <2>3. late \subseteq late' /\ uncursored \subseteq uncursored'
    BY <1>1 DEF Uncursored
  <2> QED BY <1>1, <1>3, <1>5, <2>1, <2>2, <2>3 DEF Grows
<1>8. HistoryFits'
  <2>1. \A e \in DOMAIN events' : events'[e].at \in 1..clock'
    <3>1. \A e \in DOMAIN events' : events'[e].at \in 1..clock
      BY <1>2, <1>3
    <3> QED BY <1>1, <1>2, <3>1
  <2>2. clock' \in Nat \ {0}
    BY <1>1, <1>2
  <2>3. late' \subseteq DOMAIN events' /\ uncursored' \subseteq DOMAIN events' /\ truncated' \subseteq DOMAIN events'
    BY <1>1, <1>2, <1>4 DEF Uncursored
  <2>4. \A d \in DOMAIN deltas' : deltas'[d].refs \subseteq DOMAIN events'
    BY <1>1, <1>2, <1>4
  <2> QED BY <1>3, <1>6, <2>1, <2>2, <2>3, <2>4 DEF HistoryFits
<1>9. Unseen' \subseteq Unseen \cup added
  BY <1>2, <1>7, SeenStays DEF Unseen
<1>10. \A e \in Unseen : CursorOf(c) # 0 => events[e].at >= CursorOf(c)
  BY <1>1 DEF HistoryInv, EventsInv, SyncsInv, SyncInv, NotBehind, Holding, Running, c
<1>11. \A e \in Unseen : CursorOf(c) = 0 => events[e].at >= syncs[s].began
  BY <1>1 DEF HistoryInv, EventsInv, SyncsInv, SyncInv, NotBehind, Running, c
<1>12. CursorOf(c) # 0 => CursorOf(c) \in 0..syncs[s].began
  BY <1>2, <1>3, CursorIsLeast
<1>13. ASSUME NEW e \in Unseen'
       PROVE  /\ events'[e].at \in Nat
              /\ CursorOf(c) # 0 => events'[e].at >= CursorOf(c)
              /\ CursorOf(c) = 0 => events'[e].at >= syncs[s].began
  <2>1. CASE e \in added
    <3>1. events'[e].at = at
      BY <1>3, <2>1
    <3> QED BY <1>2, <1>3, <1>12, <3>1
  <2>2. CASE e \notin added
    <3>1. e \in Unseen /\ e \in DOMAIN events
      BY <1>9, <2>2 DEF Unseen
    <3> QED BY <1>2, <1>3, <1>10, <1>11, <3>1
  <2> QED BY <2>1, <2>2
<1>14. EventsReachReview'
  <2>1. CASE CursorOf(cursors') = 0
    BY <1>1, <2>1, NoCursorExcuses, NoneUnseen
  <2>2. CASE CursorOf(cursors') # 0
    <3>1. CursorOf(c) \in Nat /\ CursorOf(cursors') \in Nat
      BY <1>2, <1>5, <2>2, CursorIsLeast
    <3>2. ASSUME NEW e \in Unseen' PROVE events'[e].at >= CursorOf(cursors')
      BY <1>5, <1>13, <2>2, <3>1
    <3> QED BY <2>2, <3>2 DEF EventsReachReview, Unseen
  <2> QED BY <2>1, <2>2
<1>15. OneDigestAtATime'
  BY <1>1, <1>2, <1>7, DigestsStayApart DEF Grows, NoneChosen, HistoryInv, EventsInv
<1>16. ASSUME NEW o \in Syncs \ {s}, syncs'[o] = syncs[o] PROVE SyncInv(o)'
  <2>1. /\ HoldsThePast(o)' /\ ChoosesFree(o)'
        /\ \A e \in Unseen' \cap DOMAIN events : NotBehind(o, e)'
    BY <1>2, <1>7, <1>16, OtherWaits DEF HistoryInv, EventsInv, SyncsInv
  <2>2. ASSUME NEW e \in Unseen', e \in added PROVE NotBehind(o, e)'
    <3>1. ~Overlooks(o, at) /\ events'[e].at = at
      BY <1>1, <1>3, <2>2 DEF Unseen
    <3>2. syncs[o].at \notin {"create", "advance"}
      BY <3>1 DEF Overlooks
    <3>3. ASSUME syncs[o].at \in Holding, CursorOf(syncs[o].cursors) # 0 PROVE at >= CursorOf(syncs[o].cursors)
      <4>1. ~(CursorOf(syncs[o].cursors) > at)
        BY <3>1, <3>3 DEF Overlooks, Holding, Running
      <4>2. CursorsUpTo(clock, syncs[o].cursors)
        BY <3>3 DEF HistoryInv, EventsInv, SyncsInv, SyncInv, HoldsThePast
      <4>3. CursorOf(syncs[o].cursors) \in Nat
        BY <1>2, <3>3, <4>2, CursorIsLeast
      <4> QED BY <1>3, <4>1, <4>3
    <3>4. ASSUME syncs[o].at \in Running, CursorOf(syncs[o].cursors) = 0 PROVE at >= syncs[o].began
      <4>1. ~(syncs[o].began > at)
        BY <3>1, <3>4 DEF Overlooks, Running
      <4>2. syncs[o].began \in 1..clock
        BY <3>4 DEF HistoryInv, EventsInv, SyncsInv, SyncInv, HoldsThePast
      <4> QED BY <1>3, <4>1, <4>2
    <3> QED BY <1>16, <3>1, <3>2, <3>3, <3>4 DEF NotBehind
  <2>3. \A e \in Unseen' : NotBehind(o, e)'
    BY <2>1, <2>2 DEF Unseen
  <2> QED BY <2>1, <2>3 DEF SyncInv
<1> DEFINE v == IF syncs[s].mode = "onboarding" THEN [at |-> "onboard", seen |-> syncs[s].seen]
                ELSE [at |-> "look", cursors |-> c, began |-> syncs[s].began, completed |-> clock']
<1>17. syncs' = [syncs EXCEPT ![s] = v]
  BY DEF CommitEvents, c
<1>18. \/ v.at = "onboard" /\ v.seen = syncs[s].seen
       \/ v.at = "look" /\ v.cursors = c /\ v.began = syncs[s].began /\ v.completed = clock'
  OBVIOUS
<1> HIDE DEF v
<1>19. syncs' = [o \in Syncs |-> syncs'[o]] /\ syncs'[s] = v /\ \A o \in Syncs : o # s => syncs'[o] = syncs[o]
  <2>1. syncs = [o \in Syncs |-> syncs[o]]
    BY DEF HistoryInv, EventsInv, SyncsInv
  <2> QED BY <1>17, <2>1
<1>20. SyncInv(s)'
  <2>1. CASE v.at = "onboard" /\ v.seen = syncs[s].seen
    <3>1. syncs[s].seen \subseteq Items
      BY <1>1 DEF HistoryInv, EventsInv, SyncsInv, SyncInv, HoldsThePast
    <3> QED BY <1>2, <1>5, <1>19, <2>1, <3>1
            DEF SyncInv, HoldsThePast, NotBehind, ChoosesFree, Holding, Running
  <2>2. CASE v.at = "look" /\ v.cursors = c /\ v.began = syncs[s].began /\ v.completed = clock'
    <3>1. clock' \in 1..clock' /\ syncs[s].began \in 1..clock'
      BY <1>1, <1>2, <1>3
    <3>2. CursorsUpTo(clock', c)
      BY <1>1, <1>2, CursorsAgree
    <3>3. HoldsThePast(s)'
      BY <1>2, <1>5, <1>19, <2>2, <3>1, <3>2 DEF HoldsThePast, Holding, Running
    <3>4. ChoosesFree(s)'
      BY <1>19, <2>2 DEF ChoosesFree
    <3>5. ASSUME NEW e \in Unseen' PROVE NotBehind(s, e)'
      BY <1>13, <1>19, <2>2 DEF NotBehind
    <3> QED BY <3>3, <3>4, <3>5 DEF SyncInv
  <2> QED BY <1>18, <2>1, <2>2
<1>21. SyncsInv'
  BY <1>16, <1>19, <1>20 DEF SyncsInv
<1> QED BY <1>8, <1>14, <1>15, <1>21 DEF EventsInv

-----------------------------------------------------------------------------
(* Deltas: those a synchronisation prepares, and what the requests do *)

\* A step that leaves sources and events alone, and the chosen events of every
\* synchronisation that goes on.
LEMMA DeltaStepKeeps ==
    ASSUME HistoryInv, DeltasGrow, UNCHANGED <<cursors, events, clock, started, truncated, late, uncursored>>,
           \A d \in DOMAIN deltas' : deltas'[d].refs \subseteq DOMAIN events,
           syncs' = [o \in Syncs |-> syncs'[o]],
           \A o \in Syncs : syncs'[o] = syncs[o] \/ SyncInv(o)',
           OneDigestAtATime'
    PROVE  EventsInv'
<1>1. SessionInv /\ HistoryFits /\ EventsReachReview /\ (\A o \in Syncs : SyncInv(o))
      /\ clock \in Nat /\ events \in Seq(EventRows)
  BY DEF HistoryInv, EventsInv, SyncsInv, HistoryFits
<1>2. Grows
  <2>1. clock <= clock' /\ Len(events) <= Len(events')
    BY <1>1
  <2> QED BY <1>1, <2>1 DEF Grows
<1>3. HistoryFits'
  BY <1>1 DEF HistoryFits
<1>4. EventsReachReview'
  BY <1>1, <1>2, ReachStays
<1>5. Unseen' \subseteq DOMAIN events
  BY DEF Unseen
<1>6. ASSUME NEW o \in Syncs PROVE SyncInv(o)'
  <2>1. CASE syncs'[o] = syncs[o]
    <3>1. /\ HoldsThePast(o)' /\ ChoosesFree(o)'
          /\ \A e \in Unseen' \cap DOMAIN events : NotBehind(o, e)'
      BY <1>1, <1>2, <2>1, OtherWaits
    <3> QED BY <1>5, <3>1 DEF SyncInv
  <2> QED BY <2>1
<1> QED BY <1>3, <1>4, <1>6 DEF EventsInv, SyncsInv

LEMMA SessionKeepsEvents ==
    ASSUME HistoryInv, SessionNext, NamesEvents, UNCHANGED syncVars
    PROVE  EventsInv'
<1>1. UNCHANGED <<cursors, events, clock, syncs, started, truncated, late, uncursored>>
  BY DEF syncVars
<1>2. SessionInv /\ RowsFit /\ SettlesKnown /\ OneDigestAtATime /\ syncs = [o \in Syncs |-> syncs[o]]
      /\ deltas \in Seq(Deltas)
  BY DEF HistoryInv, EventsInv, SessionInv, SyncsInv, RowsFit, SessionTypeOK
<1>3. DeltasKept
  BY <1>2, DeltasStay
<1>4. DeltasGrow
  BY <1>3 DEF DeltasKept, DeltasGrow
<1>5. NoneChosen
  BY <1>3 DEF DeltasKept, NoneChosen
<1>6. \A d \in DOMAIN deltas' : deltas'[d].refs \subseteq DOMAIN events
  BY DEF NamesEvents
<1>7. OneDigestAtATime'
  BY <1>2, <1>4, <1>5, DigestsStayApart
<1>8. syncs' = [o \in Syncs |-> syncs'[o]] /\ \A o \in Syncs : syncs'[o] = syncs[o]
  BY <1>1, <1>2
<1> QED BY <1>1, <1>4, <1>6, <1>7, <1>8, DeltaStepKeeps

\* Preparing a delta runs beside the requests.
LEMMA PreparedIsBeside ==
    ASSUME HistoryInv, NEW new \in Deltas, OneMore(new),
           UNCHANGED <<tasks, nextAction, summaries, reviews, requests, edits, raced>>
    PROVE  Beside
<1>1. edits \in 0..MaxEdits /\ requests = [q \in Requests |-> requests[q]]
  BY DEF HistoryInv, SessionInv, RowsFit, SessionTypeOK
<1> QED BY <1>1 DEF Beside

LEMMA OneMoreGrows ==
    ASSUME HistoryInv, NEW new \in Deltas, OneMore(new)
    PROVE  DeltasGrow
<1>1. RowsFit /\ deltas \in Seq(Deltas)
  BY DEF HistoryInv, SessionInv, RowsFit, SessionTypeOK
<1>2. /\ deltas' \in Seq(Deltas) /\ Len(deltas') = Len(deltas) + 1
      /\ \A d \in DOMAIN deltas : deltas'[d] = deltas[d]
  BY <1>1, OneMoreFits
<1>3. Len(deltas) \in Nat
  BY <1>1
<1> QED BY <1>2, <1>3 DEF DeltasGrow

\* The delta of a digest, and that of an onboarding.
NewDigest(r) ==
    Delta("generated", [kind |-> "digest", closes |-> {}, titles |-> TaskSuggestions(r.chosen), acts |-> FALSE],
          r.chosen, r.known)

NewOnboarding(r) ==
    LET titles == OnboardingTasks(r.seen)
    IN  Delta("generated", [kind |-> "onboarding", closes |-> {}, titles |-> titles, acts |-> titles # {}], {}, 0)

LEMMA NewDigestFits ==
    ASSUME HistoryInv, NEW s \in Syncs, syncs[s].at = "create"
    PROVE  /\ NewDigest(syncs[s]) \in Deltas /\ ~NewDigest(syncs[s]).acts
           /\ NewDigest(syncs[s]).kind = "digest" /\ NewDigest(syncs[s]).status = "pending"
           /\ NewDigest(syncs[s]).refs = syncs[s].chosen /\ NewDigest(syncs[s]).known = syncs[s].known
<1> DEFINE r == syncs[s]
           p == [kind |-> "digest", closes |-> {}, titles |-> TaskSuggestions(r.chosen), acts |-> FALSE]
<1>1. /\ r.chosen \subseteq DOMAIN events /\ r.known \in 0..Len(deltas) /\ events \in Seq(EventRows)
      /\ deltas \in Seq(Deltas)
  BY DEF HistoryInv, EventsInv, HistoryFits, SyncsInv, SyncInv, HoldsThePast, SessionInv, RowsFit, SessionTypeOK
<1>2. r.chosen \in SUBSET Nat /\ r.known \in Nat
  BY <1>1
<1>3. TaskSuggestions(r.chosen) \subseteq Titles
  <2>1. ASSUME NEW e \in r.chosen PROVE events[e].item \in Items
    <3>1. events[e] \in EventRows
      BY <1>1
    <3> QED BY <3>1 DEF EventRows
  <2> QED BY <2>1, TitlesAssumption DEF TaskSuggestions
<1>4. /\ p.kind = "digest" /\ p.closes \subseteq Nat /\ p.titles \subseteq Titles /\ p.acts = FALSE
      /\ p.kind \in {"session", "digest", "onboarding"} /\ p.acts \in BOOLEAN
  BY <1>3
<1> HIDE DEF p, r
<1>5. /\ Delta("generated", p, r.chosen, r.known) \in Deltas
      /\ Delta("generated", p, r.chosen, r.known).status = "pending"
      /\ Delta("generated", p, r.chosen, r.known).kind = p.kind
      /\ Delta("generated", p, r.chosen, r.known).acts = p.acts
      /\ Delta("generated", p, r.chosen, r.known).refs = r.chosen
      /\ Delta("generated", p, r.chosen, r.known).known = r.known
  BY <1>2, <1>4, DeltaFits
<1>6. NewDigest(syncs[s]) = Delta("generated", p, r.chosen, r.known) /\ r = syncs[s]
  BY DEF NewDigest, p, r
<1> QED BY <1>4, <1>5, <1>6

LEMMA NewOnboardingFits ==
    ASSUME HistoryInv, NEW s \in Syncs, syncs[s].at = "onboard"
    PROVE  /\ NewOnboarding(syncs[s]) \in Deltas
           /\ NewOnboarding(syncs[s]).kind = "onboarding" /\ NewOnboarding(syncs[s]).refs = {}
<1> DEFINE titles == OnboardingTasks(syncs[s].seen)
           p == [kind |-> "onboarding", closes |-> {}, titles |-> titles, acts |-> titles # {}]
<1>1. syncs[s].seen \subseteq Items
  BY DEF HistoryInv, EventsInv, SyncsInv, SyncInv, HoldsThePast
<1>2. titles \subseteq Titles
  BY <1>1, TitlesAssumption DEF OnboardingTasks
<1>3. p.kind = "onboarding" /\ p.kind \in {"session", "digest", "onboarding"} /\ p.closes \subseteq Nat /\ p.titles \subseteq Titles /\ p.acts \in BOOLEAN
  BY <1>2
<1> HIDE DEF p
<1>4. /\ Delta("generated", p, {}, 0) \in Deltas
      /\ Delta("generated", p, {}, 0).kind = p.kind
      /\ Delta("generated", p, {}, 0).refs = {}
  <2>1. {} \in SUBSET Nat /\ 0 \in Nat
    OBVIOUS
  <2> QED BY <1>3, <2>1, DeltaFits
<1>5. NewOnboarding(syncs[s]) = Delta("generated", p, {}, 0)
  BY DEF NewOnboarding, p
<1> QED BY <1>3, <1>4, <1>5

LEMMA DigestKeeps ==
    ASSUME HistoryInv, NEW s \in Syncs, CreateDigest(s)
    PROVE  Beside /\ EventsInv'
<1> DEFINE r == syncs[s]
           new == NewDigest(r)
           v == [at |-> "advance", completed |-> r.completed]
<1>1. /\ r.at = "create" /\ OneMore(new) /\ syncs' = [syncs EXCEPT ![s] = v]
      /\ UNCHANGED <<tasks, nextAction, summaries, reviews, requests, edits, raced>>
      /\ UNCHANGED <<cursors, events, clock, started, truncated, late, uncursored>>
  BY DEF CreateDigest, OneMore, NewDigest
<1>2. /\ new \in Deltas /\ ~new.acts /\ new.kind = "digest" /\ new.status = "pending"
      /\ new.refs = r.chosen /\ new.known = r.known
  BY <1>1, NewDigestFits
<1>3. v.at = "advance" /\ v.completed = r.completed
  OBVIOUS
<1> HIDE DEF new, v
<1>4. Beside
  BY <1>1, <1>2, PreparedIsBeside
<1>5. DeltasGrow
  BY <1>1, <1>2, OneMoreGrows
<1>6. /\ RowsFit /\ OneDigestAtATime /\ deltas \in Seq(Deltas) /\ DOMAIN cursors # {}
      /\ (\A d \in DOMAIN deltas : deltas[d].refs \subseteq DOMAIN events)
      /\ r.chosen \subseteq DOMAIN events /\ r.known \in 0..Len(deltas) /\ r.completed \in 1..clock
      /\ HoldsThePast(s) /\ ChoosesFree(s) /\ \A e \in Unseen : NotBehind(s, e)
  BY <1>1 DEF HistoryInv, EventsInv, HistoryFits, SyncsInv, SyncInv, HoldsThePast, SessionInv, RowsFit, SessionTypeOK
<1>7. /\ Len(deltas') = Len(deltas) + 1 /\ deltas' \in Seq(Deltas)
      /\ \A d \in DOMAIN deltas : deltas'[d] = deltas[d]
      /\ \A d \in DOMAIN deltas' : d \notin DOMAIN deltas => d = Len(deltas) + 1 /\ deltas'[d] = new
  BY <1>1, <1>2, <1>6, OneMoreFits
<1>8. \A d \in DOMAIN deltas' : deltas'[d].refs \subseteq DOMAIN events
  BY <1>2, <1>6, <1>7
<1>9. OneDigestAtATime'
  <2> SUFFICES ASSUME NEW d \in DigestsOf(deltas'), NEW e \in DigestsOf(deltas'), d < e,
                      \/ deltas'[d].status = "pending" /\ deltas'[e].status = "pending"
                      \/ deltas'[d].refs \cap deltas'[e].refs # {}
               PROVE  deltas'[e].known < d
    BY DEF OneDigestAtATime
  <2>1. d \in DOMAIN deltas' /\ e \in DOMAIN deltas' /\ DOMAIN deltas = 1..Len(deltas)
        /\ DOMAIN deltas' = 1..(Len(deltas) + 1) /\ Len(deltas) \in Nat
    BY <1>6, <1>7 DEF DigestsOf
  <2>2. d \in DOMAIN deltas /\ deltas'[d] = deltas[d] /\ d \in DigestsOf(deltas)
    <3>1. d \in DOMAIN deltas
      BY <2>1
    <3> QED BY <1>7, <3>1 DEF DigestsOf
  <2>3. CASE e \in DOMAIN deltas
    <3>1. e \in DigestsOf(deltas) /\ deltas'[e] = deltas[e]
      BY <1>7, <2>3 DEF DigestsOf
    <3> QED BY <1>6, <2>2, <3>1 DEF OneDigestAtATime
  <2>4. CASE e \notin DOMAIN deltas
    <3>1. deltas'[e].refs = r.chosen /\ deltas'[e].known = r.known
      BY <1>2, <1>7, <2>1, <2>4
    <3>2. \/ deltas[d].status = "pending"
          \/ deltas[d].refs \cap r.chosen # {}
      BY <2>2, <3>1
    <3>3. ~(d <= r.known)
      BY <1>1, <1>6, <2>2, <3>2 DEF ChoosesFree
    <3> QED BY <1>6, <2>1, <3>1, <3>3
  <2> QED BY <2>3, <2>4
<1>10. syncs' = [o \in Syncs |-> syncs'[o]] /\ syncs'[s] = v /\ \A o \in Syncs : o # s => syncs'[o] = syncs[o]
  BY <1>1, Moved
<1>11. Unseen' = {}
  <2>1. r.chosen \subseteq Digested'
    <3>1. Len(deltas) + 1 \in DOMAIN deltas' /\ Len(deltas) + 1 \notin DOMAIN deltas
      BY <1>6, <1>7
    <3>2. deltas'[Len(deltas) + 1] = new
      BY <1>7, <3>1
    <3>3. Len(deltas) + 1 \in DigestsOf(deltas')
      BY <1>2, <3>1, <3>2 DEF DigestsOf
    <3> QED BY <1>2, <3>2, <3>3 DEF Digested
  <2>2. SessionInv /\ HistoryFits /\ Grows
    <3>1. clock <= clock' /\ Len(events) <= Len(events') /\ clock \in Nat /\ events \in Seq(EventRows)
      BY <1>1 DEF HistoryInv, EventsInv, HistoryFits
    <3> QED BY <1>1, <1>5, <3>1 DEF HistoryInv, EventsInv, Grows
  <2>3. Unseen' \subseteq Unseen
    BY <1>1, <2>2, SeenStays DEF Unseen
  <2>4. Unseen \subseteq r.chosen
    BY <1>1, <1>6 DEF NotBehind
  <2> QED BY <2>1, <2>3, <2>4 DEF Unseen
<1>12. SyncInv(s)'
  <2>1. HoldsThePast(s)' /\ ChoosesFree(s)'
    BY <1>1, <1>3, <1>6, <1>10 DEF HoldsThePast, ChoosesFree, Holding, Running
  <2> QED BY <1>11, <2>1 DEF SyncInv
<1>13. EventsInv'
  BY <1>1, <1>5, <1>8, <1>9, <1>10, <1>12, DeltaStepKeeps
<1> QED BY <1>4, <1>13

LEMMA OnboardingKeeps ==
    ASSUME HistoryInv, NEW s \in Syncs, CreateOnboarding(s)
    PROVE  Beside /\ EventsInv'
<1> DEFINE new == NewOnboarding(syncs[s])
<1>1. /\ syncs[s].at = "onboard" /\ OneMore(new) /\ syncs' = [syncs EXCEPT ![s] = Waiting]
      /\ UNCHANGED <<tasks, nextAction, summaries, reviews, requests, edits, raced>>
      /\ UNCHANGED <<cursors, events, clock, started, truncated, late, uncursored>>
  BY DEF CreateOnboarding, OneMore, NewOnboarding
<1>2. new \in Deltas /\ new.kind = "onboarding" /\ new.refs = {}
  BY <1>1, NewOnboardingFits
<1> HIDE DEF new
<1>3. Beside
  BY <1>1, <1>2, PreparedIsBeside
<1>4. DeltasGrow
  BY <1>1, <1>2, OneMoreGrows
<1>5. /\ RowsFit /\ OneDigestAtATime /\ deltas \in Seq(Deltas)
      /\ (\A d \in DOMAIN deltas : deltas[d].refs \subseteq DOMAIN events)
  BY DEF HistoryInv, EventsInv, HistoryFits, SessionInv, RowsFit, SessionTypeOK
<1>6. /\ DOMAIN deltas \subseteq DOMAIN deltas'
      /\ \A d \in DOMAIN deltas : deltas'[d] = deltas[d]
      /\ \A d \in DOMAIN deltas' : d \notin DOMAIN deltas => deltas'[d] = new
  BY <1>1, <1>2, <1>5, OneMoreFits
<1>7. \A d \in DOMAIN deltas' : deltas'[d].refs \subseteq DOMAIN events
  BY <1>2, <1>5, <1>6
<1>8. NoneChosen
  BY <1>2, <1>6 DEF NoneChosen
<1>9. OneDigestAtATime'
  BY <1>4, <1>5, <1>8, DigestsStayApart
<1>10. syncs' = [o \in Syncs |-> syncs'[o]] /\ syncs'[s] = Waiting /\ \A o \in Syncs : o # s => syncs'[o] = syncs[o]
  BY <1>1, Moved
<1>11. SyncInv(s)'
  <2>1. syncs'[s].at = "idle"
    BY <1>10 DEF Waiting
  <2> QED BY <2>1, AtRest
<1>12. EventsInv'
  BY <1>1, <1>4, <1>7, <1>9, <1>10, <1>11, DeltaStepKeeps
<1> QED BY <1>3, <1>12

-----------------------------------------------------------------------------
(* The invariant *)

LEMMA SynchronisingKeeps ==
    ASSUME HistoryInv, Synchronise, UNCHANGED sessionVars
    PROVE  EventsInv'
<1>1. CASE \E source \in Sources : AddSource(source)
  BY <1>1, AddSourceKeeps
<1>2. ASSUME NEW s \in Syncs, AbandonSync(s) \/ PendingIsEnough(s) PROVE EventsInv'
  BY <1>2, RestKeeps
<1>3. ASSUME NEW s \in Syncs, FailSync(s) \/ NoteFailure(s) PROVE EventsInv'
  BY <1>3, FailureKeeps, NoteKeeps
<1>4. ASSUME NEW s \in Syncs, Choose(s) \/ AdvanceCursor(s) PROVE EventsInv'
  BY <1>4, ChoiceKeeps, AdvanceKeeps
<1>5. ASSUME NEW s \in Syncs, NEW mode \in {"digest", "onboarding"}, StartSync(s, mode) PROVE EventsInv'
  BY <1>5, StartKeeps
<1>6. ASSUME NEW s \in Syncs, NEW seen \in SUBSET Items, Fetch(s, seen) PROVE EventsInv'
  BY <1>6, FetchKeeps
<1>7. ASSUME NEW s \in Syncs, NEW at \in 1..clock, CommitEvents(s, at) PROVE EventsInv'
  BY <1>7, CommitKeeps
<1> QED BY <1>1, <1>2, <1>3, <1>4, <1>5, <1>6, <1>7 DEF Synchronise

LEMMA StutterKeeps ==
    ASSUME HistoryInv, UNCHANGED vars
    PROVE  HistoryInv'
<1>1. UNCHANGED sessionVars /\ UNCHANGED syncVars
  BY DEF vars
<1>2. UNCHANGED <<deltas, cursors, events, clock, syncs, truncated, late, uncursored>>
  BY <1>1 DEF sessionVars, memory, syncVars
<1>3. SessionInv'
  BY <1>1, StutterIsBeside, BesideStep DEF HistoryInv
<1>4. Quiet /\ EventsReachReview'
  BY <1>2, CursorsLeft DEF HistoryInv, EventsInv, HistoryFits
<1>5. syncs' = [o \in Syncs |-> syncs'[o]] /\ \A o \in Syncs : syncs'[o] = syncs[o]
  BY <1>2 DEF HistoryInv, EventsInv, SyncsInv
<1> QED BY <1>3, <1>4, <1>5, QuietMoves DEF HistoryInv

LEMMA HistoryStep == HistoryInv /\ [Next]_vars => HistoryInv'
<1> SUFFICES ASSUME HistoryInv, [Next]_vars PROVE HistoryInv'
  OBVIOUS
<1>1. CASE Synchronise /\ UNCHANGED sessionVars
  <2>1. SessionInv'
    BY <1>1, StutterIsBeside, BesideStep DEF HistoryInv
  <2> QED BY <1>1, <2>1, SynchronisingKeeps DEF HistoryInv
<1>2. ASSUME NEW s \in Syncs, CreateDigest(s) \/ CreateOnboarding(s) PROVE HistoryInv'
  <2>1. Beside /\ EventsInv'
    BY <1>2, DigestKeeps, OnboardingKeeps
  <2> QED BY <2>1, BesideStep DEF HistoryInv
<1>3. CASE SessionNext /\ NamesEvents /\ UNCHANGED syncVars
  BY <1>3, SessionStep, SessionKeepsEvents DEF HistoryInv
<1>4. CASE UNCHANGED vars
  BY <1>4, StutterKeeps
<1> QED BY <1>1, <1>2, <1>3, <1>4 DEF Next, Prepare

\* The inductive invariant of the history of GitHub next to the requests.
THEOREM HistoryInvHolds == Spec => []HistoryInv
  BY HistoryStarts, HistoryStep, PTL DEF Spec

-----------------------------------------------------------------------------
(* What follows *)

\* The rows of deltas, tasks, sources and events are well formed; no digest names an
\* event that there is not.
THEOREM TypesHold == Spec => []TypeOK
<1>1. HistoryInv => TypeOK
  <2> SUFFICES ASSUME HistoryInv PROVE TypeOK
    OBVIOUS
  <2>1. SessionTypeOK /\ HistoryFits
    BY DEF HistoryInv, EventsInv, SessionInv, RowsFit
  <2>2. ASSUME NEW e \in DOMAIN events PROVE events[e].item \in Items
    <3>1. events[e] \in EventRows
      BY <2>1 DEF HistoryFits
    <3> QED BY <3>1 DEF EventRows
  <2> QED BY <2>1, <2>2 DEF TypeOK, HistoryFits, CursorsUpTo
<1> QED BY <1>1, HistoryInvHolds, PTL

\* No event of GitHub passes unseen by app/github_sync.py and app/github_digest.py: one
\* that no digest names is ahead of the cursor, unless a digest was full, a synchronisation
\* overtook another, or a source had no cursor while it waited.
THEOREM EventsReachTheirReview == Spec => []EventsReachReview
<1>1. HistoryInv => EventsReachReview
  BY DEF HistoryInv, EventsInv
<1> QED BY <1>1, HistoryInvHolds, PTL

\* app/github_digest.py lets two digests wait, or name one event, only when the events
\* of the later were chosen before the earlier existed, or a client wrote the later.
THEOREM DigestsWaitAlone == Spec => []OneDigestAtATime
<1>1. HistoryInv => OneDigestAtATime
  BY DEF HistoryInv, EventsInv
<1> QED BY <1>1, HistoryInvHolds, PTL

=============================================================================
