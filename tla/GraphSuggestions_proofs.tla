----------------------- MODULE GraphSuggestions_proofs -----------------------
(***************************************************************************)
(* Proofs about GraphSuggestions, for any number of requests, projects,    *)
(* entities and batches: what the graph holds was reviewed, what           *)
(* SessionMemory promises of deltas, reviews and the next action, and that *)
(* the loop that finds the scope of the graph ends with the connection of  *)
(* each project.                                                           *)
(***************************************************************************)
EXTENDS GraphSuggestions, SessionMemory_proofs

-----------------------------------------------------------------------------
(* The inductive invariant *)

\* Relations that any step writes or suggests: a project has documents as documents.
FitRelations == {r \in Relations : r.type = "has_document" => r.entity \in Documents}

BatchRows == [status : Statuses \cup {"superseded"}, suggests : SUBSET FitRelations,
              selected : SUBSET FitRelations]

GraphFits ==
    /\ entities \subseteq Entities
    /\ DOMAIN relations \subseteq FitRelations
    /\ owned \subseteq Relations
    /\ \A r \in DOMAIN relations : relations[r] \in BOOLEAN /\ r.entity \in entities
    /\ batches \in Seq(BatchRows)

\* What an application brings to the graph that is there: of all that was selected from
\* its batch the entities, and the relations but for those of documents.
Brings(v, known, present, held) ==
    /\ v.batch \in DOMAIN held
    /\ v.selected \subseteq held[v.batch].suggests
    /\ v.chosen \subseteq v.selected
    /\ v.entities \subseteq Entities
    /\ \A s \in v.selected :
        /\ s.entity \in known \cup v.entities
        /\ s.subject \notin Documents => s \in v.chosen \cup present

\* What a request has found is fit to be written.
FindsFit ==
    \A q \in Requests :
        /\ requests[q].at = "prepare" => requests[q].found \subseteq FitRelations
        /\ requests[q].at = "graph_apply" => Brings(requests[q], entities, DOMAIN relations, batches)
        /\ requests[q].at = "graph_discard" => requests[q].batch \in DOMAIN batches

Reviewed(held) == UNION {held[b].selected \cap held[b].suggests : b \in DOMAIN held}

\* Every relation has its origin, and all of what was selected and applied is there.
OriginsKnown ==
    /\ DOMAIN relations \subseteq owned \cup Reviewed(batches)
    /\ \A s \in Reviewed(batches) : s.entity \in entities /\ (s.subject \notin Documents => s \in DOMAIN relations)

GraphInv == SessionInv /\ GraphFits /\ FindsFit /\ OriginsKnown

LEMMA RelationFits ==
    ASSUME NEW subject \in Projects \cup Documents, NEW type \in Types, NEW entity \in Entities,
           type = "has_document" => entity \in Documents
    PROVE  /\ Relation(subject, type, entity) \in FitRelations
           /\ Relation(subject, type, entity).entity = entity
  BY DEF Relation, Relations, FitRelations

LEMMA GraphStarts == Init => GraphInv
<1> SUFFICES ASSUME Init PROVE GraphInv
  OBVIOUS
<1>1. SessionInv
  BY SessionStarts DEF Init
<1>2. PICK known \in SUBSET Names : entities = Documents \cup known
  BY DEF Init
<1>3. /\ owned = {Relation(p, "has_document", d) : p \in Projects, d \in Documents}
      /\ relations = [r \in owned |-> TRUE]
      /\ batches = <<>>
  BY DEF Init
<1>4. \A r \in owned : r \in FitRelations /\ r.entity \in Documents
  <2> SUFFICES ASSUME NEW p \in Projects, NEW d \in Documents
               PROVE  /\ Relation(p, "has_document", d) \in FitRelations
                      /\ Relation(p, "has_document", d).entity \in Documents
    BY <1>3
  <2>1. "has_document" \in Types /\ d \in Entities
    BY DEF Types, Entities
  <2> QED BY <2>1, RelationFits
<1>5. (\A S : <<>> \in Seq(S)) /\ DOMAIN <<>> = {}
  OBVIOUS
<1>6. GraphFits
  <2>1. entities \subseteq Entities
    BY <1>2 DEF Entities
  <2>2. DOMAIN relations = owned /\ owned \subseteq FitRelations /\ owned \subseteq Relations
    BY <1>3, <1>4 DEF FitRelations
  <2>3. \A r \in DOMAIN relations : relations[r] \in BOOLEAN /\ r.entity \in entities
    BY <1>2, <1>3, <1>4
  <2> QED BY <1>3, <1>5, <2>1, <2>2, <2>3 DEF GraphFits
<1>7. \A q \in Requests : requests[q].at = "idle"
  BY DEF Init, SessionInit, Idle
<1>8. FindsFit /\ OriginsKnown
  BY <1>3, <1>5, <1>7 DEF FindsFit, OriginsKnown, Reviewed
<1> QED BY <1>1, <1>6, <1>8 DEF GraphInv

-----------------------------------------------------------------------------
(* What the requests load *)

\* What the memory says is fit to be suggested.
LEMMA CandidatesFit == GraphFits => Candidates \subseteq FitRelations
<1> SUFFICES ASSUME GraphFits PROVE Candidates \subseteq FitRelations
  OBVIOUS
<1>1. /\ Platforms \subseteq Names
      /\ OriginOf \in [Documents -> SUBSET Names]
      /\ MentionedIn \in [Documents -> SUBSET Names]
  BY GraphAssumption
<1>2. LinkedDocuments \subseteq Documents
  BY DEF LinkedDocuments, Active, GraphFits, FitRelations
<1>3. Home \in Projects /\ Names \subseteq Entities
  BY DEF Projects, Entities
<1>4. {Relation(Home, "uses", e) : e \in Platforms \ LinkedTo(Home)} \subseteq FitRelations
  <2> SUFFICES ASSUME NEW e \in Platforms \ LinkedTo(Home) PROVE Relation(Home, "uses", e) \in FitRelations
    OBVIOUS
  <2>1. "uses" \in Types /\ e \in Entities
    BY <1>1, <1>3 DEF Types
  <2> QED BY <1>3, <2>1, RelationFits
<1>5. {Relation(Home, "related_to", e) : e \in (Named \cap Names \cap entities) \ LinkedTo(Home)} \subseteq FitRelations
  <2> SUFFICES ASSUME NEW e \in (Named \cap Names \cap entities) \ LinkedTo(Home)
               PROVE  Relation(Home, "related_to", e) \in FitRelations
    OBVIOUS
  <2>1. "related_to" \in Types /\ e \in Entities
    BY <1>3 DEF Types
  <2> QED BY <1>3, <2>1, RelationFits
<1>6. UNION {{Relation(d, "created_from", e) : e \in OriginOf[d]} : d \in LinkedDocuments} \subseteq FitRelations
  <2> SUFFICES ASSUME NEW d \in LinkedDocuments, NEW e \in OriginOf[d]
               PROVE  Relation(d, "created_from", e) \in FitRelations
    OBVIOUS
  <2>1. "created_from" \in Types /\ d \in Documents /\ e \in Entities
    BY <1>1, <1>2, <1>3 DEF Types
  <2> QED BY <2>1, RelationFits
<1>7. UNION {{Relation(d, "mentions", e) : e \in (MentionedIn[d] \cap entities) \ OriginOf[d]} : d \in LinkedDocuments}
         \subseteq FitRelations
  <2> SUFFICES ASSUME NEW d \in LinkedDocuments, NEW e \in (MentionedIn[d] \cap entities) \ OriginOf[d]
               PROVE  Relation(d, "mentions", e) \in FitRelations
    OBVIOUS
  <2>1. "mentions" \in Types /\ d \in Documents /\ e \in Entities
    BY <1>1, <1>2, <1>3 DEF Types
  <2> QED BY <2>1, RelationFits
<1> QED BY <1>4, <1>5, <1>6, <1>7 DEF Candidates

\* The graph as it was.
GraphStays == UNCHANGED <<entities, relations, batches, owned>>

LEMMA Prepares ==
    ASSUME GraphFits, NEW q \in Requests, LoadToPrepare(q)
    PROVE  /\ UNCHANGED <<memory, edits, raced>> /\ GraphStays
           /\ \E v : /\ v.at = "prepare" /\ v.found \subseteq FitRelations
                     /\ requests' = [requests EXCEPT ![q] = v]
<1>1. UNCHANGED <<memory, edits, raced>> /\ GraphStays
  BY DEF LoadToPrepare, graphVars, GraphStays
<1>2. PICK found \in Discoveries :
        requests' = [requests EXCEPT ![q] =
            [at |-> "prepare", found |-> found,
             supersedes |-> IF PendingBatches = {} THEN 0 ELSE Max(PendingBatches)]]
  BY DEF LoadToPrepare
<1> DEFINE v == [at |-> "prepare", found |-> found,
                 supersedes |-> IF PendingBatches = {} THEN 0 ELSE Max(PendingBatches)]
<1>3. found \subseteq FitRelations
  BY CandidatesFit DEF Discoveries, kSubset
<1>4. v.at = "prepare" /\ v.found = found
  OBVIOUS
<1>5. requests' = [requests EXCEPT ![q] = v]
  BY <1>2
<1> HIDE DEF v
<1> QED BY <1>1, <1>3, <1>4, <1>5

\* A request that goes on to end a batch.
Picks(q, b) ==
    /\ FoundPendingBatch(q, b)
    /\ \E v : /\ \/ v.at = "graph_apply" /\ Brings(v, entities, DOMAIN relations, batches)
                 \/ v.at = "graph_discard" /\ v.batch \in DOMAIN batches
              /\ requests' = [requests EXCEPT ![q] = v]

LEMMA LoadsBatch ==
    ASSUME GraphFits, NEW q \in Requests, NEW b \in DOMAIN batches,
           LoadToDiscardBatch(q, b) \/ \E selected \in SUBSET batches[b].suggests : LoadToApplyBatch(q, b, selected)
    PROVE  Picks(q, b)
<1>1. CASE LoadToDiscardBatch(q, b)
  <2> DEFINE v == [at |-> "graph_discard", batch |-> b]
  <2>1. v.at = "graph_discard" /\ v.batch \in DOMAIN batches
    OBVIOUS
  <2>2. FoundPendingBatch(q, b) /\ requests' = [requests EXCEPT ![q] = v]
    BY <1>1 DEF LoadToDiscardBatch
  <2> HIDE DEF v
  <2> QED BY <2>1, <2>2 DEF Picks
<1>2. ASSUME NEW selected \in SUBSET batches[b].suggests, LoadToApplyBatch(q, b, selected)
      PROVE  Picks(q, b)
  <2> DEFINE chosen == {s \in selected : Applicable(s)}
             missing == MissingEntities(selected)
             v == Application(b, selected, chosen, missing)
  <2>1. FoundPendingBatch(q, b) /\ requests' = [requests EXCEPT ![q] = v]
    BY <1>2 DEF LoadToApplyBatch
  <2>2. selected \subseteq FitRelations
    <3>1. batches[b] \in BatchRows
      BY DEF GraphFits
    <3> QED BY <3>1 DEF BatchRows
  <2>3. missing \subseteq Entities
    BY <2>2 DEF MissingEntities, FitRelations, Relations
  <2>4. ASSUME NEW s \in selected
        PROVE  s.entity \in entities \cup missing /\ (s.subject \notin Documents => s \in chosen \cup DOMAIN relations)
    <3>1. s.subject \notin Documents /\ ~Applicable(s) => s \in DOMAIN relations
      BY DEF Applicable, Active
    <3> QED BY <3>1 DEF MissingEntities
  <2>5. v.at = "graph_apply" /\ v.batch = b /\ v.selected = selected /\ v.chosen = chosen /\ v.entities = missing
    BY DEF Application
  <2>6. chosen \subseteq selected
    OBVIOUS
  <2> HIDE DEF v, chosen, missing
  <2>7. Brings(v, entities, DOMAIN relations, batches)
    BY <2>3, <2>4, <2>5, <2>6 DEF Brings
  <2> QED BY <2>1, <2>5, <2>7 DEF Picks
<1> QED BY <1>1, <1>2

-----------------------------------------------------------------------------
(* What the steps do to the batches *)

\* A batch that is ended, with what of it was selected.
EndsBatch(c, status, selected) == batches' = [batches EXCEPT ![c] = Ended(@, status, selected)]

LEMMA EndedFits ==
    ASSUME GraphFits, NEW c \in DOMAIN batches, NEW status \in Statuses,
           NEW selected \in SUBSET FitRelations, EndsBatch(c, status, selected)
    PROVE  /\ batches' \in Seq(BatchRows) /\ DOMAIN batches' = DOMAIN batches
           /\ \A b \in DOMAIN batches :
                /\ batches'[b].suggests = batches[b].suggests
                /\ batches'[b].selected = batches[b].selected \cup (IF b = c THEN selected ELSE {})
<1>1. batches \in Seq(BatchRows) /\ batches[c] \in BatchRows
  BY DEF GraphFits
<1> DEFINE after == Ended(batches[c], status, selected)
<1>2. /\ after \in BatchRows /\ after.suggests = batches[c].suggests
      /\ after.selected = batches[c].selected \cup selected
  BY <1>1 DEF Ended, BatchRows
<1>3. batches' = [batches EXCEPT ![c] = after]
  BY DEF EndsBatch
<1> HIDE DEF after
<1>4. /\ batches' \in Seq(BatchRows) /\ DOMAIN batches' = DOMAIN batches /\ batches'[c] = after
      /\ \A b \in DOMAIN batches : b # c => batches'[b] = batches[b]
  BY <1>1, <1>2, <1>3
<1> QED BY <1>2, <1>4

\* One batch more, pending, and perhaps another superseded by it.
LEMMA PreparedFits ==
    ASSUME GraphFits, FindsFit, NEW q \in Requests, PrepareBatch(q)
    PROVE  /\ batches' \in Seq(BatchRows) /\ DOMAIN batches \subseteq DOMAIN batches'
           /\ \A b \in DOMAIN batches :
                batches'[b].suggests = batches[b].suggests /\ batches'[b].selected = batches[b].selected
           /\ \A b \in DOMAIN batches' : b \notin DOMAIN batches => batches'[b].selected = {}
<1> DEFINE r == requests[q]
           new == Batch(r.found)
           all == [b \in DOMAIN batches |-> IF b = r.supersedes THEN Superseded(batches[b]) ELSE batches[b]]
<1>1. batches \in Seq(BatchRows)
  BY DEF GraphFits
<1>2. batches' = Append(all, new) /\ r.at = "prepare"
  BY DEF PrepareBatch
<1>3. new \in BatchRows /\ new.selected = {}
  BY <1>2 DEF FindsFit, Batch, BatchRows, Statuses
<1>4. \A b \in DOMAIN batches :
        /\ Superseded(batches[b]) \in BatchRows
        /\ Superseded(batches[b]).suggests = batches[b].suggests
        /\ Superseded(batches[b]).selected = batches[b].selected
  <2> SUFFICES ASSUME NEW row \in BatchRows
               PROVE  /\ Superseded(row) \in BatchRows /\ Superseded(row).suggests = row.suggests
                      /\ Superseded(row).selected = row.selected
    BY <1>1
  <2> QED BY DEF Superseded, BatchRows
<1>5. \A b \in DOMAIN batches : all[b] = Superseded(batches[b]) \/ all[b] = batches[b]
  OBVIOUS
<1>6. all \in Seq(BatchRows) /\ Len(all) = Len(batches) /\ DOMAIN all = DOMAIN batches
  <2>1. DOMAIN batches = 1..Len(batches) /\ Len(batches) \in Nat
    BY <1>1
  <2>2. all \in [1..Len(batches) -> BatchRows]
    BY <1>1, <1>4, <2>1
  <2> QED BY <2>1, <2>2
<1> HIDE DEF all, new, r
<1>7. /\ batches' \in Seq(BatchRows) /\ DOMAIN batches' = DOMAIN batches \cup {Len(batches) + 1}
      /\ batches'[Len(batches) + 1] = new
      /\ \A b \in DOMAIN batches : batches'[b] = all[b]
  BY <1>1, <1>2, <1>3, <1>6
<1>8. ASSUME NEW b \in DOMAIN batches
      PROVE  batches'[b].suggests = batches[b].suggests /\ batches'[b].selected = batches[b].selected
  BY <1>4, <1>5, <1>7
<1> QED BY <1>3, <1>7, <1>8

-----------------------------------------------------------------------------
(* What the graph's requests do to the session's memory: nothing. *)

LEMMA GraphIsBeside == SessionInv /\ GraphFits /\ GraphNext => Beside
<1> SUFFICES ASSUME SessionInv, GraphFits, GraphNext PROVE Beside
  OBVIOUS
<1>0. RowsFit /\ edits \in 0..MaxEdits /\ MaxEdits \in Nat /\ requests = [q \in Requests |-> requests[q]]
  BY MaxEditsAssumption DEF SessionInv, RowsFit, SessionTypeOK
<1>1. ASSUME UNCHANGED <<memory, edits, raced>>, NEW q \in Requests, NEW v,
             v.at \notin {"apply", "discard", "review"}, requests' = [requests EXCEPT ![q] = v]
      PROVE  Beside
  <2>1. requests'[q] = v /\ \A p \in Requests : p # q => requests'[p] = requests[p]
    BY <1>0, <1>1, Tasked
  <2>2. requests' = [p \in Requests |-> requests'[p]]
    BY <1>0, <1>1
  <2>3. UNCHANGED <<deltas, tasks, nextAction, summaries, reviews, edits, raced>>
    BY <1>1 DEF memory
  <2> QED BY <1>0, <1>1, <2>1, <2>2, <2>3 DEF Beside
<1>2. ASSUME UNCHANGED <<memory, requests, raced>>, edits < MaxEdits, edits' = edits + 1
      PROVE  Beside
  <2>1. edits' \in 0..MaxEdits
    BY <1>0, <1>2
  <2> QED BY <1>0, <1>2, <2>1 DEF Beside, memory
<1>3. ASSUME NEW q \in Requests, LoadToPrepare(q) PROVE Beside
  <2>1. PICK v : v.at = "prepare" /\ requests' = [requests EXCEPT ![q] = v]
    BY <1>3, Prepares
  <2>2. UNCHANGED <<memory, edits, raced>>
    BY <1>3, Prepares
  <2> QED BY <1>1, <2>1, <2>2
<1>4. ASSUME NEW q \in Requests, NEW b \in DOMAIN batches, Picks(q, b) PROVE Beside
  <2>1. PICK v : /\ \/ v.at = "graph_apply" /\ Brings(v, entities, DOMAIN relations, batches)
                    \/ v.at = "graph_discard" /\ v.batch \in DOMAIN batches
                 /\ requests' = [requests EXCEPT ![q] = v]
    BY <1>4 DEF Picks
  <2>2. UNCHANGED <<memory, edits, raced>>
    BY <1>4 DEF Picks, FoundPendingBatch
  <2>3. v.at \notin {"apply", "discard", "review"}
    BY <2>1
  <2> QED BY <1>1, <2>1, <2>2, <2>3
<1>5. ASSUME NEW q \in Requests, PrepareBatch(q) \/ ApplyBatch(q) \/ ApplyBatchFails(q) \/ DiscardBatch(q)
      PROVE  Beside
  <2>1. UNCHANGED <<memory, edits, raced>> /\ requests' = [requests EXCEPT ![q] = Idle]
    BY <1>5 DEF PrepareBatch, ApplyBatch, ApplyBatchFails, DiscardBatch
  <2> QED BY <1>1, <2>1 DEF Idle
<1>6. ASSUME \/ \E e \in Names : CreateRelation("uses", e)
             \/ \E d \in Documents : CreateRelation("has_document", d)
             \/ \E r \in DOMAIN relations : DeleteRelation(r)
      PROVE  Beside
  BY <1>2, <1>6 DEF CreateRelation, DeleteRelation
<1> QED BY <1>3, <1>4, <1>5, <1>6, LoadsBatch DEF GraphNext

-----------------------------------------------------------------------------
(* The graph *)

LEMMA WithRelationsFits ==
    ASSUME GraphFits, NEW added \in SUBSET FitRelations, relations' = WithRelations(added),
           entities \subseteq entities', \A r \in added : r.entity \in entities'
    PROVE  /\ DOMAIN relations' = DOMAIN relations \cup added
           /\ DOMAIN relations' \subseteq FitRelations
           /\ \A r \in DOMAIN relations' : relations'[r] \in BOOLEAN /\ r.entity \in entities'
<1>1. DOMAIN relations' = DOMAIN relations \cup added
  BY DEF WithRelations
<1>2. \A r \in DOMAIN relations' : relations'[r] = (r \in added \/ relations[r])
  BY DEF WithRelations
<1>3. \A r \in DOMAIN relations' : relations'[r] \in BOOLEAN
  <2>1. \A r \in DOMAIN relations' : (r \in added \/ relations[r]) \in BOOLEAN
    OBVIOUS
  <2> QED BY <1>2, <2>1
<1>4. \A r \in DOMAIN relations' : r.entity \in entities'
  BY <1>1 DEF GraphFits
<1> QED BY <1>1, <1>3, <1>4 DEF GraphFits

\* Nothing that was suggested changes, and nothing in the graph is taken away.
Grows ==
    /\ entities \subseteq entities' /\ DOMAIN relations \subseteq DOMAIN relations'
    /\ DOMAIN batches \subseteq DOMAIN batches'
    /\ \A b \in DOMAIN batches : batches'[b].suggests = batches[b].suggests

LEMMA GraphStep ==
    ASSUME GraphFits, FindsFit, OriginsKnown, GraphNext
    PROVE  GraphFits' /\ OriginsKnown' /\ Grows
<1> DEFINE Goal == GraphFits' /\ OriginsKnown' /\ Grows
<1>0. /\ entities \subseteq Entities /\ owned \subseteq Relations /\ batches \in Seq(BatchRows)
      /\ DOMAIN relations \subseteq FitRelations
      /\ \A r \in DOMAIN relations : relations[r] \in BOOLEAN /\ r.entity \in entities
  BY DEF GraphFits
<1>1. ASSUME GraphStays PROVE Goal
  BY <1>1 DEF GraphStays, GraphFits, OriginsKnown, Grows
<1>2. ASSUME NEW q \in Requests, LoadToPrepare(q) PROVE Goal
  <2>1. GraphStays
    BY <1>2, Prepares
  <2> QED BY <1>1, <2>1
<1>3. ASSUME NEW q \in Requests, NEW b \in DOMAIN batches, Picks(q, b) PROVE Goal
  <2>1. GraphStays
    BY <1>3 DEF Picks, FoundPendingBatch, graphVars, GraphStays
  <2> QED BY <1>1, <2>1
<1>4. ASSUME NEW q \in Requests, ApplyBatchFails(q) PROVE Goal
  <2>1. GraphStays
    BY <1>4 DEF ApplyBatchFails, graphVars, GraphStays
  <2> QED BY <1>1, <2>1
<1>5. ASSUME NEW q \in Requests, PrepareBatch(q) PROVE Goal
  <2>1. /\ batches' \in Seq(BatchRows) /\ DOMAIN batches \subseteq DOMAIN batches'
        /\ \A b \in DOMAIN batches :
             batches'[b].suggests = batches[b].suggests /\ batches'[b].selected = batches[b].selected
        /\ \A b \in DOMAIN batches' : b \notin DOMAIN batches => batches'[b].selected = {}
    BY <1>5, PreparedFits
  <2>2. UNCHANGED <<entities, relations, owned>>
    BY <1>5 DEF PrepareBatch
  <2>3. GraphFits'
    BY <1>0, <2>1, <2>2 DEF GraphFits
  <2>4. Reviewed(batches') = Reviewed(batches)
    BY <2>1 DEF Reviewed
  <2>5. OriginsKnown'
    BY <2>2, <2>4 DEF OriginsKnown
  <2> QED BY <2>1, <2>2, <2>3, <2>5 DEF Grows
<1>6. ASSUME NEW q \in Requests, ApplyBatch(q) PROVE Goal
  <2> DEFINE r == requests[q]
  <2>1. Brings(r, entities, DOMAIN relations, batches)
    BY <1>6 DEF ApplyBatch, FindsFit
  <2>2. /\ entities' = entities \cup r.entities /\ relations' = WithRelations(r.chosen)
        /\ EndsBatch(r.batch, "applied", r.selected) /\ UNCHANGED owned
    BY <1>6 DEF ApplyBatch, EndsBatch
  <2> HIDE DEF r
  <2>3. /\ r.batch \in DOMAIN batches /\ r.selected \subseteq batches[r.batch].suggests
        /\ r.chosen \subseteq r.selected /\ r.entities \subseteq Entities
        /\ \A s \in r.selected :
            s.entity \in entities' /\ (s.subject \notin Documents => s \in r.chosen \cup DOMAIN relations)
    BY <2>1, <2>2 DEF Brings
  <2>4. r.selected \subseteq FitRelations
    <3>1. batches[r.batch] \in BatchRows
      BY <1>0, <2>3
    <3> QED BY <2>3, <3>1 DEF BatchRows
  <2>5. /\ batches' \in Seq(BatchRows) /\ DOMAIN batches' = DOMAIN batches
        /\ \A b \in DOMAIN batches :
             /\ batches'[b].suggests = batches[b].suggests
             /\ batches'[b].selected = batches[b].selected \cup (IF b = r.batch THEN r.selected ELSE {})
    BY <2>2, <2>3, <2>4, EndedFits DEF Statuses
  <2>6. /\ DOMAIN relations' = DOMAIN relations \cup r.chosen
        /\ DOMAIN relations' \subseteq FitRelations
        /\ \A s \in DOMAIN relations' : relations'[s] \in BOOLEAN /\ s.entity \in entities'
    BY <2>2, <2>3, <2>4, WithRelationsFits
  <2>7. entities' \subseteq Entities
    BY <1>0, <2>2, <2>3
  <2>8. GraphFits'
    BY <1>0, <2>2, <2>5, <2>6, <2>7 DEF GraphFits
  <2>9. Reviewed(batches') = Reviewed(batches) \cup r.selected
    <3>1. ASSUME NEW s \in Reviewed(batches') PROVE s \in Reviewed(batches) \cup r.selected
      BY <2>5 DEF Reviewed
    <3>2. ASSUME NEW s \in Reviewed(batches) PROVE s \in Reviewed(batches')
      BY <2>5 DEF Reviewed
    <3>3. ASSUME NEW s \in r.selected PROVE s \in Reviewed(batches')
      BY <2>3, <2>5 DEF Reviewed
    <3> QED BY <3>1, <3>2, <3>3
  <2>10. OriginsKnown'
    <3>1. DOMAIN relations' \subseteq owned' \cup Reviewed(batches')
      BY <2>2, <2>3, <2>6, <2>9 DEF OriginsKnown
    <3>2. ASSUME NEW s \in Reviewed(batches')
          PROVE  s.entity \in entities' /\ (s.subject \notin Documents => s \in DOMAIN relations')
      <4>1. CASE s \in Reviewed(batches)
        BY <2>2, <2>6, <4>1 DEF OriginsKnown
      <4>2. CASE s \in r.selected
        BY <2>3, <2>6, <4>2
      <4> QED BY <2>9, <4>1, <4>2
    <3> QED BY <3>1, <3>2 DEF OriginsKnown
  <2> QED BY <2>2, <2>5, <2>6, <2>8, <2>10 DEF Grows
<1>7. ASSUME NEW q \in Requests, DiscardBatch(q) PROVE Goal
  <2>1. /\ requests[q].batch \in DOMAIN batches
        /\ EndsBatch(requests[q].batch, "discarded", {}) /\ UNCHANGED <<entities, relations, owned>>
    BY <1>7 DEF DiscardBatch, FindsFit, EndsBatch
  <2>2. /\ batches' \in Seq(BatchRows) /\ DOMAIN batches' = DOMAIN batches
        /\ \A b \in DOMAIN batches :
             /\ batches'[b].suggests = batches[b].suggests
             /\ batches'[b].selected = batches[b].selected \cup (IF b = requests[q].batch THEN {} ELSE {})
    <3>1. {} \in SUBSET FitRelations /\ "discarded" \in Statuses
      BY DEF Statuses
    <3> QED BY <2>1, <3>1, EndedFits
  <2>3. GraphFits'
    BY <1>0, <2>1, <2>2 DEF GraphFits
  <2>4. Reviewed(batches') = Reviewed(batches)
    <3>1. \A b \in DOMAIN batches : batches'[b].selected = batches[b].selected
      BY <2>2
    <3> QED BY <2>2, <3>1 DEF Reviewed
  <2>5. OriginsKnown'
    BY <2>1, <2>4 DEF OriginsKnown
  <2> QED BY <2>1, <2>2, <2>3, <2>5 DEF Grows
<1>8. ASSUME NEW type \in Types, NEW entity \in Entities, type = "has_document" => entity \in Documents,
             CreateRelation(type, entity)
      PROVE  Goal
  <2> DEFINE made == Relation(Home, type, entity)
  <2>1. made \in FitRelations /\ made.entity = entity
    BY <1>8, RelationFits DEF Projects
  <2>2. /\ entities' = entities \cup {entity} /\ relations' = WithRelations({made})
        /\ owned' = owned \cup {made} /\ UNCHANGED batches
    BY <1>8 DEF CreateRelation
  <2> HIDE DEF made
  <2>3. /\ DOMAIN relations' = DOMAIN relations \cup {made}
        /\ DOMAIN relations' \subseteq FitRelations
        /\ \A s \in DOMAIN relations' : relations'[s] \in BOOLEAN /\ s.entity \in entities'
    <3>1. {made} \in SUBSET FitRelations /\ entities \subseteq entities' /\ \A s \in {made} : s.entity \in entities'
      BY <2>1, <2>2
    <3> QED BY <2>2, <3>1, WithRelationsFits
  <2>4. made \in Relations
    BY <2>1 DEF FitRelations
  <2>5. GraphFits'
    BY <1>0, <1>8, <2>2, <2>3, <2>4 DEF GraphFits
  <2>6. OriginsKnown'
    BY <2>2, <2>3 DEF OriginsKnown
  <2> QED BY <2>2, <2>3, <2>5, <2>6 DEF Grows
<1>9. ASSUME NEW r \in DOMAIN relations, DeleteRelation(r) PROVE Goal
  <2>1. relations' = [relations EXCEPT ![r] = FALSE] /\ UNCHANGED <<entities, batches, owned>>
    BY <1>9 DEF DeleteRelation
  <2>2. DOMAIN relations' = DOMAIN relations /\ \A s \in DOMAIN relations : relations'[s] \in {relations[s], FALSE}
    BY <2>1
  <2>3. \A s \in DOMAIN relations' : relations'[s] \in BOOLEAN /\ s.entity \in entities'
    BY <1>0, <2>1, <2>2
  <2>4. GraphFits'
    BY <1>0, <2>1, <2>2, <2>3 DEF GraphFits
  <2>5. OriginsKnown'
    BY <2>1, <2>2 DEF OriginsKnown
  <2> QED BY <2>1, <2>2, <2>4, <2>5 DEF Grows
<1>10. /\ \A e \in Names : e \in Entities /\ "uses" \in Types
       /\ \A d \in Documents : d \in Entities /\ "has_document" \in Types
  BY DEF Types, Entities
<1> HIDE DEF Goal
<1>11. Goal
  BY <1>2, <1>3, <1>4, <1>5, <1>6, <1>7, <1>8, <1>9, <1>10, LoadsBatch DEF GraphNext
<1> QED BY <1>11 DEF Goal

\* What a request has found stays fit, and what a new request finds is.
LEMMA FindsStay ==
    ASSUME FindsFit, Grows,
           \A q \in Requests :
              \/ requests'[q].at \in {"prepare", "graph_apply", "graph_discard"} => requests'[q] = requests[q]
              \/ requests'[q].at = "prepare" /\ requests'[q].found \subseteq FitRelations
              \/ requests'[q].at = "graph_apply" /\ Brings(requests'[q], entities, DOMAIN relations, batches)
              \/ requests'[q].at = "graph_discard" /\ requests'[q].batch \in DOMAIN batches
    PROVE  FindsFit'
<1>1. ASSUME NEW q \in Requests, Brings(requests'[q], entities, DOMAIN relations, batches)
      PROVE  Brings(requests'[q], entities', DOMAIN relations', batches')
  BY <1>1 DEF Brings, Grows
<1> SUFFICES ASSUME NEW q \in Requests
             PROVE  /\ requests'[q].at = "prepare" => requests'[q].found \subseteq FitRelations
                    /\ requests'[q].at = "graph_apply" => Brings(requests'[q], entities', DOMAIN relations', batches')
                    /\ requests'[q].at = "graph_discard" => requests'[q].batch \in DOMAIN batches'
  BY DEF FindsFit
<1>2. CASE requests'[q].at \in {"prepare", "graph_apply", "graph_discard"} => requests'[q] = requests[q]
  BY <1>1, <1>2 DEF FindsFit, Grows
<1>3. CASE \/ requests'[q].at = "prepare" /\ requests'[q].found \subseteq FitRelations
           \/ requests'[q].at = "graph_apply" /\ Brings(requests'[q], entities, DOMAIN relations, batches)
           \/ requests'[q].at = "graph_discard" /\ requests'[q].batch \in DOMAIN batches
  BY <1>1, <1>3 DEF Grows
<1> QED BY <1>2, <1>3

LEMMA FindsStep ==
    ASSUME RowsFit, GraphFits, FindsFit, OriginsKnown, GraphNext
    PROVE  FindsFit'
<1>0. Grows
  BY GraphStep
<1>1. ASSUME NEW q \in Requests, LoadToPrepare(q) PROVE FindsFit'
  <2>1. PICK v : v.at = "prepare" /\ v.found \subseteq FitRelations /\ requests' = [requests EXCEPT ![q] = v]
    BY <1>1, Prepares
  <2>2. requests'[q] = v /\ \A p \in Requests : p # q => requests'[p] = requests[p]
    BY <2>1, Tasked
  <2> QED BY <1>0, <2>1, <2>2, FindsStay
<1>2. ASSUME NEW q \in Requests, NEW b \in DOMAIN batches, Picks(q, b) PROVE FindsFit'
  <2>1. PICK v : /\ \/ v.at = "graph_apply" /\ Brings(v, entities, DOMAIN relations, batches)
                    \/ v.at = "graph_discard" /\ v.batch \in DOMAIN batches
                 /\ requests' = [requests EXCEPT ![q] = v]
    BY <1>2 DEF Picks
  <2>2. requests'[q] = v /\ \A p \in Requests : p # q => requests'[p] = requests[p]
    BY <2>1, Tasked
  <2> QED BY <1>0, <2>1, <2>2, FindsStay
<1>3. ASSUME NEW q \in Requests, PrepareBatch(q) \/ ApplyBatch(q) \/ ApplyBatchFails(q) \/ DiscardBatch(q)
      PROVE  FindsFit'
  <2>1. requests' = [requests EXCEPT ![q] = Idle]
    BY <1>3 DEF PrepareBatch, ApplyBatch, ApplyBatchFails, DiscardBatch
  <2>2. requests'[q] = Idle /\ \A p \in Requests : p # q => requests'[p] = requests[p]
    BY <2>1, Tasked
  <2> QED BY <1>0, <2>2, FindsStay DEF Idle
<1>4. ASSUME UNCHANGED requests PROVE FindsFit'
  BY <1>0, <1>4, FindsStay
<1>5. ASSUME \/ \E e \in Names : CreateRelation("uses", e)
             \/ \E d \in Documents : CreateRelation("has_document", d)
             \/ \E r \in DOMAIN relations : DeleteRelation(r)
      PROVE  UNCHANGED requests
  BY <1>5 DEF CreateRelation, DeleteRelation
<1> QED BY <1>1, <1>2, <1>3, <1>4, <1>5, LoadsBatch DEF GraphNext

-----------------------------------------------------------------------------
(* The invariant is inductive *)

\* What the requests of SessionMemory do, or nobody, is nothing to the graph.
LEMMA SessionIsBeside ==
    ASSUME RowsFit, GraphFits, FindsFit, OriginsKnown, UNCHANGED graphVars,
           SessionNext \/ UNCHANGED requests
    PROVE  GraphFits' /\ FindsFit' /\ OriginsKnown'
<1>1. UNCHANGED <<entities, relations, batches, owned>>
  BY DEF graphVars
<1>2. \A q \in Requests :
        requests'[q].at \in {"prepare", "graph_apply", "graph_discard"} => requests'[q] = requests[q]
  BY OthersGoOn
<1>3. GraphFits' /\ OriginsKnown'
  BY <1>1 DEF GraphFits, OriginsKnown
<1>4. Grows
  BY <1>1 DEF Grows
<1>5. FindsFit'
  BY <1>2, <1>4, FindsStay
<1> QED BY <1>3, <1>5

LEMMA GraphInvStep == GraphInv /\ [Next]_vars => GraphInv'
<1> SUFFICES ASSUME GraphInv, [Next]_vars PROVE GraphInv'
  OBVIOUS
<1>0. SessionInv /\ RowsFit /\ GraphFits /\ FindsFit /\ OriginsKnown
  BY DEF GraphInv, SessionInv
<1>1. CASE GraphNext
  <2>1. SessionInv'
    BY <1>0, <1>1, GraphIsBeside, BesideStep
  <2> QED BY <1>0, <1>1, <2>1, GraphStep, FindsStep DEF GraphInv
<1>2. CASE SessionNext /\ UNCHANGED graphVars
  <2>1. SessionInv'
    BY <1>0, <1>2, SessionStep
  <2> QED BY <1>0, <1>2, <2>1, SessionIsBeside DEF GraphInv
<1>3. CASE UNCHANGED vars
  <2>1. UNCHANGED sessionVars /\ UNCHANGED graphVars /\ UNCHANGED requests
    BY <1>3 DEF vars, sessionVars
  <2>2. SessionInv'
    BY <1>0, <2>1, StutterIsBeside, BesideStep
  <2> QED BY <1>0, <2>1, <2>2, SessionIsBeside DEF GraphInv
<1> QED BY <1>1, <1>2, <1>3 DEF Next

THEOREM GraphInvHolds == Spec => []GraphInv
  BY GraphStarts, GraphInvStep, PTL DEF Spec

-----------------------------------------------------------------------------
(* What follows *)

\* The rows of deltas, tasks, reviews, batches and the graph are well formed; no relation
\* lacks its entity.
THEOREM TypesHold == Spec => []TypeOK
<1>1. GraphInv => TypeOK
  <2> SUFFICES ASSUME GraphInv PROVE TypeOK
    OBVIOUS
  <2>1. SessionTypeOK /\ GraphFits
    BY DEF GraphInv, SessionInv, RowsFit
  <2>2. FitRelations \subseteq Relations
    BY DEF FitRelations
  <2>3. batches \in Seq([status : Statuses \cup {"superseded"}, suggests : SUBSET Relations,
                         selected : SUBSET Relations])
    <3>1. ASSUME NEW S, NEW T, S \subseteq T, NEW s \in Seq(S) PROVE s \in Seq(T)
      BY <3>1
    <3>2. BatchRows \subseteq [status : Statuses \cup {"superseded"}, suggests : SUBSET Relations,
                               selected : SUBSET Relations]
      BY <2>2 DEF BatchRows
    <3>3. batches \in Seq(BatchRows)
      BY <2>1 DEF GraphFits
    <3> QED BY <3>1, <3>2, <3>3
  <2>4. DOMAIN relations \cup owned \subseteq Relations
    BY <2>1, <2>2 DEF GraphFits
  <2> QED BY <2>1, <2>3, <2>4 DEF TypeOK, GraphFits
<1> QED BY <1>1, GraphInvHolds, PTL

\* For any number of requests and batches: a relation has an owner, or a batch suggested it
\* and a reviewer selected it in an application that app/graph_suggestions.py committed;
\* and of such an application all was written.
THEOREM GraphStaysReviewed == Spec => []GraphIsReviewed
<1>1. GraphInv => GraphIsReviewed
  BY DEF GraphInv, OriginsKnown, Reviewed, GraphIsReviewed
<1> QED BY <1>1, GraphInvHolds, PTL

\* Every review recorded by app/reconciliation_review_routes.py was made of an open task
\* at the version its reviewer saw, once for a request id and task.
THEOREM ReviewsStayStanding == Spec => []ReviewsStand
<1>1. GraphInv => ReviewsStand
  BY DEF GraphInv, SessionInv
<1> QED BY <1>1, GraphInvHolds, PTL

\* A delta is applied or discarded once, unless two requests of app/session_routes.py
\* found it pending together.
THEOREM DeltasSettleOnce == Spec => DeltaSettledOnce
<1>1. GraphInv /\ [Next]_vars =>
        [\A d \in (DOMAIN deltas) \ raced :
            deltas[d].status # "pending" =>
                deltas'[d].status = deltas[d].status /\ SummariesOf(d)' = SummariesOf(d)]_sessionVars
  <2> SUFFICES ASSUME GraphInv, [Next]_vars, ~UNCHANGED sessionVars
               PROVE  \A d \in (DOMAIN deltas) \ raced :
                        deltas[d].status # "pending" =>
                            deltas'[d].status = deltas[d].status /\ SummariesOf(d)' = SummariesOf(d)
    OBVIOUS
  <2>1. SessionInv /\ GraphFits
    BY DEF GraphInv
  <2>2. SessionNext \/ Beside
    BY <2>1, GraphIsBeside DEF Next, vars
  <2> QED BY <2>1, <2>2, SettledOnce, BesideSettles
<1> QED BY <1>1, GraphInvHolds, PTL DEF Spec, DeltaSettledOnce

\* An onboarding replaces an action of the owner only when the owner set it after the
\* application had loaded the project.
THEOREM OwnersActionIsKept == Spec => OwnersActionKept
<1>1. GraphInv /\ [Next]_vars =>
        [nextAction = "owner" /\ nextAction' = "onboarding" =>
            \E q \in Requests : requests[q].at = "apply" /\ requests[q].action = "" /\ requests'[q] = Idle
        ]_sessionVars
  <2> SUFFICES ASSUME GraphInv, [Next]_vars, ~UNCHANGED sessionVars,
                      nextAction = "owner", nextAction' = "onboarding"
               PROVE  \E q \in Requests : requests[q].at = "apply" /\ requests[q].action = "" /\ requests'[q] = Idle
    OBVIOUS
  <2>1. SessionInv /\ GraphFits
    BY DEF GraphInv
  <2>2. SessionNext \/ Beside
    BY <2>1, GraphIsBeside DEF Next, vars
  <2>3. ~Beside
    BY <2>1, BesideSettles
  <2> QED BY <2>1, <2>2, <2>3, OwnersActionStep
<1> QED BY <1>1, GraphInvHolds, PTL DEF Spec, OwnersActionKept

-----------------------------------------------------------------------------
(* Recursion on the naturals *)

LEMMA LeastExists ==
    ASSUME NEW S \in SUBSET Nat, S # {}
    PROVE  \E n \in S : \A m \in S : n <= m
  BY MinIsLeast

\* A step function for each number, applied one after the other from a.
Iterates(g, X, a, f) == g \in [Nat -> X] /\ g[0] = a /\ \A n \in Nat : g[n + 1] = f[n][g[n]]

LEMMA IterationExists ==
    ASSUME NEW X, NEW a \in X, NEW f \in [Nat -> [X -> X]]
    PROVE  \E g : Iterates(g, X, a, f)
<1> DEFINE Up(n) == {h \in [0..n -> X] : h[0] = a /\ \A k \in Nat : k + 1 \in 0..n => h[k + 1] = f[k][h[k]]}
<1>1. ASSUME NEW n \in Nat PROVE Up(n) # {}
  <2> DEFINE S == {k \in Nat : Up(k) = {}}
  <2> SUFFICES ASSUME S # {} PROVE FALSE
    <3> HIDE DEF Up
    <3> QED OBVIOUS
  <2>1. PICK m \in S : \A k \in S : m <= k
    <3> HIDE DEF S
    <3>1. S \in SUBSET Nat
      BY DEF S
    <3> QED BY <3>1, LeastExists
  <2>2. m \in Nat /\ Up(m) = {}
    BY <2>1
  <2>3. m # 0
    <3>1. [k \in 0..0 |-> a] \in Up(0)
      <4>1. \A k \in Nat : k + 1 \notin 0..0
        OBVIOUS
      <4> QED BY <4>1
    <3> QED BY <2>2, <3>1
  <2>4. m - 1 \in Nat /\ m - 1 \notin S
    <3> HIDE DEF S
    <3>1. m - 1 \in Nat /\ ~ (m <= m - 1)
      BY <2>2, <2>3
    <3> QED BY <2>1, <3>1
  <2>5. PICK h : h \in Up(m - 1)
    BY <2>4
  <2> DEFINE more == [k \in 0..m |-> IF k = m THEN f[m - 1][h[m - 1]] ELSE h[k]]
  <2>6. h \in [0..(m - 1) -> X] /\ h[0] = a /\ \A k \in Nat : k + 1 \in 0..(m - 1) => h[k + 1] = f[k][h[k]]
    BY <2>5
  <2>7. f[m - 1][h[m - 1]] \in X
    BY <2>4, <2>6
  <2>8. more \in [0..m -> X]
    BY <2>2, <2>3, <2>6, <2>7
  <2>9. more[0] = a
    BY <2>2, <2>3, <2>6
  <2>10. ASSUME NEW k \in Nat, k + 1 \in 0..m PROVE more[k + 1] = f[k][more[k]]
    <3>1. k \in 0..m /\ k # m
      BY <2>2, <2>10
    <3>2. more[k] = h[k] /\ more[k + 1] = IF k + 1 = m THEN f[m - 1][h[m - 1]] ELSE h[k + 1]
      BY <2>10, <3>1
    <3>3. CASE k + 1 = m
      <4>1. k = m - 1
        BY <2>2, <3>3
      <4> QED BY <3>2, <3>3, <4>1
    <3>4. CASE k + 1 # m
      <4>1. k + 1 \in 0..(m - 1)
        BY <2>2, <2>10, <3>4
      <4>2. h[k + 1] = f[k][h[k]]
        BY <2>6, <4>1
      <4> QED BY <3>2, <3>4, <4>2
    <3> QED BY <3>3, <3>4
  <2>11. more \in Up(m)
    BY <2>8, <2>9, <2>10
  <2> QED BY <2>2, <2>11
<1>2. ASSUME NEW n \in Nat, NEW m \in Nat, NEW h \in Up(n), NEW g \in Up(m), NEW k \in Nat, k <= n, k <= m
      PROVE  h[k] = g[k]
  <2> DEFINE S == {j \in Nat : j <= n /\ j <= m /\ h[j] # g[j]}
  <2> SUFFICES ASSUME S # {} PROVE FALSE
    BY <1>2
  <2>1. PICK j \in S : \A i \in S : j <= i
    <3> HIDE DEF S
    <3>1. S \in SUBSET Nat
      BY DEF S
    <3> QED BY <3>1, LeastExists
  <2>2. j \in Nat /\ j <= n /\ j <= m /\ h[j] # g[j]
    BY <2>1
  <2>3. h[0] = a /\ g[0] = a
    OBVIOUS
  <2>4. j # 0
    BY <2>2, <2>3
  <2>5. j - 1 \in Nat /\ j - 1 \notin S
    BY <2>1, <2>2, <2>4
  <2>6. h[j - 1] = g[j - 1]
    BY <2>2, <2>5
  <2>7. h[(j - 1) + 1] = f[j - 1][h[j - 1]] /\ g[(j - 1) + 1] = f[j - 1][g[j - 1]]
    <3>1. (j - 1) + 1 \in 0..n /\ (j - 1) + 1 \in 0..m
      BY <2>2, <2>5
    <3> QED BY <2>5, <3>1
  <2>8. (j - 1) + 1 = j
    BY <2>2
  <2> QED BY <2>2, <2>6, <2>7, <2>8
<1> DEFINE H(n) == CHOOSE h : h \in Up(n)
           g == [n \in Nat |-> H(n)[n]]
<1>3. \A n \in Nat : H(n) \in Up(n)
  BY <1>1
<1>4. ASSUME NEW n \in Nat PROVE g[n] \in X
  <2>1. H(n) \in [0..n -> X]
    BY <1>3
  <2> QED BY <2>1
<1>5. g[0] = a
  BY <1>3
<1>6. ASSUME NEW n \in Nat PROVE g[n + 1] = f[n][g[n]]
  <2>1. H(n + 1)[n + 1] = f[n][H(n + 1)[n]]
    <3>1. n + 1 \in Nat /\ n + 1 \in 0..(n + 1)
      OBVIOUS
    <3>2. H(n + 1) \in Up(n + 1)
      BY <1>3, <3>1
    <3> HIDE DEF H
    <3> QED BY <3>1, <3>2
  <2>2. H(n + 1)[n] = H(n)[n]
    <3>1. n + 1 \in Nat /\ n <= n /\ n <= n + 1
      OBVIOUS
    <3>2. H(n) \in Up(n) /\ H(n + 1) \in Up(n + 1)
      BY <1>3, <3>1
    <3> HIDE DEF H, Up
    <3> QED BY <1>2, <3>1, <3>2
  <2> QED BY <2>1, <2>2
<1>7. g \in [Nat -> X]
  BY <1>4
<1> HIDE DEF g
<1> QED BY <1>5, <1>6, <1>7 DEF Iterates

\* Induction, for what is said of each number of a set.
LEMMA AllNumbers ==
    ASSUME NEW S \in SUBSET Nat, 0 \in S, \A n \in S : n + 1 \in S
    PROVE  \A n \in Nat : n \in S
<1> SUFFICES ASSUME Nat \ S # {} PROVE FALSE
  OBVIOUS
<1>1. PICK n \in Nat \ S : \A m \in Nat \ S : n <= m
  BY LeastExists
<1>2. n # 0 /\ n - 1 \in Nat /\ (n - 1) + 1 = n /\ ~ (n <= n - 1)
  BY <1>1
<1>3. n - 1 \in S
  BY <1>1, <1>2
<1> QED BY <1>1, <1>2, <1>3

-----------------------------------------------------------------------------
(* One pass over the relations *)

\* For each entity the projects it is shown with.
Scopes == [Entities -> SUBSET Projects]

\* A list of relations between entities.
Lists(order) ==
    /\ Len(order) \in Nat
    /\ \A n \in 1..Len(order) : order[n].subject \in Entities /\ order[n].entity \in Entities

\* The entities shown with p; a set no relation of the list leads into or out of.
ShownWith(p, scope) == {e \in Entities : p \in scope[e]}
WholeIn(S, order) == \A n \in 1..Len(order) : order[n].subject \in S <=> order[n].entity \in S

LEMMA WidenEffect ==
    ASSUME NEW r, r.subject \in Entities, r.entity \in Entities, NEW scope \in Scopes
    PROVE  /\ Widen(r, scope) \in Scopes
           /\ \A e \in Entities : Widen(r, scope)[e] =
                IF e \in {r.subject, r.entity} THEN scope[r.subject] \cup scope[r.entity] ELSE scope[e]
  BY DEF Widen, Scopes

\* A pass widens a scope by one relation of the list after the other.
LEMMA PassRuns ==
    ASSUME NEW order, Lists(order), NEW scope \in Scopes
    PROVE  \E after \in [0..Len(order) -> Scopes] :
            /\ after[0] = scope
            /\ \A n \in 1..Len(order) : after[n] = Widen(order[n], after[n - 1])
            /\ Pass(order, scope) = after[Len(order)]
<1> DEFINE L == Len(order)
           f == [n \in Nat |-> [s \in Scopes |-> IF n + 1 \in 1..L THEN Widen(order[n + 1], s) ELSE s]]
           Runs(h) == h = [n \in 0..L |-> IF n = 0 THEN scope ELSE Widen(order[n], h[n - 1])]
           after == CHOOSE h : Runs(h)
<1>1. L \in Nat
  BY DEF Lists
<1>2. f \in [Nat -> [Scopes -> Scopes]]
  <2> SUFFICES ASSUME NEW n \in Nat, NEW s \in Scopes
               PROVE  (IF n + 1 \in 1..L THEN Widen(order[n + 1], s) ELSE s) \in Scopes
    OBVIOUS
  <2> QED BY WidenEffect DEF Lists
<1>3. PICK g : Iterates(g, Scopes, scope, f)
  <2> HIDE DEF f
  <2> QED BY <1>2, IterationExists
<1>3a. g \in [Nat -> Scopes] /\ g[0] = scope /\ \A n \in Nat : g[n + 1] = f[n][g[n]]
  <2> HIDE DEF f
  <2> QED BY <1>3 DEF Iterates
<1>4. \E h : Runs(h)
  <2> DEFINE h == [n \in 0..L |-> g[n]]
  <2>1. ASSUME NEW n \in 0..L PROVE h[n] = IF n = 0 THEN scope ELSE Widen(order[n], h[n - 1])
    <3>1. CASE n = 0
      BY <1>3a, <3>1
    <3>2. CASE n # 0
      <4>1. n - 1 \in Nat /\ n - 1 \in 0..L /\ (n - 1) + 1 = n /\ n \in 1..L
        BY <1>1, <2>1, <3>2
      <4>2. g[n] = f[n - 1][g[n - 1]]
        <5> HIDE DEF f
        <5>1. g[(n - 1) + 1] = f[n - 1][g[n - 1]]
          BY <1>3a, <4>1
        <5> QED BY <4>1, <5>1
      <4>3. f[n - 1][g[n - 1]] = Widen(order[n], g[n - 1])
        <5>1. g[n - 1] \in Scopes
          BY <1>3a, <4>1
        <5>2. \A m \in Nat : \A s \in Scopes : f[m][s] = IF m + 1 \in 1..L THEN Widen(order[m + 1], s) ELSE s
          OBVIOUS
        <5> HIDE DEF f, L
        <5>3. f[n - 1][g[n - 1]] = IF (n - 1) + 1 \in 1..L THEN Widen(order[(n - 1) + 1], g[n - 1]) ELSE g[n - 1]
          BY <4>1, <5>1, <5>2
        <5> QED BY <4>1, <5>3
      <4> QED BY <3>2, <4>1, <4>2, <4>3
    <3> QED BY <3>1, <3>2
  <2>2. h = [n \in 0..L |-> IF n = 0 THEN scope ELSE Widen(order[n], h[n - 1])]
    BY <2>1
  <2> HIDE DEF h
  <2> QED BY <2>2
<1>5. Runs(after)
  <2> HIDE DEF Runs
  <2> QED BY <1>4
<1>6. Pass(order, scope) = after[L]
  BY DEF Pass
<1> HIDE DEF after
<1>7. after[0] = scope /\ \A n \in 1..L : after[n] = Widen(order[n], after[n - 1])
  BY <1>1, <1>5
<1>8. DOMAIN after = 0..L /\ after = [n \in 0..L |-> after[n]]
  BY <1>5
<1>9. \A n \in 0..L : after[n] \in Scopes
  <2> DEFINE S == {n \in Nat : n \in 0..L => after[n] \in Scopes}
  <2>1. 0 \in S
    BY <1>7
  <2>2. ASSUME NEW n \in S PROVE n + 1 \in S
    <3> SUFFICES ASSUME n + 1 \in 0..L PROVE after[n + 1] \in Scopes
      OBVIOUS
    <3>1. n \in 0..L /\ n + 1 \in 1..L /\ (n + 1) - 1 = n
      BY <1>1
    <3>2. after[n + 1] = Widen(order[n + 1], after[n])
      BY <1>7, <3>1
    <3>3. after[n] \in Scopes
      BY <2>2, <3>1
    <3>4. order[n + 1].subject \in Entities /\ order[n + 1].entity \in Entities
      BY <3>1 DEF Lists
    <3>5. Widen(order[n + 1], after[n]) \in Scopes
      BY <3>3, <3>4, WidenEffect
    <3> QED BY <3>2, <3>5
  <2>3. S \in SUBSET Nat
    OBVIOUS
  <2> HIDE DEF S
  <2>4. \A n \in Nat : n \in S
    BY <2>1, <2>2, <2>3, AllNumbers
  <2> USE DEF S
  <2> QED BY <1>1, <2>4
<1>10. after \in [0..L -> Scopes]
  BY <1>8, <1>9
<1> QED BY <1>6, <1>7, <1>10

LEMMA PassFacts ==
    ASSUME NEW order, Lists(order), NEW scope \in Scopes
    PROVE  /\ Pass(order, scope) \in Scopes
           /\ \A e \in Entities : scope[e] \subseteq Pass(order, scope)[e]
           /\ \A p \in Projects, T \in SUBSET Entities :
                WholeIn(T, order) /\ ShownWith(p, scope) \subseteq T => ShownWith(p, Pass(order, scope)) \subseteq T
           /\ \A p \in Projects :
                ShownWith(p, Pass(order, scope)) = ShownWith(p, scope) => WholeIn(ShownWith(p, scope), order)
<1> DEFINE L == Len(order)
           new == Pass(order, scope)
<1>1. PICK after \in [0..L -> Scopes] :
        /\ after[0] = scope
        /\ \A n \in 1..L : after[n] = Widen(order[n], after[n - 1])
        /\ new = after[L]
  BY PassRuns
<1> HIDE DEF new
<1>2. L \in Nat /\ 0 \in 0..L /\ L \in 0..L
  BY DEF Lists
<1>3. ASSUME NEW n \in 1..L
      PROVE  /\ n - 1 \in 0..L /\ n \in 0..L /\ after[n - 1] \in Scopes
             /\ order[n].subject \in Entities /\ order[n].entity \in Entities
             /\ \A e \in Entities : after[n][e] =
                    IF e \in {order[n].subject, order[n].entity}
                    THEN after[n - 1][order[n].subject] \cup after[n - 1][order[n].entity] ELSE after[n - 1][e]
  <2>1. n - 1 \in 0..L /\ n \in 0..L
    BY <1>2
  <2>2. after[n - 1] \in Scopes
    BY <1>1, <2>1
  <2>3. order[n].subject \in Entities /\ order[n].entity \in Entities
    BY DEF Lists
  <2>4. after[n] = Widen(order[n], after[n - 1])
    BY <1>1
  <2>5. \A e \in Entities : Widen(order[n], after[n - 1])[e] =
            IF e \in {order[n].subject, order[n].entity}
            THEN after[n - 1][order[n].subject] \cup after[n - 1][order[n].entity] ELSE after[n - 1][e]
    BY <2>2, <2>3, WidenEffect
  <2> QED BY <2>1, <2>2, <2>3, <2>4, <2>5
<1>4. ASSUME NEW n \in 1..L, NEW e \in Entities PROVE after[n - 1][e] \subseteq after[n][e]
  BY <1>3
<1>5. \A m \in 0..L : \A n \in 0..m : \A e \in Entities : after[n][e] \subseteq after[m][e]
  <2> DEFINE S == {m \in Nat : m \in 0..L => \A n \in 0..m : \A e \in Entities : after[n][e] \subseteq after[m][e]}
  <2>1. 0 \in S
    <3>1. \A n \in 0..0 : n = 0
      OBVIOUS
    <3> QED BY <3>1
  <2>2. ASSUME NEW m \in S PROVE m + 1 \in S
    <3> SUFFICES ASSUME m + 1 \in 0..L, NEW n \in 0..(m + 1), NEW e \in Entities
                 PROVE  after[n][e] \subseteq after[m + 1][e]
      OBVIOUS
    <3>1. m \in 0..L /\ m + 1 \in 1..L /\ (m + 1) - 1 = m
      BY <1>2
    <3>2. after[m][e] \subseteq after[m + 1][e]
      BY <1>4, <3>1
    <3>3. CASE n = m + 1
      BY <3>3
    <3>4. CASE n # m + 1
      <4>1. n \in 0..m
        BY <3>4
      <4>2. after[n][e] \subseteq after[m][e]
        BY <2>2, <3>1, <4>1
      <4> QED BY <3>2, <4>2
    <3> QED BY <3>3, <3>4
  <2>3. S \in SUBSET Nat
    OBVIOUS
  <2> HIDE DEF S
  <2>4. \A n \in Nat : n \in S
    BY <2>1, <2>2, <2>3, AllNumbers
  <2> USE DEF S
  <2> QED BY <1>2, <2>4
<1>6. new \in Scopes
  BY <1>1, <1>2
<1>7. ASSUME NEW e \in Entities, NEW n \in 0..L PROVE scope[e] \subseteq after[n][e] /\ after[n][e] \subseteq new[e]
  <2>1. 0 \in 0..n /\ n \in 0..L
    BY <1>2
  <2> QED BY <1>1, <1>2, <1>5, <2>1
<1>8. \A e \in Entities : scope[e] \subseteq new[e]
  BY <1>2, <1>7
<1>9. ASSUME NEW p \in Projects, NEW T \in SUBSET Entities, WholeIn(T, order), ShownWith(p, scope) \subseteq T
      PROVE  ShownWith(p, new) \subseteq T
  <2> DEFINE S == {n \in Nat : n \in 0..L => \A e \in Entities : p \in after[n][e] => e \in T}
  <2>1. 0 \in S
    BY <1>1, <1>9 DEF ShownWith
  <2>2. ASSUME NEW m \in S PROVE m + 1 \in S
    <3> SUFFICES ASSUME m + 1 \in 0..L, NEW e \in Entities, p \in after[m + 1][e] PROVE e \in T
      OBVIOUS
    <3> DEFINE n == m + 1
               r == order[n]
    <3>1. m \in 0..L /\ n \in 1..L /\ n - 1 = m
      BY <1>2
    <3>2. \A o \in Entities : p \in after[m][o] => o \in T
      BY <2>2, <3>1
    <3>3. /\ r.subject \in Entities /\ r.entity \in Entities
          /\ after[n][e] = IF e \in {r.subject, r.entity} THEN after[m][r.subject] \cup after[m][r.entity] ELSE after[m][e]
      <4> HIDE DEF n
      <4>1. /\ order[n].subject \in Entities /\ order[n].entity \in Entities
            /\ after[n][e] = IF e \in {order[n].subject, order[n].entity}
                            THEN after[n - 1][order[n].subject] \cup after[n - 1][order[n].entity] ELSE after[n - 1][e]
        BY <1>3, <3>1
      <4> QED BY <3>1, <4>1
    <3>4. r.subject \in T <=> r.entity \in T
      BY <1>9, <3>1 DEF WholeIn
    <3>5. p \in after[n][e]
      OBVIOUS
    <3> HIDE DEF n, r, S
    <3> QED BY <3>2, <3>3, <3>4, <3>5
  <2>3. S \in SUBSET Nat
    OBVIOUS
  <2> HIDE DEF S
  <2>4. \A n \in Nat : n \in S
    BY <2>1, <2>2, <2>3, AllNumbers
  <2> USE DEF S
  <2> QED BY <1>1, <1>2, <2>4 DEF ShownWith
<1>10. ASSUME NEW p \in Projects, ShownWith(p, new) = ShownWith(p, scope) PROVE WholeIn(ShownWith(p, scope), order)
  <2>1. \A e \in Entities : p \in new[e] => p \in scope[e]
    BY <1>10 DEF ShownWith
  <2> SUFFICES ASSUME NEW n \in 1..L PROVE p \in scope[order[n].subject] <=> p \in scope[order[n].entity]
    BY <1>3 DEF WholeIn, ShownWith
  <2> DEFINE x == order[n].subject
             y == order[n].entity
  <2>2. x \in Entities /\ y \in Entities /\ n - 1 \in 0..L /\ n \in 0..L
        /\ after[n][x] = after[n - 1][x] \cup after[n - 1][y]
        /\ after[n][y] = after[n - 1][x] \cup after[n - 1][y]
    BY <1>3
  <2> HIDE DEF x, y
  <2>3. /\ scope[x] \subseteq after[n - 1][x] /\ scope[y] \subseteq after[n - 1][y]
        /\ after[n][x] \subseteq new[x] /\ after[n][y] \subseteq new[y]
    BY <1>7, <2>2
  <2>4. p \in scope[x] <=> p \in scope[y]
    BY <2>1, <2>2, <2>3
  <2> QED BY <2>4 DEF x, y
<1> QED BY <1>6, <1>8, <1>9, <1>10 DEF new

-----------------------------------------------------------------------------
(* The loop over the passes *)

Loops(order, scope, passes) ==
    /\ passes \in [Nat -> Scopes]
    /\ passes[0] = scope
    /\ \A n \in Nat : passes[n + 1] = Pass(order, passes[n])

LEMMA ScopeRuns ==
    ASSUME NEW order, Lists(order), DirectScope \in Scopes
    PROVE  \E passes : Loops(order, DirectScope, passes) /\ Scope(order) = passes[Cardinality(Entities)]
<1> DEFINE f == [n \in Nat |-> [s \in Scopes |-> Pass(order, s)]]
           Runs(h) == h = [n \in Nat |-> IF n = 0 THEN DirectScope ELSE Pass(order, h[n - 1])]
           passes == CHOOSE h : Runs(h)
<1>1. f \in [Nat -> [Scopes -> Scopes]]
  <2> SUFFICES ASSUME NEW s \in Scopes PROVE Pass(order, s) \in Scopes
    OBVIOUS
  <2> QED BY PassFacts
<1>2. \A n \in Nat : \A s \in Scopes : f[n][s] = Pass(order, s)
  OBVIOUS
<1>3. PICK g : Iterates(g, Scopes, DirectScope, f)
  <2> HIDE DEF f
  <2> QED BY <1>1, IterationExists
<1> HIDE DEF f
<1>4. g \in [Nat -> Scopes] /\ g[0] = DirectScope /\ \A n \in Nat : g[n + 1] = f[n][g[n]]
  BY <1>3 DEF Iterates
<1>5. \A n \in Nat : g[n + 1] = Pass(order, g[n])
  BY <1>2, <1>4
<1>6. Runs(g)
  <2>1. ASSUME NEW n \in Nat PROVE g[n] = IF n = 0 THEN DirectScope ELSE Pass(order, g[n - 1])
    <3>1. CASE n = 0
      BY <1>4, <3>1
    <3>2. CASE n # 0
      <4>1. n - 1 \in Nat /\ (n - 1) + 1 = n
        BY <3>2
      <4>2. g[(n - 1) + 1] = Pass(order, g[n - 1])
        BY <1>5, <4>1
      <4> QED BY <3>2, <4>1, <4>2
    <3> QED BY <3>1, <3>2
  <2> QED BY <1>4, <2>1
<1>7. Runs(passes)
  <2> HIDE DEF Runs
  <2> QED BY <1>6
<1>8. Scope(order) = passes[Cardinality(Entities)]
  BY DEF Scope
<1> HIDE DEF passes
<1>9. passes[0] = DirectScope
  BY <1>7
<1>10. ASSUME NEW n \in Nat PROVE passes[n + 1] = Pass(order, passes[n])
  <2>1. n + 1 \in Nat /\ n + 1 # 0 /\ (n + 1) - 1 = n
    OBVIOUS
  <2> QED BY <1>7, <2>1
<1>11. \A n \in Nat : passes[n] \in Scopes
  <2> DEFINE S == {n \in Nat : passes[n] \in Scopes}
  <2>1. 0 \in S
    BY <1>9
  <2>2. ASSUME NEW n \in S PROVE n + 1 \in S
    BY <1>10, PassFacts
  <2>3. S \in SUBSET Nat
    OBVIOUS
  <2> HIDE DEF S
  <2>4. \A n \in Nat : n \in S
    BY <2>1, <2>2, <2>3, AllNumbers
  <2> QED BY <2>4 DEF S
<1>12. passes = [n \in Nat |-> passes[n]]
  BY <1>7
<1>13. passes \in [Nat -> Scopes]
  BY <1>11, <1>12
<1> QED BY <1>8, <1>9, <1>10, <1>13 DEF Loops

\* What is shown with a project only grows, and never beyond a whole that has what was
\* shown at first.
LEMMA LoopGrows ==
    ASSUME NEW order, Lists(order), NEW scope \in Scopes, NEW passes, Loops(order, scope, passes), NEW p \in Projects
    PROVE  /\ \A n \in Nat : ShownWith(p, passes[n]) \subseteq ShownWith(p, passes[n + 1])
           /\ \A n \in Nat : ShownWith(p, scope) \subseteq ShownWith(p, passes[n])
           /\ \A T \in SUBSET Entities : WholeIn(T, order) /\ ShownWith(p, scope) \subseteq T =>
                \A n \in Nat : ShownWith(p, passes[n]) \subseteq T
<1>1. ASSUME NEW n \in Nat
      PROVE  passes[n] \in Scopes /\ passes[n + 1] = Pass(order, passes[n])
  BY DEF Loops
<1>2. ASSUME NEW n \in Nat PROVE ShownWith(p, passes[n]) \subseteq ShownWith(p, passes[n + 1])
  <2>1. \A e \in Entities : passes[n][e] \subseteq Pass(order, passes[n])[e]
    BY <1>1, PassFacts
  <2> QED BY <1>1, <2>1 DEF ShownWith
<1>3. \A n \in Nat : ShownWith(p, scope) \subseteq ShownWith(p, passes[n])
  <2> DEFINE S == {n \in Nat : ShownWith(p, scope) \subseteq ShownWith(p, passes[n])}
  <2>1. 0 \in S
    BY DEF Loops
  <2>2. \A n \in S : n + 1 \in S
    BY <1>2
  <2>3. S \in SUBSET Nat
    OBVIOUS
  <2> HIDE DEF S
  <2>4. \A n \in Nat : n \in S
    BY <2>1, <2>2, <2>3, AllNumbers
  <2> QED BY <2>4 DEF S
<1>4. ASSUME NEW T \in SUBSET Entities, WholeIn(T, order), ShownWith(p, scope) \subseteq T
      PROVE  \A n \in Nat : ShownWith(p, passes[n]) \subseteq T
  <2> DEFINE S == {n \in Nat : ShownWith(p, passes[n]) \subseteq T}
  <2>1. 0 \in S
    BY <1>4 DEF Loops
  <2>2. ASSUME NEW n \in S PROVE n + 1 \in S
    <3>1. n \in Nat /\ ShownWith(p, passes[n]) \subseteq T
      BY <2>2
    <3>2. ShownWith(p, Pass(order, passes[n])) \subseteq T
      BY <1>1, <1>4, <3>1, PassFacts
    <3> QED BY <1>1, <3>1, <3>2
  <2>3. S \in SUBSET Nat
    OBVIOUS
  <2> HIDE DEF S
  <2>4. \A n \in Nat : n \in S
    BY <2>1, <2>2, <2>3, AllNumbers
  <2> QED BY <2>4 DEF S
<1> QED BY <1>2, <1>3, <1>4

\* A pass that shows nothing more with a project leaves it a whole, and so do all later
\* ones; each pass before that shows one entity more, so there is one by the number of
\* entities.
LEMMA LoopSettles ==
    ASSUME NEW order, Lists(order), NEW scope \in Scopes, NEW passes, Loops(order, scope, passes), NEW p \in Projects
    PROVE  WholeIn(ShownWith(p, passes[Cardinality(Entities)]), order)
<1> DEFINE N == Cardinality(Entities)
           Shown(n) == ShownWith(p, passes[n])
<1>1. IsFiniteSet(Entities) /\ N \in Nat
  BY FiniteEntities, FS_Union, FS_CardinalityType DEF Entities
<1>2. ASSUME NEW n \in Nat
      PROVE  /\ passes[n] \in Scopes /\ passes[n + 1] = Pass(order, passes[n])
             /\ Shown(n) \subseteq Entities /\ Shown(n) \subseteq Shown(n + 1)
             /\ IsFiniteSet(Shown(n)) /\ Cardinality(Shown(n)) \in Nat /\ Cardinality(Shown(n)) <= N
             /\ Shown(n + 1) = Shown(n) => WholeIn(Shown(n), order)
  <2>1. passes[n] \in Scopes /\ passes[n + 1] = Pass(order, passes[n])
    BY DEF Loops
  <2>2. Shown(n) \subseteq Entities /\ Shown(n) \subseteq Shown(n + 1)
    BY LoopGrows DEF ShownWith
  <2>3. Shown(n + 1) = Shown(n) => WholeIn(Shown(n), order)
    BY <2>1, PassFacts
  <2> HIDE DEF Shown, N
  <2>4. IsFiniteSet(Shown(n)) /\ Cardinality(Shown(n)) \in Nat /\ Cardinality(Shown(n)) <= Cardinality(Entities)
    BY <1>1, <2>2, FS_Subset, FS_CardinalityType
  <2> QED BY <2>1, <2>2, <2>3, <2>4 DEF N
<1>3. ASSUME NEW n \in Nat, WholeIn(Shown(n), order) PROVE Shown(n + 1) = Shown(n)
  <2>1. Shown(n) \in SUBSET Entities /\ Shown(n) \subseteq Shown(n)
    BY <1>2
  <2>2. ShownWith(p, Pass(order, passes[n])) \subseteq Shown(n)
    BY <1>2, <1>3, <2>1, PassFacts
  <2> QED BY <1>2, <2>2
<1> HIDE DEF Shown, N
<1> SUFFICES ASSUME ~ WholeIn(Shown(N), order) PROVE FALSE
  BY DEF Shown, N
<1>4. ASSUME NEW n \in Nat, n <= N PROVE ~ WholeIn(Shown(n), order)
  <2> SUFFICES ASSUME WholeIn(Shown(n), order) PROVE FALSE
    OBVIOUS
  <2> DEFINE S == {k \in Nat : Shown(n + k) = Shown(n)}
  <2>1. 0 \in S
    OBVIOUS
  <2>2. ASSUME NEW k \in S PROVE k + 1 \in S
    <3>1. k \in Nat /\ n + k \in Nat /\ (n + k) + 1 = n + (k + 1) /\ Shown(n + k) = Shown(n)
      BY <2>2
    <3>2. Shown((n + k) + 1) = Shown(n + k)
      BY <1>3, <3>1
    <3>3. Shown(n + (k + 1)) = Shown(n)
      BY <3>1, <3>2
    <3> QED BY <3>1, <3>3
  <2>3. S \in SUBSET Nat
    OBVIOUS
  <2> HIDE DEF S
  <2>4. \A k \in Nat : k \in S
    BY <2>1, <2>2, <2>3, AllNumbers
  <2>5. N - n \in Nat /\ n + (N - n) = N
    BY <1>1, <1>4
  <2>6. Shown(n + (N - n)) = Shown(n)
    BY <2>4, <2>5 DEF S
  <2> QED BY <2>5, <2>6
<1>5. \A n \in Nat : n <= N + 1 => n <= Cardinality(Shown(n))
  <2> DEFINE S == {n \in Nat : n <= N + 1 => n <= Cardinality(Shown(n))}
  <2>1. 0 \in S
    BY <1>2
  <2>2. ASSUME NEW n \in S PROVE n + 1 \in S
    <3> SUFFICES ASSUME n + 1 <= N + 1 PROVE n + 1 <= Cardinality(Shown(n + 1))
      OBVIOUS
    <3>1. n \in Nat /\ n + 1 \in Nat /\ n <= N /\ n <= Cardinality(Shown(n))
      BY <1>1, <2>2
    <3>2. Shown(n) \subseteq Shown(n + 1) /\ Shown(n) # Shown(n + 1)
      BY <1>2, <1>4, <3>1
    <3>3. /\ IsFiniteSet(Shown(n + 1)) /\ Cardinality(Shown(n)) \in Nat /\ Cardinality(Shown(n + 1)) \in Nat
      BY <1>2, <3>1
    <3>4. Cardinality(Shown(n)) < Cardinality(Shown(n + 1))
      BY <3>2, <3>3, FS_Subset
    <3> QED BY <3>1, <3>3, <3>4
  <2>3. S \in SUBSET Nat
    OBVIOUS
  <2> HIDE DEF S
  <2>4. \A n \in Nat : n \in S
    BY <2>1, <2>2, <2>3, AllNumbers
  <2> QED BY <2>4 DEF S
<1>6. N + 1 \in Nat /\ ~ (N + 1 <= N)
  BY <1>1
<1>7. N + 1 <= Cardinality(Shown(N + 1)) /\ Cardinality(Shown(N + 1)) <= N /\ Cardinality(Shown(N + 1)) \in Nat
  BY <1>2, <1>5, <1>6
<1> QED BY <1>1, <1>6, <1>7

-----------------------------------------------------------------------------
(* The scope of the graph *)

LEMMA TypesAreFinite == IsFiniteSet(Types)
<1> DEFINE f == [n \in 1..5 |-> CASE n = 1 -> "uses" [] n = 2 -> "related_to" [] n = 3 -> "has_document"
                                  [] n = 4 -> "created_from" [] n = 5 -> "mentions"]
<1>1. f \in [1..5 -> Types]
  BY DEF Types
<1>2. \A t \in Types : \E n \in 1..5 : f[n] = t
  <2>1. f[1] = "uses" /\ f[2] = "related_to" /\ f[3] = "has_document" /\ f[4] = "created_from" /\ f[5] = "mentions"
    OBVIOUS
  <2> HIDE DEF f
  <2>2. 1 \in 1..5 /\ 2 \in 1..5 /\ 3 \in 1..5 /\ 4 \in 1..5 /\ 5 \in 1..5
    OBVIOUS
  <2> QED BY <2>1, <2>2, Zenon DEF Types
<1> HIDE DEF f
<1>3. f \in Surjection(1..5, Types)
  BY <1>1, <1>2 DEF Surjection
<1>4. IsFiniteSet(1..5)
  <2>1. 1 \in Int /\ 5 \in Int
    OBVIOUS
  <2> QED BY <2>1, FS_Interval
<1> QED BY <1>3, <1>4, FS_Surjection

LEMMA KnowledgeRelationsFit ==
    ASSUME GraphFits
    PROVE  /\ \A r \in KnowledgeRelations : r.subject \in Entities /\ r.entity \in Entities
           /\ IsFiniteSet(KnowledgeRelations)
<1>1. \A r \in KnowledgeRelations : r \in Relations /\ r.subject \in Documents
  BY DEF KnowledgeRelations, Active, GraphFits, FitRelations
<1>2. \A r \in KnowledgeRelations : r.subject \in Entities /\ r.entity \in Entities
  BY <1>1 DEF Relations, Entities
<1> DEFINE Triples == Documents \X (Types \X Entities)
           f == [t \in Triples |-> Relation(t[1], t[2][1], t[2][2])]
           All == {f[t] : t \in Triples}
<1>3. IsFiniteSet(Triples)
  <2>1. IsFiniteSet(Entities)
    BY FiniteEntities, FS_Union DEF Entities
  <2>2. IsFiniteSet(Types \X Entities)
    BY <2>1, TypesAreFinite, FS_Product
  <2> QED BY <2>2, FiniteEntities, FS_Product
<1>4. f \in Surjection(Triples, All)
  <2> HIDE DEF Triples
  <2> QED BY DEF Surjection
<1>5. KnowledgeRelations \subseteq All
  <2> SUFFICES ASSUME NEW r \in KnowledgeRelations PROVE r \in All
    OBVIOUS
  <2>1. r.subject \in Documents /\ r.type \in Types /\ r.entity \in Entities
        /\ r = [subject |-> r.subject, type |-> r.type, entity |-> r.entity]
    BY <1>1 DEF Relations
  <2> DEFINE t == <<r.subject, <<r.type, r.entity>>>>
  <2>2. t \in Triples /\ t[1] = r.subject /\ t[2][1] = r.type /\ t[2][2] = r.entity
    BY <2>1
  <2>3. f[t] = r
    <3> HIDE DEF t, Triples
    <3>1. f[t] = Relation(t[1], t[2][1], t[2][2])
      BY <2>2
    <3> QED BY <2>1, <2>2, <3>1 DEF Relation
  <2> HIDE DEF t, f, Triples
  <2> QED BY <2>2, <2>3
<1> HIDE DEF f, All, Triples
<1>6. IsFiniteSet(All)
  BY <1>3, <1>4, FS_Surjection
<1> QED BY <1>2, <1>5, <1>6, FS_Subset

\* An order lists each knowledge relation.
LEMMA OrdersList ==
    ASSUME GraphFits, NEW order \in Orders
    PROVE  /\ Lists(order)
           /\ \A S : WholeIn(S, order) <=> \A r \in KnowledgeRelations : r.subject \in S <=> r.entity \in S
<1> DEFINE K == KnowledgeRelations
           D == 1..Cardinality(K)
<1>1. IsFiniteSet(K) /\ Cardinality(K) \in Nat
  BY KnowledgeRelationsFit, FS_CardinalityType
<1>2. order \in [D -> K] /\ \A i, j \in D : i # j => order[i] # order[j]
  BY DEF Orders, SetToSeqs
<1> HIDE DEF K
<1>3. Len(order) = Cardinality(K) /\ 1..Len(order) = D
  BY <1>1, <1>2
<1>4. order \in Injection(D, K)
  <2> HIDE DEF D
  <2>1. order \in [D -> K] /\ \A i, j \in D : order[i] = order[j] => i = j
    BY <1>2
  <2> QED BY <2>1 DEF Injection, IsInjective
<1>5. IsFiniteSet(D) /\ Cardinality(D) = Cardinality(K)
  BY <1>1, FS_Interval
<1> HIDE DEF D
<1>6. order \in Surjection(D, K)
  BY <1>1, <1>4, <1>5, FS_Injection
<1>7. \A r \in K : \E n \in D : order[n] = r
  BY <1>6 DEF Surjection
<1>8. Lists(order)
  BY <1>1, <1>2, <1>3, KnowledgeRelationsFit DEF Lists, K
<1>9. ASSUME NEW S PROVE WholeIn(S, order) <=> \A r \in K : r.subject \in S <=> r.entity \in S
  BY <1>2, <1>3, <1>7 DEF WholeIn
<1> QED BY <1>8, <1>9 DEF K

LEMMA ScopeConnects == GraphFits => ScopeIsConnection
<1> SUFFICES ASSUME GraphFits, NEW order \in Orders
             PROVE  /\ Pass(order, Scope(order)) = Scope(order)
                    /\ \A e \in Entities : Scope(order)[e] = {p \in Projects : e \in ConnectedWith(LinkedTo(p), Wholes)}
  <2> HIDE DEF Wholes, ConnectedWith
  <2>1. \A p \in Projects : [q \in Projects |-> ConnectedWith(LinkedTo(q), Wholes)][p] = ConnectedWith(LinkedTo(p), Wholes)
    OBVIOUS
  <2> QED BY <2>1 DEF ScopeIsConnection
<1> DEFINE shown == Scope(order)
           N == Cardinality(Entities)
<1>1. Lists(order)
  BY OrdersList
<1>2. \A S \in SUBSET Entities : S \in Wholes <=> WholeIn(S, order)
  BY OrdersList DEF Wholes
<1>3. DirectScope \in Scopes
  BY DEF DirectScope, Scopes
<1>4. ASSUME NEW p \in Projects
      PROVE  LinkedTo(p) \subseteq Entities /\ ShownWith(p, DirectScope) = LinkedTo(p)
  <2>1. LinkedTo(p) \subseteq Entities
    BY DEF LinkedTo, Active, GraphFits
  <2> QED BY <2>1 DEF ShownWith, DirectScope
<1>5. N \in Nat
  BY FiniteEntities, FS_Union, FS_CardinalityType DEF Entities
<1>6. PICK passes : Loops(order, DirectScope, passes) /\ shown = passes[N]
  BY <1>1, <1>3, ScopeRuns
<1> HIDE DEF shown
<1>7. shown \in Scopes
  BY <1>5, <1>6 DEF Loops
<1>8. ASSUME NEW p \in Projects
      PROVE  /\ WholeIn(ShownWith(p, shown), order)
             /\ ShownWith(p, shown) \in SUBSET Entities
             /\ LinkedTo(p) \subseteq ShownWith(p, shown)
             /\ \A T \in SUBSET Entities : WholeIn(T, order) /\ LinkedTo(p) \subseteq T => ShownWith(p, shown) \subseteq T
  <2>1. WholeIn(ShownWith(p, shown), order)
    BY <1>1, <1>3, <1>6, LoopSettles
  <2>2. ShownWith(p, shown) \in SUBSET Entities
    BY DEF ShownWith
  <2>3. /\ ShownWith(p, DirectScope) \subseteq ShownWith(p, passes[N])
        /\ \A T \in SUBSET Entities : WholeIn(T, order) /\ ShownWith(p, DirectScope) \subseteq T =>
                ShownWith(p, passes[N]) \subseteq T
    <3> HIDE DEF N
    <3> QED BY <1>1, <1>3, <1>5, <1>6, LoopGrows
  <2> QED BY <1>4, <1>6, <2>1, <2>2, <2>3
<1>9. Pass(order, shown) = shown
  <2> DEFINE new == Pass(order, shown)
  <2>1. new \in Scopes /\ \A e \in Entities : shown[e] \subseteq new[e]
    BY <1>1, <1>7, PassFacts
  <2>2. ASSUME NEW p \in Projects PROVE ShownWith(p, new) \subseteq ShownWith(p, shown)
    BY <1>1, <1>7, <1>8, PassFacts
  <2> HIDE DEF new
  <2>3. ASSUME NEW e \in Entities PROVE new[e] = shown[e]
    <3>1. \A p \in Projects : p \in new[e] => p \in shown[e]
      BY <2>2 DEF ShownWith
    <3>2. new[e] \subseteq Projects
      BY <2>1 DEF Scopes
    <3> QED BY <2>1, <3>1, <3>2
  <2>4. new = shown
    BY <1>7, <2>1, <2>3 DEF Scopes
  <2> QED BY <2>4 DEF new
<1>10. ASSUME NEW e \in Entities PROVE shown[e] = {p \in Projects : e \in ConnectedWith(LinkedTo(p), Wholes)}
  <2>1. shown[e] \subseteq Projects
    BY <1>7 DEF Scopes
  <2>2. ASSUME NEW p \in Projects PROVE p \in shown[e] <=> e \in ConnectedWith(LinkedTo(p), Wholes)
    <3>1. ASSUME p \in shown[e], NEW S \in Wholes, LinkedTo(p) \subseteq S PROVE e \in S
      <4>1. S \in SUBSET Entities
        BY DEF Wholes
      <4>2. ShownWith(p, shown) \subseteq S
        BY <1>2, <1>8, <3>1, <4>1
      <4> QED BY <3>1, <4>2 DEF ShownWith
    <3>2. ASSUME \A S \in Wholes : LinkedTo(p) \subseteq S => e \in S PROVE p \in shown[e]
      <4>1. ShownWith(p, shown) \in Wholes /\ LinkedTo(p) \subseteq ShownWith(p, shown)
        BY <1>2, <1>8
      <4> QED BY <3>2, <4>1 DEF ShownWith
    <3> QED BY <3>1, <3>2 DEF ConnectedWith
  <2> QED BY <2>1, <2>2
<1> QED BY <1>9, <1>10 DEF shown

\* The loop of build_knowledge_graph in app/knowledge_graph.py ends, and shows an entity
\* with the projects it is connected with and with no others: for any relations and
\* projects, and in whatever order the relations are listed.
THEOREM ScopeIsConnected == Spec => []ScopeIsConnection
<1>1. GraphInv => ScopeIsConnection
  BY ScopeConnects DEF GraphInv
<1> QED BY <1>1, GraphInvHolds, PTL

=============================================================================
