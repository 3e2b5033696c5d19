-------------------------- MODULE GraphSuggestions --------------------------
(***************************************************************************)
(* The knowledge graph and the reviewed way into it: suggestions found in  *)
(* the memory of a project (app/graph_suggestions.py,                      *)
(* app/graph_suggestion_routes.py), the routes that write relations        *)
(* directly (app/dashboard_routes.py), and the scope of the graph that is  *)
(* shown (app/knowledge_graph.py), next to the requests of SessionMemory   *)
(* whose tasks are the evidence.                                           *)
(*                                                                         *)
(* A request loads its rows and commits later.  Unlike session deltas,     *)
(* what a batch inserts is unique in the database: a commit that finds it  *)
(* there fails as a whole.                                                 *)
(***************************************************************************)
EXTENDS SessionMemory

CONSTANTS
    Home,           \* the project of the memory, whose batches are modelled
    Elsewhere,      \* other projects, which have the same documents
    Names,          \* entities that are not documents
    Documents,      \* entities that are documents
    Platforms,      \* the names that stand for the active sources of Home
    OriginOf,       \* the names a document says it comes from
    MentionedIn,    \* the names in the text of a document
    NamedBy,        \* the names in the text of a task
    MaxCalls,       \* bound: how many requests begin
    MaxSuggestions  \* the most suggestions in one batch: 16 in the code

ASSUME FiniteEntities == IsFiniteSet(Names) /\ IsFiniteSet(Documents)

ASSUME GraphAssumption ==
    /\ Platforms \subseteq Names
    /\ OriginOf \in [Documents -> SUBSET Names]
    /\ MentionedIn \in [Documents -> SUBSET Names]
    /\ NamedBy \in [Titles -> SUBSET Names]
    /\ MaxSuggestions \in Nat \ {0}

Projects == {Home} \cup Elsewhere
Entities == Names \cup Documents
Relation(subject, type, entity) == [subject |-> subject, type |-> type, entity |-> entity]
Types == {"uses", "related_to", "has_document", "created_from", "mentions"}

VARIABLES
    entities,       \* knowledge_entities
    relations,      \* project_relations and knowledge_relations, and if they are active
    batches,        \* graph_suggestion_batches, in the order of their creation
    owned,          \* relations the owner of a project made
    calls           \* how many requests have begun

graphVars == <<entities, relations, batches, owned>>
vars == <<sessionVars, graphVars, calls>>

Active == {r \in DOMAIN relations : relations[r]}
LinkedTo(project) == {r.entity : r \in {a \in Active : a.subject = project}}
LinkedDocuments == {r.entity : r \in {a \in Active : a.subject = Home /\ a.type = "has_document"}}

\* selected is a history: what reviewers selected in the applications that were committed.
Batch(found) == [status |-> "pending", suggests |-> found, selected |-> {}]

\* Projects that were onboarded with their documents (scripts/onboard_projects.py) and
\* know some of the names.
Init ==
    /\ SessionInit
    /\ \E known \in SUBSET Names : entities = Documents \cup known
    /\ owned = {Relation(p, "has_document", d) : p \in Projects, d \in Documents}
    /\ relations = [r \in owned |-> TRUE]
    /\ batches = <<>> /\ calls = 0

-----------------------------------------------------------------------------
(* POST /projects/{id}/graph/suggestions *)

\* The names in the memory of Home: in open tasks, which stand for all its texts, and
\* in its documents.
Named == UNION ({NamedBy[t] : t \in OpenTitles} \cup {MentionedIn[d] : d \in LinkedDocuments})

\* What the memory says: sources and names of what Home has no relation with yet, and
\* for each document of Home its origin and the names in its text.
Candidates ==
    {Relation(Home, "uses", e) : e \in Platforms \ LinkedTo(Home)}
    \cup {Relation(Home, "related_to", e) : e \in (Named \cap Names \cap entities) \ LinkedTo(Home)}
    \cup (UNION {{Relation(d, "created_from", e) : e \in OriginOf[d]} : d \in LinkedDocuments})
    \cup (UNION {{Relation(d, "mentions", e) : e \in (MentionedIn[d] \cap entities) \ OriginOf[d]} : d \in LinkedDocuments})

\* The relations that are there already are left out, and of the others some are kept:
\* the code keeps those it trusts most.
Discoveries ==
    LET new == Candidates \ Active IN kSubset(Min({Cardinality(new), MaxSuggestions}), new)

PendingBatches == {b \in DOMAIN batches : batches[b].status = "pending"}

\* A pending batch that suggests something is the answer; an empty one is superseded.
LoadToPrepare(q) ==
    /\ requests[q] = Idle
    /\ PendingBatches # {} => batches[Max(PendingBatches)].suggests = {}
    /\ \E found \in Discoveries :
        requests' = [requests EXCEPT ![q] =
            [at |-> "prepare", found |-> found,
             supersedes |-> IF PendingBatches = {} THEN 0 ELSE Max(PendingBatches)]]
    /\ UNCHANGED <<memory, edits, raced, graphVars>>

Superseded(b) == [b EXCEPT !.status = "superseded"]

PrepareBatch(q) ==
    LET r == requests[q]
    IN  /\ r.at = "prepare"
        /\ batches' = Append([b \in DOMAIN batches |-> IF b = r.supersedes THEN Superseded(batches[b]) ELSE batches[b]],
                             Batch(r.found))
        /\ requests' = [requests EXCEPT ![q] = Idle]
        /\ UNCHANGED <<memory, edits, raced, entities, relations, owned>>

-----------------------------------------------------------------------------
(* POST /graph-suggestions/{id}/apply and /discard *)

FoundPendingBatch(q, b) ==
    /\ requests[q] = Idle
    /\ batches[b].status = "pending"
    /\ UNCHANGED <<memory, edits, raced, graphVars>>

\* A suggestion about a document is passed over when the document is no longer linked
\* to the project, and any suggestion when its relation is active; a relation that was
\* removed comes back.
Applicable(s) ==
    /\ s \notin Active
    /\ s.subject \in Documents => s.subject \in LinkedTo(Home) /\ s.subject # s.entity

MissingEntities(selected) == {s.entity : s \in selected} \ entities

\* What an application is about to write.
Application(b, selected, chosen, missing) ==
    [at |-> "graph_apply", batch |-> b, selected |-> selected, chosen |-> chosen,
     entities |-> missing, inserts |-> chosen \ DOMAIN relations]

\* Mutant of LoadToApplyBatch: the entity a suggestion names is not created.
LoadToRelateOnly(q, b, selected) ==
    /\ FoundPendingBatch(q, b)
    /\ selected # {} /\ selected \subseteq batches[b].suggests
    /\ requests' = [requests EXCEPT ![q] = Application(b, selected, {s \in selected : Applicable(s)}, {})]

\* Mutant of LoadToApplyBatch: all suggestions are applied, whatever was selected.
LoadWholeBatch(q, b, selected) ==
    /\ FoundPendingBatch(q, b)
    /\ selected # {} /\ selected \subseteq batches[b].suggests
    /\ requests' = [requests EXCEPT ![q] =
        Application(b, selected, {s \in batches[b].suggests : Applicable(s)}, MissingEntities(batches[b].suggests))]

LoadToApplyBatch(q, b, selected) ==
    /\ FoundPendingBatch(q, b)
    /\ selected # {} /\ selected \subseteq batches[b].suggests
    /\ requests' = [requests EXCEPT ![q] =
        Application(b, selected, {s \in selected : Applicable(s)}, MissingEntities(selected))]

LoadToDiscardBatch(q, b) ==
    /\ FoundPendingBatch(q, b)
    /\ requests' = [requests EXCEPT ![q] = [at |-> "graph_discard", batch |-> b]]

Ended(b, status, selected) == [b EXCEPT !.status = status, !.selected = @ \cup selected]

WithRelations(added) == [r \in DOMAIN relations \cup added |-> r \in added \/ relations[r]]

\* Entities are written for every suggestion that was selected, also for those that
\* are passed over.
ApplyBatch(q) ==
    LET r == requests[q]
    IN  /\ r.at = "graph_apply"
        /\ r.entities \cap entities = {} /\ r.inserts \cap DOMAIN relations = {}
        /\ entities' = entities \cup r.entities
        /\ relations' = WithRelations(r.chosen)
        /\ batches' = [batches EXCEPT ![r.batch] = Ended(@, "applied", r.selected)]
        /\ requests' = [requests EXCEPT ![q] = Idle]
        /\ UNCHANGED <<memory, edits, raced, owned>>

\* A row that is there by now: the whole transaction fails, and nothing of it stays.
ApplyBatchFails(q) ==
    LET r == requests[q]
    IN  /\ r.at = "graph_apply"
        /\ r.entities \cap entities # {} \/ r.inserts \cap DOMAIN relations # {}
        /\ requests' = [requests EXCEPT ![q] = Idle]
        /\ UNCHANGED <<memory, edits, raced, graphVars>>

DiscardBatch(q) ==
    /\ requests[q].at = "graph_discard"
    /\ batches' = [batches EXCEPT ![requests[q].batch] = Ended(@, "discarded", {})]
    /\ requests' = [requests EXCEPT ![q] = Idle]
    /\ UNCHANGED <<memory, edits, raced, entities, relations, owned>>

-----------------------------------------------------------------------------
(* The routes by which the owner of Home writes relations *)

CreateRelation(type, entity) ==
    /\ edits < MaxEdits /\ edits' = edits + 1
    /\ Relation(Home, type, entity) \notin Active
    /\ entities' = entities \cup {entity}
    /\ relations' = WithRelations({Relation(Home, type, entity)})
    /\ owned' = owned \cup {Relation(Home, type, entity)}
    /\ UNCHANGED <<memory, requests, raced, batches>>

\* DELETE /relations/{id} and /knowledge-relations/{id}
DeleteRelation(r) ==
    /\ edits < MaxEdits /\ edits' = edits + 1
    /\ relations' = [relations EXCEPT ![r] = FALSE]
    /\ UNCHANGED <<memory, requests, raced, entities, batches, owned>>

-----------------------------------------------------------------------------
(* GET /graph: which projects an entity is shown with. *)

KnowledgeRelations == {r \in Active : r.subject \in Documents}

DirectScope == [e \in Entities |-> {p \in Projects : e \in LinkedTo(p)}]

\* Mutant of Widen: only the entity that a relation names is widened.
WidenTarget(r, scope) == [scope EXCEPT ![r.entity] = scope[r.subject] \cup scope[r.entity]]

\* One relation gives both its ends the projects of both.
Widen(r, scope) ==
    LET both == scope[r.subject] \cup scope[r.entity]
    IN  [scope EXCEPT ![r.subject] = both, ![r.entity] = both]

\* The relations in the order in which the database lists them, which is the same for
\* each pass; by type and time of creation, which say nothing here.
Orders == SetToSeqs(KnowledgeRelations)

Pass(order, scope) ==
    LET after[n \in 0..Len(order)] == IF n = 0 THEN scope ELSE Widen(order[n], after[n - 1])
    IN  after[Len(order)]

\* The loop goes over all relations until a pass changes nothing: one for each entity
\* is enough.
Scope(order) ==
    LET passes[n \in Nat] == IF n = 0 THEN DirectScope ELSE Pass(order, passes[n - 1])
    IN  passes[Cardinality(Entities)]

-----------------------------------------------------------------------------
GraphNext ==
    \/ \E e \in Names : CreateRelation("uses", e)
    \/ \E d \in Documents : CreateRelation("has_document", d)
    \/ \E r \in DOMAIN relations : DeleteRelation(r)
    \/ \E q \in Requests :
        \/ LoadToPrepare(q) \/ PrepareBatch(q)
        \/ ApplyBatch(q) \/ ApplyBatchFails(q) \/ DiscardBatch(q)
        \/ \E b \in DOMAIN batches :
            \/ LoadToDiscardBatch(q, b)
            \/ \E selected \in SUBSET batches[b].suggests : LoadToApplyBatch(q, b, selected)

\* A step that does not end a request begins one.
Counted ==
    /\ calls' = IF \E q \in Requests : requests[q] # Idle /\ requests'[q] = Idle THEN calls ELSE calls + 1
    /\ calls' <= MaxCalls

Next == (GraphNext \/ (SessionNext /\ UNCHANGED graphVars)) /\ Counted

Spec == Init /\ [][Next]_vars

-----------------------------------------------------------------------------
(* Properties *)

Relations == [subject : Projects \cup Documents, type : Types, entity : Entities]

TypeOK ==
    /\ SessionTypeOK
    /\ entities \subseteq Entities
    /\ DOMAIN relations \cup owned \subseteq Relations
    /\ \A r \in DOMAIN relations : relations[r] \in BOOLEAN /\ r.entity \in entities
    /\ batches \in Seq([status : Statuses \cup {"superseded"}, suggests : SUBSET Relations,
                        selected : SUBSET Relations])

\* A relation is in the graph because the owner made it, or because a batch suggested it
\* and a reviewer selected it in an application that was committed; and of such an
\* application all is there: the entities of what was selected, and the relations, but
\* for those of documents, which are passed over when the document is not linked.  That
\* a batch is applied or discarded only once is not said: two requests may both find it
\* pending.
GraphIsReviewed ==
    LET reviewed == UNION {batches[b].selected \cap batches[b].suggests : b \in DOMAIN batches}
    IN  /\ DOMAIN relations \subseteq owned \cup reviewed
        /\ \A s \in reviewed : s.entity \in entities /\ (s.subject \notin Documents => s \in DOMAIN relations)

\* The sets of entities that no relation leads into or out of.
Wholes ==
    LET links == KnowledgeRelations
    IN  {S \in SUBSET Entities : \A r \in links : r.subject \in S <=> r.entity \in S}

\* What some entities are connected with is in all of these sets that have them.
ConnectedWith(some, wholes) == {e \in Entities : \A S \in wholes : some \subseteq S => e \in S}

\* The loop ends, and an entity is shown with exactly the projects it is connected
\* with through relations between entities, in either direction and whatever the order
\* in which the database lists them.
ScopeIsConnection ==
    LET wholes == Wholes
        connected == [p \in Projects |-> ConnectedWith(LinkedTo(p), wholes)]
    IN  \A order \in Orders :
            LET shown == Scope(order)
            IN  /\ Pass(order, shown) = shown
                /\ \A e \in Entities : shown[e] = {p \in Projects : e \in connected[p]}

=============================================================================
