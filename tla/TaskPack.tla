------------------------------ MODULE TaskPack ------------------------------
(***************************************************************************)
(* AgentTaskPack: the human-approved unit of work a handoff is made from   *)
(* (app/agent_routes.py).  A pack is identified by its content             *)
(* fingerprint, which the database keeps unique.                           *)
(*                                                                         *)
(* A handler loads the pack, decides on what it loaded, and commits later; *)
(* the routes take no row lock, so several may be between the two.         *)
(***************************************************************************)
EXTENDS UnitOfWork

CONSTANTS
    PackClients,    \* server threads that may serve a pack request
    Packs           \* pack fingerprints

VARIABLES
    pack,           \* agent_task_packs.status, by fingerprint
    packCalls       \* requests that have loaded the pack and not committed

packVars == <<pack, packCalls>>

PackStatus == {"absent", "pending", "approved", "cancelled"}

PackCall == [client: PackClients, pack: Packs, loaded: PackStatus, status: PackStatus]

PackTypeOK ==
    /\ pack \in [Packs -> PackStatus]
    /\ packCalls \subseteq PackCall

PackInit ==
    /\ pack = [p \in Packs |-> "absent"]
    /\ packCalls = {}

-----------------------------------------------------------------------------
\* A handler up to its commit: it finds the pack in `from` and assigns `to`.
\* Any other status is answered with a conflict, or idempotently with the
\* pack as it is, and writes nothing.
PackHandler(c, p, from, to) ==
    /\ \A q \in packCalls : q.client # c
    /\ pack[p] = from
    /\ packCalls' = packCalls \cup {[client |-> c, pack |-> p, loaded |-> from, status |-> to]}
    /\ UNCHANGED pack

CreateAgentTaskPack(c, p) == PackHandler(c, p, "absent", "pending")

ApproveAgentTaskPack(c, p) == PackHandler(c, p, "pending", "approved")

CancelAgentTaskPack(c, p) == PackHandler(c, p, "pending", "cancelled")

\* The INSERT of a pack meets the unique constraint on the fingerprint.
FingerprintFree(q) == q.loaded = "absent" => pack[q.pack] = "absent"

CommitPack(q) ==
    /\ FingerprintFree(q)
    /\ pack' = [pack EXCEPT ![q.pack] = Flushed(@, q.loaded, q.status)]
    /\ packCalls' = packCalls \ {q}

\* IntegrityError, an error raised by the handler, or the end of the process.
RollbackPack(q) ==
    /\ packCalls' = packCalls \ {q}
    /\ UNCHANGED pack

PackNext ==
    \/ \E c \in PackClients, p \in Packs :
          \/ CreateAgentTaskPack(c, p)
          \/ ApproveAgentTaskPack(c, p)
          \/ CancelAgentTaskPack(c, p)
    \/ \E q \in packCalls : CommitPack(q) \/ RollbackPack(q)

PackSpec == PackInit /\ [][PackNext]_packVars

=============================================================================
