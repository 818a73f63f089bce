----------------------------- MODULE MemoryStore -----------------------------
(***************************************************************************)
(* The in-memory store of clients, conversations and exchanges             *)
(* (llm_proxy/store/memory.py, llm_proxy/model/conversation.py).           *)
(*                                                                         *)
(* Everything between two awaits of the event loop is one step, and no     *)
(* method of the store awaits, so each method is one action.  A dict is a  *)
(* function to its values or to None.  A conversation's deque is the set   *)
(* of its entries, ordered by sequence: append() is the only way in and    *)
(* numbers its argument with the next sequence.                            *)
(*                                                                         *)
(* Strings that the code joins with "::" are sequences of their parts, so  *)
(* that two pairs (client, tag) with one conversation id are such here.    *)
(***************************************************************************)
EXTENDS Integers, Sequences, FiniteSets

CONSTANTS
    ClientId,       \* client ids: the parts Pipeline.client_id() joins
    Tags,           \* x-conversation-id values; <<>> is "no tag"
    ExId,           \* exchange ids (uuid4: each is begun once)
    MaxExchanges,   \* retention_max_exchanges
    MaxAge,         \* retention_max_age_hours, in clock ticks
    MaxNow,         \* bound of the clock
    None            \* Python's None

ConvId(c, t) == c \o t
ConvIds == {ConvId(c, t) : c \in ClientId, t \in Tags}

\* An exchange in a ring: what the store and its readers tell apart.
Entry == [id : ExId, seq : Nat, born : Nat, inFlight : BOOLEAN]
Conversation == [client : ClientId, tag : Tags, nextSeq : Nat, ring : SUBSET Entry]
\* The caller of an exchange: it owes the store one add_exchange.
Call == [client : ClientId, tag : Tags, state : {"open", "stored", "dropped"}]

ASSUME StoreAssumption ==
    /\ MaxExchanges \in Nat
    /\ MaxAge \in Nat
    /\ MaxNow \in Nat
    /\ None \notin ConvIds
    /\ None \notin Conversation
    /\ None \notin Call

VARIABLES
    clients,        \* _clients: the registered client ids
    convs,          \* _conversations: cid -> Conversation
    inflight,       \* keys of _inflight
    inflightCid,    \* _inflight_cids: exchange id -> cid
    removed,        \* _removed: ids removed while in flight
    call,           \* the callers' side: exchange id -> Call
    now             \* time.time()

storeVars == <<clients, convs, inflight, inflightCid, removed, call, now>>

TypeOK ==
    /\ clients \in SUBSET ClientId
    /\ convs \in [ConvIds -> Conversation \cup {None}]
    /\ inflight \in SUBSET ExId
    /\ inflightCid \in [ExId -> ConvIds \cup {None}]
    /\ removed \in SUBSET ExId
    /\ call \in [ExId -> Call \cup {None}]
    /\ now \in Nat

Has(cid) == convs[cid] # None
CidOf(id) == ConvId(call[id].client, call[id].tag)
Open(id) == call[id] # None /\ call[id].state = "open"
\* The ids a reader finds in the conversation's ring.
IdsIn(conv) == {e.id : e \in conv.ring}
Stored == UNION {IdsIn(convs[cid]) : cid \in {x \in ConvIds : Has(x)}}
-----------------------------------------------------------------------------
Expired(e) == e.born < now - MaxAge

\* Mutant: an if for the while.
EvictOneOld(ring) ==
    {e \in ring : ~Expired(e) \/ \E f \in ring : f.seq < e.seq}

\* Pop from the left while the leftmost exchange is too old.
EvictOld(ring) == {e \in ring : \E f \in ring : f.seq <= e.seq /\ ~Expired(f)}

\* Mutant: off by one.
TrimLate(ring) ==
    IF Cardinality(ring) > MaxExchanges + 1
    THEN {e \in ring : \E f \in ring : f.seq < e.seq}
    ELSE ring

\* A deque with a maxlen discards its leftmost item when an append overfills it.
Trim(ring) ==
    IF Cardinality(ring) > MaxExchanges
    THEN {e \in ring : \E f \in ring : f.seq < e.seq}
    ELSE ring

\* Mutant: created_at is only set on placeholders.
NewEntryUndated(conv, id, flying) ==
    [id |-> id, seq |-> conv.nextSeq, born |-> IF flying THEN now ELSE 0, inFlight |-> flying]

NewEntry(conv, id, flying) ==
    [id |-> id, seq |-> conv.nextSeq, born |-> now, inFlight |-> flying]

Appended(conv, id, flying) ==
    [conv EXCEPT !.nextSeq = @ + 1,
                 !.ring = Trim(EvictOld(@) \cup {NewEntry(conv, id, flying)})]

\* The conversation get_or_create_conversation returns.
Opened(c, t) ==
    IF Has(ConvId(c, t)) THEN convs[ConvId(c, t)]
    ELSE [client |-> c, tag |-> t, nextSeq |-> 0, ring |-> {}]

\* Mutant: in_flight is never cleared.
FinalizedStillFlying(conv, id) == conv

\* Mutant: the finalized exchange takes a new sequence.
FinalizedRenumbered(conv, id) ==
    [conv EXCEPT !.nextSeq = @ + 1,
                 !.ring = {IF e.id = id THEN NewEntry(conv, id, FALSE) ELSE e : e \in @}]

\* The placeholder is overwritten where it stands, if it still stands anywhere.
Finalized(conv, id) ==
    [conv EXCEPT !.ring = {[e EXCEPT !.inFlight = @ /\ e.id # id] : e \in @}]
-----------------------------------------------------------------------------
StoreInit ==
    /\ clients = {}
    /\ convs = [cid \in ConvIds |-> None]
    /\ inflight = {}
    /\ inflightCid = [id \in ExId |-> None]
    /\ removed = {}
    /\ call = [id \in ExId |-> None]
    /\ now = 0

\* begin_exchange, called with a fresh exchange id.
BeginExchange(id, c, t) ==
    /\ call[id] = None
    /\ clients' = clients \cup {c}
    /\ convs' = [convs EXCEPT ![ConvId(c, t)] = Appended(Opened(c, t), id, TRUE)]
    /\ inflight' = inflight \cup {id}
    /\ inflightCid' = [inflightCid EXCEPT ![id] = ConvId(c, t)]
    /\ call' = [call EXCEPT ![id] = [client |-> c, tag |-> t, state |-> "open"]]
    /\ UNCHANGED <<removed, now>>

\* What the branches of add_exchange share: the caller's client and conversation
\* are created when they are missing, and conv takes the conversation's place.
AddTo(id, conv, result) ==
    /\ clients' = clients \cup {call[id].client}
    /\ convs' = [convs EXCEPT ![CidOf(id)] = conv]
    /\ call' = [call EXCEPT ![id].state = result]
    /\ inflight' = inflight \ {id}
    /\ UNCHANGED now

\* Mutant: the finalization is appended after all.
AddRemovedAppends(id) ==
    /\ Open(id)
    /\ id \in inflight /\ id \in removed
    /\ removed' = removed \ {id}
    /\ inflightCid' = [inflightCid EXCEPT ![id] = None]
    /\ AddTo(id, Appended(Opened(call[id].client, call[id].tag), id, FALSE), "stored")

\* The placeholder was removed while in flight: drop the finalization.
AddRemoved(id) ==
    /\ Open(id)
    /\ id \in inflight /\ id \in removed
    /\ removed' = removed \ {id}
    /\ inflightCid' = [inflightCid EXCEPT ![id] = None]
    /\ AddTo(id, Opened(call[id].client, call[id].tag), "dropped")

\* Mutant: the freshly built exchange is appended beside its placeholder.
AddPendingAppends(id) ==
    /\ Open(id)
    /\ id \in inflight /\ id \notin removed
    /\ inflightCid' = [inflightCid EXCEPT ![id] = None]
    /\ AddTo(id, Appended(Opened(call[id].client, call[id].tag), id, FALSE), "stored")
    /\ UNCHANGED removed

\* Finalize the placeholder in place.
AddPending(id) ==
    /\ Open(id)
    /\ id \in inflight /\ id \notin removed
    /\ inflightCid' = [inflightCid EXCEPT ![id] = None]
    /\ AddTo(id, Finalized(Opened(call[id].client, call[id].tag), id), "stored")
    /\ UNCHANGED removed

\* Mutant: the appended exchange keeps the flag of a placeholder.
AddUnknownFlying(id) ==
    /\ Open(id)
    /\ id \notin inflight
    /\ AddTo(id, Appended(Opened(call[id].client, call[id].tag), id, TRUE), "stored")
    /\ UNCHANGED <<removed, inflightCid>>

\* Mutant: the conversation is looked up, not created.
AddUnknownLooksUp(id) ==
    /\ Open(id)
    /\ id \notin inflight /\ Has(CidOf(id))
    /\ AddTo(id, Appended(Opened(call[id].client, call[id].tag), id, FALSE), "stored")
    /\ UNCHANGED <<removed, inflightCid>>

\* No placeholder (its conversation was cleared): append a finished exchange.
AddUnknown(id) ==
    /\ Open(id)
    /\ id \notin inflight
    /\ AddTo(id, Appended(Opened(call[id].client, call[id].tag), id, FALSE), "stored")
    /\ UNCHANGED <<removed, inflightCid>>

AddExchange(id) == AddRemoved(id) \/ AddPending(id) \/ AddUnknown(id)

\* The conversations of cids disappear with their in-flight bookkeeping.
Clear(cids) ==
    LET gone == {id \in ExId : inflightCid[id] \in cids} IN
    /\ convs' = [cid \in ConvIds |-> IF cid \in cids THEN None ELSE convs[cid]]
    /\ inflight' = inflight \ gone
    /\ inflightCid' = [id \in ExId |-> IF id \in gone THEN None ELSE inflightCid[id]]

ClearConversation(cid) ==
    /\ Clear({cid})
    /\ UNCHANGED <<clients, removed, call, now>>

\* Mutant: the sequence is remembered instead of the id.
RemoveExchangeBySeq(cid, ex) ==
    /\ convs' = [convs EXCEPT ![cid].ring = @ \ {ex}]
    /\ removed' = IF ex.inFlight THEN removed \cup {ex.seq} ELSE removed
    /\ UNCHANGED <<clients, inflight, inflightCid, call, now>>

\* ex is the exchange with the sequence the request names: see StoredOnce.
RemoveExchange(cid, ex) ==
    /\ convs' = [convs EXCEPT ![cid].ring = @ \ {ex}]
    /\ removed' = IF ex.inFlight THEN removed \cup {ex.id} ELSE removed
    /\ UNCHANGED <<clients, inflight, inflightCid, call, now>>

\* Mutant: only the conversation named like the client goes with it.
RemoveClientOnly(c) ==
    /\ c \in clients
    /\ clients' = clients \ {c}
    /\ Clear({c} \cap ConvIds)
    /\ UNCHANGED <<removed, call, now>>

RemoveClient(c) ==
    /\ c \in clients
    /\ clients' = clients \ {c}
    /\ Clear({cid \in ConvIds : Has(cid) /\ convs[cid].client = c})
    /\ UNCHANGED <<removed, call, now>>

Tick ==
    /\ now < MaxNow
    /\ now' = now + 1
    /\ UNCHANGED <<clients, convs, inflight, inflightCid, removed, call>>

\* What the REST handlers of the UI ask of the store, in any order.
UiStep ==
    \/ \E cid \in ConvIds : ClearConversation(cid)
    \/ \E cid \in ConvIds : Has(cid) /\ \E ex \in convs[cid].ring : RemoveExchange(cid, ex)
    \/ \E c \in ClientId : RemoveClient(c)

StoreNext ==
    \/ \E id \in ExId, c \in ClientId, t \in Tags : BeginExchange(id, c, t)
    \/ \E id \in ExId : AddExchange(id)
    \/ UiStep
    \/ Tick

StoreSpec == StoreInit /\ [][StoreNext]_storeVars
-----------------------------------------------------------------------------
(***************************************************************************)
(* Properties.                                                             *)
(***************************************************************************)

\* An exchange is stored at most once over all conversations, and within one
\* conversation a sequence below nextSeq names at most one exchange: re-appending
\* (memory.py:85) never doubles a placeholder, and a URL names one exchange.
StoredOnce ==
    \A c1, c2 \in ConvIds : Has(c1) /\ Has(c2) =>
        \A e1 \in convs[c1].ring, e2 \in convs[c2].ring :
            /\ e1.seq < convs[c1].nextSeq
            /\ (e1.id = e2.id \/ (c1 = c2 /\ e1.seq = e2.seq)) => (c1 = c2 /\ e1 = e2)

\* A pending card always resolves: an exchange listed as in flight is one whose
\* caller still owes its add_exchange, and that call will find this placeholder
\* in _inflight and finalize it rather than drop it or append a second one
\* (memory.py:69-83).
PendingResolves ==
    \A cid \in ConvIds : Has(cid) =>
        \A e \in convs[cid].ring : e.inFlight =>
            /\ Open(e.id) /\ CidOf(e.id) = cid
            /\ e.id \in inflight /\ inflightCid[e.id] = cid
            /\ e.id \notin removed

\* No finished exchange has a call still running: in_flight goes with the call.
DoneMeansEnded ==
    \A cid \in ConvIds : Has(cid) =>
        \A e \in convs[cid].ring : ~e.inFlight => call[e.id] # None /\ ~Open(e.id)

\* The two dicts of in-flight exchanges never disagree, and every entry belongs
\* to an open call whose conversation exists (memory.py:53-54, 69, 82, 100-102).
InflightConsistent ==
    \A id \in ExId :
        /\ id \in inflight <=> inflightCid[id] # None
        /\ id \in inflight => Open(id) /\ inflightCid[id] = CidOf(id) /\ Has(CidOf(id))

\* Every conversation belongs to a registered client and is filed under the id of
\* its own client and tag: the UI reaches conversations through list_clients only.
OwnerRegistered ==
    \A cid \in ConvIds : Has(cid) =>
        /\ convs[cid].client \in clients
        /\ ConvId(convs[cid].client, convs[cid].tag) = cid

\* Retention: no ring outgrows retention_max_exchanges (conversation.py:76).
RingBounded ==
    \A cid \in ConvIds : Has(cid) =>
        IsFiniteSet(convs[cid].ring) /\ Cardinality(convs[cid].ring) <= MaxExchanges

\* A ring is ordered by age, and nothing in it was created in the future: what
\* _evict_old relies on when it stops at the first exchange young enough.
RingByAge ==
    \A cid \in ConvIds : Has(cid) =>
        \A e, f \in convs[cid].ring : e.born <= now /\ (e.seq <= f.seq => e.born <= f.born)

\* Only exchanges that have begun are removed, and while the removal of an
\* in-flight exchange is pending, the exchange is stored nowhere.
RemovedHidden ==
    /\ \A id \in removed : call[id] # None
    /\ \A id \in removed \cap inflight : id \notin Stored

\* The inductive invariant.
IInv ==
    /\ TypeOK
    /\ StoredOnce
    /\ PendingResolves
    /\ DoneMeansEnded
    /\ InflightConsistent
    /\ OwnerRegistered
    /\ RingBounded
    /\ RingByAge
    /\ RemovedHidden

\* An exchange keeps its sequence as long as it is stored ("its sequence and ring
\* position stay stable", memory.py:75).
SequenceStable ==
    [][\A cid \in ConvIds : Has(cid) /\ Has(cid)' =>
        \A e \in convs[cid].ring, f \in convs'[cid].ring : e.id = f.id => e.seq = f.seq]_storeVars

\* As long as its conversation is not cleared, an exchange removed in flight is
\* not re-added, by its own finalization or by anything else (memory.py:84-86,
\* tests/test_ui_api.py:161-164).
RemovedNotReadded ==
    [][\A id \in removed \cap inflight : id \notin Stored']_storeVars

\* An append leaves no exchange older than retention_max_age_hours anywhere in the
\* ring, although _evict_old only looks at the left end (conversation.py:91-94).
AppendPurgesExpired ==
    [][\A cid \in ConvIds : Has(cid) /\ Has(cid)' /\ convs'[cid].nextSeq > convs[cid].nextSeq =>
        \A e \in convs'[cid].ring : ~Expired(e)]_storeVars

\* What the REST listing shows of an exchange.
ShownAs(id) ==
    LET entries == {e \in UNION {convs[cid].ring : cid \in {x \in ConvIds : Has(x)}} : e.id = id}
    IN  IF call[id] = None THEN "never"
        ELSE IF entries = {} THEN "gone"
        ELSE IF \E e \in entries : e.inFlight THEN "pending" ELSE "done"

Ledger == INSTANCE ExchangeLedger WITH
            shown <- [id \in ExId |-> ShownAs(id)],
            calling <- {id \in ExId : Open(id)}

\* The store implements the ledger: every step of it is, for each exchange at
\* once, a begin, an end, or a drop.
ImplementsLedger == Ledger!LedgerSpec
-----------------------------------------------------------------------------
(***************************************************************************)
(* What the documentation says and the code does not do.                   *)
(***************************************************************************)

\* "Ids of exchanges removed while in flight; their finalization is dropped in
\* add_exchange instead of stored (or re-appended)" (memory.py:18-20).
RemovalIsFinal == \A id \in removed : id \notin Stored
=============================================================================
