-------------------------- MODULE MemoryStoreProofs --------------------------
(***************************************************************************)
(* Proofs about the store, for every set of clients, tags and exchanges    *)
(* and every retention bound.                                              *)
(***************************************************************************)
EXTENDS MemoryStore, FiniteSetTheorems, WellFoundedInduction, TLAPS

\* get_or_create_conversation returns a conversation.
LEMMA OpenedType ==
    ASSUME TypeOK, NEW c \in ClientId, NEW t \in Tags
    PROVE  Opened(c, t) \in Conversation /\ ConvId(c, t) \in ConvIds
  <1>1. ConvId(c, t) \in ConvIds
    BY DEF ConvIds
  <1>2. CASE Has(ConvId(c, t))
    BY <1>1, <1>2 DEF TypeOK, Opened, Has
  <1>3. CASE ~Has(ConvId(c, t))
    BY <1>3, <1>1 DEF Opened, Conversation
  <1> QED
    BY <1>1, <1>2, <1>3

\* Eviction and trimming only discard.
LEMMA DiscardOnly ==
    ASSUME NEW ring
    PROVE  EvictOld(ring) \subseteq ring /\ Trim(ring) \subseteq ring
  BY DEF EvictOld, Trim

\* append() numbers its argument, keeps entries of the old ring and adds the new
\* one; owner and tag stay.
LEMMA AppendedType ==
    ASSUME NEW conv \in Conversation, NEW id \in ExId, NEW flying \in BOOLEAN, now \in Nat
    PROVE  /\ Appended(conv, id, flying) \in Conversation
           /\ Appended(conv, id, flying).client = conv.client
           /\ Appended(conv, id, flying).tag = conv.tag
           /\ Appended(conv, id, flying).nextSeq = conv.nextSeq + 1
           /\ NewEntry(conv, id, flying) \in Entry
           /\ Appended(conv, id, flying).ring
                 = Trim(EvictOld(conv.ring) \cup {NewEntry(conv, id, flying)})
           /\ Appended(conv, id, flying).ring
                 \subseteq conv.ring \cup {NewEntry(conv, id, flying)}
  <1> DEFINE new == NewEntry(conv, id, flying)
             grown == EvictOld(conv.ring) \cup {new}
  <1>1. new \in Entry
    BY DEF NewEntry, Entry, Conversation
  <1>2. Trim(grown) \subseteq conv.ring \cup {new}
    BY DiscardOnly
  <1>3. conv.ring \subseteq Entry
    BY DEF Conversation
  <1>4. Trim(grown) \in SUBSET Entry
    BY <1>1, <1>2, <1>3
  <1>5. Appended(conv, id, flying) = [conv EXCEPT !.nextSeq = conv.nextSeq + 1, !.ring = Trim(grown)]
    BY DEF Appended
  <1> HIDE DEF grown, new
  <1>6. Appended(conv, id, flying) \in Conversation
    <2>1. conv.client \in ClientId /\ conv.tag \in Tags /\ conv.nextSeq + 1 \in Nat
      BY DEF Conversation
    <2>2. Appended(conv, id, flying) = [client |-> conv.client, tag |-> conv.tag,
                                        nextSeq |-> conv.nextSeq + 1, ring |-> Trim(grown)]
      BY <1>5 DEF Conversation
    <2> QED
      BY <1>4, <2>1, <2>2 DEF Conversation
  <1>7. /\ Appended(conv, id, flying).client = conv.client
        /\ Appended(conv, id, flying).tag = conv.tag
        /\ Appended(conv, id, flying).nextSeq = conv.nextSeq + 1
        /\ Appended(conv, id, flying).ring = Trim(grown)
    BY <1>5 DEF Conversation
  <1> QED
    BY <1>1, <1>2, <1>6, <1>7 DEF grown, new

\* Finalizing changes nothing but the in_flight of one exchange.
LEMMA FinalizedType ==
    ASSUME NEW conv \in Conversation, NEW id \in ExId
    PROVE  /\ Finalized(conv, id) \in Conversation
           /\ Finalized(conv, id).client = conv.client
           /\ Finalized(conv, id).tag = conv.tag
           /\ Finalized(conv, id).nextSeq = conv.nextSeq
           /\ Finalized(conv, id).ring
                 = {[e EXCEPT !.inFlight = @ /\ e.id # id] : e \in conv.ring}
  <1> DEFINE ring == {[e EXCEPT !.inFlight = @ /\ e.id # id] : e \in conv.ring}
  <1>1. \A e \in conv.ring : [e EXCEPT !.inFlight = @ /\ e.id # id] \in Entry
    BY DEF Conversation, Entry
  <1>2. ring \in SUBSET Entry
    BY <1>1
  <1>3. Finalized(conv, id) = [conv EXCEPT !.ring = ring]
    BY DEF Finalized
  <1> HIDE DEF ring
  <1>4. Finalized(conv, id) \in Conversation
    BY <1>2, <1>3 DEF Conversation
  <1>5. /\ Finalized(conv, id).client = conv.client
        /\ Finalized(conv, id).tag = conv.tag
        /\ Finalized(conv, id).nextSeq = conv.nextSeq
        /\ Finalized(conv, id).ring = ring
    BY <1>3 DEF Conversation
  <1> QED
    BY <1>4, <1>5 DEF ring

\* An overfull ring has a leftmost exchange, and that one is discarded.
LEMMA TrimBounds ==
    ASSUME NEW ring \in SUBSET Entry, IsFiniteSet(ring),
           Cardinality(ring) <= MaxExchanges + 1
    PROVE  IsFiniteSet(Trim(ring)) /\ Cardinality(Trim(ring)) <= MaxExchanges
  <1>1. CASE Cardinality(ring) <= MaxExchanges
    BY <1>1, FS_CardinalityType, StoreAssumption DEF Trim
  <1>2. CASE Cardinality(ring) > MaxExchanges
    <2>1. Trim(ring) = {e \in ring : \E f \in ring : f.seq < e.seq}
      BY <1>2 DEF Trim
    <2>2. PICK first \in ring : \A f \in ring : ~(f.seq < first.seq)
      <3> DEFINE before(e) == {f \in ring : f.seq < e.seq}
                 R == StrictSubsetOrdering(ring)
                 T == {before(e) : e \in ring}
      <3>1. IsWellFoundedOn(R, FiniteSubsetsOf(ring))
        BY FS_StrictSubsetOrderingWellFounded
      <3>2. T \subseteq FiniteSubsetsOf(ring)
        <4>1. \A e \in ring : before(e) \in SUBSET ring
          OBVIOUS
        <4>2. \A U \in SUBSET ring : IsFiniteSet(U)
          BY FS_Subset
        <4> HIDE DEF before
        <4> QED
          BY <4>1, <4>2 DEF FiniteSubsetsOf
      <3>3. T # {}
        <4>1. Cardinality(ring) # 0
          BY <1>2, StoreAssumption
        <4>2. ring # {}
          BY <4>1, FS_EmptySet
        <4> QED
          BY <4>2
      <3>4. PICK x \in T : \A y \in T : ~(<<y, x>> \in R)
        <4> HIDE DEF T, R
        <4> QED
          BY <3>1, <3>2, <3>3, WFMin
      <3>5. PICK e \in ring : x = before(e)
        BY <3>4
      <3>6. \A f \in ring : f.seq < e.seq => <<before(f), before(e)>> \in R
        <4> SUFFICES ASSUME NEW f \in ring, f.seq < e.seq
                     PROVE  <<before(f), before(e)>> \in R
          OBVIOUS
        <4>1. before(f) \subseteq before(e)
          BY DEF Entry
        <4>2. f \in before(e) /\ f \notin before(f)
          BY DEF Entry
        <4>3. before(f) \in SUBSET ring /\ before(e) \in SUBSET ring
          OBVIOUS
        <4> HIDE DEF before
        <4> QED
          BY <4>1, <4>2, <4>3 DEF StrictSubsetOrdering
      <3>7. \A f \in ring : before(f) \in T
        OBVIOUS
      <3> HIDE DEF before, T, R
      <3> QED
        BY <3>4, <3>5, <3>6, <3>7
    <2>3. Trim(ring) \in SUBSET (ring \ {first})
      BY <2>1, <2>2
    <2>4. IsFiniteSet(ring \ {first}) /\ Cardinality(ring \ {first}) = Cardinality(ring) - 1
      BY <2>2, FS_RemoveElement
    <2>5. IsFiniteSet(Trim(ring)) /\ Cardinality(Trim(ring)) <= Cardinality(ring) - 1
      BY <2>3, <2>4, FS_Subset
    <2>6. Cardinality(ring) \in Nat /\ Cardinality(Trim(ring)) \in Nat
      BY <2>5, FS_CardinalityType
    <2> QED
      BY <2>5, <2>6, StoreAssumption
  <1> QED
    BY <1>1, <1>2, FS_CardinalityType, StoreAssumption

\* append() keeps the ring within retention_max_exchanges.
LEMMA AppendedBounded ==
    ASSUME NEW conv \in Conversation, NEW id \in ExId, NEW flying \in BOOLEAN, now \in Nat,
           IsFiniteSet(conv.ring), Cardinality(conv.ring) <= MaxExchanges
    PROVE  /\ IsFiniteSet(Appended(conv, id, flying).ring)
           /\ Cardinality(Appended(conv, id, flying).ring) <= MaxExchanges
  <1> DEFINE new == NewEntry(conv, id, flying)
             kept == EvictOld(conv.ring)
  <1>1. kept \in SUBSET conv.ring
    BY DiscardOnly
  <1> HIDE DEF new, kept
  <1>2. IsFiniteSet(kept) /\ Cardinality(kept) <= Cardinality(conv.ring)
    BY <1>1, FS_Subset
  <1>3. /\ IsFiniteSet(kept \cup {new})
        /\ Cardinality(kept \cup {new}) = IF new \in kept THEN Cardinality(kept) ELSE Cardinality(kept) + 1
    BY <1>2, FS_AddElement
  <1>4. Cardinality(kept) \in Nat /\ Cardinality(conv.ring) \in Nat
    BY <1>2, FS_CardinalityType
  <1>5. Cardinality(kept \cup {new}) <= MaxExchanges + 1
    BY <1>2, <1>3, <1>4, StoreAssumption
  <1>6. kept \cup {new} \in SUBSET Entry
    <2>1. new \in Entry /\ conv.ring \in SUBSET Entry
      BY AppendedType DEF Conversation, new
    <2> QED
      BY <1>1, <2>1
  <1> QED
    BY <1>3, <1>5, <1>6, TrimBounds, AppendedType DEF new, kept

\* Finalizing neither adds to a ring nor removes from it.
LEMMA FinalizedBounded ==
    ASSUME NEW conv \in Conversation, NEW id \in ExId,
           IsFiniteSet(conv.ring), Cardinality(conv.ring) <= MaxExchanges
    PROVE  /\ IsFiniteSet(Finalized(conv, id).ring)
           /\ Cardinality(Finalized(conv, id).ring) <= MaxExchanges
  <1> DEFINE f == [e \in conv.ring |-> [e EXCEPT !.inFlight = @ /\ e.id # id]]
  <1>1. f \in Surjection(conv.ring, Finalized(conv, id).ring)
    BY FinalizedType DEF Surjection
  <1>2. /\ IsFiniteSet(Finalized(conv, id).ring)
        /\ Cardinality(Finalized(conv, id).ring) <= Cardinality(conv.ring)
    BY <1>1, FS_Surjection
  <1>3. /\ Cardinality(Finalized(conv, id).ring) \in Nat
        /\ Cardinality(conv.ring) \in Nat
    BY <1>2, FS_CardinalityType
  <1> QED
    BY <1>2, <1>3, StoreAssumption
-----------------------------------------------------------------------------
\* A stored exchange has begun, and one whose call is open is pending.
LEMMA StoredBegun ==
    ASSUME IInv, NEW cid \in ConvIds, Has(cid), NEW e \in convs[cid].ring
    PROVE  /\ convs[cid] \in Conversation
           /\ e \in Entry /\ e.id \in ExId
           /\ e.id \in Stored
           /\ call[e.id] # None
           /\ Open(e.id) <=> e.inFlight
  <1>1. convs[cid] \in Conversation
    BY DEF IInv, TypeOK, Has
  <1>2. e \in Entry
    BY <1>1 DEF Conversation
  <1>3. e.id \in ExId /\ e.inFlight \in BOOLEAN
    BY <1>2 DEF Entry
  <1>4. e.id \in Stored
    BY DEF Stored, IdsIn
  <1>5. call[e.id] # None /\ (Open(e.id) <=> e.inFlight)
    BY <1>3 DEF IInv, PendingResolves, DoneMeansEnded, Open
  <1> QED
    BY <1>1, <1>2, <1>3, <1>4, <1>5

\* The effect of an append of exchange id on clients and rings, and what follows
\* from it when id is stored nowhere.
AppendsTo(id, c, t, flying) ==
    /\ convs' = [convs EXCEPT ![ConvId(c, t)] = Appended(Opened(c, t), id, flying)]
    /\ clients' = clients \cup {c}
    /\ now' = now

KeepsRings(id, c, t, flying) ==
    /\ clients' \in SUBSET ClientId
    /\ convs' \in [ConvIds -> Conversation \cup {None}]
    /\ StoredOnce' /\ OwnerRegistered' /\ RingBounded' /\ RingByAge'
    /\ Has(ConvId(c, t))'
    /\ \A x \in ConvIds : Has(x)' =>
          \A e \in convs'[x].ring :
             \/ Has(x) /\ e \in convs[x].ring
             \/ x = ConvId(c, t) /\ e = NewEntry(Opened(c, t), id, flying)
    /\ \A x \in ConvIds : Has(x) => Has(x)'

\* Appending an exchange keeps what concerns one ring.
LEMMA AppendStep ==
    ASSUME IInv,
           NEW id \in ExId, NEW c \in ClientId, NEW t \in Tags, NEW flying \in BOOLEAN,
           id \notin Stored, AppendsTo(id, c, t, flying)
    PROVE  KeepsRings(id, c, t, flying)
  <1> DEFINE cid == ConvId(c, t)
             conv == Opened(c, t)
             new == NewEntry(conv, id, flying)
             app == Appended(conv, id, flying)
  <1>1. cid \in ConvIds /\ conv \in Conversation
    BY OpenedType DEF IInv
  <1>2. now \in Nat /\ convs \in [ConvIds -> Conversation \cup {None}] /\ clients \in SUBSET ClientId
    BY DEF IInv, TypeOK
  <1>3. /\ app \in Conversation
        /\ app.client = conv.client /\ app.tag = conv.tag
        /\ app.nextSeq = conv.nextSeq + 1
        /\ new \in Entry
        /\ app.ring \subseteq conv.ring \cup {new}
    BY <1>1, <1>2, AppendedType
  <1>4. \/ Has(cid) /\ conv = convs[cid]
        \/ ~Has(cid) /\ conv.ring = {} /\ conv.client = c /\ conv.tag = t
    BY DEF Opened
  <1>5. new.id = id /\ new.seq = conv.nextSeq /\ new.born = now
    BY DEF NewEntry
  <1> HIDE DEF new, app, conv, cid
  <1>6. convs' \in [ConvIds -> Conversation \cup {None}]
    BY <1>1, <1>2, <1>3 DEF app, conv, cid, AppendsTo
  <1>7. convs'[cid] = app /\ app # None /\ \A x \in ConvIds : x # cid => convs'[x] = convs[x]
    BY <1>1, <1>2, <1>3, StoreAssumption DEF app, conv, cid, AppendsTo
  <1>8. Has(cid)' /\ \A x \in ConvIds : Has(x) => Has(x)'
    BY <1>7 DEF Has
  <1>9. ASSUME NEW x \in ConvIds, Has(x)', NEW e \in convs'[x].ring
        PROVE  \/ Has(x) /\ e \in convs[x].ring /\ (x = cid => conv = convs[cid])
               \/ x = cid /\ e = new
    BY <1>3, <1>4, <1>7, <1>9 DEF Has
  <1>10. ASSUME NEW x \in ConvIds, Has(x), NEW e \in convs[x].ring
         PROVE  /\ e.id # id /\ e \in Entry
                /\ e.seq \in Nat /\ e.born \in Nat /\ e.born <= now
                /\ e.seq < convs[x].nextSeq
    <2>1. e.id \in Stored /\ e \in Entry
      BY <1>10, StoredBegun
    <2>2. e.born <= now /\ e.seq < convs[x].nextSeq
      BY <1>10 DEF IInv, RingByAge, StoredOnce
    <2> QED
      BY <2>1, <2>2 DEF Entry
  <1>11. StoredOnce'
    <2> SUFFICES ASSUME NEW c1 \in ConvIds, NEW c2 \in ConvIds, Has(c1)', Has(c2)',
                        NEW e1 \in convs'[c1].ring, NEW e2 \in convs'[c2].ring
                 PROVE  /\ e1.seq < convs'[c1].nextSeq
                        /\ (e1.id = e2.id \/ (c1 = c2 /\ e1.seq = e2.seq)) => (c1 = c2 /\ e1 = e2)
      BY DEF StoredOnce
    <2>1. conv.nextSeq \in Nat
      BY <1>1 DEF Conversation
    <2> DEFINE same == (e1.id = e2.id \/ (c1 = c2 /\ e1.seq = e2.seq)) => (c1 = c2 /\ e1 = e2)
    <2>2. e1.seq < convs'[c1].nextSeq
      <3>1. CASE c1 = cid /\ e1 = new
        BY <3>1, <1>3, <1>5, <1>7, <2>1
      <3>2. CASE Has(c1) /\ e1 \in convs[c1].ring /\ c1 = cid /\ conv = convs[cid]
        BY <3>2, <1>10, <1>3, <1>7, <2>1
      <3>3. CASE Has(c1) /\ e1 \in convs[c1].ring /\ c1 # cid
        BY <3>3, <1>10, <1>7
      <3> QED
        BY <1>9, <3>1, <3>2, <3>3
    <2>3. ASSUME Has(c1), e1 \in convs[c1].ring, Has(c2), e2 \in convs[c2].ring
          PROVE  same
      BY <2>3 DEF IInv, StoredOnce
    <2>4. ASSUME Has(c1), e1 \in convs[c1].ring, c1 = cid => conv = convs[cid],
                 c2 = cid, e2 = new
          PROVE  same
      <3>1. e1.id # e2.id
        BY <2>4, <1>10, <1>5
      <3>2. c1 = c2 => e1.seq # e2.seq
        BY <2>4, <1>10, <1>5, <2>1
      <3> QED
        BY <3>1, <3>2
    <2>5. ASSUME Has(c2), e2 \in convs[c2].ring, c2 = cid => conv = convs[cid],
                 c1 = cid, e1 = new
          PROVE  same
      <3>1. e1.id # e2.id
        BY <2>5, <1>10, <1>5
      <3>2. c1 = c2 => e1.seq # e2.seq
        BY <2>5, <1>10, <1>5, <2>1
      <3> QED
        BY <3>1, <3>2
    <2>6. ASSUME c1 = cid, e1 = new, c2 = cid, e2 = new
          PROVE  same
      BY <2>6
    <2>7. same
      BY <1>9, <2>3, <2>4, <2>5, <2>6
    <2> QED
      BY <2>2, <2>7
  <1>12. OwnerRegistered'
    <2> SUFFICES ASSUME NEW x \in ConvIds, Has(x)'
                 PROVE  convs'[x].client \in clients' /\ ConvId(convs'[x].client, convs'[x].tag) = x
      BY DEF OwnerRegistered
    <2>1. CASE x # cid
      BY <2>1, <1>7 DEF Has, IInv, OwnerRegistered, AppendsTo
    <2>2. CASE x = cid /\ Has(cid)
      BY <2>2, <1>1, <1>3, <1>4, <1>7 DEF IInv, OwnerRegistered, AppendsTo
    <2>3. CASE x = cid /\ ~Has(cid)
      BY <2>3, <1>3, <1>4, <1>7 DEF cid, AppendsTo
    <2> QED
      BY <2>1, <2>2, <2>3
  <1>13. RingBounded'
    <2>1. IsFiniteSet(conv.ring) /\ Cardinality(conv.ring) <= MaxExchanges
      <3>1. CASE Has(cid) /\ conv = convs[cid]
        BY <1>1, <3>1 DEF IInv, RingBounded
      <3>2. CASE conv.ring = {}
        BY <3>2, FS_EmptySet, StoreAssumption
      <3> QED
        BY <1>4, <3>1, <3>2
    <2>2. IsFiniteSet(app.ring) /\ Cardinality(app.ring) <= MaxExchanges
      BY <1>1, <1>2, <2>1, AppendedBounded DEF app
    <2> QED
      BY <1>7, <2>2 DEF IInv, RingBounded, Has
  <1>14. RingByAge'
    <2> SUFFICES ASSUME NEW x \in ConvIds, Has(x)', NEW e \in convs'[x].ring, NEW f \in convs'[x].ring
                 PROVE  e.born <= now /\ (e.seq <= f.seq => e.born <= f.born)
      BY DEF RingByAge, AppendsTo
    <2>1. conv.nextSeq \in Nat
      BY <1>1 DEF Conversation
    <2>2. CASE Has(x) /\ e \in convs[x].ring /\ f \in convs[x].ring
      BY <2>2 DEF IInv, RingByAge
    <2> QED
      BY <1>2, <1>5, <1>9, <1>10, <2>1, <2>2
  <1>15. clients' \in SUBSET ClientId
    BY <1>2 DEF AppendsTo
  <1> QED
    BY <1>6, <1>8, <1>9, <1>11, <1>12, <1>13, <1>14, <1>15 DEF cid, new, conv, KeepsRings

\* Taking exchanges and conversations away keeps what concerns rings alone.
LEMMA ShrinkStep ==
    ASSUME IInv, now' \in Nat, now <= now',
           \A x \in ConvIds : Has(x)' =>
                /\ Has(x)
                /\ convs'[x].nextSeq = convs[x].nextSeq
                /\ convs'[x].ring \in SUBSET convs[x].ring
    PROVE  StoredOnce' /\ RingBounded' /\ RingByAge'
  <1>1. StoredOnce'
    <2> SUFFICES ASSUME NEW c1 \in ConvIds, NEW c2 \in ConvIds, Has(c1)', Has(c2)',
                        NEW e1 \in convs'[c1].ring, NEW e2 \in convs'[c2].ring
                 PROVE  /\ e1.seq < convs'[c1].nextSeq
                        /\ (e1.id = e2.id \/ (c1 = c2 /\ e1.seq = e2.seq)) => (c1 = c2 /\ e1 = e2)
      BY DEF StoredOnce
    <2>1. /\ Has(c1) /\ Has(c2) /\ convs'[c1].nextSeq = convs[c1].nextSeq
          /\ e1 \in convs[c1].ring /\ e2 \in convs[c2].ring
      OBVIOUS
    <2> QED
      BY <2>1 DEF IInv, StoredOnce
  <1>2. RingBounded'
    <2> SUFFICES ASSUME NEW x \in ConvIds, Has(x)'
                 PROVE  IsFiniteSet(convs'[x].ring) /\ Cardinality(convs'[x].ring) <= MaxExchanges
      BY DEF RingBounded
    <2>1. IsFiniteSet(convs[x].ring) /\ Cardinality(convs[x].ring) <= MaxExchanges
      BY DEF IInv, RingBounded
    <2>2. /\ IsFiniteSet(convs'[x].ring)
          /\ Cardinality(convs'[x].ring) <= Cardinality(convs[x].ring)
      BY <2>1, FS_Subset
    <2>3. Cardinality(convs'[x].ring) \in Nat /\ Cardinality(convs[x].ring) \in Nat
      BY <2>1, <2>2, FS_CardinalityType
    <2> QED
      BY <2>1, <2>2, <2>3, StoreAssumption
  <1>3. RingByAge'
    <2> SUFFICES ASSUME NEW x \in ConvIds, Has(x)',
                        NEW e \in convs'[x].ring, NEW f \in convs'[x].ring
                 PROVE  e.born <= now' /\ (e.seq <= f.seq => e.born <= f.born)
      BY DEF RingByAge
    <2>1. Has(x) /\ e \in convs[x].ring /\ f \in convs[x].ring
      OBVIOUS
    <2>2. e.born <= now /\ (e.seq <= f.seq => e.born <= f.born)
      BY <2>1 DEF IInv, RingByAge
    <2>3. e.born \in Nat /\ now \in Nat
      BY <2>1, StoredBegun DEF Entry, IInv, TypeOK
    <2> QED
      BY <2>2, <2>3
  <1> QED
    BY <1>1, <1>2, <1>3

\* In-flight bookkeeping of an exchange whose call is open.
LEMMA OpenCall ==
    ASSUME IInv, NEW id \in ExId, Open(id)
    PROVE  /\ call[id] \in Call /\ call[id].client \in ClientId /\ call[id].tag \in Tags
           /\ CidOf(id) \in ConvIds
           /\ id \in inflight =>
                /\ inflightCid[id] = CidOf(id) /\ Has(CidOf(id))
                /\ Opened(call[id].client, call[id].tag) = convs[CidOf(id)]
                /\ convs[CidOf(id)] \in Conversation
           /\ id \notin inflight => id \notin Stored
  <1>1. call[id] \in Call /\ call[id].client \in ClientId /\ call[id].tag \in Tags
    BY DEF IInv, TypeOK, Open, Call
  <1>2. CidOf(id) \in ConvIds
    BY <1>1 DEF CidOf, ConvIds
  <1>3. ASSUME id \in inflight
        PROVE  /\ inflightCid[id] = CidOf(id) /\ Has(CidOf(id))
               /\ Opened(call[id].client, call[id].tag) = convs[CidOf(id)]
               /\ convs[CidOf(id)] \in Conversation
    <2>1. inflightCid[id] = CidOf(id) /\ Has(CidOf(id))
      BY <1>3 DEF IInv, InflightConsistent
    <2> QED
      BY <1>2, <2>1 DEF Opened, CidOf, IInv, TypeOK, Has
  <1>4. ASSUME id \in Stored
        PROVE  id \in inflight
    <2>1. PICK x \in ConvIds : Has(x) /\ \E e \in convs[x].ring : e.id = id
      BY <1>4 DEF Stored, IdsIn
    <2>2. PICK e \in convs[x].ring : e.id = id
      BY <2>1
    <2>3. e.inFlight
      BY <2>1, <2>2, StoredBegun
    <2> QED
      BY <2>1, <2>2, <2>3 DEF IInv, PendingResolves
  <1> QED
    BY <1>1, <1>2, <1>3, <1>4

\* begin_exchange keeps the invariant.
LEMMA BeginStep ==
    ASSUME IInv, NEW id \in ExId, NEW c \in ClientId, NEW t \in Tags, BeginExchange(id, c, t)
    PROVE  IInv'
  <1> DEFINE cid == ConvId(c, t)
             new == NewEntry(Opened(c, t), id, TRUE)
             mine == [client |-> c, tag |-> t, state |-> "open"]
  <1>1. id \notin Stored
    <2> SUFFICES ASSUME NEW x \in ConvIds, Has(x), NEW e \in convs[x].ring
                 PROVE  e.id # id
      BY DEF Stored, IdsIn
    <2> QED
      BY StoredBegun DEF BeginExchange
  <1>2. KeepsRings(id, c, t, TRUE)
    <2>1. AppendsTo(id, c, t, TRUE)
      BY DEF BeginExchange, AppendsTo
    <2> QED
      BY <1>1, <2>1, AppendStep
  <1>3. cid \in ConvIds
    BY DEF ConvIds
  <1>4. mine \in Call /\ mine # None
    BY StoreAssumption DEF Call
  <1>5. /\ call' \in [ExId -> Call \cup {None}]
        /\ call[id] = None /\ call'[id] = mine /\ \A x \in ExId : x # id => call'[x] = call[x]
    BY <1>4 DEF BeginExchange, IInv, TypeOK
  <1>6. /\ inflightCid' \in [ExId -> ConvIds \cup {None}]
        /\ inflightCid'[id] = cid /\ \A x \in ExId : x # id => inflightCid'[x] = inflightCid[x]
    BY <1>3 DEF BeginExchange, IInv, TypeOK
  <1>7. inflight' = inflight \cup {id} /\ removed' = removed /\ now' = now
    BY DEF BeginExchange
  <1>8. Open(id)' /\ CidOf(id)' = cid /\ id \notin removed
    BY <1>4, <1>5 DEF Open, CidOf, IInv, RemovedHidden
  <1>9. \A x \in ExId : x # id => (Open(x)' <=> Open(x)) /\ CidOf(x)' = CidOf(x)
    BY <1>5 DEF Open, CidOf
  <1>10. new.id = id /\ new.inFlight
    BY DEF NewEntry
  <1> HIDE DEF cid, new, mine
  <1>11. TypeOK'
    BY <1>2, <1>5, <1>6, <1>7 DEF IInv, TypeOK, KeepsRings
  <1>12. ASSUME NEW x \in ConvIds, Has(x)', NEW e \in convs'[x].ring
         PROVE  /\ e.id \in ExId
                /\ \/ Has(x) /\ e \in convs[x].ring /\ e.id # id
                   \/ x = cid /\ e.id = id /\ e.inFlight
    <2>1. CASE Has(x) /\ e \in convs[x].ring
      BY <1>1, <2>1, StoredBegun
    <2>2. CASE x = cid /\ e = new
      BY <2>2, <1>10
    <2> QED
      BY <1>2, <1>12, <2>1, <2>2 DEF KeepsRings, cid, new
  <1>13. PendingResolves'
    BY <1>5, <1>6, <1>7, <1>8, <1>9, <1>12 DEF IInv, PendingResolves
  <1>14. DoneMeansEnded'
    BY <1>5, <1>8, <1>9, <1>12 DEF IInv, DoneMeansEnded
  <1>15. InflightConsistent'
    <2>1. cid # None
      BY <1>3, StoreAssumption
    <2>2. \A x \in ExId : x \in inflight => CidOf(x) \in ConvIds
      BY OpenCall DEF IInv, InflightConsistent
    <2> QED
      BY <1>2, <1>6, <1>7, <1>8, <1>9, <2>1, <2>2 DEF IInv, InflightConsistent, KeepsRings, cid
  <1>16. RemovedHidden'
    <2>1. \A x \in removed : x \in ExId /\ call'[x] # None
      BY <1>4, <1>5 DEF IInv, TypeOK, RemovedHidden
    <2>2. \A x \in removed \cap inflight' : x \notin Stored'
      <3> SUFFICES ASSUME NEW x \in removed \cap inflight', NEW y \in ConvIds, Has(y)',
                          NEW e \in convs'[y].ring, e.id = x
                   PROVE  FALSE
        BY DEF Stored, IdsIn
      <3>1. Has(y) /\ e \in convs[y].ring /\ x \in inflight
        BY <1>7, <1>8, <1>12
      <3>2. x \in Stored
        BY <3>1, StoredBegun
      <3> QED
        BY <3>1, <3>2 DEF IInv, RemovedHidden
    <2> QED
      BY <1>7, <2>1, <2>2 DEF RemovedHidden
  <1> QED
    BY <1>2, <1>11, <1>13, <1>14, <1>15, <1>16 DEF IInv, KeepsRings

\* The dropped finalization only closes the call: the conversation is there, since
\* clearing it would have forgotten the placeholder.
LEMMA AddRemovedStep ==
    ASSUME IInv, NEW id \in ExId, AddRemoved(id)
    PROVE  IInv'
  <1>1. Open(id) /\ id \in inflight /\ id \in removed
    BY DEF AddRemoved
  <1>2. /\ call[id] \in Call /\ CidOf(id) \in ConvIds /\ Has(CidOf(id))
        /\ Opened(call[id].client, call[id].tag) = convs[CidOf(id)]
    BY <1>1, OpenCall
  <1>3. convs' = convs
    BY <1>1, <1>2 DEF AddRemoved, AddTo, IInv, TypeOK
  <1>4. /\ inflight' = inflight \ {id} /\ removed' = removed \ {id} /\ now' = now
        /\ inflightCid' = [inflightCid EXCEPT ![id] = None]
        /\ call' = [call EXCEPT ![id].state = "dropped"]
        /\ clients' = clients \cup {call[id].client}
    BY DEF AddRemoved, AddTo
  <1>5. id \notin Stored
    BY <1>1 DEF IInv, RemovedHidden
  <1>6. call'[id] \in Call /\ call'[id].state = "dropped" /\ ~Open(id)'
    BY <1>2, <1>4 DEF Call, Open, IInv, TypeOK
  <1>7. /\ call' \in [ExId -> Call \cup {None}]
        /\ \A x \in ExId : x # id => call'[x] = call[x] /\ inflightCid'[x] = inflightCid[x]
        /\ inflightCid'[id] = None
    BY <1>4, <1>6 DEF IInv, TypeOK
  <1>8. \A x \in ExId : x # id => (Open(x)' <=> Open(x)) /\ CidOf(x)' = CidOf(x)
    BY <1>7 DEF Open, CidOf
  <1>9. \A x \in ConvIds : Has(x)' <=> Has(x)
    BY <1>3 DEF Has
  <1>10. TypeOK'
    BY <1>2, <1>3, <1>4, <1>7 DEF IInv, TypeOK, Call
  <1>11. StoredOnce' /\ RingBounded' /\ RingByAge' /\ OwnerRegistered'
    BY <1>3, <1>4, <1>9 DEF IInv, StoredOnce, RingBounded, RingByAge, OwnerRegistered
  <1>12. ASSUME NEW x \in ConvIds, Has(x)', NEW e \in convs'[x].ring
         PROVE  Has(x) /\ e \in convs[x].ring /\ e.id \in ExId /\ e.id # id
    BY <1>3, <1>5, <1>9, <1>12, StoredBegun
  <1>13. PendingResolves'
    BY <1>4, <1>7, <1>8, <1>12 DEF IInv, PendingResolves
  <1>14. DoneMeansEnded'
    BY <1>7, <1>8, <1>12 DEF IInv, DoneMeansEnded
  <1>15. InflightConsistent'
    BY <1>3, <1>4, <1>7, <1>8 DEF IInv, InflightConsistent, Has
  <1>16. RemovedHidden'
    BY <1>3, <1>4, <1>7, <1>9 DEF IInv, RemovedHidden, Stored, IdsIn, TypeOK, Has
  <1> QED
    BY <1>10, <1>11, <1>13, <1>14, <1>15, <1>16 DEF IInv

\* Entries of a finalized ring are those of the ring before, the finalized one
\* with in_flight cleared.
LEMMA FinalizedEntries ==
    ASSUME NEW conv \in Conversation, NEW id \in ExId, NEW f \in Finalized(conv, id).ring
    PROVE  \E e \in conv.ring :
              /\ e \in Entry /\ f \in Entry
              /\ f.id = e.id /\ f.seq = e.seq /\ f.born = e.born
              /\ f.inFlight = (e.inFlight /\ e.id # id)
              /\ f = [e EXCEPT !.inFlight = e.inFlight /\ e.id # id]
  <1>1. PICK e \in conv.ring : f = [e EXCEPT !.inFlight = e.inFlight /\ e.id # id]
    BY FinalizedType
  <1>2. e \in Entry
    BY DEF Conversation
  <1>3. /\ f.id = e.id /\ f.seq = e.seq /\ f.born = e.born /\ f \in Entry
        /\ f.inFlight = (e.inFlight /\ e.id # id)
    BY <1>1, <1>2 DEF Entry
  <1> QED
    BY <1>1, <1>2, <1>3

\* Finalizing a placeholder keeps it.
LEMMA AddPendingStep ==
    ASSUME IInv, NEW id \in ExId, AddPending(id)
    PROVE  IInv'
  <1> DEFINE cid == CidOf(id)
             conv == convs[cid]
             fin == Finalized(conv, id)
  <1>1. Open(id) /\ id \in inflight /\ id \notin removed
    BY DEF AddPending
  <1>2. /\ call[id] \in Call /\ cid \in ConvIds /\ Has(cid) /\ conv \in Conversation
        /\ Opened(call[id].client, call[id].tag) = conv
        /\ inflightCid[id] = cid
    BY <1>1, OpenCall
  <1>3. /\ fin \in Conversation /\ fin.client = conv.client /\ fin.tag = conv.tag
        /\ fin.nextSeq = conv.nextSeq
    BY <1>2, FinalizedType
  <1>4. /\ inflight' = inflight \ {id} /\ removed' = removed /\ now' = now
        /\ inflightCid' = [inflightCid EXCEPT ![id] = None]
        /\ call' = [call EXCEPT ![id].state = "stored"]
        /\ clients' = clients \cup {call[id].client}
        /\ convs' = [convs EXCEPT ![cid] = fin]
    BY <1>2 DEF AddPending, AddTo
  <1>5. \A f \in fin.ring : \E e \in conv.ring :
              /\ e \in Entry /\ f \in Entry
              /\ f.id = e.id /\ f.seq = e.seq /\ f.born = e.born
              /\ f.inFlight = (e.inFlight /\ e.id # id)
              /\ f = [e EXCEPT !.inFlight = e.inFlight /\ e.id # id]
    BY <1>2, FinalizedEntries
  <1>6. IsFiniteSet(fin.ring) /\ Cardinality(fin.ring) <= MaxExchanges
    BY <1>2, FinalizedBounded DEF IInv, RingBounded
  <1> HIDE DEF cid, conv, fin
  <1>7. call'[id] \in Call /\ call'[id].state = "stored" /\ ~Open(id)' /\ call'[id] # None
    BY <1>2, <1>4, StoreAssumption DEF Call, Open, IInv, TypeOK
  <1>8. /\ call' \in [ExId -> Call \cup {None}]
        /\ \A x \in ExId : x # id => call'[x] = call[x] /\ inflightCid'[x] = inflightCid[x]
        /\ inflightCid'[id] = None
    BY <1>4, <1>7 DEF IInv, TypeOK
  <1>9. \A x \in ExId : x # id => (Open(x)' <=> Open(x)) /\ CidOf(x)' = CidOf(x)
    BY <1>8 DEF Open, CidOf
  <1>10. convs'[cid] = fin /\ \A x \in ConvIds : x # cid => convs'[x] = convs[x]
    BY <1>2, <1>4 DEF IInv, TypeOK
  <1>11. \A x \in ConvIds : Has(x)' <=> Has(x)
    BY <1>2, <1>3, <1>10, StoreAssumption DEF Has
  <1>12. TypeOK'
    BY <1>2, <1>3, <1>4, <1>8 DEF IInv, TypeOK, Call
  <1>13. ASSUME NEW x \in ConvIds, Has(x)', NEW f \in convs'[x].ring
         PROVE  \E e \in convs[x].ring :
                    /\ Has(x) /\ e \in Entry /\ f \in Entry
                    /\ f.id = e.id /\ f.seq = e.seq /\ f.born = e.born
                    /\ f.inFlight = (e.inFlight /\ e.id # id)
                    /\ f = [e EXCEPT !.inFlight = e.inFlight /\ e.id # id]
    <2>1. CASE x = cid
      BY <1>5, <1>10, <1>11, <1>13, <2>1 DEF conv
    <2>2. CASE x # cid
      <3>1. Has(x) /\ f \in convs[x].ring
        BY <1>10, <1>11, <1>13, <2>2
      <3>2. f \in Entry /\ (f.inFlight => f.id # id)
        <4>1. f.inFlight => CidOf(f.id) = x
          BY <3>1 DEF IInv, PendingResolves
        <4> QED
          BY <3>1, <2>2, <4>1, StoredBegun DEF cid
      <3>3. f = [f EXCEPT !.inFlight = f.inFlight /\ f.id # id]
        BY <3>2 DEF Entry
      <3> QED
        BY <3>1, <3>2, <3>3 DEF Entry
    <2> QED
      BY <2>1, <2>2
  <1>14. \A x \in ConvIds : Has(x) =>
            /\ convs'[x].nextSeq = convs[x].nextSeq
            /\ convs'[x].client = convs[x].client /\ convs'[x].tag = convs[x].tag
    BY <1>3, <1>10 DEF conv
  <1>15. StoredOnce'
    <2> SUFFICES ASSUME NEW c1 \in ConvIds, NEW c2 \in ConvIds, Has(c1)', Has(c2)',
                        NEW f1 \in convs'[c1].ring, NEW f2 \in convs'[c2].ring
                 PROVE  /\ f1.seq < convs'[c1].nextSeq
                        /\ (f1.id = f2.id \/ (c1 = c2 /\ f1.seq = f2.seq)) => (c1 = c2 /\ f1 = f2)
      BY DEF StoredOnce
    <2>1. PICK e1 \in convs[c1].ring : /\ Has(c1) /\ f1.id = e1.id /\ f1.seq = e1.seq
                                       /\ f1 = [e1 EXCEPT !.inFlight = e1.inFlight /\ e1.id # id]
      BY <1>13
    <2>2. PICK e2 \in convs[c2].ring : /\ Has(c2) /\ f2.id = e2.id /\ f2.seq = e2.seq
                                       /\ f2 = [e2 EXCEPT !.inFlight = e2.inFlight /\ e2.id # id]
      BY <1>13
    <2>3. /\ e1.seq < convs[c1].nextSeq
          /\ (e1.id = e2.id \/ (c1 = c2 /\ e1.seq = e2.seq)) => (c1 = c2 /\ e1 = e2)
      BY <2>1, <2>2 DEF IInv, StoredOnce
    <2> QED
      BY <1>14, <2>1, <2>2, <2>3
  <1>16. OwnerRegistered'
    BY <1>4, <1>11, <1>14 DEF IInv, OwnerRegistered
  <1>17. RingBounded'
    BY <1>6, <1>10, <1>11 DEF IInv, RingBounded
  <1>18. RingByAge'
    <2> SUFFICES ASSUME NEW x \in ConvIds, Has(x)', NEW f \in convs'[x].ring, NEW g \in convs'[x].ring
                 PROVE  f.born <= now /\ (f.seq <= g.seq => f.born <= g.born)
      BY <1>4 DEF RingByAge
    <2>1. PICK e \in convs[x].ring : Has(x) /\ f.seq = e.seq /\ f.born = e.born
      BY <1>13
    <2>2. PICK d \in convs[x].ring : Has(x) /\ g.seq = d.seq /\ g.born = d.born
      BY <1>13
    <2> QED
      BY <2>1, <2>2 DEF IInv, RingByAge
  <1>19. PendingResolves'
    <2> SUFFICES ASSUME NEW x \in ConvIds, Has(x)', NEW f \in convs'[x].ring
                 PROVE  f.inFlight => /\ Open(f.id)' /\ CidOf(f.id)' = x
                                      /\ f.id \in inflight' /\ inflightCid'[f.id] = x
                                      /\ f.id \notin removed'
      BY DEF PendingResolves
    <2>1. PICK e \in convs[x].ring : /\ Has(x) /\ e \in Entry /\ f.id = e.id
                                     /\ f.inFlight = (e.inFlight /\ e.id # id)
      BY <1>13
    <2>2. e.id \in ExId
      BY <2>1 DEF Entry
    <2>3. e.inFlight => /\ Open(e.id) /\ CidOf(e.id) = x /\ inflightCid[e.id] = x
                        /\ e.id \in inflight /\ e.id \notin removed
      BY <2>1 DEF IInv, PendingResolves
    <2> QED
      BY <1>4, <1>8, <1>9, <2>1, <2>2, <2>3
  <1>20. DoneMeansEnded'
    <2> SUFFICES ASSUME NEW x \in ConvIds, Has(x)', NEW f \in convs'[x].ring, ~f.inFlight
                 PROVE  call'[f.id] # None /\ ~Open(f.id)'
      BY DEF DoneMeansEnded
    <2>1. PICK e \in convs[x].ring : /\ Has(x) /\ e \in Entry /\ f.id = e.id
                                     /\ f.inFlight = (e.inFlight /\ e.id # id)
      BY <1>13
    <2>2. e.id \in ExId
      BY <2>1 DEF Entry
    <2> QED
      BY <1>7, <1>8, <1>9, <2>1, <2>2 DEF IInv, DoneMeansEnded
  <1>21. InflightConsistent'
    <2>1. \A x \in ExId : x \in inflight => CidOf(x) \in ConvIds
      BY OpenCall DEF IInv, InflightConsistent
    <2> QED
      BY <1>4, <1>8, <1>9, <1>11, <2>1 DEF IInv, InflightConsistent
  <1>22. RemovedHidden'
    <2>1. \A x \in removed' : call'[x] # None
      BY <1>4, <1>7, <1>8 DEF IInv, RemovedHidden, TypeOK
    <2>2. \A x \in removed' \cap inflight' : x \notin Stored'
      <3> SUFFICES ASSUME NEW x \in removed' \cap inflight', NEW y \in ConvIds, Has(y)',
                          NEW f \in convs'[y].ring, f.id = x
                   PROVE  FALSE
        BY DEF Stored, IdsIn
      <3>1. PICK e \in convs[y].ring : Has(y) /\ f.id = e.id
        BY <1>13
      <3>2. x \in Stored /\ x \in removed \cap inflight
        BY <1>4, <3>1, StoredBegun
      <3> QED
        BY <3>2 DEF IInv, RemovedHidden
    <2> QED
      BY <2>1, <2>2 DEF RemovedHidden
  <1> QED
    BY <1>12, <1>15, <1>16, <1>17, <1>18, <1>19, <1>20, <1>21, <1>22 DEF IInv

\* Appending an exchange whose placeholder was cleared keeps it.
LEMMA AddUnknownStep ==
    ASSUME IInv, NEW id \in ExId, AddUnknown(id)
    PROVE  IInv'
  <1>1. Open(id) /\ id \notin inflight
    BY DEF AddUnknown
  <1> PICK c \in ClientId, t \in Tags : c = call[id].client /\ t = call[id].tag
    BY <1>1, OpenCall
  <1> DEFINE new == NewEntry(Opened(c, t), id, FALSE)
  <1>2. call[id] \in Call /\ id \notin Stored
    BY <1>1, OpenCall
  <1>3. /\ inflight' = inflight /\ removed' = removed /\ now' = now
        /\ inflightCid' = inflightCid
        /\ call' = [call EXCEPT ![id].state = "stored"]
        /\ clients' = clients \cup {c}
        /\ convs' = [convs EXCEPT ![ConvId(c, t)] = Appended(Opened(c, t), id, FALSE)]
    BY <1>1 DEF AddUnknown, AddTo, CidOf
  <1>4. KeepsRings(id, c, t, FALSE)
    <2>1. AppendsTo(id, c, t, FALSE)
      BY <1>3 DEF AppendsTo
    <2> QED
      BY <1>2, <2>1, AppendStep
  <1>5. new.id = id /\ new.inFlight = FALSE
    BY DEF NewEntry
  <1> HIDE DEF new
  <1>6. call'[id] \in Call /\ call'[id].state = "stored" /\ ~Open(id)' /\ call'[id] # None
    BY <1>2, <1>3, StoreAssumption DEF Call, Open, IInv, TypeOK
  <1>7. /\ call' \in [ExId -> Call \cup {None}]
        /\ \A x \in ExId : x # id => call'[x] = call[x]
    BY <1>3, <1>6 DEF IInv, TypeOK
  <1>8. \A x \in ExId : x # id => (Open(x)' <=> Open(x)) /\ CidOf(x)' = CidOf(x)
    BY <1>7 DEF Open, CidOf
  <1>9. TypeOK'
    BY <1>3, <1>4, <1>7 DEF IInv, TypeOK, KeepsRings
  <1>10. ASSUME NEW x \in ConvIds, Has(x)', NEW e \in convs'[x].ring
         PROVE  /\ e.id \in ExId
                /\ \/ Has(x) /\ e \in convs[x].ring /\ e.id # id
                   \/ e.id = id /\ e.inFlight = FALSE
    <2>1. CASE Has(x) /\ e \in convs[x].ring
      BY <1>2, <2>1, StoredBegun
    <2>2. CASE e = new
      BY <2>2, <1>5
    <2> QED
      BY <1>4, <1>10, <2>1, <2>2 DEF KeepsRings, new
  <1>11. PendingResolves'
    <2> SUFFICES ASSUME NEW x \in ConvIds, Has(x)', NEW e \in convs'[x].ring
                 PROVE  e.inFlight => /\ Open(e.id)' /\ CidOf(e.id)' = x
                                      /\ e.id \in inflight' /\ inflightCid'[e.id] = x
                                      /\ e.id \notin removed'
      BY DEF PendingResolves
    <2>1. ASSUME Has(x), e \in convs[x].ring, e.id # id
          PROVE  e.inFlight => /\ Open(e.id)' /\ CidOf(e.id)' = x
                               /\ e.id \in inflight' /\ inflightCid'[e.id] = x
                               /\ e.id \notin removed'
      <3>1. e.inFlight => /\ Open(e.id) /\ CidOf(e.id) = x
                          /\ e.id \in inflight /\ inflightCid[e.id] = x
                          /\ e.id \notin removed
        BY <2>1 DEF IInv, PendingResolves
      <3>2. e.id \in ExId
        BY <1>10
      <3> QED
        BY <2>1, <3>1, <3>2, <1>3, <1>8
    <2>2. CASE e.inFlight = FALSE
      BY <2>2
    <2> QED
      BY <1>10, <2>1, <2>2
  <1>12. DoneMeansEnded'
    BY <1>6, <1>7, <1>8, <1>10 DEF IInv, DoneMeansEnded
  <1>13. InflightConsistent'
    <2>1. \A x \in ExId : x \in inflight => CidOf(x) \in ConvIds
      BY OpenCall DEF IInv, InflightConsistent
    <2> QED
      BY <1>1, <1>3, <1>4, <1>8, <2>1 DEF IInv, InflightConsistent, KeepsRings
  <1>14. RemovedHidden'
    <2>1. \A x \in removed' : call'[x] # None
      BY <1>3, <1>6, <1>7 DEF IInv, RemovedHidden, TypeOK
    <2>2. \A x \in removed' \cap inflight' : x \notin Stored'
      <3> SUFFICES ASSUME NEW x \in removed' \cap inflight', NEW y \in ConvIds, Has(y)',
                          NEW e \in convs'[y].ring, e.id = x
                   PROVE  FALSE
        BY DEF Stored, IdsIn
      <3>1. Has(y) /\ e \in convs[y].ring
        BY <1>1, <1>3, <1>10
      <3>2. x \in Stored
        BY <3>1, StoredBegun
      <3> QED
        BY <1>3, <3>2 DEF IInv, RemovedHidden
    <2> QED
      BY <2>1, <2>2 DEF RemovedHidden
  <1> QED
    BY <1>4, <1>9, <1>11, <1>12, <1>13, <1>14 DEF IInv, KeepsRings

\* Clearing whole conversations forgets their placeholders with them.
LEMMA ClearStep ==
    ASSUME IInv, NEW cids \in SUBSET ConvIds, Clear(cids),
           UNCHANGED <<removed, call, now>>,
           clients' \in SUBSET clients,
           \A x \in ConvIds \ cids : Has(x) => convs[x].client \in clients'
    PROVE  IInv'
  <1> DEFINE gone == {id \in ExId : inflightCid[id] \in cids}
  <1>1. /\ convs' = [x \in ConvIds |-> IF x \in cids THEN None ELSE convs[x]]
        /\ inflight' = inflight \ gone
        /\ inflightCid' = [id \in ExId |-> IF id \in gone THEN None ELSE inflightCid[id]]
        /\ removed' = removed /\ call' = call /\ now' = now
    BY DEF Clear
  <1>2. ASSUME NEW x \in ConvIds
        PROVE  Has(x)' <=> (Has(x) /\ x \notin cids)
    BY <1>1 DEF Has
  <1>3. \A x \in ConvIds : Has(x)' => Has(x) /\ x \notin cids /\ convs'[x] = convs[x]
    BY <1>1, <1>2
  <1>4. \A id \in ExId : Open(id)' = Open(id) /\ CidOf(id)' = CidOf(id)
    BY <1>1 DEF Open, CidOf
  <1>5. TypeOK'
    BY <1>1 DEF IInv, TypeOK
  <1>6. StoredOnce' /\ RingBounded' /\ RingByAge'
    BY <1>1, <1>3, ShrinkStep DEF IInv, TypeOK
  <1>7. OwnerRegistered'
    BY <1>3 DEF IInv, OwnerRegistered
  <1>8. ASSUME NEW x \in ConvIds, Has(x)', NEW e \in convs'[x].ring
        PROVE  e.id \in ExId /\ Has(x) /\ x \notin cids /\ e \in convs[x].ring
    BY <1>3, <1>8, StoredBegun
  <1>9. PendingResolves'
    BY <1>1, <1>4, <1>8 DEF IInv, PendingResolves
  <1>10. DoneMeansEnded'
    BY <1>1, <1>4, <1>8 DEF IInv, DoneMeansEnded
  <1>11. InflightConsistent'
    <2>1. \A x \in ExId : x \in inflight => CidOf(x) \in ConvIds
      BY OpenCall DEF IInv, InflightConsistent
    <2> QED
      BY <1>1, <1>2, <1>4, <2>1 DEF IInv, InflightConsistent
  <1>12. RemovedHidden'
    <2>1. \A x \in removed' : call'[x] # None
      BY <1>1 DEF IInv, RemovedHidden
    <2>2. \A x \in removed' \cap inflight' : x \notin Stored'
      <3> SUFFICES ASSUME NEW x \in removed' \cap inflight', NEW y \in ConvIds, Has(y)',
                          NEW e \in convs'[y].ring, e.id = x
                   PROVE  FALSE
        BY DEF Stored, IdsIn
      <3>1. x \in Stored
        BY <1>8, StoredBegun
      <3> QED
        BY <1>1, <3>1 DEF IInv, RemovedHidden
    <2> QED
      BY <2>1, <2>2 DEF RemovedHidden
  <1> QED
    BY <1>5, <1>6, <1>7, <1>9, <1>10, <1>11, <1>12 DEF IInv

\* Removing an exchange keeps it, in flight or not.
LEMMA RemoveExchangeStep ==
    ASSUME IInv, NEW cid \in ConvIds, Has(cid), NEW ex \in convs[cid].ring, RemoveExchange(cid, ex)
    PROVE  IInv'
  <1> DEFINE conv == [convs[cid] EXCEPT !.ring = convs[cid].ring \ {ex}]
  <1>1. /\ convs[cid] \in Conversation /\ ex \in Entry /\ ex.id \in ExId /\ ex.id \in Stored
        /\ call[ex.id] # None
    BY StoredBegun
  <1>2. /\ convs' = [convs EXCEPT ![cid] = conv]
        /\ removed' = IF ex.inFlight THEN removed \cup {ex.id} ELSE removed
        /\ clients' = clients /\ inflight' = inflight /\ inflightCid' = inflightCid
        /\ call' = call /\ now' = now
    BY DEF RemoveExchange
  <1>3. /\ conv \in Conversation /\ conv.client = convs[cid].client /\ conv.tag = convs[cid].tag
        /\ conv.nextSeq = convs[cid].nextSeq /\ conv.ring = convs[cid].ring \ {ex}
    BY <1>1 DEF Conversation
  <1> HIDE DEF conv
  <1>4. convs'[cid] = conv /\ \A x \in ConvIds : x # cid => convs'[x] = convs[x]
    BY <1>2 DEF IInv, TypeOK
  <1>5. \A x \in ConvIds : Has(x)' <=> Has(x)
    BY <1>3, <1>4, StoreAssumption DEF Has
  <1>6. \A id \in ExId : Open(id)' = Open(id) /\ CidOf(id)' = CidOf(id)
    BY <1>2 DEF Open, CidOf
  <1>7. TypeOK'
    BY <1>1, <1>2, <1>3 DEF IInv, TypeOK
  <1>8. ASSUME NEW x \in ConvIds, Has(x)'
        PROVE  /\ Has(x) /\ convs'[x].nextSeq = convs[x].nextSeq
               /\ convs'[x].client = convs[x].client /\ convs'[x].tag = convs[x].tag
               /\ convs'[x].ring \in SUBSET convs[x].ring
    <2>1. Has(x)
      BY <1>5, <1>8
    <2>2. CASE x = cid
      BY <1>3, <1>4, <2>1, <2>2
    <2>3. CASE x # cid
      BY <1>4, <2>1, <2>3
    <2> QED
      BY <2>1, <2>2, <2>3
  <1>9. StoredOnce' /\ RingBounded' /\ RingByAge'
    <2>1. now' \in Nat /\ now <= now'
      BY <1>2 DEF IInv, TypeOK
    <2> QED
      BY <1>8, <2>1, ShrinkStep
  <1>10. OwnerRegistered'
    <2>1. clients' = clients
      BY <1>2
    <2> QED
      BY <1>8, <2>1 DEF IInv, OwnerRegistered
  \* ex was stored once, so its id is stored nowhere now.
  <1>11. ASSUME NEW x \in ConvIds, Has(x)', NEW e \in convs'[x].ring
         PROVE  Has(x) /\ e \in convs[x].ring /\ e.id \in ExId /\ e.id # ex.id
    <2>1. Has(x) /\ e \in convs[x].ring
      BY <1>8, <1>11
    <2>2. e.id = ex.id => x = cid /\ e = ex
      BY <2>1 DEF IInv, StoredOnce
    <2>3. ~(x = cid /\ e = ex)
      BY <1>3, <1>4
    <2> QED
      BY <2>1, <2>2, <2>3, StoredBegun
  <1>12. PendingResolves'
    BY <1>2, <1>6, <1>11 DEF IInv, PendingResolves
  <1>13. DoneMeansEnded'
    BY <1>2, <1>6, <1>11 DEF IInv, DoneMeansEnded
  <1>14. InflightConsistent'
    <2>1. \A x \in ExId : x \in inflight => CidOf(x) \in ConvIds
      BY OpenCall DEF IInv, InflightConsistent
    <2> QED
      BY <1>2, <1>5, <1>6, <2>1 DEF IInv, InflightConsistent
  <1>15. RemovedHidden'
    <2>1. \A x \in removed' : call'[x] # None
      BY <1>1, <1>2 DEF IInv, RemovedHidden
    <2>2. \A x \in removed' \cap inflight' : x \notin Stored'
      <3> SUFFICES ASSUME NEW x \in removed' \cap inflight', NEW y \in ConvIds, Has(y)',
                          NEW e \in convs'[y].ring, e.id = x
                   PROVE  FALSE
        BY DEF Stored, IdsIn
      <3>1. x # ex.id /\ x \in Stored
        BY <1>11, StoredBegun
      <3> QED
        BY <1>2, <3>1 DEF IInv, RemovedHidden
    <2> QED
      BY <2>1, <2>2 DEF RemovedHidden
  <1> QED
    BY <1>7, <1>9, <1>10, <1>12, <1>13, <1>14, <1>15 DEF IInv

\* Time alone changes nothing but the ages.
LEMMA TickStep ==
    ASSUME IInv, Tick \/ UNCHANGED storeVars
    PROVE  IInv'
  <1>1. /\ clients' = clients /\ convs' = convs /\ inflight' = inflight
        /\ inflightCid' = inflightCid /\ removed' = removed /\ call' = call
        /\ now' \in Nat /\ now <= now'
    BY DEF Tick, storeVars, IInv, TypeOK
  <1>2. StoredOnce' /\ RingBounded' /\ RingByAge'
    BY <1>1, ShrinkStep DEF Has
  <1>3. TypeOK'
    BY <1>1 DEF IInv, TypeOK
  <1>4. OwnerRegistered'
    BY <1>1 DEF IInv, OwnerRegistered, Has
  <1>5. PendingResolves' /\ DoneMeansEnded' /\ InflightConsistent'
    BY <1>1 DEF IInv, PendingResolves, DoneMeansEnded, InflightConsistent, Has, Open, CidOf
  <1>6. RemovedHidden'
    BY <1>1 DEF IInv, RemovedHidden, Stored, IdsIn, Has
  <1> QED
    BY <1>2, <1>3, <1>4, <1>5, <1>6 DEF IInv

\* The empty store satisfies the invariant.
LEMMA InitIInv == StoreInit => IInv
  <1> SUFFICES ASSUME StoreInit
               PROVE  IInv
    OBVIOUS
  <1>1. TypeOK
    BY DEF StoreInit, TypeOK
  <1>2. \A x \in ConvIds : ~Has(x)
    BY DEF StoreInit, Has
  <1>3. StoredOnce /\ PendingResolves /\ DoneMeansEnded /\ OwnerRegistered /\ RingBounded /\ RingByAge
    BY <1>2 DEF StoredOnce, PendingResolves, DoneMeansEnded, OwnerRegistered, RingBounded, RingByAge
  <1>4. InflightConsistent /\ RemovedHidden
    BY DEF StoreInit, InflightConsistent, RemovedHidden
  <1> QED
    BY <1>1, <1>3, <1>4 DEF IInv

\* Every step of the store keeps it.
LEMMA StepIInv == IInv /\ [StoreNext]_storeVars => IInv'
  <1> SUFFICES ASSUME IInv, [StoreNext]_storeVars
               PROVE  IInv'
    OBVIOUS
  <1>1. ASSUME NEW id \in ExId, NEW c \in ClientId, NEW t \in Tags, BeginExchange(id, c, t)
        PROVE  IInv'
    BY <1>1, BeginStep
  <1>2. ASSUME NEW id \in ExId, AddExchange(id)
        PROVE  IInv'
    BY <1>2, AddRemovedStep, AddPendingStep, AddUnknownStep DEF AddExchange
  <1>3. ASSUME NEW cid \in ConvIds, ClearConversation(cid)
        PROVE  IInv'
    BY <1>3, ClearStep DEF ClearConversation, IInv, OwnerRegistered
  <1>4. ASSUME NEW cid \in ConvIds, Has(cid), NEW ex \in convs[cid].ring, RemoveExchange(cid, ex)
        PROVE  IInv'
    BY <1>4, RemoveExchangeStep
  <1>5. ASSUME NEW c \in ClientId, RemoveClient(c)
        PROVE  IInv'
    <2> DEFINE owned == {cid \in ConvIds : Has(cid) /\ convs[cid].client = c}
    <2>1. Clear(owned) /\ UNCHANGED <<removed, call, now>> /\ clients' \in SUBSET clients
      BY <1>5 DEF RemoveClient, IInv, TypeOK
    <2>2. \A x \in ConvIds \ owned : Has(x) => convs[x].client \in clients'
      BY <1>5 DEF RemoveClient, IInv, OwnerRegistered
    <2> HIDE DEF owned
    <2> QED
      BY <2>1, <2>2, ClearStep DEF owned
  <1>6. CASE Tick \/ UNCHANGED storeVars
    BY <1>6, TickStep
  <1> QED
    BY <1>1, <1>2, <1>3, <1>4, <1>5, <1>6 DEF StoreNext, UiStep

\* The store's types hold and its rings, dicts and callers stay consistent with
\* each other in every reachable state.
THEOREM StoreIInv == StoreSpec => []IInv
  BY InitIInv, StepIInv, PTL DEF StoreSpec

\* Type correctness.
THEOREM StoreTypeOK == StoreSpec => []TypeOK
  <1>1. IInv => TypeOK
    BY DEF IInv
  <1> QED
    BY <1>1, StoreIInv, PTL

\* Every pending card of the UI resolves, in a store of any size.
THEOREM StorePendingResolves == StoreSpec => []PendingResolves
  <1>1. IInv => PendingResolves
    BY DEF IInv
  <1> QED
    BY <1>1, StoreIInv, PTL

\* No exchange is stored twice, no sequence names two exchanges.
THEOREM StoreStoredOnce == StoreSpec => []StoredOnce
  <1>1. IInv => StoredOnce
    BY DEF IInv
  <1> QED
    BY <1>1, StoreIInv, PTL

\* Retention bounds every ring.
THEOREM StoreRingBounded == StoreSpec => []RingBounded
  <1>1. IInv => RingBounded
    BY DEF IInv
  <1> QED
    BY <1>1, StoreIInv, PTL

\* Every conversation the UI can reach belongs to a registered client.
THEOREM StoreOwnerRegistered == StoreSpec => []OwnerRegistered
  <1>1. IInv => OwnerRegistered
    BY DEF IInv
  <1> QED
    BY <1>1, StoreIInv, PTL

\* What RemovalIsFinal becomes with what the code does: a removed exchange is stored
\* nowhere as long as it is in flight (memory.py:82-88).
THEOREM StoreRemovedHidden == StoreSpec => []RemovedHidden
  <1>1. IInv => RemovedHidden
    BY DEF IInv
  <1> QED
    BY <1>1, StoreIInv, PTL

\* Rings are ordered by age.
THEOREM StoreRingByAge == StoreSpec => []RingByAge
  <1>1. IInv => RingByAge
    BY DEF IInv
  <1> QED
    BY <1>1, StoreIInv, PTL
-----------------------------------------------------------------------------
\* Whatever a ring holds after a step was there before with the same sequence,
\* or it is an exchange that was stored nowhere and is not being removed.
Inherited(x, f) ==
    \/ Has(x) /\ \E e \in convs[x].ring : f.id = e.id /\ f.seq = e.seq
    \/ f.id \notin Stored /\ f.id \notin removed \cap inflight

\* Both appends take an exchange that is stored nowhere.
LEMMA InheritedByAppend ==
    ASSUME IInv, NEW id \in ExId, NEW c \in ClientId, NEW t \in Tags, NEW flying \in BOOLEAN,
           id \notin Stored, id \notin removed \cap inflight, AppendsTo(id, c, t, flying),
           NEW x \in ConvIds, Has(x)', NEW f \in convs'[x].ring
    PROVE  Inherited(x, f)
  <1>1. KeepsRings(id, c, t, flying)
    BY AppendStep
  <1>2. NewEntry(Opened(c, t), id, flying).id = id
    BY DEF NewEntry
  <1> QED
    BY <1>1, <1>2 DEF KeepsRings, Inherited

\* What a step leaves in a ring.
LEMMA RingsAfter ==
    ASSUME IInv, [StoreNext]_storeVars,
           NEW x \in ConvIds, Has(x)', NEW f \in convs'[x].ring
    PROVE  Inherited(x, f)
  <1>1. ASSUME NEW id \in ExId, NEW c \in ClientId, NEW t \in Tags, BeginExchange(id, c, t)
        PROVE  Inherited(x, f)
    <2>1. AppendsTo(id, c, t, TRUE) /\ call[id] = None
      BY <1>1 DEF BeginExchange, AppendsTo
    <2>2. id \notin Stored
      <3> SUFFICES ASSUME NEW y \in ConvIds, Has(y), NEW e \in convs[y].ring
                   PROVE  e.id # id
        BY DEF Stored, IdsIn
      <3> QED
        BY <2>1, StoredBegun
    <2>3. id \notin removed
      BY <2>1 DEF IInv, RemovedHidden
    <2> QED
      BY <2>1, <2>2, <2>3, InheritedByAppend
  <1>2. ASSUME NEW id \in ExId, AddRemoved(id)
        PROVE  Inherited(x, f)
    <2>1. convs' = convs
      BY <1>2, OpenCall DEF AddRemoved, AddTo, IInv, TypeOK
    <2> QED
      BY <2>1 DEF Inherited, Has
  <1>3. ASSUME NEW id \in ExId, AddPending(id)
        PROVE  Inherited(x, f)
    <2>1. /\ CidOf(id) \in ConvIds /\ Has(CidOf(id)) /\ convs[CidOf(id)] \in Conversation
          /\ convs' = [convs EXCEPT ![CidOf(id)] = Finalized(convs[CidOf(id)], id)]
      BY <1>3, OpenCall DEF AddPending, AddTo
    <2>2. CASE x = CidOf(id)
      <3>1. f \in Finalized(convs[x], id).ring
        BY <2>1, <2>2 DEF IInv, TypeOK
      <3> QED
        BY <2>1, <2>2, <3>1, FinalizedEntries DEF Inherited
    <2>3. CASE x # CidOf(id)
      BY <2>1, <2>3 DEF IInv, TypeOK, Inherited, Has
    <2> QED
      BY <2>2, <2>3
  <1>4. ASSUME NEW id \in ExId, AddUnknown(id)
        PROVE  Inherited(x, f)
    <2> PICK c \in ClientId, t \in Tags : c = call[id].client /\ t = call[id].tag
      BY <1>4, OpenCall DEF AddUnknown
    <2>1. AppendsTo(id, c, t, FALSE)
      BY <1>4 DEF AddUnknown, AddTo, CidOf, AppendsTo
    <2>2. id \notin inflight /\ id \notin Stored
      BY <1>4, OpenCall DEF AddUnknown
    <2> QED
      BY <2>1, <2>2, InheritedByAppend
  <1>5. ASSUME NEW cids \in SUBSET ConvIds, Clear(cids)
        PROVE  Inherited(x, f)
    BY <1>5 DEF Clear, Inherited, Has
  <1>6. ASSUME NEW cid \in ConvIds, Has(cid), NEW ex \in convs[cid].ring, RemoveExchange(cid, ex)
        PROVE  Inherited(x, f)
    <2>1. convs[cid] \in Conversation
      BY <1>6, StoredBegun
    <2>2. convs' = [convs EXCEPT ![cid] = [convs[cid] EXCEPT !.ring = convs[cid].ring \ {ex}]]
      BY <1>6 DEF RemoveExchange
    <2>3. Has(x) /\ f \in convs[x].ring
      BY <1>6, <2>1, <2>2, StoreAssumption DEF IInv, TypeOK, Has, Conversation
    <2> QED
      BY <2>3 DEF Inherited
  <1>7. CASE Tick \/ UNCHANGED storeVars
    BY <1>7 DEF Tick, storeVars, Inherited, Has
  <1>8. \A cid \in ConvIds : ClearConversation(cid) => \E cids \in SUBSET ConvIds : Clear(cids)
    BY DEF ClearConversation
  <1>9. \A c \in ClientId : RemoveClient(c) => \E cids \in SUBSET ConvIds : Clear(cids)
    BY DEF RemoveClient
  <1> QED
    BY <1>1, <1>2, <1>3, <1>4, <1>5, <1>6, <1>7, <1>8, <1>9 DEF StoreNext, AddExchange, UiStep

\* Sequences are stable.
THEOREM StoreSequenceStable == StoreSpec => SequenceStable
  <1> DEFINE Stable == \A cid \in ConvIds : Has(cid) /\ Has(cid)' =>
                          \A e \in convs[cid].ring, f \in convs'[cid].ring :
                             e.id = f.id => e.seq = f.seq
  <1>1. IInv /\ [StoreNext]_storeVars => Stable
    <2> SUFFICES ASSUME IInv, [StoreNext]_storeVars,
                        NEW cid \in ConvIds, Has(cid), Has(cid)',
                        NEW e \in convs[cid].ring, NEW f \in convs'[cid].ring, e.id = f.id
                 PROVE  e.seq = f.seq
      OBVIOUS
    <2>1. Inherited(cid, f)
      BY RingsAfter
    <2>2. e.id \in Stored
      BY StoredBegun
    <2>3. PICK d \in convs[cid].ring : f.id = d.id /\ f.seq = d.seq
      BY <2>1, <2>2 DEF Inherited
    <2>4. d = e
      BY <2>3 DEF IInv, StoredOnce
    <2> QED
      BY <2>3, <2>4
  <1> QED
    BY <1>1, StoreIInv, PTL DEF StoreSpec, SequenceStable

\* A removal in flight holds as long as its conversation does.
THEOREM StoreRemovedNotReadded == StoreSpec => RemovedNotReadded
  <1> DEFINE Hidden == \A id \in removed \cap inflight : id \notin Stored'
  <1>1. IInv /\ [StoreNext]_storeVars => Hidden
    <2> SUFFICES ASSUME IInv, [StoreNext]_storeVars,
                        NEW id \in removed \cap inflight,
                        NEW x \in ConvIds, Has(x)', NEW f \in convs'[x].ring, f.id = id
                 PROVE  FALSE
      BY DEF Stored, IdsIn
    <2>1. Inherited(x, f)
      BY RingsAfter
    <2>2. id \notin Stored
      BY DEF IInv, RemovedHidden
    <2>3. PICK e \in convs[x].ring : Has(x) /\ f.id = e.id
      BY <2>1 DEF Inherited
    <2> QED
      BY <2>2, <2>3, StoredBegun
  <1> QED
    BY <1>1, StoreIInv, PTL DEF StoreSpec, RemovedNotReadded

\* An append finds the ring in order of age, so that stopping at the first
\* exchange young enough leaves none that is too old.
LEMMA PurgedByAppend ==
    ASSUME IInv, NEW id \in ExId, NEW c \in ClientId, NEW t \in Tags, NEW flying \in BOOLEAN,
           AppendsTo(id, c, t, flying),
           NEW x \in ConvIds, Has(x), convs'[x].nextSeq > convs[x].nextSeq,
           NEW f \in convs'[x].ring
    PROVE  ~Expired(f)
  <1>1. convs[x] \in Conversation /\ now \in Nat
    BY DEF IInv, TypeOK, Has
  <1>2. x = ConvId(c, t)
    <2>1. convs[x].nextSeq \in Nat
      BY <1>1 DEF Conversation
    <2>2. x # ConvId(c, t) => convs'[x] = convs[x]
      BY DEF AppendsTo, IInv, TypeOK
    <2> QED
      BY <2>1, <2>2
  <1>3. convs'[x] = Appended(convs[x], id, flying)
    BY <1>2 DEF AppendsTo, Opened, IInv, TypeOK
  <1>4. f \in EvictOld(convs[x].ring) \/ f = NewEntry(convs[x], id, flying)
    <2> DEFINE grown == EvictOld(convs[x].ring) \cup {NewEntry(convs[x], id, flying)}
    <2>1. convs'[x].ring = Trim(grown)
      BY <1>1, <1>3, AppendedType
    <2>2. Trim(grown) \subseteq grown
      BY DiscardOnly
    <2>3. f \in grown
      BY <2>1, <2>2
    <2> QED
      BY <2>3
  <1>5. ASSUME f \in EvictOld(convs[x].ring)
        PROVE  ~Expired(f)
    <2>1. PICK g \in convs[x].ring : g.seq <= f.seq /\ ~Expired(g)
      BY <1>5 DEF EvictOld
    <2>2. f \in convs[x].ring
      BY <1>5, DiscardOnly
    <2>3. g.born <= f.born
      BY <2>1, <2>2 DEF IInv, RingByAge
    <2>4. f.born \in Nat /\ g.born \in Nat
      BY <2>2, StoredBegun DEF Entry
    <2> QED
      BY <1>1, <2>1, <2>3, <2>4, StoreAssumption DEF Expired
  <1>6. ASSUME f = NewEntry(convs[x], id, flying)
        PROVE  ~Expired(f)
    <2>1. f.born = now
      BY <1>6 DEF NewEntry
    <2> QED
      BY <1>1, <2>1, StoreAssumption DEF Expired
  <1> QED
    BY <1>4, <1>5, <1>6

\* Only an append takes a sequence.
LEMMA NumberingKept ==
    ASSUME IInv, NEW x \in ConvIds, Has(x), Has(x)',
           \/ \E id \in ExId : AddRemoved(id) \/ AddPending(id)
           \/ UiStep \/ Tick \/ UNCHANGED storeVars
    PROVE  convs'[x].nextSeq = convs[x].nextSeq
  <1>1. ASSUME NEW id \in ExId, AddRemoved(id)
        PROVE  convs'[x].nextSeq = convs[x].nextSeq
    BY <1>1, OpenCall DEF AddRemoved, AddTo, IInv, TypeOK
  <1>2. ASSUME NEW id \in ExId, AddPending(id)
        PROVE  convs'[x].nextSeq = convs[x].nextSeq
    <2>1. /\ CidOf(id) \in ConvIds /\ convs[CidOf(id)] \in Conversation
          /\ convs' = [convs EXCEPT ![CidOf(id)] = Finalized(convs[CidOf(id)], id)]
      BY <1>2, OpenCall DEF AddPending, AddTo
    <2> QED
      BY <2>1, FinalizedType DEF IInv, TypeOK
  <1>3. ASSUME NEW cids \in SUBSET ConvIds, Clear(cids)
        PROVE  convs'[x].nextSeq = convs[x].nextSeq
    BY <1>3 DEF Clear, Has
  <1>4. ASSUME NEW cid \in ConvIds, Has(cid), NEW ex \in convs[cid].ring, RemoveExchange(cid, ex)
        PROVE  convs'[x].nextSeq = convs[x].nextSeq
    <2>1. convs[cid] \in Conversation
      BY <1>4, StoredBegun
    <2>2. convs' = [convs EXCEPT ![cid] = [convs[cid] EXCEPT !.ring = convs[cid].ring \ {ex}]]
      BY <1>4 DEF RemoveExchange
    <2> QED
      BY <2>1, <2>2 DEF IInv, TypeOK, Conversation
  <1>5. CASE Tick \/ UNCHANGED storeVars
    BY <1>5 DEF Tick, storeVars
  <1>6. \A cid \in ConvIds : ClearConversation(cid) => \E cids \in SUBSET ConvIds : Clear(cids)
    BY DEF ClearConversation
  <1>7. \A c \in ClientId : RemoveClient(c) => \E cids \in SUBSET ConvIds : Clear(cids)
    BY DEF RemoveClient
  <1> QED
    BY <1>1, <1>2, <1>3, <1>4, <1>5, <1>6, <1>7 DEF UiStep

\* An append purges the ring of everything too old.
THEOREM StoreAppendPurges == StoreSpec => AppendPurgesExpired
  <1> DEFINE Purges == \A cid \in ConvIds :
                          Has(cid) /\ Has(cid)' /\ convs'[cid].nextSeq > convs[cid].nextSeq =>
                             \A e \in convs'[cid].ring : ~Expired(e)
  <1>1. IInv /\ [StoreNext]_storeVars => Purges
    <2> SUFFICES ASSUME IInv, [StoreNext]_storeVars,
                        NEW x \in ConvIds, Has(x), Has(x)',
                        convs'[x].nextSeq > convs[x].nextSeq,
                        NEW e \in convs'[x].ring
                 PROVE  ~Expired(e)
      OBVIOUS
    <2>1. ASSUME NEW id \in ExId, NEW c \in ClientId, NEW t \in Tags, BeginExchange(id, c, t)
          PROVE  ~Expired(e)
      BY <2>1, PurgedByAppend DEF BeginExchange, AppendsTo
    <2>2. ASSUME NEW id \in ExId, AddUnknown(id)
          PROVE  ~Expired(e)
      <3> PICK c \in ClientId, t \in Tags : c = call[id].client /\ t = call[id].tag
        BY <2>2, OpenCall DEF AddUnknown
      <3>1. AppendsTo(id, c, t, FALSE)
        BY <2>2 DEF AddUnknown, AddTo, CidOf, AppendsTo
      <3> QED
        BY <3>1, PurgedByAppend
    <2>3. ASSUME \/ \E id \in ExId : AddRemoved(id) \/ AddPending(id)
                 \/ UiStep \/ Tick \/ UNCHANGED storeVars
          PROVE  ~Expired(e)
      <3>1. convs'[x].nextSeq = convs[x].nextSeq
        BY <2>3, NumberingKept
      <3>2. convs[x].nextSeq \in Nat
        BY DEF IInv, TypeOK, Has, Conversation
      <3> QED
        BY <3>1, <3>2
    <2> QED
      BY <2>1, <2>2, <2>3 DEF StoreNext, AddExchange
  <1> QED
    BY <1>1, StoreIInv, PTL DEF StoreSpec, AppendPurgesExpired
-----------------------------------------------------------------------------
\* The listing of an exchange follows from whether it is stored and whether its
\* call is open.
Listed(id) ==
    IF call[id] = None THEN "never"
    ELSE IF id \notin Stored THEN "gone"
    ELSE IF Open(id) THEN "pending" ELSE "done"

\* A stored exchange is pending exactly as long as its call is open.
LEMMA ShownAsListed == IInv => \A id \in ExId : ShownAs(id) = Listed(id)
  <1> SUFFICES ASSUME IInv, NEW id \in ExId
               PROVE  ShownAs(id) = Listed(id)
    OBVIOUS
  <1> DEFINE entries == {e \in UNION {convs[cid].ring : cid \in {x \in ConvIds : Has(x)}} : e.id = id}
  <1>1. id \in Stored <=> entries # {}
    BY DEF Stored, IdsIn
  <1>2. \A e \in entries : e.inFlight <=> Open(id)
    <2> SUFFICES ASSUME NEW x \in ConvIds, Has(x), NEW e \in convs[x].ring, e.id = id
                 PROVE  e.inFlight <=> Open(id)
      OBVIOUS
    <2> QED
      BY StoredBegun
  <1>3. ShownAs(id) = IF call[id] = None THEN "never"
                      ELSE IF entries = {} THEN "gone"
                      ELSE IF \E e \in entries : e.inFlight THEN "pending" ELSE "done"
    BY DEF ShownAs
  <1> HIDE DEF entries
  <1> QED
    BY <1>1, <1>2, <1>3 DEF Listed

\* Two listings of an exchange, before and after, where its call did not change
\* and it was not stored anew.
LEMMA ListedOrDropped ==
    ASSUME NEW id \in ExId, call'[id] = call[id], id \in Stored' => id \in Stored
    PROVE  \/ Listed(id)' = Listed(id)
           \/ Listed(id) # "never" /\ Listed(id)' = "gone"
  BY DEF Listed, Open

\* Nothing but id is stored anew by a step.
OnlyStores(id) == \A x \in ExId \ {id} : x \in Stored' => x \in Stored

\* An append stores its own exchange only.
LEMMA AppendStores ==
    ASSUME IInv, NEW id \in ExId, NEW c \in ClientId, NEW t \in Tags, NEW flying \in BOOLEAN,
           id \notin Stored, AppendsTo(id, c, t, flying)
    PROVE  OnlyStores(id)
  <1>1. KeepsRings(id, c, t, flying)
    BY AppendStep
  <1>2. NewEntry(Opened(c, t), id, flying).id = id
    BY DEF NewEntry
  <1> SUFFICES ASSUME NEW x \in ExId \ {id}, NEW y \in ConvIds, Has(y)', NEW e \in convs'[y].ring,
                      e.id = x
               PROVE  x \in Stored
    BY DEF OnlyStores, Stored, IdsIn
  <1>3. Has(y) /\ e \in convs[y].ring
    BY <1>1, <1>2 DEF KeepsRings
  <1> QED
    BY <1>3, StoredBegun

\* The end of a call changes the listing of that exchange, and a pending one is
\* still stored.
LEMMA EndListing ==
    ASSUME IInv, NEW id \in ExId, AddExchange(id)
    PROVE  /\ OnlyStores(id)
           /\ id \in Stored => id \in Stored'
           /\ Open(id) /\ call[id] # None
           /\ call'[id] # None /\ ~Open(id)'
           /\ \A x \in ExId : x # id => call'[x] = call[x]
  <1>1. Open(id) /\ call[id] # None /\ call[id] \in Call
    BY OpenCall DEF AddExchange, AddRemoved, AddPending, AddUnknown, Open
  <1>2. PICK result \in {"stored", "dropped"} : call' = [call EXCEPT ![id].state = result]
    BY DEF AddExchange, AddRemoved, AddPending, AddUnknown, AddTo
  <1>3. /\ call'[id] \in Call /\ call'[id].state = result
        /\ \A x \in ExId : x # id => call'[x] = call[x]
    BY <1>1, <1>2 DEF IInv, TypeOK, Call
  <1>4. call'[id] # None /\ ~Open(id)'
    BY <1>3, StoreAssumption DEF Open
  <1>5. ASSUME AddRemoved(id)
        PROVE  OnlyStores(id) /\ (id \in Stored => id \in Stored')
    <2>1. convs' = convs
      BY <1>5, OpenCall DEF AddRemoved, AddTo, IInv, TypeOK
    <2> QED
      BY <2>1 DEF OnlyStores, Stored, Has, IdsIn
  <1>6. ASSUME AddPending(id)
        PROVE  OnlyStores(id) /\ (id \in Stored => id \in Stored')
    <2> PICK cid \in ConvIds : cid = CidOf(id)
      BY <1>1, OpenCall
    <2> DEFINE fin == Finalized(convs[cid], id)
    <2>1. /\ Has(cid) /\ convs[cid] \in Conversation
          /\ convs' = [convs EXCEPT ![cid] = fin]
      BY <1>6, OpenCall DEF AddPending, AddTo
    <2>2. fin \in Conversation /\ \A e \in convs[cid].ring : \E f \in fin.ring : f.id = e.id
      <3>1. fin.ring = {[e EXCEPT !.inFlight = @ /\ e.id # id] : e \in convs[cid].ring}
        BY <2>1, FinalizedType
      <3>2. \A e \in convs[cid].ring : [e EXCEPT !.inFlight = @ /\ e.id # id].id = e.id
        BY <2>1 DEF Conversation, Entry
      <3> QED
        <4>1. fin \in Conversation
          BY <2>1, FinalizedType
        <4>2. ASSUME NEW e \in convs[cid].ring
              PROVE  \E f \in fin.ring : f.id = e.id
          <5> DEFINE g == [e EXCEPT !.inFlight = @ /\ e.id # id]
          <5>1. g \in fin.ring /\ g.id = e.id
            BY <3>1, <3>2, <4>2
          <5> HIDE DEF g, fin
          <5> QED
            BY <5>1
        <4> QED
          BY <4>1, <4>2
    <2>3. \A f \in fin.ring : \E e \in convs[cid].ring : e.id = f.id
      BY <2>1, FinalizedEntries
    <2> HIDE DEF fin
    <2>4. IdsIn(fin) = IdsIn(convs[cid])
      BY <2>2, <2>3 DEF IdsIn
    <2>5. \A x \in ConvIds : (Has(x)' <=> Has(x)) /\ (Has(x) => IdsIn(convs'[x]) = IdsIn(convs[x]))
      BY <2>1, <2>2, <2>4, StoreAssumption DEF Has, IInv, TypeOK
    <2>6. Stored' = Stored
      BY <2>5 DEF Stored, IdsIn
    <2> QED
      BY <2>6 DEF OnlyStores
  <1>7. ASSUME AddUnknown(id)
        PROVE  OnlyStores(id) /\ (id \in Stored => id \in Stored')
    <2> PICK c \in ClientId, t \in Tags : c = call[id].client /\ t = call[id].tag
      BY <1>1, OpenCall
    <2>1. AppendsTo(id, c, t, FALSE)
      BY <1>7 DEF AddUnknown, AddTo, CidOf, AppendsTo
    <2>2. id \notin Stored
      BY <1>7, OpenCall DEF AddUnknown
    <2> QED
      BY <2>1, <2>2, AppendStores
  <1> QED
    BY <1>1, <1>3, <1>4, <1>5, <1>6, <1>7 DEF AddExchange

\* The listing of every exchange is the one its call and the rings give.
Listings == \A id \in ExId : ShownAs(id) = Listed(id)

\* The store implements the ledger.
THEOREM StoreImplementsLedger == StoreSpec => ImplementsLedger
  <1> DEFINE shown == [id \in ExId |-> ShownAs(id)]
             listed == [id \in ExId |-> Listed(id)]
             calling == {id \in ExId : Open(id)}
  <1>1. StoreInit => Ledger!LedgerInit
    BY DEF StoreInit, Ledger!LedgerInit, ShownAs, Open
  <1>2. IInv => Listings
    BY ShownAsListed DEF Listings
  <1>3. IInv /\ Listings /\ Listings' /\ [StoreNext]_storeVars => [Ledger!LedgerNext]_<<shown, calling>>
    <2> SUFFICES ASSUME IInv, Listings, Listings', [StoreNext]_storeVars
                 PROVE  Ledger!LedgerNext
      BY DEF Ledger!ledgerVars
    <2>1. shown = listed /\ shown' = listed'
      BY DEF Listings
    <2>2. shown' \in [ExId -> Ledger!Shown]
      BY <2>1 DEF Listed, Ledger!Shown
    <2>3. \A ids : (\A x \in ExId \ ids : call'[x] = call[x] /\ (x \in Stored' => x \in Stored))
                      => Ledger!MayDrop(ids)
      <3> SUFFICES ASSUME NEW ids, NEW x \in ExId \ ids,
                          call'[x] = call[x], x \in Stored' => x \in Stored
                   PROVE  \/ shown'[x] = shown[x]
                          \/ shown[x] # "never" /\ shown'[x] = "gone"
        BY DEF Ledger!MayDrop
      <3> QED
        BY <2>1, ListedOrDropped
    <2>4. \A x \in ExId : shown[x] = Listed(x) /\ shown'[x] = Listed(x)'
      BY <2>1
    <2> HIDE DEF shown, listed
    <2>5. ASSUME NEW id \in ExId, NEW c \in ClientId, NEW t \in Tags, BeginExchange(id, c, t)
          PROVE  Ledger!LedgerNext
      <3> DEFINE mine == [client |-> c, tag |-> t, state |-> "open"]
      <3>1. /\ call[id] = None /\ call'[id] = mine /\ mine # None /\ mine.state = "open"
            /\ \A x \in ExId : x # id => call'[x] = call[x]
        <4>1. mine \in Call
          BY DEF Call
        <4> QED
          BY <2>5, <4>1, StoreAssumption DEF BeginExchange, IInv, TypeOK
      <3>2. id \notin Stored
        <4> SUFFICES ASSUME NEW y \in ConvIds, Has(y), NEW e \in convs[y].ring
                     PROVE  e.id # id
          BY DEF Stored, IdsIn
        <4> QED
          BY <3>1, StoredBegun
      <3>3. OnlyStores(id)
        BY <2>5, <3>2, AppendStores DEF BeginExchange, AppendsTo
      <3> HIDE DEF mine
      <3>4. shown[id] = "never" /\ shown'[id] \in {"pending", "gone"}
        BY <2>4, <3>1 DEF Listed, Open
      <3>5. calling' = calling \cup {id}
        BY <3>1 DEF Open
      <3>6. Ledger!MayDrop({id})
        BY <2>3, <3>1, <3>3 DEF OnlyStores
      <3> QED
        BY <2>2, <3>4, <3>5, <3>6 DEF Ledger!LedgerNext, Ledger!Begin, shown
    <2>6. ASSUME NEW id \in ExId, AddExchange(id)
          PROVE  Ledger!LedgerNext
      <3>1. /\ OnlyStores(id)
            /\ id \in Stored => id \in Stored'
            /\ Open(id) /\ call[id] # None
            /\ call'[id] # None /\ ~Open(id)'
            /\ \A x \in ExId : x # id => call'[x] = call[x]
        BY <2>6, EndListing
      <3>2. shown'[id] \in {"done", "gone"} /\ (shown[id] = "pending" => shown'[id] = "done")
        BY <2>4, <3>1 DEF Listed
      <3>3. id \in calling /\ calling' = calling \ {id}
        BY <3>1 DEF Open
      <3>4. Ledger!MayDrop({id})
        BY <2>3, <3>1 DEF OnlyStores
      <3> QED
        BY <2>2, <3>2, <3>3, <3>4 DEF Ledger!LedgerNext, Ledger!End, shown
    <2>7. ASSUME call' = call, \A x \in ExId : x \in Stored' => x \in Stored
          PROVE  Ledger!LedgerNext
      <3>1. Ledger!MayDrop({})
        BY <2>3, <2>7
      <3>2. calling' = calling
        BY <2>7 DEF Open
      <3> QED
        BY <2>2, <3>1, <3>2 DEF Ledger!LedgerNext, Ledger!Drop, shown
    <2>8. ASSUME NEW cids \in SUBSET ConvIds, Clear(cids)
          PROVE  \A x \in ExId : x \in Stored' => x \in Stored
      BY <2>8 DEF Clear, Stored, IdsIn, Has
    <2>9. ASSUME NEW cid \in ConvIds, Has(cid), NEW ex \in convs[cid].ring, RemoveExchange(cid, ex)
          PROVE  \A x \in ExId : x \in Stored' => x \in Stored
      <3>1. convs[cid] \in Conversation
        BY <2>9, StoredBegun
      <3>2. convs' = [convs EXCEPT ![cid] = [convs[cid] EXCEPT !.ring = convs[cid].ring \ {ex}]]
        BY <2>9 DEF RemoveExchange
      <3>3. \A x \in ConvIds : Has(x)' => Has(x) /\ convs'[x].ring \subseteq convs[x].ring
        BY <2>9, <3>1, <3>2, StoreAssumption DEF IInv, TypeOK, Has, Conversation
      <3> QED
        BY <3>3 DEF Stored, IdsIn
    <2>10. ASSUME Tick \/ UNCHANGED storeVars
           PROVE  \A x \in ExId : x \in Stored' => x \in Stored
      BY <2>10 DEF Tick, storeVars, Stored, IdsIn, Has
    <2>11. CASE UiStep
      <3>1. call' = call
        BY <2>11 DEF UiStep, ClearConversation, RemoveExchange, RemoveClient
      <3>2. \A cid \in ConvIds : ClearConversation(cid) => \E cids \in SUBSET ConvIds : Clear(cids)
        BY DEF ClearConversation
      <3>3. \A c \in ClientId : RemoveClient(c) => \E cids \in SUBSET ConvIds : Clear(cids)
        BY DEF RemoveClient
      <3> QED
        BY <2>7, <2>8, <2>9, <2>11, <3>1, <3>2, <3>3 DEF UiStep
    <2>12. CASE Tick \/ UNCHANGED storeVars
      BY <2>7, <2>10, <2>12 DEF Tick, storeVars
    <2> QED
      BY <2>5, <2>6, <2>11, <2>12 DEF StoreNext
  <1> QED
    BY <1>1, <1>2, <1>3, StoreIInv, PTL DEF StoreSpec, ImplementsLedger, Ledger!LedgerSpec, Ledger!ledgerVars
=============================================================================
