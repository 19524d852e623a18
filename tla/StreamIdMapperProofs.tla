------------------------ MODULE StreamIdMapperProofs ------------------------
(***************************************************************************)
(* Proofs about StreamIdMapper, for every number of goroutines, every      *)
(* limit on the stream ids and every protocol version.                     *)
(***************************************************************************)
EXTENDS StreamIdMapper, TLAPS, SequenceTheorems, FiniteSetTheorems

\* What a goroutine holds at each point of a call.
Locals ==
    \A p \in Procs :
        /\ pc[p] \in {"received", "counted", "assigned"} => streamId[p] \in ClientStreamIds
        /\ pc[p] # "idle" => id[p] \in Ids

\* The inductive invariant behind the safety of the mapper.
IInv == TypeOK /\ Locals /\ IdsConserved /\ NoIdDropped

-----------------------------------------------------------------------------
\* The limit computed by maxStreamIds is a natural number, and Ids has that
\* many elements.
LEMMA MaxStreamIdsType ==
    /\ maxStreamIds \in Nat
    /\ IsFiniteSet(Ids)
    /\ Cardinality(Ids) = maxStreamIds
<1>1. maxStreamIds \in Nat
  BY ConstantsAssumption DEF maxStreamIds
<1>2. QED
  BY <1>1, FS_Interval DEF Ids

\* A queue of distinct ids is as long as the set of its elements is large.
LEMMA QueueLength ==
    ASSUME NEW S, NEW q \in Seq(S),
           \A j, k \in DOMAIN q : q[j] = q[k] => j = k
    PROVE  /\ IsFiniteSet({q[k] : k \in DOMAIN q})
           /\ Cardinality({q[k] : k \in DOMAIN q}) = Len(q)
<1> DEFINE T == {q[k] : k \in DOMAIN q}
<1>1. Len(q) \in Nat /\ q \in [1..Len(q) -> S] /\ DOMAIN q = 1..Len(q)
  BY LenProperties
<1>2. q \in [1..Len(q) -> T]
  BY <1>1
<1>3. q \in Bijection(1..Len(q), T)
  BY <1>1, <1>2 DEF Bijection, Injection, Surjection, IsInjective
<1>4. IsFiniteSet(1..Len(q)) /\ Cardinality(1..Len(q)) = Len(q)
  BY <1>1, FS_Interval
<1>5. QED
  BY <1>3, <1>4, FS_Bijection DEF ExistsBijection

\* While some id is not in the queue, the channel has room.
LEMMA ChannelHasRoom ==
    ASSUME NEW q \in Seq(Ids), NEW x \in Ids,
           \A j, k \in DOMAIN q : q[j] = q[k] => j = k,
           x \notin {q[k] : k \in DOMAIN q}
    PROVE  Len(q) < maxStreamIds
<1> DEFINE T == {q[k] : k \in DOMAIN q}
<1>1. IsFiniteSet(T) /\ Cardinality(T) = Len(q)
  BY QueueLength
<1>2. T \subseteq Ids \ {x}
  BY LenProperties, ElementOfSeq
<1>3. IsFiniteSet(Ids \ {x}) /\ Cardinality(Ids \ {x}) = maxStreamIds - 1
  BY MaxStreamIdsType, FS_RemoveElement
<1>4. Cardinality(T) <= maxStreamIds - 1
  BY <1>2, <1>3, FS_Subset
<1>5. QED
  BY <1>1, <1>4, MaxStreamIdsType, LenProperties

Elements(q) == {q[k] : k \in DOMAIN q}
Distinct(q) == \A j, k \in DOMAIN q : q[j] = q[k] => j = k

\* Receiving from the channel takes exactly the head out of it.
LEMMA ReceiveFromQueue ==
    ASSUME NEW S, NEW q \in Seq(S), Distinct(q), q # <<>>
    PROVE  /\ Head(q) \in S
           /\ Tail(q) \in Seq(S)
           /\ Distinct(Tail(q))
           /\ Head(q) \in Elements(q)
           /\ Elements(Tail(q)) = Elements(q) \ {Head(q)}
           /\ Len(Tail(q)) = Len(q) - 1
<1>1. /\ Len(q) \in Nat \ {0}
      /\ DOMAIN q = 1..Len(q)
      /\ Head(q) = q[1]
  BY EmptySeq, LenProperties
<1>2. /\ Head(q) \in S
      /\ Tail(q) \in Seq(S)
      /\ Len(Tail(q)) = Len(q) - 1
      /\ \A i \in 1..Len(Tail(q)) : Tail(q)[i] = q[i + 1]
  BY HeadTailProperties
<1>3. DOMAIN Tail(q) = 1..(Len(q) - 1)
  BY <1>2, LenProperties
<1>4. Distinct(Tail(q))
  BY <1>1, <1>2, <1>3 DEF Distinct
<1>5. Head(q) \in Elements(q)
  BY <1>1 DEF Elements
<1>6. ASSUME NEW x
      PROVE  x \in Elements(Tail(q)) <=> x \in Elements(q) \ {Head(q)}
  <2>1. ASSUME x \in Elements(Tail(q)) PROVE x \in Elements(q) \ {Head(q)}
    <3>1. PICK k \in 1..(Len(q) - 1) : x = Tail(q)[k]
      BY <2>1, <1>3 DEF Elements
    <3>2. x = q[k + 1] /\ k + 1 \in DOMAIN q /\ k + 1 # 1 /\ 1 \in DOMAIN q
      BY <3>1, <1>1, <1>2
    <3>3. QED
      BY <3>2, <1>1 DEF Elements, Distinct
  <2>2. ASSUME x \in Elements(q) \ {Head(q)} PROVE x \in Elements(Tail(q))
    <3>1. PICK k \in 1..Len(q) : x = q[k]
      BY <2>2, <1>1 DEF Elements
    <3>2. k # 1 /\ k - 1 \in 1..(Len(q) - 1)
      BY <3>1, <2>2, <1>1
    <3>3. x = Tail(q)[k - 1]
      BY <3>1, <3>2, <1>1, <1>2
    <3>4. QED
      BY <3>2, <3>3, <1>3 DEF Elements
  <2>3. QED
    BY <2>1, <2>2
<1>7. QED
  BY <1>2, <1>4, <1>5, <1>6

\* Sending an id that is not in the channel adds exactly that id to it.
LEMMA SendToQueue ==
    ASSUME NEW S, NEW q \in Seq(S), Distinct(q), NEW x \in S, x \notin Elements(q)
    PROVE  /\ Append(q, x) \in Seq(S)
           /\ Distinct(Append(q, x))
           /\ Elements(Append(q, x)) = Elements(q) \cup {x}
           /\ Len(Append(q, x)) = Len(q) + 1
<1> DEFINE r == Append(q, x)
<1>1. Len(q) \in Nat /\ DOMAIN q = 1..Len(q)
  BY LenProperties
<1>2. /\ r \in Seq(S)
      /\ Len(r) = Len(q) + 1
      /\ \A i \in 1..Len(q) : r[i] = q[i]
      /\ r[Len(q) + 1] = x
  BY <1>1
<1>3. DOMAIN r = 1..(Len(q) + 1)
  BY <1>2, LenProperties
<1>4. Distinct(r)
  BY <1>1, <1>2, <1>3 DEF Distinct, Elements
<1>5. ASSUME NEW y PROVE y \in Elements(r) <=> y \in Elements(q) \cup {x}
  <2>1. ASSUME y \in Elements(r) PROVE y \in Elements(q) \cup {x}
    BY <2>1, <1>1, <1>2, <1>3 DEF Elements
  <2>2. ASSUME y \in Elements(q) PROVE y \in Elements(r)
    <3>1. PICK k \in 1..Len(q) : y = q[k]
      BY <2>2, <1>1 DEF Elements
    <3>2. k \in DOMAIN r /\ y = r[k]
      BY <3>1, <1>1, <1>2, <1>3
    <3>3. QED
      BY <3>2 DEF Elements
  <2>3. x \in Elements(r)
    <3>1. Len(q) + 1 \in DOMAIN r
      BY <1>1, <1>3
    <3>2. QED
      BY <3>1, <1>2 DEF Elements
  <2>4. QED
    BY <2>1, <2>2, <2>3
<1>6. QED
  BY <1>2, <1>4, <1>5

-----------------------------------------------------------------------------
\* The mapper starts with every id in the channel.
LEMMA InitIInv == Init => IInv
<1> SUFFICES ASSUME Init PROVE IInv
  OBVIOUS
<1> USE DEF Init, NewStreamIdMapper
<1>1. maxStreamIds \in Nat
  BY MaxStreamIdsType
<1>2. clusterIds \in [1..maxStreamIds -> Ids]
  BY <1>1 DEF Ids
<1>3. clusterIds \in Seq(Ids) /\ DOMAIN clusterIds = 1..maxStreamIds
  BY <1>1, <1>2, SeqDef
<1>4. TypeOK
  <2>1. closed \in BOOLEAN
    OBVIOUS
  <2>2. idMapper \in [Ids -> ClientStreamIds \cup {None}]
    OBVIOUS
  <2>3. /\ wire \subseteq Ids \X ClientStreamIds /\ misled \in BOOLEAN
        /\ asked \in [Procs -> ClientStreamIds \cup {None}] /\ dropped \subseteq Ids
    OBVIOUS
  <2>4. /\ pc \in [Procs -> {"idle", "received", "counted", "assigned", "deleted", "sent"}]
        /\ id \in [Procs -> Ids \cup {None}]
        /\ streamId \in [Procs -> ClientStreamIds \cup {None}]
        /\ metrics \in Int
    OBVIOUS
  <2>5. QED
    BY <1>3, <2>1, <2>2, <2>3, <2>4 DEF TypeOK
<1>5. Locals /\ NoIdDropped
  BY DEF Locals, NoIdDropped
<1>6. IdsConserved
  <2>1. Distinct(clusterIds)
    BY <1>1, <1>3 DEF Distinct
  <2>2. Ids \subseteq FreeIds
    <3>1. ASSUME NEW i \in Ids PROVE i \in FreeIds
      <4>1. i + 1 \in DOMAIN clusterIds /\ clusterIds[i + 1] = i
        BY <1>1, <1>3 DEF Ids
      <4>2. QED
        BY <4>1 DEF FreeIds
    <3>2. QED
      BY <3>1
  <2>3. MappedIds = {}
    BY DEF MappedIds
  <2>4. QED
    BY <2>1, <2>2, <2>3 DEF IdsConserved, InTransit, Distinct
<1>7. QED
  BY <1>4, <1>5, <1>6 DEF IInv

\* Moving no id leaves them conserved.
LEMMA ConservedUnchanged ==
    ASSUME IdsConserved, UNCHANGED <<clusterIds, idMapper>>,
           \A q \in Procs : InTransit(q)' <=> InTransit(q),
           \A q \in Procs : InTransit(q) => id'[q] = id[q]
    PROVE  IdsConserved'
<1>1. FreeIds' = FreeIds /\ MappedIds' = MappedIds
  BY DEF FreeIds, MappedIds
<1>2. QED
  BY <1>1 DEF IdsConserved

\* GetNewIdFor's receive moves one id from the channel to the goroutine.
LEMMA GetNewIdForIInv ==
    ASSUME IInv, NEW p \in Procs, NEW s \in ClientStreamIds, GetNewIdFor(p, s)
    PROVE  IInv'
<1>0. /\ TypeOK /\ Locals /\ IdsConserved /\ NoIdDropped
      /\ pc[p] = "idle"
      /\ UNCHANGED <<idMapper, metrics, dropped, closed, wire, misled>>
      /\ asked' \in [Procs -> ClientStreamIds \cup {None}]
  BY DEF IInv, GetNewIdFor, TypeOK
<1>1. CASE ~(validateStreamId(s) /\ clusterIds # <<>>)
  <2>0. Return(p) /\ UNCHANGED clusterIds
    BY <1>1 DEF GetNewIdFor
  <2>1. TypeOK'
    BY <1>0, <2>0 DEF TypeOK, Return
  <2>2. Locals' /\ NoIdDropped'
    BY <1>0, <2>0 DEF TypeOK, Locals, NoIdDropped, Return
  <2>3. IdsConserved'
    <3>1. \A q \in Procs : InTransit(q)' <=> InTransit(q)
      BY <1>0, <2>0 DEF TypeOK, InTransit, Return
    <3>2. \A q \in Procs : InTransit(q) => id'[q] = id[q]
      BY <1>0, <2>0 DEF TypeOK, InTransit, Return
    <3>3. QED
      BY <1>0, <2>0, <3>1, <3>2, ConservedUnchanged
  <2>4. QED
    BY <2>1, <2>2, <2>3 DEF IInv
<1>2. CASE validateStreamId(s) /\ clusterIds # <<>>
  <2>0. /\ id' = [id EXCEPT ![p] = Head(clusterIds)]
        /\ streamId' = [streamId EXCEPT ![p] = s]
        /\ clusterIds' = Tail(clusterIds)
        /\ pc' = [pc EXCEPT ![p] = "received"]
    BY <1>2 DEF GetNewIdFor
  <2>1. /\ Head(clusterIds) \in Ids
        /\ clusterIds' \in Seq(Ids)
        /\ Distinct(clusterIds')
        /\ Head(clusterIds) \in FreeIds
        /\ FreeIds' = FreeIds \ {Head(clusterIds)}
    <3>1. clusterIds \in Seq(Ids) /\ Distinct(clusterIds)
      BY <1>0 DEF TypeOK, IdsConserved, Distinct
    <3>2. Elements(clusterIds) = FreeIds /\ Elements(clusterIds)' = FreeIds'
      BY DEF Elements, FreeIds
    <3>3. QED
      BY <1>2, <2>0, <3>1, <3>2, ReceiveFromQueue
  <2>2. TypeOK'
    BY <1>0, <2>0, <2>1 DEF TypeOK
  <2>3. Locals' /\ NoIdDropped'
    BY <1>0, <2>0, <2>1 DEF TypeOK, Locals, NoIdDropped
  <2>4. IdsConserved'
    <3>1. MappedIds' = MappedIds
      BY <1>0 DEF MappedIds
    <3>2. \A q \in Procs : InTransit(q)' <=> (InTransit(q) \/ q = p)
      BY <1>0, <2>0 DEF TypeOK, InTransit
    <3>3. id'[p] = Head(clusterIds) /\ (\A q \in Procs : q # p => id'[q] = id[q])
      BY <1>0, <2>0 DEF TypeOK
    <3>4. ~InTransit(p)
      BY <1>0 DEF InTransit
    <3>5. QED
      BY <1>0, <2>1, <3>1, <3>2, <3>3, <3>4 DEF IdsConserved, Distinct
  <2>5. QED
    BY <2>2, <2>3, <2>4 DEF IInv
<1>3. QED
  BY <1>1, <1>2

\* The updates of the gauge move no id.
LEMMA CountIInv ==
    ASSUME IInv, NEW p \in Procs, CountUsed(p) \/ CountFree(p)
    PROVE  IInv'
<1>0. TypeOK /\ Locals /\ IdsConserved /\ NoIdDropped
  BY DEF IInv
<1>1. TypeOK'
  <2>1. CASE CountUsed(p)
    BY <1>0, <2>1 DEF TypeOK, CountUsed, traffic
  <2>2. CASE CountFree(p)
    BY <1>0, <2>2 DEF TypeOK, CountFree, Return
  <2>3. QED
    BY <2>1, <2>2
<1>2. Locals' /\ NoIdDropped'
  BY <1>0 DEF TypeOK, Locals, NoIdDropped, CountUsed, CountFree, Return
<1>3. \A q \in Procs : InTransit(q)' <=> InTransit(q)
  BY <1>0 DEF TypeOK, InTransit, CountUsed, CountFree, Return
<1>4. \A q \in Procs : InTransit(q) => id'[q] = id[q]
  BY <1>0 DEF TypeOK, InTransit, CountUsed, CountFree, Return
<1>5. UNCHANGED <<clusterIds, idMapper>>
  BY DEF CountUsed, CountFree
<1>6. IdsConserved'
  BY <1>0, <1>3, <1>4, <1>5, ConservedUnchanged
<1>7. QED
  BY <1>1, <1>2, <1>6 DEF IInv

\* The insertion never meets an entry, and moves the id into the map.
LEMMA InsertIInv ==
    ASSUME IInv, NEW p \in Procs, Insert(p)
    PROVE  IInv'
<1>0. /\ TypeOK /\ Locals /\ IdsConserved /\ NoIdDropped
      /\ pc[p] = "counted"
      /\ UNCHANGED <<clusterIds, metrics, closed, wire, asked, misled>>
  BY DEF IInv, Insert, traffic
<1>1. /\ InTransit(p)
      /\ id[p] \in Ids \ (FreeIds \cup MappedIds)
      /\ streamId[p] \in ClientStreamIds
      /\ streamId[p] # None
  BY <1>0, ConstantsAssumption DEF InTransit, IdsConserved, Locals
<1>2. /\ idMapper' = [idMapper EXCEPT ![id[p]] = streamId[p]]
      /\ pc' = [pc EXCEPT ![p] = "assigned"]
      /\ UNCHANGED <<id, streamId, dropped>>
  BY <1>1 DEF Insert
<1>3. TypeOK'
  BY <1>0, <1>1, <1>2 DEF TypeOK
<1>4. Locals' /\ NoIdDropped'
  BY <1>0, <1>1, <1>2 DEF TypeOK, Locals, NoIdDropped
<1>5. IdsConserved'
  <2>1. MappedIds' = MappedIds \cup {id[p]} /\ FreeIds' = FreeIds
    BY <1>0, <1>1, <1>2 DEF TypeOK, MappedIds, FreeIds
  <2>2. \A q \in Procs : InTransit(q)' <=> (InTransit(q) /\ q # p)
    BY <1>0, <1>2 DEF TypeOK, InTransit
  <2>3. \A q \in Procs : id'[q] = id[q]
    BY <1>2
  <2>4. QED
    BY <1>0, <1>1, <2>1, <2>2, <2>3 DEF IdsConserved
<1>6. QED
  BY <1>3, <1>4, <1>5 DEF IInv

\* The id of a request that is sent stays in the map.
LEMMA SendIInv ==
    ASSUME IInv, NEW p \in Procs, Send(p)
    PROVE  IInv'
<1>0. /\ TypeOK /\ Locals /\ IdsConserved /\ NoIdDropped
      /\ pc[p] = "assigned" /\ Return(p)
      /\ UNCHANGED <<clusterIds, idMapper, metrics, dropped, closed, asked, misled>>
  BY DEF IInv, Send
<1>1. wire' \subseteq Ids \X ClientStreamIds
  <2>1. id[p] \in Ids /\ streamId[p] \in ClientStreamIds
    BY <1>0 DEF Locals
  <2>2. QED
    BY <1>0, <2>1 DEF Send, TypeOK
<1>2. TypeOK'
  BY <1>0, <1>1 DEF TypeOK, Return
<1>3. Locals' /\ NoIdDropped'
  BY <1>0 DEF TypeOK, Locals, NoIdDropped, Return
<1>4. \A q \in Procs : InTransit(q)' <=> InTransit(q)
  BY <1>0 DEF TypeOK, InTransit, Return
<1>5. \A q \in Procs : InTransit(q) => id'[q] = id[q]
  BY <1>0 DEF TypeOK, InTransit, Return
<1>6. QED
  BY <1>0, <1>2, <1>3, <1>4, <1>5, ConservedUnchanged DEF IInv

\* The critical section of ReleaseId takes an id out of the map only when it
\* is there.
LEMMA ReleaseIdIInv ==
    ASSUME IInv, NEW p \in Procs, NEW i \in Int, ReleaseId(p, i),
           wire' \subseteq wire, misled' \in BOOLEAN,
           asked' \in [Procs -> ClientStreamIds \cup {None}]
    PROVE  IInv'
<1>0. /\ TypeOK /\ Locals /\ IdsConserved /\ NoIdDropped
      /\ pc[p] = "idle"
      /\ UNCHANGED <<clusterIds, metrics, dropped, closed>>
  BY DEF IInv, ReleaseId
<1>w. wire' \subseteq Ids \X ClientStreamIds
  BY <1>0 DEF TypeOK
<1>1. CASE ~(i \in Ids /\ i \in MappedIds)
  <2>0. Return(p) /\ UNCHANGED idMapper
    BY <1>1 DEF ReleaseId
  <2>1. TypeOK'
    BY <1>0, <1>w, <2>0 DEF TypeOK, Return
  <2>2. Locals' /\ NoIdDropped'
    BY <1>0, <2>0 DEF TypeOK, Locals, NoIdDropped, Return
  <2>3. \A q \in Procs : InTransit(q)' <=> InTransit(q)
    BY <1>0, <2>0 DEF TypeOK, InTransit, Return
  <2>4. \A q \in Procs : InTransit(q) => id'[q] = id[q]
    BY <1>0, <2>0 DEF TypeOK, InTransit, Return
  <2>5. QED
    BY <1>0, <2>0, <2>1, <2>2, <2>3, <2>4, ConservedUnchanged DEF IInv
<1>2. CASE i \in Ids /\ i \in MappedIds
  <2>0. /\ id' = [id EXCEPT ![p] = i]
        /\ streamId' = [streamId EXCEPT ![p] = idMapper[i]]
        /\ idMapper' = [idMapper EXCEPT ![i] = None]
        /\ pc' = [pc EXCEPT ![p] = "deleted"]
    BY <1>2 DEF ReleaseId
  <2>1. TypeOK'
    BY <1>0, <1>w, <1>2, <2>0 DEF TypeOK
  <2>2. Locals' /\ NoIdDropped'
    BY <1>0, <1>2, <2>0 DEF TypeOK, Locals, NoIdDropped
  <2>3. IdsConserved'
    <3>1. MappedIds' = MappedIds \ {i} /\ FreeIds' = FreeIds
      BY <1>0, <1>2, <2>0 DEF TypeOK, MappedIds, FreeIds
    <3>2. \A q \in Procs : InTransit(q)' <=> (InTransit(q) \/ q = p)
      BY <1>0, <2>0 DEF TypeOK, InTransit
    <3>3. id'[p] = i /\ (\A q \in Procs : q # p => id'[q] = id[q])
      BY <1>0, <2>0 DEF TypeOK
    <3>4. ~InTransit(p)
      BY <1>0 DEF InTransit
    <3>5. QED
      BY <1>0, <1>2, <3>1, <3>2, <3>3, <3>4 DEF IdsConserved
  <2>4. QED
    BY <2>1, <2>2, <2>3 DEF IInv
<1>3. QED
  BY <1>1, <1>2

LEMMA ResponseIInv ==
    ASSUME IInv, NEW p \in Procs,
           (\E w \in wire : Response(p, w)) \/ (\E i \in ResponseIds : StrayResponse(p, i))
    PROVE  IInv'
<1>0. /\ wire \subseteq Ids \X ClientStreamIds /\ misled \in BOOLEAN
      /\ asked \in [Procs -> ClientStreamIds \cup {None}]
  BY DEF IInv, TypeOK
<1>1. ASSUME NEW w \in wire, Response(p, w) PROVE IInv'
  <2>1. w[1] \in Int /\ w[2] \in ClientStreamIds
    BY <1>0, MaxStreamIdsType DEF Ids
  <2>2. /\ ReleaseId(p, w[1]) /\ wire' \subseteq wire /\ misled' \in BOOLEAN
        /\ asked' \in [Procs -> ClientStreamIds \cup {None}]
    BY <1>0, <1>1, <2>1 DEF Response
  <2>3. QED
    BY <2>1, <2>2, ReleaseIdIInv
<1>2. ASSUME NEW i \in ResponseIds, StrayResponse(p, i) PROVE IInv'
  <2>1. i \in Int
    BY MaxStreamIdsType DEF ResponseIds
  <2>2. ReleaseId(p, i) /\ wire' \subseteq wire /\ misled' \in BOOLEAN
    BY Zenon, <1>0, <1>2 DEF StrayResponse
  <2>3. asked' \in [Procs -> ClientStreamIds \cup {None}]
    BY <1>0, <1>2 DEF StrayResponse
  <2>4. QED
    BY <2>1, <2>2, <2>3, ReleaseIdIInv
<1>3. QED
  BY <1>1, <1>2

\* The channel always has room for the id that ReleaseId sends back.
LEMMA SendBackIInv ==
    ASSUME IInv, NEW p \in Procs, SendBack(p)
    PROVE  IInv'
<1>0. /\ TypeOK /\ Locals /\ IdsConserved /\ NoIdDropped
      /\ pc[p] = "deleted"
      /\ UNCHANGED <<idMapper, metrics, closed, wire, asked, misled>>
  BY DEF IInv, SendBack, traffic
<1>1. /\ InTransit(p)
      /\ id[p] \in Ids \ (FreeIds \cup MappedIds)
  BY <1>0 DEF InTransit, IdsConserved
<1>2. clusterIds \in Seq(Ids) /\ Distinct(clusterIds)
  BY <1>0 DEF TypeOK, IdsConserved, Distinct
<1>3. Elements(clusterIds) = FreeIds /\ Elements(clusterIds)' = FreeIds'
  BY DEF Elements, FreeIds
<1>4. Len(clusterIds) < maxStreamIds
  BY <1>1, <1>2, <1>3, ChannelHasRoom DEF Distinct, Elements
<1>5. /\ clusterIds' = Append(clusterIds, id[p])
      /\ pc' = [pc EXCEPT ![p] = "sent"]
      /\ UNCHANGED <<id, streamId, dropped>>
  BY <1>4 DEF SendBack
<1>6. /\ clusterIds' \in Seq(Ids)
      /\ Distinct(clusterIds')
      /\ FreeIds' = FreeIds \cup {id[p]}
  BY <1>1, <1>2, <1>3, <1>5, SendToQueue
<1>7. TypeOK'
  BY <1>0, <1>5, <1>6 DEF TypeOK
<1>8. Locals' /\ NoIdDropped'
  BY <1>0, <1>5 DEF TypeOK, Locals, NoIdDropped
<1>9. IdsConserved'
  <2>1. MappedIds' = MappedIds
    BY <1>0 DEF MappedIds
  <2>2. \A q \in Procs : InTransit(q)' <=> (InTransit(q) /\ q # p)
    BY <1>0, <1>5 DEF TypeOK, InTransit
  <2>3. UNCHANGED id
    BY <1>5
  <2>4. QED
    BY <1>0, <1>1, <1>6, <2>1, <2>2, <2>3 DEF IdsConserved, Distinct
<1>10. QED
  BY <1>7, <1>8, <1>9 DEF IInv

\* Steps that change neither the ids nor the calls.
LEMMA CloseIInv ==
    ASSUME IInv, Close \/ UNCHANGED vars
    PROVE  IInv'
<1>0. TypeOK /\ Locals /\ IdsConserved /\ NoIdDropped
  BY DEF IInv
<1>1. UNCHANGED <<clusterIds, idMapper, pc, id, streamId, dropped, wire, asked, misled>>
  BY DEF Close, vars, traffic
<1>2. Len(clusterIds) \in Nat /\ maxStreamIds \in Nat
  BY <1>0, MaxStreamIdsType, LenProperties DEF TypeOK
<1>3. metrics' \in Int
  BY <1>0, <1>2 DEF TypeOK, Close, vars
<1>4. closed' \in BOOLEAN
  BY <1>0 DEF TypeOK, Close, vars
<1>5. TypeOK'
  BY <1>0, <1>1, <1>3, <1>4 DEF TypeOK
<1>6. Locals' /\ NoIdDropped'
  BY <1>0, <1>1 DEF Locals, NoIdDropped
<1>7. IdsConserved'
  <2>1. \A q \in Procs : (InTransit(q)' <=> InTransit(q)) /\ id'[q] = id[q]
    BY <1>1 DEF InTransit
  <2>2. QED
    BY <1>0, <1>1, <2>1, ConservedUnchanged
<1>8. QED
  BY <1>5, <1>6, <1>7 DEF IInv

\* Every step keeps the inductive invariant.
LEMMA NextIInv == IInv /\ [Next]_vars => IInv'
<1> SUFFICES ASSUME IInv, [Next]_vars PROVE IInv'
  OBVIOUS
<1>1. ASSUME NEW p \in Procs, NEW s \in ClientStreamIds, GetNewIdFor(p, s) PROVE IInv'
  BY <1>1, GetNewIdForIInv
<1>2. ASSUME NEW p \in Procs, CountUsed(p) \/ CountFree(p) PROVE IInv'
  BY <1>2, CountIInv
<1>3. ASSUME NEW p \in Procs, Insert(p) \/ Send(p) PROVE IInv'
  BY <1>3, InsertIInv, SendIInv
<1>4. ASSUME NEW p \in Procs,
             (\E w \in wire : Response(p, w)) \/ (\E i \in ResponseIds : StrayResponse(p, i))
      PROVE  IInv'
  BY <1>4, ResponseIInv
<1>5. ASSUME NEW p \in Procs, SendBack(p) PROVE IInv'
  BY <1>5, SendBackIInv
<1>6. CASE Close \/ UNCHANGED vars
  BY <1>6, CloseIInv
<1>7. QED
  BY <1>1, <1>2, <1>3, <1>4, <1>5, <1>6 DEF Next

\* No interleaving of GetNewIdFor and ReleaseId loses or duplicates a stream
\* id, and neither of the branches that would drop one is ever taken, for any
\* number of goroutines and any ids in the responses.
THEOREM StreamIdsConserved == Spec => [](TypeOK /\ IdsConserved /\ NoIdDropped)
<1>1. IInv => TypeOK /\ IdsConserved /\ NoIdDropped
  BY DEF IInv
<1>2. QED
  BY InitIInv, NextIInv, <1>1, PTL DEF Spec

-----------------------------------------------------------------------------
\* What is at the cluster, or about to be sent to it, is in the map: each id for
\* one request, with the request's own stream id.
WireInv ==
    /\ \A w \in wire : idMapper[w[1]] = w[2]
    /\ \A p \in Procs : pc[p] = "assigned" =>
          /\ idMapper[id[p]] = streamId[p]
          /\ \A w \in wire : w[1] # id[p]
          /\ \A q \in Procs : pc[q] = "assigned" /\ id[q] = id[p] => q = p

Answered ==
    \A p \in Procs :
        asked[p] # None => pc[p] \in {"deleted", "sent"} /\ streamId[p] = asked[p]

LEMMA WireTypes ==
    ASSUME IInv
    PROVE  /\ \A w \in wire : w \in Ids \X ClientStreamIds /\ w[1] \in Ids
                              /\ w[2] \in ClientStreamIds /\ w[2] # None /\ w = <<w[1], w[2]>>
           /\ \A p \in Procs : pc[p] = "assigned" =>
                 id[p] \in Ids /\ streamId[p] \in ClientStreamIds /\ streamId[p] # None
           /\ pc \in [Procs -> {"idle", "received", "counted", "assigned", "deleted", "sent"}]
           /\ id \in [Procs -> Ids \cup {None}]
           /\ streamId \in [Procs -> ClientStreamIds \cup {None}]
           /\ asked \in [Procs -> ClientStreamIds \cup {None}]
           /\ idMapper \in [Ids -> ClientStreamIds \cup {None}]
<1>1. wire \subseteq Ids \X ClientStreamIds /\ \A x \in ClientStreamIds : x # None
  BY ConstantsAssumption DEF IInv, TypeOK
<1>2. ASSUME NEW w \in wire
      PROVE  /\ w \in Ids \X ClientStreamIds /\ w[1] \in Ids
             /\ w[2] \in ClientStreamIds /\ w[2] # None /\ w = <<w[1], w[2]>>
  BY <1>1
<1>3. \A p \in Procs : pc[p] = "assigned" =>
          id[p] \in Ids /\ streamId[p] \in ClientStreamIds /\ streamId[p] # None
  BY <1>1 DEF IInv, Locals
<1>4. QED
  BY Zenon, <1>2, <1>3 DEF IInv, TypeOK

\* The steps of a call that touch neither the map nor what is at the cluster.
LEMMA QuietWire ==
    ASSUME IInv, WireInv, NEW p \in Procs, NEW l, l # "assigned", pc[p] # "assigned",
           pc' = [pc EXCEPT ![p] = l], UNCHANGED <<idMapper, wire>>,
           \A q \in Procs : q # p => id'[q] = id[q] /\ streamId'[q] = streamId[q]
    PROVE  WireInv'
<1>1. \A q \in Procs : pc'[q] = "assigned" => pc[q] = "assigned" /\ q # p
  BY WireTypes
<1>2. QED
  BY <1>1 DEF WireInv

LEMMA InsertWire ==
    ASSUME IInv, WireInv, NEW p \in Procs, Insert(p)
    PROVE  WireInv'
<1>1. /\ id[p] \in Ids /\ id[p] \notin MappedIds /\ streamId[p] \in ClientStreamIds
      /\ pc[p] = "counted" /\ wire' = wire
  BY DEF Insert, traffic, IInv, IdsConserved, InTransit, Locals
<1>2. /\ idMapper' = [idMapper EXCEPT ![id[p]] = streamId[p]]
      /\ pc' = [pc EXCEPT ![p] = "assigned"]
      /\ UNCHANGED <<id, streamId>>
  BY <1>1 DEF Insert
<1>3. idMapper[id[p]] = None
  BY <1>1 DEF MappedIds
<1>4. \A w \in wire : w[1] # id[p] /\ idMapper'[w[1]] = w[2]
  BY <1>2, <1>3, WireTypes DEF WireInv
<1>5. \A q \in Procs : pc[q] = "assigned" => id[q] # id[p] /\ idMapper'[id[q]] = streamId[q]
  BY <1>2, <1>3, WireTypes DEF WireInv
<1>6. \A q \in Procs : pc'[q] = "assigned" <=> (q = p \/ pc[q] = "assigned")
  BY <1>2, WireTypes
<1>7. idMapper'[id[p]] = streamId[p]
  BY <1>1, <1>2, WireTypes
<1>8. QED
  BY <1>1, <1>2, <1>4, <1>5, <1>6, <1>7 DEF WireInv

LEMMA SendWire ==
    ASSUME IInv, WireInv, NEW p \in Procs, Send(p)
    PROVE  WireInv'
<1>1. /\ pc[p] = "assigned" /\ idMapper' = idMapper /\ pc' = [pc EXCEPT ![p] = "idle"]
      /\ wire' \subseteq wire \cup {<<id[p], streamId[p]>>}
      /\ \A q \in Procs : q # p => id'[q] = id[q] /\ streamId'[q] = streamId[q]
  BY WireTypes DEF Send, Return
<1>2. \A q \in Procs : pc'[q] = "assigned" => pc[q] = "assigned" /\ q # p
  BY <1>1, WireTypes
<1>3. \A w \in wire' : w \in wire \/ (w[1] = id[p] /\ w[2] = streamId[p])
  BY <1>1
<1>4. \A w \in wire' : idMapper'[w[1]] = w[2]
  BY <1>1, <1>3 DEF WireInv
<1>5. \A q \in Procs : pc'[q] = "assigned" =>
          idMapper'[id'[q]] = streamId'[q] /\ \A w \in wire' : w[1] # id'[q]
  BY <1>1, <1>2, <1>3 DEF WireInv
<1>6. QED
  BY <1>1, <1>2, <1>4, <1>5 DEF WireInv

\* The response of a request finds the request's entry and takes it out.
LEMMA ResponseWire ==
    ASSUME IInv, WireInv, Answered, NEW p \in Procs, NEW w \in wire, Response(p, w)
    PROVE  WireInv' /\ Answered'
<1>1. /\ w[1] \in Ids /\ idMapper[w[1]] = w[2] /\ w[2] # None /\ w[1] \in MappedIds
      /\ pc[p] = "idle"
  BY WireTypes DEF WireInv, MappedIds, Response, ReleaseId
<1>2. /\ id' = [id EXCEPT ![p] = w[1]]
      /\ streamId' = [streamId EXCEPT ![p] = w[2]]
      /\ idMapper' = [idMapper EXCEPT ![w[1]] = None]
      /\ pc' = [pc EXCEPT ![p] = "deleted"]
      /\ wire' = wire \ {w} /\ asked' = [asked EXCEPT ![p] = w[2]]
  BY <1>1 DEF Response, ReleaseId
<1>3. \A v \in wire' : v \in wire /\ v[1] # w[1]
  <2>1. \A v \in wire : v[1] = w[1] => v = w
    BY WireTypes DEF WireInv
  <2>2. QED
    BY <1>2, <2>1
<1>4. \A q \in Procs : pc'[q] = "assigned" =>
          pc[q] = "assigned" /\ q # p /\ id'[q] = id[q] /\ streamId'[q] = streamId[q]
  BY <1>1, <1>2, WireTypes
<1>5. \A v \in wire' : idMapper'[v[1]] = v[2]
  BY <1>2, <1>3, WireTypes DEF WireInv
<1>6. \A q \in Procs : pc'[q] = "assigned" =>
          idMapper'[id'[q]] = streamId'[q] /\ \A v \in wire' : v[1] # id'[q]
  BY <1>2, <1>3, <1>4, WireTypes DEF WireInv
<1>7. WireInv'
  BY <1>4, <1>5, <1>6 DEF WireInv
<1>8. Answered'
  BY <1>2, WireTypes DEF Answered
<1>9. QED
  BY <1>7, <1>8

\* A response that answers no request finds nothing, unless it carries the id of
\* a request that waits.
LEMMA StrayWire ==
    ASSUME IInv, WireInv, Answered, NEW p \in Procs, NEW i, StrayResponse(p, i), ~misled'
    PROVE  WireInv' /\ Answered'
<1>1. i \notin MappedIds
  BY Zenon DEF StrayResponse
<1>2. /\ pc[p] = "idle" /\ Return(p) /\ UNCHANGED <<idMapper, wire>>
      /\ asked' = [asked EXCEPT ![p] = None]
  BY <1>1 DEF StrayResponse, ReleaseId
<1>3. \A q \in Procs : q # p => id'[q] = id[q] /\ streamId'[q] = streamId[q]
  BY <1>2, WireTypes DEF Return
<1>4. WireInv'
  BY <1>2, <1>3, QuietWire DEF Return
<1>5. Answered'
  BY <1>2, WireTypes DEF Answered, Return
<1>6. QED
  BY <1>4, <1>5

LEMMA WireStep ==
    ASSUME IInv, WireInv, Answered, [Next]_vars, ~misled'
    PROVE  WireInv' /\ Answered'
<1>1. ASSUME NEW p \in Procs, NEW s \in ClientStreamIds, GetNewIdFor(p, s)
      PROVE  WireInv' /\ Answered'
  <2>1. /\ pc[p] = "idle" /\ UNCHANGED <<idMapper, wire>>
        /\ pc' = [pc EXCEPT ![p] = "idle"] \/ pc' = [pc EXCEPT ![p] = "received"]
        /\ asked' = [asked EXCEPT ![p] = None]
    BY <1>1 DEF GetNewIdFor, Return
  <2>2. \A q \in Procs : q # p => id'[q] = id[q] /\ streamId'[q] = streamId[q]
    BY <1>1, WireTypes DEF GetNewIdFor, Return
  <2>3. WireInv'
    BY <2>1, <2>2, QuietWire
  <2>4. Answered'
    BY <2>1, <2>2, WireTypes DEF Answered
  <2>5. QED
    BY <2>3, <2>4
<1>2. ASSUME NEW p \in Procs, CountUsed(p) \/ SendBack(p) \/ CountFree(p)
      PROVE  WireInv' /\ Answered'
  <2>1. /\ pc[p] \in {"received", "deleted", "sent"} /\ UNCHANGED <<idMapper, wire>>
        /\ \/ pc' = [pc EXCEPT ![p] = "counted"] \/ pc' = [pc EXCEPT ![p] = "sent"]
           \/ pc' = [pc EXCEPT ![p] = "idle"]
    BY <1>2 DEF CountUsed, SendBack, CountFree, Return, traffic
  <2>2. \A q \in Procs : q # p => id'[q] = id[q] /\ streamId'[q] = streamId[q]
    BY <1>2, WireTypes DEF CountUsed, SendBack, CountFree, Return
  <2>3. WireInv'
    BY <2>1, <2>2, QuietWire
  <2>4. CASE CountUsed(p)
    BY <2>3, <2>4, WireTypes DEF Answered, CountUsed, traffic
  <2>5. CASE SendBack(p)
    <3>1. IInv'
      BY <2>5, SendBackIInv
    <3>2. dropped' # dropped \cup {id[p]}
      BY <3>1 DEF IInv, NoIdDropped
    <3>3. pc' = [pc EXCEPT ![p] = "sent"] /\ pc[p] = "deleted" /\ UNCHANGED <<streamId, asked>>
      BY <2>5, <3>2 DEF SendBack, traffic
    <3>4. QED
      BY <2>3, <3>3, WireTypes DEF Answered
  <2>6. CASE CountFree(p)
    <3>1. /\ asked' = [asked EXCEPT ![p] = None] /\ pc' = [pc EXCEPT ![p] = "idle"]
      BY <2>6 DEF CountFree, Return
    <3>2. QED
      BY <2>2, <2>3, <3>1, WireTypes DEF Answered
  <2>7. QED
    BY <1>2, <2>4, <2>5, <2>6
<1>3. ASSUME NEW p \in Procs, Insert(p)
      PROVE  WireInv' /\ Answered'
  <2>1. asked' = asked /\ pc[p] = "counted"
    BY <1>3 DEF Insert, traffic
  <2>2. \A q \in Procs : q # p => pc'[q] = pc[q] /\ streamId'[q] = streamId[q]
    BY <1>3, WireTypes DEF Insert, Return
  <2>3. Answered'
    BY <2>1, <2>2 DEF Answered
  <2>4. QED
    BY <1>3, <2>3, InsertWire
<1>4. ASSUME NEW p \in Procs, Send(p)
      PROVE  WireInv' /\ Answered'
  <2>1. asked' = asked /\ pc[p] = "assigned"
    BY <1>4 DEF Send
  <2>2. \A q \in Procs : q # p => pc'[q] = pc[q] /\ streamId'[q] = streamId[q]
    BY <1>4, WireTypes DEF Send, Return
  <2>3. Answered'
    BY <2>1, <2>2 DEF Answered
  <2>4. QED
    BY <1>4, <2>3, SendWire
<1>5. ASSUME NEW p \in Procs,
             (\E w \in wire : Response(p, w)) \/ (\E i \in ResponseIds : StrayResponse(p, i))
      PROVE  WireInv' /\ Answered'
  BY <1>5, ResponseWire, StrayWire
<1>6. CASE Close \/ UNCHANGED vars
  BY <1>6 DEF Close, vars, traffic, WireInv, Answered
<1>7. QED
  BY <1>1, <1>2, <1>3, <1>4, <1>5, <1>6 DEF Next

LEMMA MisledStays ==
    ASSUME [Next]_vars, misled
    PROVE  misled'
  BY Zenon DEF Next, GetNewIdFor, CountUsed, Insert, Send, Response, StrayResponse, SendBack,
     CountFree, Close, vars, traffic

\* The response of a request gets the stream id of that request back, for any
\* number of goroutines and ids and any order of their steps, until a response
\* that answers nothing carries the id of a request that waits.
THEOREM ResponsesFindTheirRequest == Spec => []OwnStreamId
<1> DEFINE Inv == ~misled => WireInv /\ Answered
<1>1. Init => Inv
  BY ConstantsAssumption DEF Init, WireInv, Answered
<1>2. IInv /\ Inv /\ [Next]_vars => Inv'
  BY Zenon, WireStep, MisledStays
<1>3. Inv => OwnStreamId
  BY Zenon DEF OwnStreamId, Answered
<1> HIDE DEF Inv
<1>4. QED
  BY <1>1, <1>2, <1>3, InitIInv, NextIInv, PTL DEF Spec

\* The goroutines at a given point of a call.
At(l) == {p \in Procs : pc[p] = l}

\* The gauge lags behind the channel by the goroutines that are between the
\* channel operation and the update of the gauge.
GaugeInv ==
    /\ closed => (metrics = 0 /\ \A p \in Procs : pc[p] = "idle")
    /\ ~closed => metrics = maxStreamIds - Len(clusterIds)
                             - Cardinality(At("received")) + Cardinality(At("sent"))

\* Moving one goroutine between points changes the counts by one.
LEMMA MoveTo ==
    ASSUME TypeOK, NEW p \in Procs, NEW l, pc' = [pc EXCEPT ![p] = l], NEW m
    PROVE  /\ Cardinality(At(m)) \in Nat
           /\ Cardinality(At(m)') =
                 IF pc[p] = l THEN Cardinality(At(m))
                 ELSE IF m = l THEN Cardinality(At(m)) + 1
                 ELSE IF m = pc[p] THEN Cardinality(At(m)) - 1
                 ELSE Cardinality(At(m))
<1>1. IsFiniteSet(At(m)) /\ Cardinality(At(m)) \in Nat
  BY ConstantsAssumption, FS_Subset, FS_CardinalityType DEF At
<1>2. \A q \in Procs : pc'[q] = IF q = p THEN l ELSE pc[q]
  BY DEF TypeOK
<1>3. CASE pc[p] = l
  <2>1. At(m)' = At(m)
    BY <1>2, <1>3 DEF At
  <2>2. QED
    BY <1>1, <1>3, <2>1
<1>4. CASE pc[p] # l /\ m = l
  <2>1. At(m)' = At(m) \cup {p} /\ p \notin At(m)
    BY <1>2, <1>4 DEF At
  <2>2. QED
    BY <1>1, <1>4, <2>1, FS_AddElement
<1>5. CASE pc[p] # l /\ m # l /\ m = pc[p]
  <2>1. At(m)' = At(m) \ {p} /\ p \in At(m)
    BY <1>2, <1>5 DEF At
  <2>2. QED
    BY <1>1, <1>5, <2>1, FS_RemoveElement
<1>6. CASE pc[p] # l /\ m # l /\ m # pc[p]
  <2>1. At(m)' = At(m)
    BY <1>2, <1>6 DEF At
  <2>2. QED
    BY <1>1, <1>6, <2>1
<1>7. QED
  BY <1>3, <1>4, <1>5, <1>6

\* A step of one goroutine that moves it from one point to another keeps the
\* gauge in line with the channel.
LEMMA NextGaugeInv == IInv /\ GaugeInv /\ [Next]_vars => GaugeInv'
<1> SUFFICES ASSUME IInv, GaugeInv, [Next]_vars PROVE GaugeInv'
  OBVIOUS
<1>0. /\ TypeOK
      /\ Len(clusterIds) \in Nat
      /\ maxStreamIds \in Nat
      /\ metrics \in Int
  BY MaxStreamIdsType, LenProperties DEF IInv, TypeOK
<1>1. ASSUME NEW p \in Procs, NEW l, pc' = [pc EXCEPT ![p] = l], ~closed, ~closed',
             \/ /\ pc[p] = "idle" /\ l = "idle"
                /\ metrics' = metrics /\ Len(clusterIds') = Len(clusterIds)
             \/ /\ pc[p] = "idle" /\ l = "received"
                /\ metrics' = metrics /\ Len(clusterIds') = Len(clusterIds) - 1
             \/ /\ pc[p] = "received" /\ l = "counted"
                /\ metrics' = metrics + 1 /\ Len(clusterIds') = Len(clusterIds)
             \/ /\ pc[p] = "counted" /\ l \in {"assigned", "idle"}
                /\ metrics' = metrics /\ Len(clusterIds') = Len(clusterIds)
             \/ /\ pc[p] = "assigned" /\ l = "idle"
                /\ metrics' = metrics /\ Len(clusterIds') = Len(clusterIds)
             \/ /\ pc[p] = "idle" /\ l = "deleted"
                /\ metrics' = metrics /\ Len(clusterIds') = Len(clusterIds)
             \/ /\ pc[p] = "deleted" /\ l = "sent"
                /\ metrics' = metrics /\ Len(clusterIds') = Len(clusterIds) + 1
             \/ /\ pc[p] = "sent" /\ l = "idle"
                /\ metrics' = metrics - 1 /\ Len(clusterIds') = Len(clusterIds)
      PROVE  GaugeInv'
  <2>1. /\ Cardinality(At("received")) \in Nat
        /\ Cardinality(At("received")') =
              IF pc[p] = l THEN Cardinality(At("received"))
              ELSE IF "received" = l THEN Cardinality(At("received")) + 1
              ELSE IF "received" = pc[p] THEN Cardinality(At("received")) - 1
              ELSE Cardinality(At("received"))
    BY <1>0, <1>1, MoveTo
  <2>2. /\ Cardinality(At("sent")) \in Nat
        /\ Cardinality(At("sent")') =
              IF pc[p] = l THEN Cardinality(At("sent"))
              ELSE IF "sent" = l THEN Cardinality(At("sent")) + 1
              ELSE IF "sent" = pc[p] THEN Cardinality(At("sent")) - 1
              ELSE Cardinality(At("sent"))
    BY <1>0, <1>1, MoveTo
  <2>3. metrics = maxStreamIds - Len(clusterIds)
                    - Cardinality(At("received")) + Cardinality(At("sent"))
    BY <1>1 DEF GaugeInv
  <2>4. metrics' = maxStreamIds - Len(clusterIds')
                     - Cardinality(At("received")') + Cardinality(At("sent")')
    <3>1. CASE /\ pc[p] = "idle" /\ l = "idle"
               /\ metrics' = metrics /\ Len(clusterIds') = Len(clusterIds)
      BY <1>0, <2>1, <2>2, <2>3, <3>1
    <3>2. CASE /\ pc[p] = "idle" /\ l = "received"
               /\ metrics' = metrics /\ Len(clusterIds') = Len(clusterIds) - 1
      BY <1>0, <2>1, <2>2, <2>3, <3>2
    <3>3. CASE /\ pc[p] = "received" /\ l = "counted"
               /\ metrics' = metrics + 1 /\ Len(clusterIds') = Len(clusterIds)
      BY <1>0, <2>1, <2>2, <2>3, <3>3
    <3>4. CASE /\ \/ pc[p] = "counted" /\ l \in {"assigned", "idle"}
                  \/ pc[p] = "assigned" /\ l = "idle"
               /\ metrics' = metrics /\ Len(clusterIds') = Len(clusterIds)
      BY <1>0, <2>1, <2>2, <2>3, <3>4
    <3>5. CASE /\ pc[p] = "idle" /\ l = "deleted"
               /\ metrics' = metrics /\ Len(clusterIds') = Len(clusterIds)
      BY <1>0, <2>1, <2>2, <2>3, <3>5
    <3>6. CASE /\ pc[p] = "deleted" /\ l = "sent"
               /\ metrics' = metrics /\ Len(clusterIds') = Len(clusterIds) + 1
      BY <1>0, <2>1, <2>2, <2>3, <3>6
    <3>7. CASE /\ pc[p] = "sent" /\ l = "idle"
               /\ metrics' = metrics - 1 /\ Len(clusterIds') = Len(clusterIds)
      BY <1>0, <2>1, <2>2, <2>3, <3>7
    <3>8. QED
      BY <1>1, <3>1, <3>2, <3>3, <3>4, <3>5, <3>6, <3>7
  <2>5. QED
    BY <1>1, <2>4 DEF GaugeInv
<1>2. ASSUME NEW p \in Procs, NEW s \in ClientStreamIds, GetNewIdFor(p, s)
      PROVE  GaugeInv'
  <2>1. ~closed /\ ~closed' /\ pc[p] = "idle" /\ metrics' = metrics
    BY <1>2 DEF GetNewIdFor
  <2>2. CASE UNCHANGED clusterIds /\ pc' = [pc EXCEPT ![p] = "idle"]
    BY <1>1, <2>1, <2>2
  <2>3. CASE /\ clusterIds # <<>> /\ clusterIds' = Tail(clusterIds)
             /\ pc' = [pc EXCEPT ![p] = "received"]
    <3>1. Len(clusterIds') = Len(clusterIds) - 1
      BY <1>0, <2>3, HeadTailProperties DEF TypeOK
    <3>2. QED
      BY <1>1, <2>1, <2>3, <3>1
  <2>4. QED
    BY <1>2, <2>2, <2>3 DEF GetNewIdFor, Return
<1>3. ASSUME NEW p \in Procs, CountUsed(p) PROVE GaugeInv'
  <2>1. ~closed
    BY <1>3 DEF CountUsed, GaugeInv
  <2>2. QED
    BY <1>1, <1>3, <2>1 DEF CountUsed
<1>4. ASSUME NEW p \in Procs, Insert(p) PROVE GaugeInv'
  <2>1. ~closed
    BY <1>4 DEF Insert, GaugeInv
  <2>2. /\ pc[p] = "counted"
        /\ pc' = [pc EXCEPT ![p] = "assigned"] \/ pc' = [pc EXCEPT ![p] = "idle"]
        /\ UNCHANGED <<clusterIds, metrics, closed>>
    BY <1>4 DEF Insert, Return
  <2>3. QED
    BY <1>1, <2>1, <2>2
<1>11. ASSUME NEW p \in Procs, Send(p) PROVE GaugeInv'
  <2>1. ~closed
    BY <1>11 DEF Send, GaugeInv
  <2>2. /\ pc[p] = "assigned" /\ pc' = [pc EXCEPT ![p] = "idle"]
        /\ UNCHANGED <<clusterIds, metrics, closed>>
    BY <1>11 DEF Send, Return
  <2>3. QED
    BY <1>1, <2>1, <2>2
<1>5. ASSUME NEW p \in Procs, NEW i, ReleaseId(p, i) PROVE GaugeInv'
  <2>1. /\ ~closed /\ pc[p] = "idle"
        /\ \/ pc' = [pc EXCEPT ![p] = "idle"]
           \/ pc' = [pc EXCEPT ![p] = "deleted"]
        /\ UNCHANGED <<clusterIds, metrics, closed>>
    BY <1>5 DEF ReleaseId, Return
  <2>2. QED
    BY <1>1, <2>1
<1>6. ASSUME NEW p \in Procs, SendBack(p) PROVE GaugeInv'
  <2>1. ~closed /\ pc[p] = "deleted" /\ UNCHANGED <<metrics, closed>>
    BY <1>6 DEF SendBack, GaugeInv
  <2>2. IInv'
    BY <1>6, SendBackIInv
  <2>3. dropped' # dropped \cup {id[p]}
    BY <2>2 DEF IInv, NoIdDropped
  <2>4. /\ clusterIds' = Append(clusterIds, id[p])
        /\ pc' = [pc EXCEPT ![p] = "sent"]
    BY <1>6, <2>3 DEF SendBack
  <2>5. id[p] \in Ids
    BY <2>1 DEF IInv, Locals
  <2>6. Len(clusterIds') = Len(clusterIds) + 1
    BY <1>0, <2>4, <2>5 DEF TypeOK
  <2>7. QED
    BY <1>1, <2>1, <2>4, <2>6
<1>7. ASSUME NEW p \in Procs, CountFree(p) PROVE GaugeInv'
  <2>1. ~closed /\ pc[p] = "sent" /\ pc' = [pc EXCEPT ![p] = "idle"]
    BY <1>7 DEF CountFree, GaugeInv, Return
  <2>2. metrics' = metrics - 1 /\ UNCHANGED <<clusterIds, closed>>
    BY <1>7 DEF CountFree
  <2>3. QED
    BY <1>1, <2>1, <2>2
<1>8. CASE Close
  <2>1. At("received") = {} /\ At("sent") = {}
    BY <1>8 DEF Close, At
  <2>2. metrics = maxStreamIds - Len(clusterIds)
    <3>1. Cardinality(At("received")) = 0 /\ Cardinality(At("sent")) = 0
      BY <2>1, FS_EmptySet
    <3>2. ~closed
      BY <1>8 DEF Close
    <3>3. QED
      BY <1>0, <3>1, <3>2 DEF GaugeInv
  <2>3. metrics' = 0 /\ closed' /\ UNCHANGED pc
    BY <1>0, <1>8, <2>2 DEF Close
  <2>4. QED
    BY <1>8, <2>3 DEF Close, GaugeInv
<1>9. CASE UNCHANGED vars
  BY <1>9 DEF vars, GaugeInv, At
<1>10. QED
  BY <1>2, <1>3, <1>4, <1>11, <1>5, <1>6, <1>7, <1>8, <1>9
     DEF Next, Response, StrayResponse

\* The used-stream-ids gauge is exact whenever no call is in progress, and
\* Close returns it to zero whatever requests are still unanswered.
THEOREM GaugeIsExact == Spec => []GaugeExact
<1>1. Init => GaugeInv
  <2> SUFFICES ASSUME Init PROVE GaugeInv
    OBVIOUS
  <2>1. At("received") = {} /\ At("sent") = {} /\ ~closed /\ metrics = 0
    BY DEF Init, NewStreamIdMapper, At
  <2>2. Len(clusterIds) = maxStreamIds
    BY MaxStreamIdsType, InitIInv, LenProperties DEF Init, NewStreamIdMapper, IInv, TypeOK
  <2>3. Cardinality(At("received")) = 0 /\ Cardinality(At("sent")) = 0
    BY <2>1, FS_EmptySet
  <2>4. QED
    BY <2>1, <2>2, <2>3, MaxStreamIdsType DEF GaugeInv
<1>2. IInv /\ GaugeInv => GaugeExact
  <2> SUFFICES ASSUME IInv, GaugeInv, \A p \in Procs : pc[p] = "idle", ~closed
               PROVE  metrics = Cardinality(MappedIds)
    BY DEF GaugeInv, GaugeExact
  <2>1. /\ IsFiniteSet(FreeIds) /\ Cardinality(FreeIds) = Len(clusterIds)
        /\ Len(clusterIds) \in Nat
    <3>1. /\ clusterIds \in Seq(Ids)
          /\ \A j, k \in DOMAIN clusterIds : clusterIds[j] = clusterIds[k] => j = k
      BY DEF IInv, TypeOK, IdsConserved
    <3>2. FreeIds = {clusterIds[k] : k \in DOMAIN clusterIds}
      BY DEF FreeIds
    <3>3. QED
      BY <3>1, <3>2, QueueLength, LenProperties
  <2>2. Ids = FreeIds \cup MappedIds /\ FreeIds \cap MappedIds = {}
    <3>1. \A p \in Procs : ~InTransit(p)
      BY DEF InTransit
    <3>2. FreeIds \subseteq Ids
      BY LenProperties, ElementOfSeq DEF IInv, TypeOK, FreeIds
    <3>3. QED
      BY <3>1, <3>2 DEF IInv, IdsConserved, MappedIds
  <2>3. IsFiniteSet(MappedIds) /\ Cardinality(MappedIds) \in Nat
    BY MaxStreamIdsType, FS_Subset, FS_CardinalityType DEF MappedIds
  <2>4. maxStreamIds = Len(clusterIds) + Cardinality(MappedIds)
    <3>1. Cardinality(FreeIds \cap MappedIds) = 0
      BY <2>2, FS_EmptySet
    <3>2. Cardinality(FreeIds \cup MappedIds) =
             Cardinality(FreeIds) + Cardinality(MappedIds) - Cardinality(FreeIds \cap MappedIds)
      BY <2>1, <2>3, FS_Union
    <3>3. Cardinality(FreeIds \cup MappedIds) = maxStreamIds
      BY <2>2, MaxStreamIdsType
    <3>4. QED
      BY <2>1, <2>3, <3>1, <3>2, <3>3
  <2>5. At("received") = {} /\ At("sent") = {}
    BY DEF At
  <2>6. Cardinality(At("received")) = 0 /\ Cardinality(At("sent")) = 0
    BY <2>5, FS_EmptySet
  <2>7. metrics = maxStreamIds - Len(clusterIds)
    BY <2>1, <2>6, MaxStreamIdsType DEF GaugeInv
  <2>8. QED
    BY <2>1, <2>3, <2>4, <2>7
<1>3. QED
  BY <1>1, <1>2, InitIInv, NextIInv, NextGaugeInv, PTL DEF Spec
=============================================================================
