-------------------------- MODULE StateCacheProofs --------------------------
(***************************************************************************)
(* Theorems about StateCache, for every set of keys and any number of      *)
(* envelopes: lost, repeated and overtaking deliveries, and clear() at any *)
(* moment, between two operations of an envelope included.                 *)
(***************************************************************************)
EXTENDS StateCache, TLAPS

----------------------------------------------------------------------------
(* The inductive invariant *)

\* The inner operations of envelope id.
OpsOf(id) == {published[id][j] : j \in DOMAIN published[id]}

\* What apply_envelope() has still to merge belongs to the envelope it was
\* called with, and concerns keys it has not yet reported.
InEnvelope ==
    /\ todo # <<>> => op_id \in DOMAIN published
    /\ \A i \in DOMAIN todo :
           /\ todo[i] \in OpsOf(op_id)
           /\ todo[i].key \notin accepted \cup tombstoned
    /\ \A i, j \in DOMAIN todo : i # j => todo[i].key # todo[j].key

\* Every operation merged was published under its op id.
Genuine ==
    \A m \in merged :
        /\ m.op_id \in DOMAIN published
        /\ \E o \in OpsOf(m.op_id) : o.key = m.key /\ o.tombstone = m.tombstone

\* A set that arrived is stored, superseded by a newer one, or older than a
\* deletion that arrived too; and what is stored did arrive.
Accounted ==
    /\ \A m \in merged : ~m.tombstone =>
           \/ m.op_id <= entries[m.key]
           \/ \E t \in merged : t.key = m.key /\ t.tombstone /\ t.op_id > m.op_id
    /\ \A k \in Keys : entries[k] # 0 =>
           [key |-> k, op_id |-> entries[k], tombstone |-> FALSE] \in merged

\* While one envelope is merged, the host's view lacks exactly what the result
\* under construction says.
ViewLags ==
    ~torn =>
        \A k \in Keys :
            IF todo # <<>> /\ k \in accepted THEN entries[k] = op_id
            ELSE IF todo # <<>> /\ k \in tombstoned THEN entries[k] = 0
            ELSE view[k] = entries[k]

\* m is the last word on its key.
IsTop(m) == \A n \in merged : n.key = m.key => n.op_id <= m.op_id

\* Without overtaking, op ids rise and the last operation merged is the newest.
Settled ==
    ~overtaken =>
        /\ \A m \in merged : m.op_id <= op_id
        /\ \A m \in merged : \E n \in merged :
               n.key = m.key /\ IsTop(n) /\ AsLeftBy(n.key, n)

CacheInv ==
    /\ TypeOK
    /\ InEnvelope
    /\ Genuine
    /\ Accounted
    /\ ResumePoint
    /\ MirrorAgrees
    /\ ViewLags
    /\ Settled

----------------------------------------------------------------------------
(* Envelopes *)

\* The payload of an envelope is a sequence of operations about different keys.
LEMMA BatchShape ==
    ASSUME NEW b \in Batches
    PROVE  /\ b \in Seq(InnerOps)
           /\ \A i, j \in DOMAIN b : i # j => b[i].key # b[j].key
  <1>1. CASE b \in {<<o>> : o \in InnerOps}
    <2>1. PICK o \in InnerOps : b = <<o>>
      BY <1>1
    <2> QED BY <2>1
  <1>2. CASE b \in {c \in InnerOps \X InnerOps : c[1].key # c[2].key}
    <2>1. PICK o \in InnerOps, p \in InnerOps : b = <<o, p>>
      BY <1>2
    <2>2. o.key # p.key
      BY <1>2, <2>1
    <2>3. b \in Seq(InnerOps) /\ DOMAIN b = 1..2 /\ b[1] = o /\ b[2] = p
      BY <2>1
    <2>4. ASSUME NEW i \in DOMAIN b, NEW j \in DOMAIN b, i # j PROVE b[i].key # b[j].key
      <3>1. (i = 1 /\ j = 2) \/ (i = 2 /\ j = 1)
        BY <2>3, <2>4
      <3> QED BY <2>2, <2>3, <3>1
    <2> QED BY <2>3, <2>4
  <1> QED BY <1>1, <1>2 DEF Batches

\* In one envelope no key is both set and deleted.
LEMMA OneOpPerKey ==
    ASSUME TypeOK, NEW id \in DOMAIN published,
           NEW o \in OpsOf(id), NEW p \in OpsOf(id), o.key = p.key
    PROVE  o = p
  <1>1. published[id] \in Batches
    BY DEF TypeOK
  <1>2. PICK i \in DOMAIN published[id], j \in DOMAIN published[id] :
            o = published[id][i] /\ p = published[id][j]
    BY DEF OpsOf
  <1> QED BY <1>1, <1>2, BatchShape

\* What apply_envelope() knows of the operation it is about to merge.
LEMMA OpFacts ==
    ASSUME TypeOK, InEnvelope, todo # <<>>
    PROVE  /\ op \in InnerOps /\ op \in OpsOf(op_id)
           /\ op.key \notin accepted \cup tombstoned
           /\ op_id \in DOMAIN published /\ op_id \in 1..MaxOps
           /\ Tail(todo) \in Seq(InnerOps)
           /\ \A i \in DOMAIN Tail(todo) :
                  /\ i + 1 \in DOMAIN todo
                  /\ Tail(todo)[i] = todo[i + 1]
                  /\ todo[i + 1].key # op.key
  <1> USE DEF op
  <1>1. todo \in Seq(InnerOps) /\ op_id \in 0..MaxOps /\ MaxOps \in Nat
    BY CacheAssumption DEF TypeOK, OpIds
  <1>2. /\ Len(todo) \in Nat \ {0} /\ DOMAIN todo = 1..Len(todo) /\ 1 \in DOMAIN todo
        /\ op = todo[1] /\ Tail(todo) \in Seq(InnerOps)
        /\ Len(Tail(todo)) = Len(todo) - 1 /\ DOMAIN Tail(todo) = 1..(Len(todo) - 1)
        /\ \A i \in 1..(Len(todo) - 1) : Tail(todo)[i] = todo[i + 1]
    BY <1>1
  <1>3. op \in InnerOps
    BY <1>1, <1>2
  <1>4. op \in OpsOf(op_id) /\ op.key \notin accepted \cup tombstoned
    BY <1>2 DEF InEnvelope
  <1>5. op_id \in DOMAIN published /\ op_id \in 1..MaxOps
    <2>1. op_id \in DOMAIN published
      BY DEF InEnvelope
    <2>2. op_id # 0
      BY <2>1 DEF TypeOK
    <2> QED BY <1>1, <2>1, <2>2
  <1>6. ASSUME NEW i \in DOMAIN Tail(todo)
        PROVE  /\ i + 1 \in DOMAIN todo /\ Tail(todo)[i] = todo[i + 1]
               /\ todo[i + 1].key # op.key
    <2>1. i \in 1..(Len(todo) - 1) /\ i + 1 \in 1..Len(todo) /\ i + 1 # 1
      BY <1>2
    <2> QED BY <1>2, <2>1 DEF InEnvelope
  <1> QED BY <1>2, <1>3, <1>4, <1>5, <1>6

----------------------------------------------------------------------------
(* Type correctness *)

\* Op ids are numbers, and 0 is the one that names no value.
LEMMA OpIdFacts == /\ MaxOps \in Nat /\ OpIds = 0..MaxOps /\ 0 \in OpIds
                   /\ OpIds \subseteq Nat /\ NoKey \notin Keys
  BY CacheAssumption DEF OpIds

\* A new cache has its type.
LEMMA TypeInit == Init => TypeOK
  <1> SUFFICES ASSUME Init PROVE TypeOK
    OBVIOUS
  <1>1. Empty \in [Keys -> OpIds]
    BY OpIdFacts DEF Empty
  <1>2. published \in Seq(Batches) /\ todo \in Seq(InnerOps)
    BY DEF Init
  <1> QED BY <1>1, <1>2, OpIdFacts DEF Init, TypeOK

\* Merging an operation, or skipping a malformed one, takes it from the front of
\* the batch and gives the host a view of op ids.
LEMMA DeliverType ==
    ASSUME TypeOK, InEnvelope, todo # <<>>,
           NEW acc \in SUBSET Keys, NEW tomb \in SUBSET Keys, Deliver(acc, tomb)
    PROVE  /\ todo' \in Seq(InnerOps)
           /\ accepted' \subseteq Keys /\ tombstoned' \subseteq Keys
           /\ view' \in [Keys -> OpIds]
  <1>1. op_id \in OpIds /\ 0 \in OpIds /\ view \in [Keys -> OpIds]
    BY OpIdFacts DEF TypeOK
  <1>2. view' \in [Keys -> OpIds]
    BY <1>1 DEF Deliver
  <1> QED BY <1>2, OpFacts DEF Deliver

\* The record of a merged operation and the resume point have their types.
LEMMA ObserveType ==
    ASSUME TypeOK, InEnvelope, todo # <<>>, op.key # NoKey, Observe
    PROVE  /\ op.key \in Keys /\ op.tombstone \in BOOLEAN
           /\ highest_op_id' \in OpIds
           /\ merged' \subseteq [key : Keys, op_id : OpIds, tombstone : BOOLEAN]
  <1>1. op \in InnerOps /\ op_id \in OpIds
    BY OpFacts DEF TypeOK
  <1>2. op.key \in Keys /\ op.tombstone \in BOOLEAN
    BY <1>1 DEF InnerOps
  <1>3. [key |-> op.key, op_id |-> op_id, tombstone |-> op.tombstone]
            \in [key : Keys, op_id : OpIds, tombstone : BOOLEAN]
    BY <1>1, <1>2
  <1> QED BY <1>1, <1>2, <1>3 DEF Observe, TypeOK

\* No operation of the server, the merger or the host breaks the type.
LEMMA TypeStep == TypeOK /\ InEnvelope /\ [Next]_vars => TypeOK'
  <1> SUFFICES ASSUME TypeOK, InEnvelope, [Next]_vars PROVE TypeOK'
    OBVIOUS
  <1>a. accepted \subseteq Keys /\ tombstoned \subseteq Keys /\ op_id \in OpIds
        /\ 0 \in OpIds /\ entries \in [Keys -> OpIds] /\ mirror \in [Keys -> OpIds]
    BY OpIdFacts DEF TypeOK
  <1>1. CASE SkipMalformed
    <2>1. todo # <<>> /\ Deliver(accepted, tombstoned)
      BY <1>1 DEF SkipMalformed
    <2>2. /\ todo' \in Seq(InnerOps) /\ accepted' \subseteq Keys
          /\ tombstoned' \subseteq Keys /\ view' \in [Keys -> OpIds]
      BY <1>a, <2>1, DeliverType
    <2> QED BY <1>1, <2>2 DEF SkipMalformed, TypeOK, cache, history
  <1>2. CASE MergeRejected
    <2>1. todo # <<>> /\ op.key # NoKey /\ Observe /\ Deliver(accepted, tombstoned)
      BY <1>2 DEF MergeRejected
    <2>2. /\ todo' \in Seq(InnerOps) /\ accepted' \subseteq Keys
          /\ tombstoned' \subseteq Keys /\ view' \in [Keys -> OpIds]
      BY <1>a, <2>1, DeliverType
    <2> QED BY <1>2, <2>1, <2>2, ObserveType DEF MergeRejected, TypeOK
  <1>3. CASE MergeTombstone
    <2>1. /\ todo # <<>> /\ op.key # NoKey /\ Observe
          /\ Deliver(accepted, tombstoned \cup {op.key})
      BY <1>3 DEF MergeTombstone
    <2>2. op.key \in Keys /\ tombstoned \cup {op.key} \subseteq Keys
      BY <1>a, <2>1, ObserveType
    <2>3. /\ todo' \in Seq(InnerOps) /\ accepted' \subseteq Keys
          /\ tombstoned' \subseteq Keys /\ view' \in [Keys -> OpIds]
      BY <1>a, <2>1, <2>2, DeliverType
    <2>4. entries' \in [Keys -> OpIds] /\ mirror' \in [Keys -> OpIds]
      BY <1>3, <1>a DEF MergeTombstone
    <2> QED BY <1>3, <2>1, <2>3, <2>4, ObserveType DEF MergeTombstone, TypeOK
  <1>4. CASE MergeSet
    <2>1. /\ todo # <<>> /\ op.key # NoKey /\ Observe
          /\ Deliver(accepted \cup {op.key}, tombstoned)
      BY <1>4 DEF MergeSet
    <2>2. op.key \in Keys /\ accepted \cup {op.key} \subseteq Keys
      BY <1>a, <2>1, ObserveType
    <2>3. /\ todo' \in Seq(InnerOps) /\ accepted' \subseteq Keys
          /\ tombstoned' \subseteq Keys /\ view' \in [Keys -> OpIds]
      BY <1>a, <2>1, <2>2, DeliverType
    <2>4. entries' \in [Keys -> OpIds] /\ mirror' \in [Keys -> OpIds]
      BY <1>4, <1>a DEF MergeSet
    <2> QED BY <1>4, <2>1, <2>3, <2>4, ObserveType DEF MergeSet, TypeOK
  <1>5. CASE Clear
    <2>1. Empty \in [Keys -> OpIds]
      BY <1>a DEF Empty
    <2> QED BY <1>5, <1>a, <2>1 DEF Clear, TypeOK, batch
  <1>6. ASSUME NEW ops \in Batches, Publish(ops) PROVE TypeOK'
    <2>1. published' \in Seq(Batches)
      BY <1>6 DEF Publish, TypeOK
    <2> QED BY <1>6, <2>1 DEF Publish, TypeOK, cache, batch, history
  <1>7. ASSUME NEW id \in 1..MaxOps, ApplyEnvelope(id) PROVE TypeOK'
    <2>1. id \in OpIds
      BY <1>7, OpIdFacts
    <2>2. todo' \in Seq(InnerOps)
      BY <1>7, BatchShape DEF ApplyEnvelope, TypeOK
    <2>3. overtaken' \in BOOLEAN
      BY <1>7 DEF ApplyEnvelope
    <2> QED BY <1>7, <2>1, <2>2, <2>3 DEF ApplyEnvelope, TypeOK, cache
  <1>8. CASE UNCHANGED vars
    BY <1>8 DEF vars, cache, batch, history, TypeOK
  <1> QED BY <1>1, <1>2, <1>3, <1>4, <1>5, <1>6, <1>7, <1>8 DEF Next, Apply

----------------------------------------------------------------------------
(* What a step may do *)

\* The server's log only grows: what was published under an op id stays.
LEMMA LogGrows ==
    ASSUME TypeOK, [Next]_vars, NEW id \in DOMAIN published
    PROVE  id \in DOMAIN published' /\ OpsOf(id)' = OpsOf(id)
  <1>1. CASE published' = published
    BY <1>1 DEF OpsOf
  <1>2. ASSUME NEW ops \in Batches, Publish(ops)
        PROVE  id \in DOMAIN published' /\ OpsOf(id)' = OpsOf(id)
    <2>1. id \in DOMAIN published' /\ published'[id] = published[id]
      BY <1>2 DEF Publish, TypeOK
    <2> QED BY <2>1 DEF OpsOf
  <1> QED
    BY <1>1, <1>2 DEF Next, Apply, SkipMalformed, MergeRejected, MergeTombstone, MergeSet,
       Clear, ApplyEnvelope, vars

\* Every branch of the merge loop takes the first operation off the batch and
\* reports at most its key.
LEMMA ApplyFacts ==
    ASSUME Apply
    PROVE  /\ todo # <<>> /\ todo' = Tail(todo)
           /\ UNCHANGED <<published, op_id, torn, overtaken>>
           /\ accepted' \cup tombstoned' \subseteq accepted \cup tombstoned \cup {op.key}
           /\ Deliver(accepted', tombstoned')
  <1> USE DEF Deliver
  <1>1. CASE SkipMalformed
    BY <1>1 DEF SkipMalformed, history
  <1>2. CASE MergeRejected
    BY <1>2 DEF MergeRejected
  <1>3. CASE MergeTombstone
    BY <1>3 DEF MergeTombstone
  <1>4. CASE MergeSet
    BY <1>4 DEF MergeSet
  <1> QED BY <1>1, <1>2, <1>3, <1>4 DEF Apply

\* The three branches of CacheMap::merge(): rejected by the gate, erased, stored.
LEMMA MergeFacts ==
    ASSUME TypeOK, InEnvelope, MergeRejected \/ MergeTombstone \/ MergeSet
    PROVE  /\ op.key \in Keys /\ op.tombstone \in BOOLEAN
           /\ merged' = merged \cup
                  {[key |-> op.key, op_id |-> op_id, tombstone |-> op.tombstone]}
           /\ highest_op_id' = IF op_id > highest_op_id THEN op_id ELSE highest_op_id
           /\ op_id' = op_id /\ overtaken' = overtaken
           /\ \/ /\ entries[op.key] # 0 /\ op_id <= entries[op.key]
                 /\ entries' = entries
              \/ /\ ~(entries[op.key] # 0 /\ op_id <= entries[op.key])
                 /\ op.tombstone
                 /\ entries' = [entries EXCEPT ![op.key] = 0]
              \/ /\ ~(entries[op.key] # 0 /\ op_id <= entries[op.key])
                 /\ ~op.tombstone
                 /\ entries' = [entries EXCEPT ![op.key] = op_id]
  <1>1. todo # <<>> /\ op.key # NoKey /\ Observe
    BY DEF MergeRejected, MergeTombstone, MergeSet
  <1>2. op.key \in Keys /\ op.tombstone \in BOOLEAN
    BY <1>1, ObserveType
  <1> QED BY <1>1, <1>2 DEF Observe, Rejects, MergeRejected, MergeTombstone, MergeSet

----------------------------------------------------------------------------
(* The parts of the invariant *)

\* The rest of a batch stays a part of its envelope while it is merged, whatever
\* the server publishes and the host clears meanwhile.
LEMMA InEnvelopeStep == TypeOK /\ InEnvelope /\ [Next]_vars => InEnvelope'
  <1> SUFFICES ASSUME TypeOK, InEnvelope, [Next]_vars PROVE InEnvelope'
    OBVIOUS
  <1>1. CASE Apply
    <2>1. /\ todo # <<>> /\ todo' = Tail(todo) /\ op_id' = op_id /\ published' = published
          /\ accepted' \cup tombstoned' \subseteq accepted \cup tombstoned \cup {op.key}
      BY <1>1, ApplyFacts
    <2>2. OpsOf(op_id)' = OpsOf(op_id)
      BY <2>1 DEF OpsOf
    <2>3. op_id' \in DOMAIN published'
      BY <2>1, OpFacts
    <2>4. ASSUME NEW i \in DOMAIN todo'
          PROVE  /\ todo'[i] \in OpsOf(op_id)'
                 /\ todo'[i].key \notin accepted' \cup tombstoned'
      <3>1. i + 1 \in DOMAIN todo /\ todo'[i] = todo[i + 1] /\ todo[i + 1].key # op.key
        BY <2>1, <2>4, OpFacts
      <3> QED BY <2>1, <2>2, <3>1 DEF InEnvelope
    <2>5. ASSUME NEW i \in DOMAIN todo', NEW j \in DOMAIN todo', i # j
          PROVE  todo'[i].key # todo'[j].key
      <3>1. /\ i + 1 \in DOMAIN todo /\ todo'[i] = todo[i + 1]
            /\ j + 1 \in DOMAIN todo /\ todo'[j] = todo[j + 1]
        BY <2>1, <2>5, OpFacts
      <3>2. i + 1 # j + 1
        <4>1. i \in Int /\ j \in Int
          BY <2>1, <2>5, OpFacts
        <4> QED BY <2>5, <4>1
      <3> QED BY <3>1, <3>2 DEF InEnvelope
    <2> QED BY <2>3, <2>4, <2>5 DEF InEnvelope
  <1>2. ASSUME NEW id \in 1..MaxOps, ApplyEnvelope(id) PROVE InEnvelope'
    <2>1. /\ id \in DOMAIN published /\ op_id' = id /\ todo' = published[id]
          /\ published' = published /\ accepted' = {} /\ tombstoned' = {}
          /\ published[id] \in Batches
      BY <1>2 DEF ApplyEnvelope, TypeOK
    <2>2. \A i, j \in DOMAIN todo' : i # j => todo'[i].key # todo'[j].key
      BY <2>1, BatchShape
    <2> QED BY <2>1, <2>2 DEF InEnvelope, OpsOf
  <1>3. CASE UNCHANGED batch
    <2>1. CASE todo = <<>>
      BY <1>3, <2>1 DEF batch, InEnvelope
    <2>2. CASE todo # <<>>
      <3>1. op_id \in DOMAIN published' /\ OpsOf(op_id)' = OpsOf(op_id)
        <4>1. op_id \in DOMAIN published
          BY <2>2 DEF InEnvelope
        <4>2. \A id \in DOMAIN published : id \in DOMAIN published' /\ OpsOf(id)' = OpsOf(id)
          BY LogGrows
        <4> QED BY <1>3, <4>1, <4>2 DEF batch, OpsOf
      <3> QED BY <1>3, <2>2, <3>1 DEF batch, InEnvelope
    <2> QED BY <2>1, <2>2
  <1>4. ASSUME NEW ops \in Batches, Publish(ops) PROVE UNCHANGED batch
    BY <1>4 DEF Publish
  <1> QED BY <1>1, <1>2, <1>3, <1>4 DEF Next, Clear, vars

\* merged records nothing but published operations, under their own op ids.
LEMMA GenuineStep == TypeOK /\ InEnvelope /\ Genuine /\ [Next]_vars => Genuine'
  <1> SUFFICES ASSUME TypeOK, InEnvelope, Genuine, [Next]_vars, NEW m \in merged'
               PROVE  /\ m.op_id \in DOMAIN published'
                      /\ \E o \in OpsOf(m.op_id)' : o.key = m.key /\ o.tombstone = m.tombstone
    BY DEF Genuine, OpsOf
  <1>a. \A id \in DOMAIN published : id \in DOMAIN published' /\ OpsOf(id)' = OpsOf(id)
    BY LogGrows
  <1>1. CASE m \in merged
    BY <1>1, <1>a DEF Genuine, OpsOf
  <1>2. CASE m \notin merged
    <2>1. MergeRejected \/ MergeTombstone \/ MergeSet
      BY <1>2 DEF Next, Apply, SkipMalformed, Clear, Publish, ApplyEnvelope, history, vars
    <2>2. m = [key |-> op.key, op_id |-> op_id, tombstone |-> op.tombstone]
      BY <1>2, <2>1, MergeFacts
    <2>3. op_id \in DOMAIN published /\ op \in OpsOf(op_id)
      BY <2>1, OpFacts DEF MergeRejected, MergeTombstone, MergeSet
    <2> QED BY <1>a, <2>2, <2>3 DEF OpsOf
  <1> QED BY <1>1, <1>2

\* The gate keeps the newest set: a value leaves the cache only for a newer one
\* or for a newer deletion.
LEMMA AccountedStep == TypeOK /\ InEnvelope /\ Accounted /\ [Next]_vars => Accounted'
  <1> SUFFICES ASSUME TypeOK, InEnvelope, Accounted, [Next]_vars PROVE Accounted'
    OBVIOUS
  <1>1. CASE MergeRejected \/ MergeTombstone \/ MergeSet
    <2> DEFINE new == [key |-> op.key, op_id |-> op_id, tombstone |-> op.tombstone]
    <2>1. /\ op.key \in Keys /\ merged' = merged \cup {new} /\ op_id \in 1..MaxOps
          /\ entries \in [Keys -> OpIds]
          /\ \A m \in merged : m.key \in Keys /\ m.op_id \in OpIds
      BY <1>1, MergeFacts, OpFacts DEF TypeOK, MergeRejected, MergeTombstone, MergeSet
    <2>2. \A k \in Keys : entries[k] \in Nat
      BY <2>1, OpIdFacts
    <2>3. \A m \in merged : m.op_id \in Nat
      BY <2>1, OpIdFacts
    <2>4. op_id \in Nat \ {0}
      BY <2>1, OpIdFacts
    <2>5. CASE MergeRejected
      <3>1. entries' = entries /\ op_id <= entries[op.key]
        BY <2>5 DEF MergeRejected, Rejects
      <3> QED BY <2>1, <3>1 DEF Accounted
    <2>6. CASE MergeTombstone
      <3>1. /\ ~(entries[op.key] # 0 /\ op_id <= entries[op.key])
            /\ op.tombstone /\ entries' = [entries EXCEPT ![op.key] = 0]
        BY <2>6 DEF MergeTombstone, Rejects
      <3>2. entries[op.key] < op_id
        BY <2>1, <2>2, <2>4, <3>1
      <3>3. ASSUME NEW m \in merged', ~m.tombstone
            PROVE  \/ m.op_id <= entries'[m.key]
                   \/ \E t \in merged' : t.key = m.key /\ t.tombstone /\ t.op_id > m.op_id
        <4>1. m \in merged
          BY <2>1, <3>1, <3>3
        <4>2. CASE \E t \in merged : t.key = m.key /\ t.tombstone /\ t.op_id > m.op_id
          BY <2>1, <4>2
        <4>3. CASE m.op_id <= entries[m.key] /\ m.key = op.key
          <5>1. op_id > m.op_id
            BY <2>1, <2>2, <2>3, <2>4, <3>2, <4>1, <4>3
          <5>2. new.key = m.key /\ new.tombstone /\ new.op_id > m.op_id /\ new \in merged'
            BY <2>1, <3>1, <4>3, <5>1
          <5> QED BY <5>2
        <4>4. CASE m.op_id <= entries[m.key] /\ m.key # op.key
          BY <2>1, <3>1, <4>1, <4>4
        <4> QED BY <3>3, <4>1, <4>2, <4>3, <4>4 DEF Accounted
      <3>4. \A k \in Keys : entries'[k] # 0 =>
                [key |-> k, op_id |-> entries'[k], tombstone |-> FALSE] \in merged'
        BY <2>1, <3>1 DEF Accounted
      <3> QED BY <3>3, <3>4 DEF Accounted
    <2>7. CASE MergeSet
      <3>1. /\ ~(entries[op.key] # 0 /\ op_id <= entries[op.key])
            /\ ~op.tombstone /\ entries' = [entries EXCEPT ![op.key] = op_id]
        BY <2>7 DEF MergeSet, Rejects
      <3>2. entries[op.key] < op_id
        BY <2>1, <2>2, <2>4, <3>1
      <3>a. op.tombstone = FALSE
        BY <1>1, <3>1, MergeFacts
      <3>3. ASSUME NEW m \in merged', ~m.tombstone
            PROVE  \/ m.op_id <= entries'[m.key]
                   \/ \E t \in merged' : t.key = m.key /\ t.tombstone /\ t.op_id > m.op_id
        <4>1. CASE m = new
          BY <2>1, <2>4, <3>1, <4>1
        <4>2. CASE m \in merged /\ \E t \in merged : t.key = m.key /\ t.tombstone /\ t.op_id > m.op_id
          BY <2>1, <4>2
        <4>3. CASE m \in merged /\ m.op_id <= entries[m.key] /\ m.key = op.key
          BY <2>1, <2>2, <2>3, <2>4, <3>1, <3>2, <4>3
        <4>4. CASE m \in merged /\ m.op_id <= entries[m.key] /\ m.key # op.key
          BY <2>1, <3>1, <4>4
        <4> QED BY <2>1, <3>3, <4>1, <4>2, <4>3, <4>4 DEF Accounted
      <3>4. \A k \in Keys : entries'[k] # 0 =>
                [key |-> k, op_id |-> entries'[k], tombstone |-> FALSE] \in merged'
        BY <2>1, <3>1, <3>a DEF Accounted
      <3> QED BY <3>3, <3>4 DEF Accounted
    <2> QED BY <1>1, <2>5, <2>6, <2>7
  <1>2. CASE Clear
    BY <1>2 DEF Clear, Accounted, Empty
  <1>3. CASE UNCHANGED <<entries, merged>>
    BY <1>3 DEF Accounted
  <1> QED
    BY <1>1, <1>2, <1>3 DEF Next, Apply, SkipMalformed, Publish, ApplyEnvelope, vars, cache,
       history

\* The resume point follows every operation merged, rejected ones included.
LEMMA ResumePointStep == TypeOK /\ InEnvelope /\ ResumePoint /\ [Next]_vars => ResumePoint'
  <1> SUFFICES ASSUME TypeOK, InEnvelope, ResumePoint, [Next]_vars PROVE ResumePoint'
    OBVIOUS
  <1>1. CASE MergeRejected \/ MergeTombstone \/ MergeSet
    <2> DEFINE new == [key |-> op.key, op_id |-> op_id, tombstone |-> op.tombstone]
    <2>1. op_id \in Nat /\ highest_op_id \in Nat /\ \A m \in merged : m.op_id \in Nat
      BY OpIdFacts DEF TypeOK
    <2>2. /\ merged' = merged \cup {new} /\ new.op_id = op_id
          /\ highest_op_id' = IF op_id > highest_op_id THEN op_id ELSE highest_op_id
      BY <1>1, MergeFacts
    <2> HIDE DEF new
    <2>3. \A m \in merged' : m.op_id <= highest_op_id'
      BY <2>1, <2>2 DEF ResumePoint
    <2>4. highest_op_id' > 0 => \E m \in merged' : m.op_id = highest_op_id'
      <3>1. CASE op_id > highest_op_id
        BY <2>2, <3>1
      <3>2. CASE ~(op_id > highest_op_id)
        BY <2>2, <3>2 DEF ResumePoint
      <3> QED BY <3>1, <3>2
    <2> QED BY <2>3, <2>4 DEF ResumePoint
  <1>2. CASE Clear
    BY <1>2 DEF Clear, ResumePoint
  <1>3. CASE UNCHANGED <<highest_op_id, merged>>
    BY <1>3 DEF ResumePoint
  <1> QED
    BY <1>1, <1>2, <1>3 DEF Next, Apply, SkipMalformed, Publish, ApplyEnvelope, vars, cache,
       history

\* The change handler is told of every change of entries_ and of nothing else.
LEMMA MirrorStep == TypeOK /\ MirrorAgrees /\ [Next]_vars => MirrorAgrees'
  <1> SUFFICES ASSUME TypeOK, mirror = entries, [Next]_vars PROVE mirror' = entries'
    BY DEF MirrorAgrees
  <1>1. CASE MergeTombstone
    <2>1. CASE entries[op.key] = 0
      <3>1. [entries EXCEPT ![op.key] = 0] = entries
        BY <2>1 DEF TypeOK
      <3> QED BY <1>1, <2>1, <3>1 DEF MergeTombstone
    <2> QED BY <1>1, <2>1 DEF MergeTombstone
  <1>2. CASE MergeSet
    BY <1>2 DEF MergeSet
  <1>3. CASE Clear
    BY <1>3 DEF Clear
  <1>4. CASE UNCHANGED <<entries, mirror>>
    BY <1>4
  <1> QED
    BY <1>1, <1>2, <1>3, <1>4 DEF Next, Apply, SkipMalformed, MergeRejected, Publish,
       ApplyEnvelope, vars, cache

\* Between envelopes the result of apply_envelope() has brought the host's view up
\* to the cache; within one, the view lags by what the result will say.
LEMMA ViewLagsStep == TypeOK /\ InEnvelope /\ ViewLags /\ [Next]_vars => ViewLags'
  <1> SUFFICES ASSUME TypeOK, InEnvelope, ViewLags, [Next]_vars, ~torn', NEW k \in Keys
               PROVE  IF todo' # <<>> /\ k \in accepted' THEN entries'[k] = op_id'
                      ELSE IF todo' # <<>> /\ k \in tombstoned' THEN entries'[k] = 0
                      ELSE view'[k] = entries'[k]
    BY DEF ViewLags
  <1>a. entries \in [Keys -> OpIds] /\ view \in [Keys -> OpIds]
    BY DEF TypeOK
  <1>1. CASE Apply
    <2>1. /\ todo # <<>> /\ op_id' = op_id /\ torn' = torn /\ Deliver(accepted', tombstoned')
          /\ op.key \notin accepted \cup tombstoned
      BY <1>1, ApplyFacts, OpFacts
    <2>2. IF k \in accepted THEN entries[k] = op_id
          ELSE IF k \in tombstoned THEN entries[k] = 0
          ELSE view[k] = entries[k]
      BY <2>1 DEF ViewLags
    <2>3. IF k \in accepted' THEN entries'[k] = op_id
          ELSE IF k \in tombstoned' THEN entries'[k] = 0
          ELSE view[k] = entries'[k]
      <3>1. CASE SkipMalformed
        BY <2>2, <3>1 DEF SkipMalformed, Deliver, cache
      <3>2. CASE MergeRejected
        BY <2>2, <3>2 DEF MergeRejected, Deliver
      <3>3. CASE MergeTombstone
        <4>1. /\ accepted' = accepted /\ tombstoned' = tombstoned \cup {op.key}
              /\ entries' = [entries EXCEPT ![op.key] = 0]
          BY <3>3 DEF MergeTombstone, Deliver
        <4> QED BY <1>a, <2>1, <2>2, <4>1
      <3>4. CASE MergeSet
        <4>1. /\ accepted' = accepted \cup {op.key} /\ tombstoned' = tombstoned
              /\ entries' = [entries EXCEPT ![op.key] = op_id]
          BY <3>4 DEF MergeSet, Deliver
        <4> QED BY <1>a, <2>1, <2>2, <4>1
      <3> QED BY <1>1, <3>1, <3>2, <3>3, <3>4 DEF Apply
    <2>4. CASE todo' # <<>>
      BY <2>1, <2>3, <2>4 DEF Deliver
    <2>5. CASE todo' = <<>>
      <3>1. view'[k] = IF k \in accepted' THEN op_id
                       ELSE IF k \in tombstoned' THEN 0 ELSE view[k]
        BY <2>1, <2>5 DEF Deliver
      <3> QED BY <2>3, <2>5, <3>1
    <2> QED BY <2>4, <2>5
  <1>2. ASSUME NEW id \in 1..MaxOps, ApplyEnvelope(id)
        PROVE  k \notin accepted' /\ k \notin tombstoned' /\ view'[k] = entries'[k]
    BY <1>2 DEF ApplyEnvelope, Idle, ViewLags, cache
  <1>3. CASE Clear
    BY <1>3 DEF Clear, batch
  <1>4. CASE UNCHANGED <<batch, entries, view, torn>>
    BY <1>4 DEF batch, ViewLags
  <1>5. ASSUME NEW ops \in Batches, Publish(ops) PROVE UNCHANGED <<batch, entries, view, torn>>
    BY <1>5 DEF Publish, cache, history
  <1> QED BY <1>1, <1>2, <1>3, <1>4, <1>5 DEF Next, vars, cache, history

\* Two operations merged for one key under one op id are the same one, repeated.
LEMMA SameOp ==
    ASSUME TypeOK, Genuine, NEW m \in merged, NEW n \in merged,
           m.key = n.key, m.op_id = n.op_id
    PROVE  m = n
  <1>1. PICK o \in OpsOf(m.op_id) : o.key = m.key /\ o.tombstone = m.tombstone
    BY DEF Genuine
  <1>2. PICK p \in OpsOf(m.op_id) : p.key = n.key /\ p.tombstone = n.tombstone
    BY DEF Genuine
  <1>3. o = p
    BY <1>1, <1>2, OneOpPerKey DEF Genuine
  <1>4. /\ m \in [key : Keys, op_id : OpIds, tombstone : BOOLEAN]
        /\ n \in [key : Keys, op_id : OpIds, tombstone : BOOLEAN]
    BY DEF TypeOK
  <1> QED BY <1>1, <1>2, <1>3, <1>4

\* As long as op ids arrive in order, the operation merged last has the last word
\* on its key: the gate rejects nothing but a repetition.
LEMMA SettledStep ==
    /\ TypeOK /\ InEnvelope /\ Genuine /\ Accounted /\ Settled
    /\ [Next]_vars
    => Settled'
  <1> SUFFICES ASSUME TypeOK, InEnvelope, Genuine, Accounted, Settled, [Next]_vars,
                      ~overtaken'
               PROVE  /\ \A m \in merged' : m.op_id <= op_id'
                      /\ \A m \in merged' : \E n \in merged' :
                             n.key = m.key /\ IsTop(n)' /\ AsLeftBy(n.key, n)'
    BY DEF Settled, IsTop, AsLeftBy
  <1>a. /\ op_id \in Nat /\ entries \in [Keys -> OpIds]
        /\ merged \subseteq [key : Keys, op_id : OpIds, tombstone : BOOLEAN]
        /\ \A m \in merged : m.key \in Keys /\ m.op_id \in Nat
    BY OpIdFacts DEF TypeOK
  <1>1. CASE MergeRejected \/ MergeTombstone \/ MergeSet
    <2>0. PICK new : new = [key |-> op.key, op_id |-> op_id, tombstone |-> op.tombstone]
      OBVIOUS
    <2>1. /\ op.key \in Keys /\ op.tombstone \in BOOLEAN /\ merged' = merged \cup {new}
          /\ op_id' = op_id /\ ~overtaken
      BY <1>1, <2>0, MergeFacts
    <2>2. /\ \A m \in merged : m.op_id <= op_id
          /\ \A m \in merged : \E n \in merged :
                 n.key = m.key /\ IsTop(n) /\ AsLeftBy(n.key, n)
      BY <2>1 DEF Settled
    <2>3. new.key = op.key /\ new.op_id = op_id /\ new.tombstone = op.tombstone
      BY <2>0
    <2>4. \A m \in merged' : m.op_id <= op_id'
      BY <1>a, <2>1, <2>2, <2>3
    <2>5. IsTop(new)'
      BY <2>1, <2>3, <2>4 DEF IsTop
    <2>6. AsLeftBy(new.key, new)'
      <3>1. CASE entries[op.key] # 0 /\ op_id <= entries[op.key] /\ entries' = entries
        <4> DEFINE old == [key |-> op.key, op_id |-> entries[op.key], tombstone |-> FALSE]
        <4>1. old \in merged
          BY <2>1, <3>1 DEF Accounted
        <4>2. entries[op.key] <= op_id
          BY <2>2, <4>1
        <4>3. entries[op.key] = op_id
          BY <1>a, <2>1, <3>1, <4>2, OpIdFacts
        <4>4. \E o \in OpsOf(op_id) : o.key = op.key /\ o.tombstone = FALSE
          BY <4>1, <4>3 DEF Genuine
        <4>5. op \in OpsOf(op_id) /\ op_id \in DOMAIN published
          BY <1>1, OpFacts DEF MergeRejected, MergeTombstone, MergeSet
        <4>6. op.tombstone = FALSE
          BY <4>4, <4>5, OneOpPerKey
        <4> QED BY <2>3, <3>1, <4>3, <4>6 DEF AsLeftBy
      <3>2. CASE op.tombstone /\ entries' = [entries EXCEPT ![op.key] = 0]
        BY <1>a, <2>1, <2>3, <3>2 DEF AsLeftBy
      <3>3. CASE ~op.tombstone /\ entries' = [entries EXCEPT ![op.key] = op_id]
        BY <1>a, <2>1, <2>3, <3>3 DEF AsLeftBy
      <3> QED BY <1>1, <3>1, <3>2, <3>3, MergeFacts
    <2>7. ASSUME NEW m \in merged'
          PROVE  \E n \in merged' : n.key = m.key /\ IsTop(n)' /\ AsLeftBy(n.key, n)'
      <3>1. CASE m.key = op.key
        BY <2>1, <2>3, <2>5, <2>6, <3>1
      <3>2. CASE m.key # op.key
        <4>1. m \in merged
          BY <2>1, <2>3, <2>7, <3>2
        <4>2. PICK n \in merged : n.key = m.key /\ IsTop(n) /\ AsLeftBy(n.key, n)
          BY <2>2, <4>1
        <4>3. IsTop(n)'
          BY <2>1, <2>3, <3>2, <4>2 DEF IsTop
        <4>4. entries'[n.key] = entries[n.key]
          BY <1>1, <1>a, <2>1, <3>2, <4>2, MergeFacts
        <4> QED BY <2>1, <4>2, <4>3, <4>4 DEF AsLeftBy
      <3> QED BY <3>1, <3>2
    <2> QED BY <2>4, <2>7
  <1>2. ASSUME NEW id \in 1..MaxOps, ApplyEnvelope(id)
        PROVE  /\ UNCHANGED <<entries, merged>> /\ ~overtaken
               /\ \A m \in merged : m.op_id <= op_id'
    <2>0. UNCHANGED <<entries, merged>> /\ ~overtaken /\ ~(id < op_id) /\ op_id' = id
      BY <1>2, Zenon DEF ApplyEnvelope, cache
    <2>1. UNCHANGED <<entries, merged>> /\ ~overtaken /\ op_id <= id /\ op_id' = id
      BY <1>a, <2>0, OpIdFacts
    <2> QED BY <1>2, <1>a, <2>1, OpIdFacts DEF Settled
  <1>3. CASE Clear
    BY <1>3 DEF Clear
  <1>4. CASE UNCHANGED <<entries, merged, overtaken, op_id>>
    BY <1>4 DEF Settled, IsTop, AsLeftBy
  <1>5. CASE UNCHANGED <<entries, merged>> /\ ~overtaken /\ \A m \in merged : m.op_id <= op_id'
    BY <1>5 DEF Settled, IsTop, AsLeftBy
  <1> QED
    BY <1>1, <1>2, <1>3, <1>4, <1>5 DEF Next, Apply, SkipMalformed, Publish, vars, cache,
       batch, history

\* CacheInv holds of an empty cache.
LEMMA CacheInvInit == Init => CacheInv
  <1> SUFFICES ASSUME Init PROVE CacheInv
    OBVIOUS
  <1>1. TypeOK
    BY TypeInit
  <1>2. InEnvelope /\ Genuine /\ Accounted /\ ResumePoint /\ MirrorAgrees /\ ViewLags /\ Settled
    BY DEF Init, Empty, InEnvelope, Genuine, Accounted, ResumePoint, MirrorAgrees, ViewLags,
       Settled
  <1> QED BY <1>1, <1>2 DEF CacheInv

\* CacheInv is inductive: each part is kept by every step, given the parts before it.
LEMMA CacheInvStep == CacheInv /\ [Next]_vars => CacheInv'
  BY TypeStep, InEnvelopeStep, GenuineStep, AccountedStep, ResumePointStep, MirrorStep,
     ViewLagsStep, SettledStep DEF CacheInv

\* The invariant behind the theorems below: what CacheMap and TopicMerger keep true
\* at every unlock, whatever the datagrams bring.
THEOREM CacheInvariant == Spec => []CacheInv
  <1>1. Init => CacheInv
    BY CacheInvInit
  <1>2. CacheInv /\ [Next]_vars => CacheInv'
    BY CacheInvStep
  <1> QED BY <1>1, <1>2, PTL DEF Spec

----------------------------------------------------------------------------
(* What it implies *)

\* CacheMap and TopicMerger keep their types under any delivery.
THEOREM TypeCorrect == Spec => []TypeOK
  <1>1. CacheInv => TypeOK
    BY DEF CacheInv
  <1> QED BY <1>1, CacheInvariant, PTL

\* The maximum that Newest chooses is the one that exists.
LEMMA NewestIsTop ==
    ASSUME TypeOK, NEW k \in Keys, NEW w \in About(k), IsTop(w)
    PROVE  Newest(About(k)) \in About(k) /\ Newest(About(k)).op_id = w.op_id
  <1>1. /\ \A n \in About(k) : n.op_id <= w.op_id
        /\ \A n \in About(k) : n.op_id \in Nat
    BY OpIdFacts DEF About, IsTop, TypeOK
  <1>2. \E m \in About(k) : \A n \in About(k) : n.op_id <= m.op_id
    BY <1>1
  <1>3. /\ Newest(About(k)) \in About(k)
        /\ \A n \in About(k) : n.op_id <= Newest(About(k)).op_id
    BY <1>2 DEF Newest
  <1>4. w.op_id <= Newest(About(k)).op_id /\ Newest(About(k)).op_id <= w.op_id
    BY <1>1, <1>3
  <1> QED BY <1>1, <1>3, <1>4

\* CacheMap::merge(): a key nobody deleted holds the newest value that arrived, in
\* whatever order the datagrams came, and no value leaves but for a newer deletion.
THEOREM NewestSetAlwaysWins == Spec => []NewestSetWins
  <1>1. CacheInv => NewestSetWins
    <2> SUFFICES ASSUME CacheInv, NEW k \in Keys
                 PROVE /\ About(k) # {} /\ (\A m \in About(k) : ~m.tombstone) =>
                              entries[k] = Newest(About(k)).op_id
                       /\ entries[k] # 0 =>
                              [key |-> k, op_id |-> entries[k], tombstone |-> FALSE] \in About(k)
                       /\ \A m \in About(k) : entries[k] = 0 /\ ~m.tombstone =>
                              \E t \in About(k) : t.tombstone /\ t.op_id > m.op_id
      BY DEF NewestSetWins
    <2>a. TypeOK /\ Genuine /\ Accounted
      BY DEF CacheInv
    <2>b. entries[k] \in Nat /\ \A m \in merged : m.op_id \in Nat /\ m.op_id # 0
      BY <2>a, OpIdFacts DEF TypeOK, Genuine
    <2> DEFINE stored == [key |-> k, op_id |-> entries[k], tombstone |-> FALSE]
    <2>1. entries[k] # 0 => stored \in About(k)
      BY <2>a DEF Accounted, About
    <2>2. ASSUME NEW m \in About(k), ~m.tombstone
          PROVE  \/ m.op_id <= entries[k]
                 \/ \E t \in About(k) : t.tombstone /\ t.op_id > m.op_id
      BY <2>2, <2>a DEF Accounted, About
    <2>3. ASSUME NEW m \in About(k), entries[k] = 0, ~m.tombstone
          PROVE  \E t \in About(k) : t.tombstone /\ t.op_id > m.op_id
      <3>1. ~(m.op_id <= entries[k])
        BY <2>3, <2>b DEF About
      <3> QED BY <2>2, <2>3, <3>1
    <2>4. ASSUME About(k) # {}, \A m \in About(k) : ~m.tombstone
          PROVE  entries[k] = Newest(About(k)).op_id
      <3>1. \A m \in About(k) : m.op_id <= entries[k]
        BY <2>2, <2>4
      <3>2. entries[k] # 0
        BY <2>3, <2>4
      <3>3. stored \in About(k) /\ stored.op_id = entries[k]
        BY <2>1, <3>2
      <3>4. IsTop(stored)
        BY <3>1, <3>3 DEF IsTop, About
      <3> QED BY <2>a, <3>3, <3>4, NewestIsTop
    <2> QED BY <2>1, <2>3, <2>4
  <1> QED BY <1>1, CacheInvariant, PTL

\* highest_op_id(), which the subscription resumes from, is the newest op id seen.
THEOREM ResumePointRight == Spec => []ResumePoint
  <1>1. CacheInv => ResumePoint
    BY DEF CacheInv
  <1> QED BY <1>1, CacheInvariant, PTL

\* The change handler's host has the same picture as get() at every unlock.
THEOREM MirrorAlwaysAgrees == Spec => []MirrorAgrees
  <1>1. CacheInv => MirrorAgrees
    BY DEF CacheInv
  <1> QED BY <1>1, CacheInvariant, PTL

\* The host that follows the results of apply_envelope() has it between envelopes,
\* if no clear() came within one.
THEOREM ViewAlwaysAgrees == Spec => []ViewAgrees
  <1>1. CacheInv => ViewAgrees
    <2> SUFFICES ASSUME TypeOK, ViewLags, todo = <<>>, ~torn PROVE view = entries
      BY DEF CacheInv, ViewAgrees, Idle
    <2>1. view \in [Keys -> OpIds] /\ entries \in [Keys -> OpIds]
      BY DEF TypeOK
    <2>2. \A k \in Keys : view[k] = entries[k]
      BY DEF ViewLags
    <2> QED BY <2>1, <2>2
  <1> QED BY <1>1, CacheInvariant, PTL

\* Until an envelope is overtaken every key is as its newest operation left it, so a
\* repeated envelope brings nothing deleted back.
THEOREM DeletedRemainsDeleted == Spec => []DeletedStaysDeleted
  <1>1. CacheInv => DeletedStaysDeleted
    <2> SUFFICES ASSUME CacheInv, ~overtaken, NEW k \in Keys, NEW m \in About(k)
                 PROVE  AsLeftBy(k, Newest(About(k)))
      BY DEF DeletedStaysDeleted
    <2>a. TypeOK /\ Genuine /\ Settled
      BY DEF CacheInv
    <2>1. PICK n \in merged : n.key = k /\ IsTop(n) /\ AsLeftBy(n.key, n)
      BY <2>a DEF Settled, About
    <2>2. n \in About(k)
      BY <2>1 DEF About
    <2>3. Newest(About(k)) \in About(k) /\ Newest(About(k)).op_id = n.op_id
      BY <2>a, <2>1, <2>2, NewestIsTop
    <2>4. Newest(About(k)) = n
      BY <2>a, <2>1, <2>3, SameOp DEF About
    <2> QED BY <2>1, <2>4
  <1> QED BY <1>1, CacheInvariant, PTL
=============================================================================
