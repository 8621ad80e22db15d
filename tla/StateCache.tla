----------------------------- MODULE StateCache -----------------------------
(***************************************************************************)
(* The attribute cache of one topic: CacheMap (cache_map.cpp) fed by       *)
(* TopicMerger (topic_merger.cpp) with the envelopes a data track receives *)
(* in datagrams.  The server numbers its envelopes with rising op ids;     *)
(* they may be lost, repeated or overtake one another.  The inner          *)
(* operations of one envelope are merged one by one, each under CacheMap's *)
(* lock, so readers and clear() may come between them.                     *)
(* A stored value is named by the op id that wrote it; 0 means no entry.   *)
(* The counters of TopicMergerStats are left out.                          *)
(***************************************************************************)
EXTENDS Integers, Sequences, FiniteSets

CONSTANTS
    Keys,
    NoKey,      \* an inner operation without a usable "key"
    MaxOps      \* bound: envelopes the server publishes

ASSUME CacheAssumption ==
    /\ IsFiniteSet(Keys)
    /\ NoKey \notin Keys
    /\ MaxOps \in Nat

InnerOps == [key : Keys \cup {NoKey}, tombstone : BOOLEAN]

\* One operation, or a batch about different keys.
Batches ==
    {<<o>> : o \in InnerOps}
        \cup {b \in InnerOps \X InnerOps : b[1].key # b[2].key}

VARIABLES
    published,         \* the server's envelopes: op id -> its inner operations
    \* CacheMap
    entries,           \* entries_: key -> op id of the stored value
    highest_op_id,     \* highest_op_id_
    \* TopicMerger
    op_id, todo,       \* the envelope in apply_envelope(), and its operations to come
    accepted, tombstoned,  \* its MergeBatchResult so far
    \* the host
    mirror,            \* what the host knows from the change handler
    view,              \* what the host knows from the results of apply_envelope()
    \* history
    merged,            \* operations merged since the last clear()
    torn,              \* the last clear() came between two operations of an envelope
    overtaken          \* an envelope has arrived after a newer one

cache  == <<entries, highest_op_id>>
batch  == <<op_id, todo, accepted, tombstoned>>
history == <<merged, torn, overtaken>>
vars   == <<published, cache, batch, mirror, view, history>>

Empty == [k \in Keys |-> 0]

Init ==
    /\ published = <<>>
    /\ entries = Empty /\ highest_op_id = 0
    /\ op_id = 0 /\ todo = <<>> /\ accepted = {} /\ tombstoned = {}
    /\ mirror = Empty /\ view = Empty
    /\ merged = {} /\ torn = FALSE /\ overtaken = FALSE

----------------------------------------------------------------------------
(* The server *)

Publish(ops) ==
    /\ Len(published) < MaxOps
    /\ published' = Append(published, ops)
    /\ UNCHANGED <<cache, batch, mirror, view, history>>

----------------------------------------------------------------------------
(* TopicMerger::apply_envelope(), called with each datagram of the track *)

Idle == todo = <<>>

\* Some published envelope arrives, maybe not for the first time.  (What is no
\* envelope, is cut short, or holds no JSON object or array merges nothing.)
ApplyEnvelope(id) ==
    /\ Idle
    /\ id \in DOMAIN published
    /\ op_id' = id
    /\ todo' = published[id]
    /\ accepted' = {} /\ tombstoned' = {}
    /\ overtaken' = (overtaken \/ id < op_id)
    /\ UNCHANGED <<published, cache, mirror, view, merged, torn>>

op == Head(todo)

\* The host takes over the result when the last operation is done.
Deliver(acc, tomb) ==
    /\ todo' = Tail(todo)
    /\ accepted' = acc /\ tombstoned' = tomb
    /\ view' = IF Tail(todo) # <<>> THEN view
               ELSE [k \in Keys |-> IF k \in acc THEN op_id
                                    ELSE IF k \in tomb THEN 0 ELSE view[k]]

SkipMalformed ==
    /\ todo # <<>>
    /\ op.key = NoKey
    /\ Deliver(accepted, tombstoned)
    /\ UNCHANGED <<published, cache, op_id, mirror, history>>

\* Mutation: one gate for the whole topic instead of one per key.
Rejects_WholeTopic(key) == op_id <= highest_op_id

\* Mutation: whatever arrives last wins.
Rejects_Never(key) == FALSE

\* CacheMap::merge(): the gate.
Rejects(key) == entries[key] # 0 /\ op_id <= entries[key]

\* Mutation: only accepted operations advance the resume point.
Observe_AcceptedOnly ==
    /\ highest_op_id' = IF op_id > highest_op_id /\ ~Rejects(op.key) /\ ~op.tombstone
                        THEN op_id ELSE highest_op_id
    /\ merged' = merged \cup {[key |-> op.key, op_id |-> op_id, tombstone |-> op.tombstone]}

\* Mutation: the resume point is the first op id not seen.
Observe_NextId ==
    /\ highest_op_id' = IF op_id >= highest_op_id THEN op_id + 1 ELSE highest_op_id
    /\ merged' = merged \cup {[key |-> op.key, op_id |-> op_id, tombstone |-> op.tombstone]}

\* The highest op id advances whether or not the operation is accepted.
Observe ==
    /\ highest_op_id' = IF op_id > highest_op_id THEN op_id ELSE highest_op_id
    /\ merged' = merged \cup {[key |-> op.key, op_id |-> op_id, tombstone |-> op.tombstone]}

MergeRejected ==
    /\ todo # <<>>
    /\ op.key # NoKey
    /\ Rejects(op.key)
    /\ Observe
    /\ Deliver(accepted, tombstoned)
    /\ UNCHANGED <<published, entries, op_id, mirror, torn, overtaken>>

\* Mutation: the change handler is not called when an entry is removed.
MergeTombstone_Silent ==
    /\ todo # <<>>
    /\ op.key # NoKey
    /\ op.tombstone /\ ~Rejects(op.key)
    /\ Observe
    /\ entries' = [entries EXCEPT ![op.key] = 0]
    /\ Deliver(accepted, tombstoned \cup {op.key})
    /\ UNCHANGED <<published, op_id, mirror, torn, overtaken>>

\* The entry is erased and the change handler told, if there was one.
MergeTombstone ==
    /\ todo # <<>>
    /\ op.key # NoKey
    /\ op.tombstone /\ ~Rejects(op.key)
    /\ Observe
    /\ entries' = [entries EXCEPT ![op.key] = 0]
    /\ mirror' = IF entries[op.key] = 0 THEN mirror ELSE [mirror EXCEPT ![op.key] = 0]
    /\ Deliver(accepted, tombstoned \cup {op.key})
    /\ UNCHANGED <<published, op_id, torn, overtaken>>

\* Mutation: a new key is not among the accepted ones.
MergeSet_NewUnreported ==
    /\ todo # <<>>
    /\ op.key # NoKey
    /\ ~op.tombstone /\ ~Rejects(op.key)
    /\ Observe
    /\ entries' = [entries EXCEPT ![op.key] = op_id]
    /\ mirror' = [mirror EXCEPT ![op.key] = op_id]
    /\ Deliver(IF entries[op.key] = 0 THEN accepted ELSE accepted \cup {op.key}, tombstoned)
    /\ UNCHANGED <<published, op_id, torn, overtaken>>

MergeSet ==
    /\ todo # <<>>
    /\ op.key # NoKey
    /\ ~op.tombstone /\ ~Rejects(op.key)
    /\ Observe
    /\ entries' = [entries EXCEPT ![op.key] = op_id]
    /\ mirror' = [mirror EXCEPT ![op.key] = op_id]
    /\ Deliver(accepted \cup {op.key}, tombstoned)
    /\ UNCHANGED <<published, op_id, torn, overtaken>>

----------------------------------------------------------------------------
(* CacheMap::clear(), by the host, which forgets what it knew *)

Clear ==
    /\ entries' = Empty /\ highest_op_id' = 0
    /\ mirror' = Empty /\ view' = Empty
    /\ merged' = {}
    /\ torn' = (todo # <<>>)
    /\ UNCHANGED <<published, batch, overtaken>>

----------------------------------------------------------------------------
Apply ==
    \/ SkipMalformed \/ MergeRejected \/ MergeTombstone \/ MergeSet

\* Any delivery, clear() at any moment.
Next ==
    \/ Apply
    \/ Clear
    \/ \E ops \in Batches : Publish(ops)
    \/ \E id \in 1 .. MaxOps : ApplyEnvelope(id)

Spec == Init /\ [][Next]_vars

----------------------------------------------------------------------------
OpIds == 0 .. MaxOps

\* The cache holds entries with the op ids of operations that were published, and
\* highest_op_id_ is one of those ids or 0.
TypeOK ==
    /\ published \in Seq(Batches)
    /\ entries \in [Keys -> OpIds] /\ highest_op_id \in OpIds
    /\ op_id \in OpIds /\ todo \in Seq(InnerOps)
    /\ accepted \subseteq Keys /\ tombstoned \subseteq Keys
    /\ mirror \in [Keys -> OpIds] /\ view \in [Keys -> OpIds]
    /\ merged \subseteq [key : Keys, op_id : OpIds, tombstone : BOOLEAN]
    /\ torn \in BOOLEAN /\ overtaken \in BOOLEAN

About(k) == {m \in merged : m.key = k}

Newest(S) == CHOOSE m \in S : \A n \in S : n.op_id <= m.op_id

AsLeftBy(k, m) == entries[k] = IF m.tombstone THEN 0 ELSE m.op_id

\* A key nobody deleted holds the newest of the values that arrived, in whatever
\* order and however often they came, and a deletion never brings in a value
\* that did not arrive.
NewestSetWins ==
    \A k \in Keys :
        /\ About(k) # {} /\ (\A m \in About(k) : ~m.tombstone) =>
               entries[k] = Newest(About(k)).op_id
        /\ entries[k] # 0 => [key |-> k, op_id |-> entries[k], tombstone |-> FALSE] \in About(k)
        /\ \A m \in About(k) : entries[k] = 0 /\ ~m.tombstone =>
               \E t \in About(k) : t.tombstone /\ t.op_id > m.op_id

\* The resume point is the newest op id seen: nothing stored or seen is newer
\* (the server would send it again for nothing) and nothing above it was seen.
ResumePoint ==
    /\ \A m \in merged : m.op_id <= highest_op_id
    /\ highest_op_id > 0 => \E m \in merged : m.op_id = highest_op_id

\* A host that follows the change handler always has the same picture as get().
MirrorAgrees == mirror = entries

\* A host that follows the results of apply_envelope() has it between envelopes,
\* as long as it clears the cache between envelopes too.
ViewAgrees == Idle /\ ~torn => view = entries

\* As long as no envelope has been overtaken by a newer one, every key is as its
\* newest operation left it, set to its value or deleted.
DeletedStaysDeleted ==
    ~overtaken =>
        \A k \in Keys : About(k) # {} => AsLeftBy(k, Newest(About(k)))

\* "Highest op_id per key wins; tombstones erase" (cache_map.h), whatever the
\* order of arrival.
HighestOpWins ==
    \A k \in Keys : About(k) # {} => AsLeftBy(k, Newest(About(k)))
=============================================================================
