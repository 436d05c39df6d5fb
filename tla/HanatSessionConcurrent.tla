------------------------ MODULE HanatSessionConcurrent ------------------------
(***************************************************************************)
(* Several workers on the one session table hm->db (hanat_worker_db.c),    *)
(* with no lock: "Shared table. Needs locking." (line 201).  Each entry    *)
(* point is split into the steps between which another worker can run:     *)
(* the bihash search, the pool_is_free_index check, pool_get_zero with the *)
(* copy into the new slot, the bihash insert or delete, pool_put_index,    *)
(* and the write through the session pointer find returned.  The bihash  *)
(* serialises its own writers, so each bihash call is one step; the pool   *)
(* operations are taken as atomic too, which can only hide interleavings.  *)
(* The pool is vppinfra's: pool_put_index sets the index's bit in the free *)
(* bitmap and appends it to free_indices, pool_get takes the last free     *)
(* index (clearing its bit) or grows the vector, and pool_is_free_index    *)
(* tests the bitmap.  In a release build (no CLIB_DEBUG) pool_put's ASSERT *)
(* that the element is not already free is compiled out, so a second put  *)
(* of an index leaves it twice in free_indices.                            *)
(* The page never fills (the stale path is HanatSessionTable's subject),  *)
(* so add_or_overwrite_stale adds a new key or overwrites an existing one. *)
(* Session data is abstracted to the key and the buffered packet index.    *)
(*                                                                         *)
(*  pool, len          the slots of db->sessions and its vec_len          *)
(*  free, freeList     the pool's free bitmap and free_indices vector      *)
(*  index              db->cache, a partial function key -> slot           *)
(*  pc                  where each worker is inside its current call       *)
(*  call                the call it is in: operation, key, buffer index    *)
(*  value               the local holding the bihash value or session     *)
(***************************************************************************)
EXTENDS Integers, Sequences, FiniteSets, Functions, TLC

CONSTANTS
    Workers,    \* worker threads sharing hm->db
    Keys,       \* session keys (hanat_session_key_t) the packets hash to
    MaxSlots,   \* bound on vec_len(db->sessions)
    Buffers,    \* buffer indices bi passed to add_incomplete (0 excluded)
    NoSlot,     \* the null session pointer / a bihash miss
    NoKey       \* the key of a zeroed slot

Slots == 0 .. MaxSlots - 1

ASSUME /\ NoSlot \notin Slots /\ NoKey \notin Keys /\ 0 \notin Buffers

VARIABLES pool, len, free, freeList, index, pc, call, value

vars == <<pool, len, free, freeList, index, pc, call, value>>

Ops == {"add", "add_incomplete", "delete"}

Init ==
    /\ pool = [s \in Slots |-> [key |-> NoKey, buffer |-> 0]]
    /\ len = 0
    /\ free = {}
    /\ freeList = <<>>
    /\ index = <<>>
    /\ pc = [w \in Workers |-> "idle"]
    /\ call = [w \in Workers |-> [op |-> "add", key |-> NoKey, bi |-> 0]]
    /\ value = [w \in Workers |-> NoSlot]

Goto(w, l) == pc' = [pc EXCEPT ![w] = l]

SetValue(w, v) == value' = [value EXCEPT ![w] = v]

\* a worker enters hanat_worker_cache_add (which calls hanat_session_add),
\* hanat_worker_cache_add_incomplete or hanat_session_delete
Start(w, op, k, bi) ==
    /\ pc[w] = "idle"
    /\ call' = [call EXCEPT ![w] = [op |-> op, key |-> k, bi |-> bi]]
    /\ Goto(w, "search")
    /\ UNCHANGED <<pool, len, free, freeList, index, value>>

\* clib_bihash_search_16_8 on the call's key, the first statement of
\* hanat_session_find and of hanat_session_delete; on a miss delete returns
\* and find returns the null session, so add and add_incomplete allocate
Search(w) ==
    LET k == call[w].key
        v == IF k \in DOMAIN index THEN index[k] ELSE NoSlot
    IN  /\ pc[w] = "search"
        /\ SetValue(w, v)
        /\ Goto(w, CASE call[w].op = "delete" /\ v = NoSlot -> "idle"
                     [] call[w].op = "delete"               -> "put"
                     [] v = NoSlot                          -> "get"
                     [] OTHER                               -> "check")
        /\ UNCHANGED <<pool, len, free, freeList, index, call>>

\* the rest of hanat_session_find: a free index is a miss, else the pointer
\* into the pool; add returns 0 on a hit, add_incomplete buffers into it,
\* and a miss goes on to pool_get_zero
FindCheck(w) ==
    LET s == IF value[w] >= len \/ value[w] \in free THEN NoSlot ELSE value[w]
    IN  /\ pc[w] = "check"
        /\ SetValue(w, s)
        /\ Goto(w, CASE s = NoSlot                       -> "get"
                     [] call[w].op = "add_incomplete"    -> "buffer"
                     [] OTHER                            -> "idle")
        /\ UNCHANGED <<pool, len, free, freeList, index, call>>

\* add_incomplete on a found session: s->entry.buffer = bi
WriteBuffer(w) ==
    /\ pc[w] = "buffer"
    /\ pool' = [pool EXCEPT ![value[w]].buffer = call[w].bi]
    /\ Goto(w, "idle")
    /\ UNCHANGED <<len, free, freeList, index, call, value>>

\* pool_get_zero and the copy of key and entry (add) or of key and buffer
\* (add_incomplete) into the new slot
PoolGet(w) ==
    LET s == IF freeList # <<>> THEN freeList[Len(freeList)] ELSE len
    IN  /\ pc[w] = "get"
        /\ s < MaxSlots
        /\ pool' = [pool EXCEPT ![s] = [key |-> call[w].key,
                       buffer |-> IF call[w].op = "add_incomplete" THEN call[w].bi ELSE 0]]
        /\ IF freeList # <<>>
             THEN /\ freeList' = SubSeq(freeList, 1, Len(freeList) - 1)
                  /\ free' = free \ {s}
                  /\ UNCHANGED len
             ELSE /\ len' = len + 1
                  /\ UNCHANGED <<free, freeList>>
        /\ SetValue(w, s)
        /\ Goto(w, "insert")
        /\ UNCHANGED <<index, call>>

\* clib_bihash_add_or_overwrite_stale_16_8 with kv.value = s - db->sessions
Insert(w) ==
    /\ pc[w] = "insert"
    /\ index' = (call[w].key :> value[w]) @@ index
    /\ Goto(w, "idle")
    /\ UNCHANGED <<pool, len, free, freeList, call, value>>

\* hanat_session_delete: pool_put_index of the value found, before the key
\* leaves the bihash; the pool_is_free_index test before it only prints
PoolPut(w) ==
    /\ pc[w] = "put"
    /\ free' = free \cup {value[w]}
    /\ freeList' = Append(freeList, value[w])
    /\ Goto(w, "remove")
    /\ UNCHANGED <<pool, len, index, call, value>>

\* clib_bihash_add_del_16_8 (..., 0): the key leaves the bihash
Remove(w) ==
    /\ pc[w] = "remove"
    /\ index' = Restrict(index, DOMAIN index \ {call[w].key})
    /\ Goto(w, "idle")
    /\ UNCHANGED <<pool, len, free, freeList, call, value>>

Next ==
    \E w \in Workers :
        \/ \E op \in Ops, k \in Keys, bi \in Buffers :
             Start(w, op, k, IF op = "add_incomplete" THEN bi ELSE 0)
        \/ Search(w) \/ FindCheck(w) \/ WriteBuffer(w) \/ PoolGet(w)
        \/ Insert(w) \/ PoolPut(w) \/ Remove(w)

Spec == Init /\ [][Next]_vars

-----------------------------------------------------------------------------

Labels == {"idle", "search", "check", "buffer", "get", "insert", "put", "remove"}

TypeOK ==
    /\ pool \in [Slots -> [key : Keys \cup {NoKey}, buffer : Buffers \cup {0}]]
    /\ len \in 0 .. MaxSlots
    /\ free \subseteq Slots
    /\ freeList \in Seq(Slots)
    /\ index \in [DOMAIN index -> Slots] /\ DOMAIN index \subseteq Keys
    /\ pc \in [Workers -> Labels]
    /\ value \in [Workers -> Slots \cup {NoSlot}]

\* a session pointer hanat_session_find has returned (the worker is about
\* to buffer through it) names a live session of the key looked up
FoundSessionIsOwn ==
    \A w \in Workers :
        pc[w] = "buffer" => value[w] \notin free /\ pool[value[w]].key = call[w].key

Quiet == \A w \in Workers : pc[w] = "idle"

Live == {s \in 0 .. len - 1 : s \notin free}

\* with no call in progress the table is what one caller at a time leaves:
\* every live slot is the index entry of its own key (one session per
\* key, none unreachable) and no slot waits in free_indices twice
QuietTableSound ==
    Quiet =>
      /\ Live = Range(index)
      /\ \A k \in DOMAIN index : pool[index[k]].key = k
      /\ IsInjective(freeList)

\* spec.md 5 asks find and the write paths of add, add_incomplete and
\* delete to be safe under concurrent workers, and spec.md 3 allows at
\* most one live session per key: a session a worker holds is its own and
\* live, and whenever the workers are between calls the table is as sound
\* as after sequential calls (hanat_session_add, add_incomplete and
\* hanat_session_delete interleaved with no lock).
SessionTableSafe == FoundSessionIsOwn /\ QuietTableSound

=============================================================================
