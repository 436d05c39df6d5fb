-------------------------- MODULE HanatSessionTable --------------------------
(***************************************************************************)
(* The session cache of the hanat worker (hanat_worker_db.c and the cache  *)
(* entry points of hanat_worker.c), one caller at a time.                  *)
(*                                                                         *)
(*  pool   the session pool db->sessions: the contents of every slot (a    *)
(*         freed slot keeps what it held) and the set of free indices;     *)
(*  index  the 16_8 bihash db->cache, a partial function from session key  *)
(*         to pool index;                                                  *)
(*  now    vlib_time_now;                                                  *)
(*  ret    what the last call returned to its caller.                      *)
(*                                                                         *)
(* The bihash (vppinfra, not in src/) is modelled from spec.md: an insert  *)
(* of a new key into a full page asks the stale callback about the keys    *)
(* of that page and overwrites the first one it calls stale, and splits    *)
(* the page when none is.  hanat_session_add and                           *)
(* hanat_worker_cache_add_incomplete pass "&db", the address of their      *)
(* local pointer, as the callback argument, while hanat_session_stale_cb   *)
(* reads it as the hanat_db_t itself: the callback looks up the session    *)
(* record in a pool that is not db->sessions.  That read is undefined, and *)
(* the model lets it see any last_heard, and lets its pool_put_index free  *)
(* nothing of db->sessions.                                                *)
(***************************************************************************)
EXTENDS Integers, FiniteSets, Functions, TLC

CONSTANTS
    Packets,        \* IPv4 headers a worker passes in, as records
    Fibs,           \* fib indices of the packets
    CacheEntries,   \* hanat_session_entry_t values a caller passes to hanat_worker_cache_add
    Updates,        \* argument tuples of hanat_worker_cache_update
    Buffers,        \* buffer indices bi (0 is the value of a zeroed entry)
    Tunnels,        \* values of the tunnel argument of add_incomplete
    Slots,          \* indices of db->sessions: bounds the growth of the pool
    NoSlot,         \* the null session pointer hanat_session_find returns
    PageOf,         \* the bihash page each session key hashes to
    PageSize,       \* key/value pairs per bihash page
    StaleTimeout,   \* idle time after which hanat_session_stale_cb reuses a slot (10)
    MaxTime,        \* bound on vlib_time_now
    AccBits, IntBits, AddrBits, PortBits, FoldBits

ASSUME /\ PageSize \in Nat \ {0}
       /\ StaleTimeout \in Nat /\ MaxTime \in Nat
       /\ 0 \notin Buffers
       /\ Tunnels \subseteq BOOLEAN
       /\ NoSlot \notin Slots

CS == INSTANCE HanatChecksum

VARIABLES pool, free, index, now, ret

vars == <<pool, free, index, now, ret>>

IP_PROTOCOL_ICMP == 1
IP_PROTOCOL_TCP == 6
IP_PROTOCOL_UDP == 17
ICMP4_echo_reply == 0
ICMP4_echo_request == 8

\* hanat_key_from_ip: TCP and UDP key on their ports, ICMP echo on the
\* identifier in both port fields, and every other packet on zero ports
HanatKeyFromIp(fib_index, ip) ==
    LET ports == CASE ip.protocol \in {IP_PROTOCOL_TCP, IP_PROTOCOL_UDP} ->
                        <<ip.sport, ip.dport>>
                   [] ip.protocol = IP_PROTOCOL_ICMP
                        /\ ip.icmp_type \in {ICMP4_echo_request, ICMP4_echo_reply} ->
                        <<ip.identifier, ip.identifier>>
                   [] OTHER -> <<0, 0>>
    IN  [sa |-> ip.sa, da |-> ip.da, proto |-> ip.protocol, fib_index |-> fib_index,
         sp |-> ports[1], dp |-> ports[2]]

SessionKeys == {HanatKeyFromIp(f, p) : f \in Fibs, p \in Packets}

ZeroKey == [sa |-> 0, da |-> 0, proto |-> 0, fib_index |-> 0, sp |-> 0, dp |-> 0]

\* the hanat_session_entry_t that pool_get_zero leaves
ZeroEntry == [instructions |-> {}, fib_index |-> 0, post_sa |-> 0, post_da |-> 0,
              post_sp |-> 0, post_dp |-> 0, checksum |-> 0, l4_checksum |-> 0,
              tunnel |-> FALSE, buffer |-> 0, last_heard |-> 0]

Init ==
    /\ pool = [s \in Slots |-> [key |-> ZeroKey, entry |-> ZeroEntry]]
    /\ free = Slots
    /\ index = <<>>
    /\ now = 0
    /\ ret = [op |-> "none", key |-> ZeroKey, rv |-> 0]

\* hanat_session_find: the bihash lookup, and the pool_is_free_index check
HanatSessionFind(key) ==
    IF key \in DOMAIN index /\ index[key] \notin free THEN index[key] ELSE NoSlot

\* hanat_session_stale_cb: a session idle for StaleTimeout may be reused
HanatSessionStaleCb(last_heard) == now >= last_heard + StaleTimeout

\* what the callback reads as last_heard through the misdirected argument
GarbageLastHeard == -StaleTimeout .. MaxTime

PageKeys(key) == {k \in DOMAIN index : PageOf[k] = PageOf[key]}

(***************************************************************************)
(* clib_bihash_add_or_overwrite_stale_16_8 with hanat_session_stale_cb and *)
(* &db: an existing key is overwritten, a new key takes a free place of    *)
(* its page; on a full page the first entry the callback calls stale is    *)
(* replaced (its session is not freed in db->sessions) or, none being      *)
(* stale, the page is split and the key added.                             *)
(***************************************************************************)
BihashAddOrOverwriteStale(key, value) ==
    \/ /\ key \in DOMAIN index \/ Cardinality(PageKeys(key)) < PageSize
       /\ index' = (key :> value) @@ index
    \/ /\ key \notin DOMAIN index
       /\ Cardinality(PageKeys(key)) >= PageSize
       /\ \E victim \in PageKeys(key) :
            /\ \E lh \in GarbageLastHeard : HanatSessionStaleCb(lh)
            /\ index' = (key :> value) @@ Restrict(index, DOMAIN index \ {victim})
    \/ /\ key \notin DOMAIN index
       /\ Cardinality(PageKeys(key)) >= PageSize
       /\ index' = (key :> value) @@ index

\* hanat_session_add: fails when a session for the key is found; otherwise
\* pool_get_zero, copy key and entry, and insert into the bihash
HanatSessionAdd(key, e) ==
    \/ /\ HanatSessionFind(key) # NoSlot
       /\ ret' = [op |-> "add", key |-> key, rv |-> -1]
       /\ UNCHANGED <<pool, free, index>>
    \/ /\ HanatSessionFind(key) = NoSlot
       /\ \E s \in free :
            /\ pool' = [pool EXCEPT ![s] = [key |-> key, entry |-> e]]
            /\ free' = free \ {s}
            /\ BihashAddOrOverwriteStale(key, s)
       /\ ret' = [op |-> "add", key |-> key, rv |-> 0]

\* hanat_worker_cache_add: both deltas are computed before the session is
\* added, the L4 one always seeded with the L3 delta; last_heard is the
\* caller's, copied with the rest of the entry
HanatWorkerCacheAdd(key, e) ==
    LET c  == CS!L3ChecksumDelta(e.instructions, key.sa, e.post_sa, key.da, e.post_da)
        l4 == CS!L4ChecksumDelta(e.instructions, c, key.sp, e.post_sp, key.dp, e.post_dp)
    IN  /\ HanatSessionAdd(key, [e EXCEPT !.checksum = c, !.l4_checksum = l4])
        /\ UNCHANGED now

\* mutant: kv.value is taken from s before pool_get_zero reassigns it, so
\* the index records the null session of the failed find
HanatWorkerCacheAddIncompleteValueBeforeGet(fib_index, ip, bi, tunnel) ==
    LET key == HanatKeyFromIp(fib_index, ip)
        s   == HanatSessionFind(key)
    IN  /\ \/ /\ s # NoSlot
              /\ pool' = [pool EXCEPT ![s].entry.buffer = bi]
              /\ UNCHANGED <<free, index>>
           \/ /\ s = NoSlot
              /\ \E n \in free :
                   /\ pool' = [pool EXCEPT ![n] = [key |-> key,
                                  entry |-> [ZeroEntry EXCEPT !.buffer = bi, !.tunnel = tunnel]]]
                   /\ free' = free \ {n}
                   /\ BihashAddOrOverwriteStale(key, s)
        /\ ret' = [op |-> "add_incomplete", key |-> key, rv |-> 0]
        /\ UNCHANGED now

\* hanat_worker_cache_add_incomplete: an existing session only takes the
\* buffer; otherwise a zeroed session holding buffer and tunnel flag is
\* added
HanatWorkerCacheAddIncomplete(fib_index, ip, bi, tunnel) ==
    LET key == HanatKeyFromIp(fib_index, ip)
        s   == HanatSessionFind(key)
    IN  /\ \/ /\ s # NoSlot
              /\ pool' = [pool EXCEPT ![s].entry.buffer = bi]
              /\ UNCHANGED <<free, index>>
           \/ /\ s = NoSlot
              /\ \E n \in free :
                   /\ pool' = [pool EXCEPT ![n] = [key |-> key,
                                  entry |-> [ZeroEntry EXCEPT !.buffer = bi, !.tunnel = tunnel]]]
                   /\ free' = free \ {n}
                   /\ BihashAddOrOverwriteStale(key, n)
        /\ ret' = [op |-> "add_incomplete", key |-> key, rv |-> 0]
        /\ UNCHANGED now

\* mutant: the update rewrites the translation but keeps the old deltas
HanatWorkerCacheUpdateKeepsDeltas(s, u) ==
    /\ s \notin free
    /\ pool' = [pool EXCEPT ![s].entry =
                  [@ EXCEPT !.instructions = u.instructions, !.fib_index = u.fib_index,
                            !.post_sa = u.sa, !.post_da = u.da,
                            !.post_sp = u.sport, !.post_dp = u.dport]]
    /\ ret' = [op |-> "update", key |-> pool[s].key, rv |-> 0]
    /\ UNCHANGED <<free, index, now>>

\* hanat_worker_cache_update on a session the caller holds: new translation
\* fields and both deltas, the L4 one seeded with zero for ICMP
HanatWorkerCacheUpdate(s, u) ==
    LET key == pool[s].key
        c   == CS!L3ChecksumDelta(u.instructions, key.sa, u.sa, key.da, u.da)
        l4  == CS!L4ChecksumDelta(u.instructions,
                                  IF key.proto = IP_PROTOCOL_ICMP THEN 0 ELSE c,
                                  key.sp, u.sport, key.dp, u.dport)
    IN  /\ s \notin free
        /\ pool' = [pool EXCEPT ![s].entry =
                      [@ EXCEPT !.instructions = u.instructions, !.fib_index = u.fib_index,
                                !.post_sa = u.sa, !.post_da = u.da,
                                !.post_sp = u.sport, !.post_dp = u.dport,
                                !.l4_checksum = l4, !.checksum = c]]
        /\ ret' = [op |-> "update", key |-> key, rv |-> 0]
        /\ UNCHANGED <<free, index, now>>

\* mutant: the slot is returned to the pool but the key stays in the bihash
HanatSessionDeleteKeepsKey(key) ==
    \/ /\ key \notin DOMAIN index
       /\ ret' = [op |-> "delete", key |-> key, rv |-> -1]
       /\ UNCHANGED <<pool, free, index, now>>
    \/ /\ key \in DOMAIN index
       /\ free' = free \cup {index[key]}
       /\ ret' = [op |-> "delete", key |-> key, rv |-> 0]
       /\ UNCHANGED <<pool, index, now>>

\* hanat_session_delete: a key not in the bihash is reported and ignored;
\* otherwise the slot is returned to the pool and the key removed
HanatSessionDelete(key) ==
    \/ /\ key \notin DOMAIN index
       /\ ret' = [op |-> "delete", key |-> key, rv |-> -1]
       /\ UNCHANGED <<pool, free, index, now>>
    \/ /\ key \in DOMAIN index
       /\ free' = free \cup {index[key]}
       /\ index' = Restrict(index, DOMAIN index \ {key})
       /\ ret' = [op |-> "delete", key |-> key, rv |-> 0]
       /\ UNCHANGED <<pool, now>>

\* mutant: time is not bounded
TickUnbounded ==
    /\ now' = now + 1
    /\ UNCHANGED <<pool, free, index, ret>>

\* vlib time advances
Tick ==
    /\ now < MaxTime
    /\ now' = now + 1
    /\ UNCHANGED <<pool, free, index, ret>>

Next ==
    \/ \E key \in SessionKeys, e \in CacheEntries : HanatWorkerCacheAdd(key, e)
    \/ \E f \in Fibs, ip \in Packets, bi \in Buffers, t \in Tunnels :
         HanatWorkerCacheAddIncomplete(f, ip, bi, t)
    \/ \E s \in Slots, u \in Updates : HanatWorkerCacheUpdate(s, u)
    \/ \E key \in SessionKeys : HanatSessionDelete(key)
    \/ Tick

Spec == Init /\ [][Next]_vars

-----------------------------------------------------------------------------

Entry == [instructions : SUBSET CS!Instructions, fib_index : Fibs,
          post_sa : CS!Addr, post_da : CS!Addr, post_sp : CS!Port, post_dp : CS!Port,
          checksum : CS!Csum, l4_checksum : CS!Csum, tunnel : BOOLEAN,
          buffer : Buffers \cup {0}, last_heard : 0 .. MaxTime]

TypeOK ==
    /\ pool \in [Slots -> [key : SessionKeys \cup {ZeroKey}, entry : Entry]]
    /\ free \subseteq Slots
    /\ DOMAIN index \subseteq SessionKeys
    /\ \A k \in DOMAIN index : index[k] \in Slots
    /\ now \in 0 .. MaxTime
    /\ ret \in [op : {"none", "add", "add_incomplete", "update", "delete"},
                key : SessionKeys \cup {ZeroKey}, rv : {0, -1}]

Allocated == Slots \ free

\* what a later step can depend on: a freed slot's old contents are never
\* read again, since pool_get_zero and the copy of key and entry overwrite
\* the whole record of the slot they hand out
LiveView == <<[s \in Allocated |-> pool[s]], free, index, now, ret>>

\* The bihash and the pool agree: every key of the index names an allocated
\* slot holding that very key, through adds that overwrite stale entries,
\* deletes and the reuse of freed slots (hanat_session_add,
\* hanat_session_delete).
IndexConsistent ==
    \A k \in DOMAIN index : index[k] \in Allocated /\ pool[index[k]].key = k

\* The checksum deltas cached in a session are those of its current
\* translation: add, add_incomplete and update keep the L3 delta and, for
\* TCP and UDP, the L4 delta in step with the instructions and post fields.
CachedDeltasCurrent ==
    \A s \in Allocated :
        LET k == pool[s].key
            e == pool[s].entry
        IN  /\ e.checksum = CS!L3ChecksumDelta(e.instructions, k.sa, e.post_sa, k.da, e.post_da)
            /\ k.proto # IP_PROTOCOL_ICMP =>
                 e.l4_checksum = CS!L4ChecksumDelta(e.instructions, e.checksum,
                                                    k.sp, e.post_sp, k.dp, e.post_dp)

\* Every session's L4 delta follows the protocol rule of spec.md 4.3, at
\* creation and at update: seeded with zero for ICMP, whose checksum has no
\* pseudo-header, and with the L3 delta otherwise.
L4DeltaFollowsProtocolRule ==
    \A s \in Allocated :
        LET k == pool[s].key
            e == pool[s].entry
        IN  e.l4_checksum =
              CS!L4ChecksumDelta(e.instructions,
                                 IF k.proto = IP_PROTOCOL_ICMP THEN 0 ELSE e.checksum,
                                 k.sp, e.post_sp, k.dp, e.post_dp)

\* No session is lost: every allocated slot of the pool is reachable from
\* the index, so a slot leaves the index only by being freed (the stale
\* reuse of hanat_session_stale_cb frees the slot it takes over).
NoOrphanSession == Allocated \subseteq Range(index)

Idle(s) == now >= pool[s].entry.last_heard + StaleTimeout

\* spec.md 4.1 and 8: an add for a key whose session has been idle for the
\* stale timeout succeeds and replaces the stale session
\* (hanat_session_add).
AddReplacesIdleSession ==
    [][ /\ ret'.op = "add"
        /\ ret'.key \in DOMAIN index
        /\ Idle(index[ret'.key])
        => ret'.rv = 0 ]_vars

=============================================================================
