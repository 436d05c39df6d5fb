------------------------- MODULE HanatWorkerControl -------------------------
(***************************************************************************)
(* The control-plane calls of the hanat worker (hanat_worker.c): mapper    *)
(* pool entries indexed by the LPM table (hanat_worker_mapper_add_del),    *)
(* the load-balance bucket vectors (hanat_worker_mapper_buckets) and the   *)
(* interface registry (hanat_worker_interface_add_del), one call at a      *)
(* time as the API thread makes them.                                      *)
(*                                                                         *)
(*  pools, free        hm->pool_db.pools and its free list                 *)
(*  bihash, refcount,  the LPM table hm->pool_db, as in HanatLpm           *)
(*  bitmap                                                                 *)
(*  lb_buckets         hm->pool_db.lb_buckets: a vector, by fib, of bucket *)
(*                     vectors (NullVec for a null pointer)                *)
(*  ifaces, ifree      hm->interfaces and its free list                    *)
(*  by_sw              hm->interface_by_sw_if_index, entry sw at sw + 1    *)
(*  aborted            the process stopped in assert(0)                    *)
(*  wild_free          vec_free was handed a word read past a vector end   *)
(*  ret                the last call, its arguments and its return value   *)
(*                                                                         *)
(* Pool and interface indices are the integers 0 .. N - 1; NoValue is ~0.  *)
(* Prefix addresses are host-order values: every use converts the API's    *)
(* network-order prefix with ntohl once, the same way.  Mapper, source and *)
(* UDP port of a pool entry are stored and never read, and are left out.   *)
(***************************************************************************)
EXTENDS Integers, Sequences, FiniteSets, TLC

CONSTANTS
    PoolIds,          \* pool ids (the fib of the LPM compound key)
    Prefixes,         \* <<address, prefix_len>> pairs the API passes
    Slots,            \* indices of pool_db.pools: bounds its growth
    NoValue,          \* ~0
    AddrBits,         \* address width (32)
    BucketFibs,       \* fib indices of mapper_buckets calls
    BucketArgs,       \* mapper_index[] arrays, in network byte order
    SwIfIndices,      \* sw_if_index values of interface_add_del calls
    Modes,            \* hanat interface modes
    IfSlots,          \* indices of hm->interfaces: bounds its growth
    NullVec,          \* a null vector pointer
    FeatureResults,   \* what vnet_feature_enable_disable can return
    VNET_API_ERROR_VALUE_EXIST, VNET_API_ERROR_NO_SUCH_ENTRY

ASSUME /\ Slots = 0 .. Cardinality(Slots) - 1
       /\ IfSlots = 0 .. Cardinality(IfSlots) - 1
       /\ NoValue \notin Nat
       /\ 0 \in FeatureResults

VARIABLES pools, free, bihash, refcount, bitmap, aborted, lb_buckets,
          ifaces, ifree, by_sw, wild_free, ret

vars == <<pools, free, bihash, refcount, bitmap, aborted, lb_buckets,
          ifaces, ifree, by_sw, wild_free, ret>>

Lpm == INSTANCE HanatLpm WITH Fibs <- PoolIds, Addresses <- {}, Values <- Slots,
                              AssertAborts <- TRUE, live <- <<>>,
                              result <- [fib |-> 0, addr |-> 0, rv |-> NoValue]

\* ntohl on a 32-bit word: its four bytes in reverse order
Ntohl(x) ==
    LET byte(i) == (x \div 256^i) % 256
    IN  byte(0) * 256^3 + byte(1) * 256^2 + byte(2) * 256 + byte(3)

ZeroPoolEntry == [pool_id |-> 0, prefix |-> 0, prefix_len |-> 0]

\* hanat_worker_init: zeroed main struct, empty LPM table
Init ==
    /\ pools = [s \in Slots |-> ZeroPoolEntry]
    /\ free = Slots
    /\ Lpm!Init
    /\ lb_buckets = <<>>
    /\ ifaces = [i \in IfSlots |-> [sw_if_index |-> 0, mode |-> CHOOSE m \in Modes : TRUE]]
    /\ ifree = IfSlots
    /\ by_sw = <<>>
    /\ wild_free = FALSE
    /\ ret = [op |-> "none", arg |-> <<>>, rv |-> 0]

Running == ~aborted /\ ~wild_free

LpmVars == <<bihash, refcount, bitmap, aborted>>
IfVars == <<ifaces, ifree, by_sw>>

\* mutant: an add is not refused when the prefix is already matched
MapperAddDelNoCheck(is_add, pool_id, p) ==
    LET mi == Lpm!HanatLpm64Lookup(pool_id, p[1])
        op == IF is_add THEN "mapper_add" ELSE "mapper_del"
    IN  \/ /\ is_add
           /\ \E s \in free :
                /\ pools' = [pools EXCEPT ![s] = [pool_id |-> pool_id, prefix |-> p[1],
                                                  prefix_len |-> p[2]]]
                /\ free' = free \ {s}
                /\ Lpm!HanatLpm64Add(pool_id, p[1], p[2], s)
                /\ ret' = [op |-> op, arg |-> <<pool_id, p>>, rv |-> 0]
           /\ UNCHANGED aborted
        \/ /\ ~is_add
           /\ ret' = [op |-> op, arg |-> <<pool_id, p>>, rv |-> -1]
           /\ UNCHANGED <<pools, free, bihash, refcount, bitmap, aborted>>

(***************************************************************************)
(* hanat_worker_mapper_add_del: the LPM lookup of the prefix address comes *)
(* before the test of is_add, so any call whose prefix is already matched  *)
(* fails; an add takes a zeroed pool entry and inserts the prefix into the *)
(* LPM with the entry's index; a delete removes the prefix from the LPM    *)
(* and frees pool entry mi, which is ~0 on that path.                      *)
(***************************************************************************)
MapperAddDel(is_add, pool_id, p) ==
    LET mi == Lpm!HanatLpm64Lookup(pool_id, p[1])
        op == IF is_add THEN "mapper_add" ELSE "mapper_del"
    IN  \/ /\ mi # NoValue
           /\ ret' = [op |-> op, arg |-> <<pool_id, p>>, rv |-> -1]
           /\ UNCHANGED <<pools, free, bihash, refcount, bitmap, aborted>>
        \/ /\ mi = NoValue
           /\ is_add
           /\ \E s \in free :
                /\ pools' = [pools EXCEPT ![s] = [pool_id |-> pool_id, prefix |-> p[1],
                                                  prefix_len |-> p[2]]]
                /\ free' = free \ {s}
                /\ Lpm!HanatLpm64Add(pool_id, p[1], p[2], s)
                /\ ret' = [op |-> op, arg |-> <<pool_id, p>>, rv |-> 0]
           /\ UNCHANGED aborted
        \/ /\ mi = NoValue
           /\ ~is_add
           /\ Lpm!HanatLpm64Delete(pool_id, p[1], p[2])
           /\ free' = IF aborted' THEN free ELSE free \cup {mi}
           /\ ret' = [op |-> op, arg |-> <<pool_id, p>>, rv |-> 0]
           /\ UNCHANGED pools

\* mutant: the mapper indices are stored as they arrive, without ntohl
MapperBucketsNoNtohl(fib_index, arr) ==
    LET n  == Len(arr)
        b  == [i \in 1 .. n + 1 |-> IF i <= n THEN arr[i] ELSE 0]
        ln == Len(lb_buckets)
    IN  \/ /\ ln > 0 /\ ln = fib_index
           /\ wild_free' = TRUE
           /\ UNCHANGED <<lb_buckets, ret>>
        \/ /\ lb_buckets' = [i \in 1 .. IF ln > fib_index THEN ln ELSE fib_index + 1 |->
                               IF i = fib_index + 1 THEN b
                               ELSE IF i <= ln THEN lb_buckets[i] ELSE NullVec]
           /\ ret' = [op |-> "buckets", arg |-> <<fib_index, arr>>, rv |-> 0]
           /\ UNCHANGED wild_free

(***************************************************************************)
(* hanat_worker_mapper_buckets: the old vector of the fib is freed when    *)
(* vec_len(lb_buckets) >= fib_index and lb_buckets[fib_index] is non-null; *)
(* at fib_index = vec_len that element is one past the end and the word    *)
(* read there is whatever the heap holds, so a non-null word is handed to  *)
(* vec_free.  Then lb_buckets grows to fib_index + 1 with null entries and *)
(* gets b, which vec_validate(b, n) makes n + 1 zeroed entries long before *)
(* the loop fills the first n.                                             *)
(***************************************************************************)
MapperBuckets(fib_index, arr) ==
    LET n  == Len(arr)
        b  == [i \in 1 .. n + 1 |-> IF i <= n THEN Ntohl(arr[i]) ELSE 0]
        ln == Len(lb_buckets)
    IN  \/ /\ ln > 0 /\ ln = fib_index
           /\ wild_free' = TRUE
           /\ UNCHANGED <<lb_buckets, ret>>
        \/ /\ lb_buckets' = [i \in 1 .. IF ln > fib_index THEN ln ELSE fib_index + 1 |->
                               IF i = fib_index + 1 THEN b
                               ELSE IF i <= ln THEN lb_buckets[i] ELSE NullVec]
           /\ ret' = [op |-> "buckets", arg |-> <<fib_index, arr>>, rv |-> 0]
           /\ UNCHANGED wild_free

\* the interface pool_foreach of interface_add_del: the entries holding sw
Holding(sw) == {i \in IfSlots \ ifree : ifaces[i].sw_if_index = sw}

\* vec_validate(v, i) with zero fill, then v[i] = x (entry i at i + 1)
VecSet(v, i, x) ==
    [j \in 1 .. IF Len(v) > i THEN Len(v) ELSE i + 1 |->
        IF j = i + 1 THEN x ELSE IF j <= Len(v) THEN v[j] ELSE 0]

\* mutant: a delete clears the side table but never returns the entry
InterfaceAddDelNoPut(sw_if_index, is_add, mode) ==
    LET found == Holding(sw_if_index)
    IN  \/ /\ is_add
           /\ found # {}
           /\ ret' = [op |-> "if_add", arg |-> <<sw_if_index>>, rv |-> VNET_API_ERROR_VALUE_EXIST]
           /\ UNCHANGED IfVars
        \/ /\ is_add
           /\ found = {}
           /\ \E i \in ifree :
                /\ ifaces' = [ifaces EXCEPT ![i] = [sw_if_index |-> sw_if_index, mode |-> mode]]
                /\ ifree' = ifree \ {i}
                /\ by_sw' = VecSet(by_sw, sw_if_index, i)
           /\ \E fr \in FeatureResults :
                ret' = [op |-> "if_add", arg |-> <<sw_if_index>>, rv |-> fr]
        \/ /\ ~is_add
           /\ found = {}
           /\ ret' = [op |-> "if_del", arg |-> <<sw_if_index>>, rv |-> VNET_API_ERROR_NO_SUCH_ENTRY]
           /\ UNCHANGED IfVars
        \/ /\ ~is_add
           /\ found # {}
           /\ by_sw' = [by_sw EXCEPT ![sw_if_index + 1] = NoValue]
           /\ \E fr \in FeatureResults :
                ret' = [op |-> "if_del", arg |-> <<sw_if_index>>, rv |-> fr]
           /\ UNCHANGED <<ifaces, ifree>>

(***************************************************************************)
(* hanat_worker_interface_add_del: the pool is searched for sw_if_index;   *)
(* an add of a present one or a delete of an absent one is refused; an add *)
(* takes a pool entry (pool_get: every field is then written) and records  *)
(* its index in interface_by_sw_if_index, a delete frees the entry and     *)
(* writes ~0 there.  Both end by enabling or disabling the feature, whose  *)
(* result is the call's: the registry is changed whatever it returns.      *)
(***************************************************************************)
HanatWorkerInterfaceAddDel(sw_if_index, is_add, mode) ==
    LET found == Holding(sw_if_index)
    IN  \/ /\ is_add
           /\ found # {}
           /\ ret' = [op |-> "if_add", arg |-> <<sw_if_index>>, rv |-> VNET_API_ERROR_VALUE_EXIST]
           /\ UNCHANGED IfVars
        \/ /\ is_add
           /\ found = {}
           /\ \E i \in ifree :
                /\ ifaces' = [ifaces EXCEPT ![i] = [sw_if_index |-> sw_if_index, mode |-> mode]]
                /\ ifree' = ifree \ {i}
                /\ by_sw' = VecSet(by_sw, sw_if_index, i)
           /\ \E fr \in FeatureResults :
                ret' = [op |-> "if_add", arg |-> <<sw_if_index>>, rv |-> fr]
        \/ /\ ~is_add
           /\ found = {}
           /\ ret' = [op |-> "if_del", arg |-> <<sw_if_index>>, rv |-> VNET_API_ERROR_NO_SUCH_ENTRY]
           /\ UNCHANGED IfVars
        \/ /\ ~is_add
           /\ found # {}
           /\ ifree' = ifree \cup found
           /\ by_sw' = [by_sw EXCEPT ![sw_if_index + 1] = NoValue]
           /\ \E fr \in FeatureResults :
                ret' = [op |-> "if_del", arg |-> <<sw_if_index>>, rv |-> fr]
           /\ UNCHANGED ifaces

Next ==
    /\ Running
    /\ \/ \E is_add \in BOOLEAN, pid \in PoolIds, p \in Prefixes :
            /\ MapperAddDel(is_add, pid, p)
            /\ UNCHANGED <<lb_buckets, wild_free, IfVars>>
       \/ \E f \in BucketFibs, arr \in BucketArgs :
            /\ MapperBuckets(f, arr)
            /\ UNCHANGED <<pools, free, LpmVars, IfVars>>
       \/ \E sw \in SwIfIndices, is_add \in BOOLEAN, m \in Modes :
            /\ HanatWorkerInterfaceAddDel(sw, is_add, m)
            /\ UNCHANGED <<pools, free, LpmVars, lb_buckets, wild_free>>

Spec == Init /\ [][Next]_vars

-----------------------------------------------------------------------------

TypeOK ==
    /\ pools \in [Slots -> [pool_id : PoolIds \cup {0},
                            prefix : 0 .. 2^AddrBits - 1, prefix_len : 0 .. AddrBits]]
    /\ free \subseteq Slots
    /\ \A k \in DOMAIN bihash : bihash[k] \in Slots
    /\ \A f \in 1 .. Len(lb_buckets) :
         lb_buckets[f] = NullVec \/ lb_buckets[f] \in Seq(Slots)
    /\ ifree \subseteq IfSlots
    /\ \A j \in 1 .. Len(by_sw) : by_sw[j] \in IfSlots \cup {NoValue}

Allocated == Slots \ free

\* Every registered mapper is what the LPM answers for its own prefix
\* address, and the LPM answers only registered mappers: the pre-check of
\* hanat_worker_mapper_add_del keeps overlapping prefixes from overwriting
\* each other's bihash entry, over any sequence of adds and deletes.
PoolLpmAgree ==
    /\ \A s \in Allocated :
         Lpm!HanatLpm64Lookup(pools[s].pool_id, pools[s].prefix) = s
    /\ \A k \in DOMAIN bihash : bihash[k] \in Allocated

\* The interface pool and interface_by_sw_if_index agree: an interface is
\* registered exactly when its side-table entry names a live pool entry
\* holding it, and no sw_if_index is held twice (interface_add_del).
InterfaceIndexConsistent ==
    \A sw \in SwIfIndices :
        /\ Cardinality(Holding(sw)) <= 1
        /\ Holding(sw) # {} <=>
             /\ sw < Len(by_sw)
             /\ by_sw[sw + 1] \in IfSlots \ ifree
             /\ ifaces[by_sw[sw + 1]].sw_if_index = sw

\* spec.md 4.4: deleting a registered pool entry succeeds
\* (hanat_worker_mapper_add_del with is_add false).
MapperDeletable ==
    [][ ret'.op = "mapper_del" /\
        (\E s \in Allocated : <<pools[s].pool_id, pools[s].prefix, pools[s].prefix_len>>
                              = <<ret'.arg[1], ret'.arg[2][1], ret'.arg[2][2]>>)
        => ret'.rv = 0 ]_vars

\* spec.md 4.4: the bucket sequence of a fib becomes exactly the mapper
\* indices passed (hanat_worker_mapper_buckets).
BucketsAreRequested ==
    ret.op = "buckets" =>
        lb_buckets[ret.arg[1] + 1] = [i \in 1 .. Len(ret.arg[2]) |-> Ntohl(ret.arg[2][i])]

=============================================================================
