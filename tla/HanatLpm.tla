------------------------------- MODULE HanatLpm -------------------------------
(***************************************************************************)
(* The worker's 64-bit longest-prefix-match table: the hanat_lpm_64        *)
(* functions of hanat_worker_db.c, driven by a caller that keeps           *)
(* spec.md's contract: it inserts a (fib, prefix, length) only when that   *)
(* triple is not present and deletes only triples it inserted.             *)
(*                                                                         *)
(*  bihash    the 8_8 bihash lpm->bihash: masked compound key -> value     *)
(*  refcount  lpm->prefix_length_refcount, per key length 0 .. KeyBits    *)
(*  bitmap    lpm->prefix_lengths_bitmap, as the set of its set bits       *)
(*  live      auxiliary: the triples the caller has inserted and not       *)
(*            deleted, with their values (what the caller believes)        *)
(*  result    what the last hanat_lpm_64_lookup call returned              *)
(*  aborted   the process stopped in assert(0)                             *)
(*                                                                         *)
(* Widths: an address is AddrBits wide (32) and the compound key           *)
(* fib << AddrBits | address is KeyBits = 2 * AddrBits wide (64).          *)
(* AssertAborts says whether the build keeps <assert.h> asserts; the       *)
(* vppinfra ASSERT on the refcount is compiled only in debug images and    *)
(* cannot fail under the caller's contract, so it is left out.             *)
(***************************************************************************)
EXTENDS Integers, FiniteSets, FiniteSetsExt, TLC

CONSTANTS Fibs, Prefixes, Addresses, Values, NoValue, AddrBits, AssertAborts

ASSUME /\ Prefixes \subseteq (0 .. 2^AddrBits - 1) \X (0 .. AddrBits)
       /\ NoValue \notin Values
       /\ AssertAborts \in BOOLEAN

VARIABLES bihash, refcount, bitmap, live, result, aborted

vars == <<bihash, refcount, bitmap, live, result, aborted>>

Abs == INSTANCE LpmAbstract WITH entries <- live, result <- result

KeyBits == 2 * AddrBits

Lengths == 0 .. KeyBits

\* masked_address64: keep the len leading bits of the compound key
MaskedAddress64(addr, len) ==
    IF len = KeyBits THEN addr ELSE addr - (addr % 2^(KeyBits - len))

\* lpm_key: the fib index above the address
LpmKey(fib_index, address) == fib_index * 2^AddrBits + address

\* mutant: the populated lengths are probed shortest first
RECURSIVE LookupBitsShortestFirst(_, _)
LookupBitsShortestFirst(bits, addr) ==
    IF bits = {} THEN NoValue
    ELSE LET i == Max(bits)
             k == MaskedAddress64(addr, KeyBits - i)
         IN  IF k \in DOMAIN bihash THEN bihash[k]
             ELSE LookupBitsShortestFirst(bits \ {i}, addr)

\* the clib_bitmap_foreach loop of hanat_lpm_64_lookup: set bits in
\* ascending order, bit i standing for key length KeyBits - i, so the
\* longest populated length is probed first and the first hit answers
RECURSIVE LookupBits(_, _)
LookupBits(bits, addr) ==
    IF bits = {} THEN NoValue
    ELSE LET i == Min(bits)
             k == MaskedAddress64(addr, KeyBits - i)
         IN  IF k \in DOMAIN bihash THEN bihash[k]
             ELSE LookupBits(bits \ {i}, addr)

HanatLpm64Lookup(fib_index, address) == LookupBits(bitmap, LpmKey(fib_index, address))

Init ==
    /\ bihash = <<>>
    /\ refcount = [len \in Lengths |-> 0]
    /\ bitmap = {}
    /\ live = <<>>
    /\ result = Abs!NoResult
    /\ aborted = FALSE

\* hanat_lpm_64_add: the bihash add of an existing key replaces its value
\* (it cannot fail short of memory exhaustion); the refcount of the length
\* is incremented and its bit set
HanatLpm64Add(fib_index, address, pfxlen, value) ==
    LET len == pfxlen + AddrBits
        k   == MaskedAddress64(LpmKey(fib_index, address), len)
    IN  /\ bihash' = (k :> value) @@ bihash
        /\ refcount' = [refcount EXCEPT ![len] = @ + 1]
        /\ bitmap' = bitmap \cup {KeyBits - len}

\* mutant: the length's bit is cleared on every delete
HanatLpm64DeleteClearsBit(fib_index, address, pfxlen) ==
    LET len == pfxlen + AddrBits
        k   == MaskedAddress64(LpmKey(fib_index, address), len)
    IN  IF k \notin DOMAIN bihash /\ AssertAborts
        THEN /\ aborted' = TRUE
             /\ UNCHANGED <<bihash, refcount, bitmap>>
        ELSE /\ bihash' = [x \in DOMAIN bihash \ {k} |-> bihash[x]]
             /\ refcount' = [refcount EXCEPT ![len] = @ - 1]
             /\ bitmap' = bitmap \ {KeyBits - len}
             /\ UNCHANGED aborted

\* mutant: the refcount is indexed by the prefix length without the 32
HanatLpm64DeleteUnshiftedLen(fib_index, address, pfxlen) ==
    LET len == pfxlen + AddrBits
        k   == MaskedAddress64(LpmKey(fib_index, address), len)
    IN  IF k \notin DOMAIN bihash /\ AssertAborts
        THEN /\ aborted' = TRUE
             /\ UNCHANGED <<bihash, refcount, bitmap>>
        ELSE /\ bihash' = [x \in DOMAIN bihash \ {k} |-> bihash[x]]
             /\ refcount' = [refcount EXCEPT ![pfxlen] = @ - 1]
             /\ bitmap' = IF refcount[pfxlen] - 1 = 0 THEN bitmap \ {KeyBits - len}
                                                      ELSE bitmap
             /\ UNCHANGED aborted

\* hanat_lpm_64_delete: a bihash delete of a missing key ends in assert(0);
\* otherwise the refcount is decremented and the bit cleared at zero
HanatLpm64Delete(fib_index, address, pfxlen) ==
    LET len == pfxlen + AddrBits
        k   == MaskedAddress64(LpmKey(fib_index, address), len)
    IN  IF k \notin DOMAIN bihash /\ AssertAborts
        THEN /\ aborted' = TRUE
             /\ UNCHANGED <<bihash, refcount, bitmap>>
        ELSE /\ bihash' = [x \in DOMAIN bihash \ {k} |-> bihash[x]]
             /\ refcount' = [refcount EXCEPT ![len] = @ - 1]
             /\ bitmap' = IF refcount[len] - 1 = 0 THEN bitmap \ {KeyBits - len}
                                                   ELSE bitmap
             /\ UNCHANGED aborted

\* the caller's steps
LpmAdd(fib, p, v) ==
    /\ ~aborted
    /\ Abs!EntryKey(fib, p[1], p[2]) \notin DOMAIN live
    /\ HanatLpm64Add(fib, p[1], p[2], v)
    /\ live' = (Abs!EntryKey(fib, p[1], p[2]) :> v) @@ live
    /\ UNCHANGED <<result, aborted>>

LpmDelete(fib, p) ==
    /\ ~aborted
    /\ Abs!EntryKey(fib, p[1], p[2]) \in DOMAIN live
    /\ HanatLpm64Delete(fib, p[1], p[2])
    /\ live' = IF aborted' THEN live
               ELSE [e \in DOMAIN live \ {Abs!EntryKey(fib, p[1], p[2])} |-> live[e]]
    /\ UNCHANGED result

LpmLookup(fib, a) ==
    /\ ~aborted
    /\ result' = [fib |-> fib, addr |-> a, rv |-> HanatLpm64Lookup(fib, a)]
    /\ UNCHANGED <<bihash, refcount, bitmap, live, aborted>>

Next ==
    \/ \E f \in Fibs, p \in Prefixes, v \in Values : LpmAdd(f, p, v)
    \/ \E f \in Fibs, p \in Prefixes : LpmDelete(f, p)
    \/ \E f \in Fibs, a \in Addresses : LpmLookup(f, a)

Spec == Init /\ [][Next]_vars

-----------------------------------------------------------------------------

TypeOK ==
    /\ DOMAIN bihash \subseteq 0 .. 2^KeyBits - 1
    /\ \A k \in DOMAIN bihash : bihash[k] \in Values
    /\ refcount \in [Lengths -> Nat]
    /\ bitmap \subseteq Lengths
    /\ result.rv \in Values \cup {NoValue}
    /\ aborted \in BOOLEAN

\* spec.md 2 and 8: the refcount of a length is the number of live entries
\* of that length and its bit is set exactly when the count is positive,
\* through any sequence of hanat_lpm_64_add and hanat_lpm_64_delete.
RefcountMatchesEntries ==
    /\ \A len \in Lengths :
         refcount[len] = Cardinality({e \in DOMAIN live : e[3] + AddrBits = len})
    /\ bitmap = {KeyBits - len : len \in {l \in Lengths : refcount[l] > 0}}

\* The table implements longest-prefix match: every hanat_lpm_64_lookup
\* answers what the abstract table of the inserted triples answers, and
\* every add and delete is an insert or delete of that table.
LpmImplementsLongestMatch == Abs!Spec

=============================================================================

