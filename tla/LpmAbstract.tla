---------------------------- MODULE LpmAbstract ----------------------------
(***************************************************************************)
(* What the LPM table promises (spec.md 4.2): a set of entries, each a     *)
(* (fib, prefix, prefix length) with a value, at most one per triple; a    *)
(* lookup of (fib, address) answers the value of the longest entry of that *)
(* fib whose prefix covers the address, or nothing.                        *)
(*                                                                         *)
(*  entries  the live entries, <<fib, masked prefix, length>> -> value     *)
(*  result   the answer of the last lookup                                 *)
(***************************************************************************)
EXTENDS Integers, FiniteSets, TLC

CONSTANTS Fibs, Prefixes, Addresses, Values, NoValue, AddrBits

VARIABLES entries, result

\* the address with all but its len leading bits cleared
PrefixOf(addr, len) == addr - (addr % 2^(AddrBits - len))

EntryKey(fib, addr, len) == <<fib, PrefixOf(addr, len), len>>

Covers(e, fib, addr) == e[1] = fib /\ PrefixOf(addr, e[3]) = e[2]

LongestMatch(ents, fib, addr) ==
    LET hits == {e \in DOMAIN ents : Covers(e, fib, addr)}
    IN  IF hits = {} THEN NoValue
        ELSE ents[CHOOSE e \in hits : \A o \in hits : o[3] <= e[3]]

NoResult == [fib |-> 0, addr |-> 0, rv |-> NoValue]

Init ==
    /\ entries = <<>>
    /\ result = NoResult

\* insert: a triple already present is the caller's error and not offered
Insert(fib, addr, len, v) ==
    /\ EntryKey(fib, addr, len) \notin DOMAIN entries
    /\ entries' = (EntryKey(fib, addr, len) :> v) @@ entries
    /\ UNCHANGED result

\* delete: removes exactly the entry of that triple
Delete(fib, addr, len) ==
    /\ EntryKey(fib, addr, len) \in DOMAIN entries
    /\ entries' = [e \in DOMAIN entries \ {EntryKey(fib, addr, len)} |-> entries[e]]
    /\ UNCHANGED result

Lookup(fib, addr) ==
    /\ result' = [fib |-> fib, addr |-> addr, rv |-> LongestMatch(entries, fib, addr)]
    /\ UNCHANGED entries

Next ==
    \/ \E f \in Fibs, p \in Prefixes, v \in Values : Insert(f, p[1], p[2], v)
    \/ \E f \in Fibs, p \in Prefixes : Delete(f, p[1], p[2])
    \/ \E f \in Fibs, a \in Addresses : Lookup(f, a)

Spec == Init /\ [][Next]_<<entries, result>>

=============================================================================
