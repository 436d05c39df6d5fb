---------------------------- MODULE HanatChecksum ----------------------------
(***************************************************************************)
(* Incremental checksum deltas of the hanat worker (hanat_worker.c,        *)
(* l3_checksum_delta and l4_checksum_delta) and the ones'-complement       *)
(* arithmetic they use (ip_csum_add_even / ip_csum_sub_even of vppinfra,   *)
(* which is not part of src/ and is modelled from spec.md section 4.3).    *)
(*                                                                         *)
(* Widths are constants: the accumulator ip_csum_t is AccBits wide (64),   *)
(* the C int the two functions return is IntBits wide (32), an address is  *)
(* AddrBits (32), a port PortBits (16) and the checksum word FoldBits      *)
(* (16).  Checking uses the scaled widths 8/4/4/2/2, which keep every      *)
(* ratio the arithmetic depends on: 2^FoldBits - 1 divides 2^IntBits - 1   *)
(* and 2^AccBits - 1, an address is two checksum words and the int is as   *)
(* wide as an address.                                                     *)
(***************************************************************************)
EXTENDS Integers

CONSTANTS AccBits, IntBits, AddrBits, PortBits, FoldBits

ASSUME /\ IntBits * 2 = AccBits
       /\ AddrBits = IntBits
       /\ PortBits = FoldBits
       /\ AddrBits % FoldBits = 0

\* hanat_instructions_t bits
SA == "SOURCE_ADDRESS"
DA == "DESTINATION_ADDRESS"
SP == "SOURCE_PORT"
DP == "DESTINATION_PORT"
Instructions == {SA, DA, SP, DP}

Addr == 0 .. 2^AddrBits - 1
Port == 0 .. 2^PortBits - 1
Csum == 0 .. 2^AccBits - 1

\* ones'-complement modulus of a checksum word (65535 for 16-bit words)
FoldMod == 2^FoldBits - 1

(***************************************************************************)
(* vppinfra ones'-complement accumulation on an ip_csum_t, named as in     *)
(* spec.md: add_even adds x with an end-around carry, sub_even subtracts   *)
(* it with an end-around borrow.                                           *)
(***************************************************************************)
IpCsumAddEven(c, x) ==
    LET t == (c + x) % 2^AccBits
    IN  IF t < x THEN t + 1 ELSE t

IpCsumSubEven(c, x) ==
    LET d == (c - x) % 2^AccBits
    IN  IF d > c THEN d - 1 ELSE d

(***************************************************************************)
(* Both delta functions are declared "static int": the ip_csum_t they      *)
(* compute is converted to a 32-bit int on return, and the caller assigns  *)
(* the int back to an ip_csum_t, which sign-extends it.                    *)
(***************************************************************************)
ReturnAsInt(c) ==
    LET i == c % 2^IntBits
    IN  IF i >= 2^(IntBits - 1) THEN i + 2^AccBits - 2^IntBits ELSE i

\* every value an int-returning delta can hand back to its caller
IntResults == { ReturnAsInt(i) : i \in 0 .. 2^IntBits - 1 }

\* l3_checksum_delta (hanat_worker.c)
L3ChecksumDelta(instructions, pre_sa, post_sa, pre_da, post_da) ==
    LET c1 == IF SA \in instructions
                THEN IpCsumSubEven(IpCsumAddEven(0, post_sa), pre_sa)
                ELSE 0
        c2 == IF DA \in instructions
                THEN IpCsumAddEven(IpCsumSubEven(c1, pre_da), post_da)
                ELSE c1
    IN  ReturnAsInt(c2)

\* mutant: the destination port is accumulated with pre and post swapped
L4ChecksumDeltaSwappedDport(instructions, c, pre_sp, post_sp, pre_dp, post_dp) ==
    LET c1 == IF SP \in instructions
                THEN IpCsumSubEven(IpCsumAddEven(c, post_sp), pre_sp)
                ELSE c
        c2 == IF DP \in instructions
                THEN IpCsumSubEven(IpCsumAddEven(c1, pre_dp), post_dp)
                ELSE c1
    IN  ReturnAsInt(c2)

\* l4_checksum_delta (hanat_worker.c): the same accumulation over the
\* ports, starting from the seed c chosen by the caller
L4ChecksumDelta(instructions, c, pre_sp, post_sp, pre_dp, post_dp) ==
    LET c1 == IF SP \in instructions
                THEN IpCsumSubEven(IpCsumAddEven(c, post_sp), pre_sp)
                ELSE c
        c2 == IF DP \in instructions
                THEN IpCsumSubEven(IpCsumAddEven(c1, post_dp), pre_dp)
                ELSE c1
    IN  ReturnAsInt(c2)

(***************************************************************************)
(* Reference: a delta is correct when it is congruent, modulo the          *)
(* ones'-complement modulus, to the sum of the new field values minus the  *)
(* sum of the old ones.  A 32-bit field is congruent to the sum of its two *)
(* 16-bit words, so this is exactly the change of the header checksum sum. *)
(***************************************************************************)
CongruentDelta(c, diff) == (c - diff) % FoldMod = 0

FieldDiff(instructions, f, pre, post) == IF f \in instructions THEN post - pre ELSE 0

=============================================================================
