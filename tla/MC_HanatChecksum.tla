--------------------------- MODULE MC_HanatChecksum ---------------------------
(***************************************************************************)
(* Exhaustive check of the checksum deltas of HanatChecksum at the scaled  *)
(* widths 64/32/32/16/16 -> 8/4/4/2/2.                                     *)
(***************************************************************************)
EXTENDS HanatChecksum

MCAccBits == 8
MCIntBits == 4
MCAddrBits == 4
MCPortBits == 2
MCFoldBits == 2

(***************************************************************************)
(* The deltas are checked over every input of the scaled widths.  call    *)
(* numbers the inputs, and probe is the call it stands for: one call of    *)
(* l3_checksum_delta or of l4_checksum_delta.  Each step makes the next    *)
(* call, and after the last one the enumeration starts over.  The seed of  *)
(* an L4 call is what its caller can pass: zero (ICMP) or an L3 delta      *)
(* returned as an int (TCP and UDP).                                       *)
(***************************************************************************)
VARIABLE call

InstrSets(f1, f2) == <<{}, {f1}, {f2}, {f1, f2}>>

Digit(n, base, i) == (n \div base^i) % base

NAddr == 2^AddrBits
NPort == 2^PortBits
NSeed == 2^IntBits
NL3 == 4 * NAddr^4
NL4 == 4 * NSeed * NPort^4

L3Call(n) ==
    [kind |-> "l3", instructions |-> InstrSets(SA, DA)[1 + (n % 4)],
     pre_sa |-> Digit(n \div 4, NAddr, 0), post_sa |-> Digit(n \div 4, NAddr, 1),
     pre_da |-> Digit(n \div 4, NAddr, 2), post_da |-> Digit(n \div 4, NAddr, 3)]

L4Call(n) ==
    [kind |-> "l4", instructions |-> InstrSets(SP, DP)[1 + (n % 4)],
     seed |-> ReturnAsInt(Digit(n \div 4, NSeed, 0)),
     pre_sp |-> Digit(n \div (4 * NSeed), NPort, 0), post_sp |-> Digit(n \div (4 * NSeed), NPort, 1),
     pre_dp |-> Digit(n \div (4 * NSeed), NPort, 2), post_dp |-> Digit(n \div (4 * NSeed), NPort, 3)]

probe == IF call < NL3 THEN L3Call(call) ELSE L4Call(call - NL3)

Init == call = 0

NextCall == call' = (call + 1) % (NL3 + NL4)

Spec == Init /\ [][NextCall]_call

TypeOK == call \in 0 .. NL3 + NL4 - 1
\* The L4 delta returned as an int is the seed plus the port changes: the
\* round trip of the accumulator through the 32-bit int return loses
\* nothing whatever int seed the caller passes (l4_checksum_delta).
L4DeltaCorrect ==
    probe.kind = "l4" =>
        CongruentDelta(L4ChecksumDelta(probe.instructions, probe.seed,
                                       probe.pre_sp, probe.post_sp,
                                       probe.pre_dp, probe.post_dp),
                       probe.seed + FieldDiff(probe.instructions, SP, probe.pre_sp, probe.post_sp)
                                  + FieldDiff(probe.instructions, DP, probe.pre_dp, probe.post_dp))

\* The L3 delta of l3_checksum_delta is the change of the header checksum
\* sum for every pair of address substitutions, end-around carries
\* included (spec.md section 8, checksum round trip).
L3DeltaCorrect ==
    probe.kind = "l3" =>
        CongruentDelta(L3ChecksumDelta(probe.instructions, probe.pre_sa, probe.post_sa,
                                       probe.pre_da, probe.post_da),
                       FieldDiff(probe.instructions, SA, probe.pre_sa, probe.post_sa)
                       + FieldDiff(probe.instructions, DA, probe.pre_da, probe.post_da))
=============================================================================
