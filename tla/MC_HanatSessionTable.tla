------------------------- MODULE MC_HanatSessionTable -------------------------
(***************************************************************************)
(* Session cache with three flows between the same two hosts: a TCP flow,  *)
(* an ICMP echo flow and an ICMP error (keyed on zero ports).  All three   *)
(* keys hash to one bihash page of two places, so the third insert finds   *)
(* the page full and the stale callback is asked.  Three pool slots, two   *)
(* buffers, widths as in MC_HanatChecksum.                                 *)
(***************************************************************************)
EXTENDS HanatSessionTable

MCAccBits == 8
MCIntBits == 4
MCAddrBits == 4
MCPortBits == 2
MCFoldBits == 2

MCPackets ==
    { [sa |-> 1, da |-> 2, protocol |-> IP_PROTOCOL_TCP, sport |-> 1, dport |-> 2,
       icmp_type |-> 0, identifier |-> 0],
      [sa |-> 1, da |-> 2, protocol |-> IP_PROTOCOL_ICMP, sport |-> 0, dport |-> 0,
       icmp_type |-> ICMP4_echo_request, identifier |-> 3],
      [sa |-> 1, da |-> 2, protocol |-> IP_PROTOCOL_ICMP, sport |-> 0, dport |-> 0,
       icmp_type |-> 3, identifier |-> 0] }

MCFibs == {0}

\* entries as a caller builds them: translation fields set, deltas to be
\* computed by hanat_worker_cache_add
MCCacheEntries ==
    { [ZeroEntry EXCEPT !.instructions = {CS!SA, CS!SP}, !.post_sa = 9, !.post_sp = 2],
      [ZeroEntry EXCEPT !.instructions = {CS!SA, CS!DA, CS!SP, CS!DP},
                        !.post_sa = 12, !.post_da = 7, !.post_sp = 3, !.post_dp = 1] }

MCUpdates ==
    { [instructions |-> {CS!DA, CS!DP}, fib_index |-> 0, sa |-> 0, da |-> 5,
       sport |-> 0, dport |-> 1] }

MCBuffers == {1}

MCTunnels == {TRUE}

CONSTANTS s1, s2, s3

MCSlots == {s1, s2, s3}

MCSymmetry == Permutations(MCSlots)

MCPageOf == [k \in SessionKeys |-> 0]
=============================================================================
