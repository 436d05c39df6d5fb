------------------------ MODULE MC_HanatWorkerControl ------------------------
(* Bounds for HanatWorkerControl at 4-bit addresses.                       *)
EXTENDS HanatWorkerControl

\* host-order prefixes with their host bits clear: 8/1 contains 8/3 and is
\* disjoint from neither, 12/2 lies inside 8/1 beside 8/3
MCPrefixesCanonical == {<<8, 3>>, <<8, 1>>, <<12, 2>>}

\* the same networks as the API may also spell them, with host bits set
\* in the /1: 11/1 is the network 8/1
MCPrefixesRaw == {<<8, 3>>, <<11, 1>>}

\* bucket arrays as the API passes them, indices in network byte order
MCBucketArgs == {<<Ntohl(1)>>, <<Ntohl(0), Ntohl(1)>>}
==============================================================================
