------------------------------ MODULE MC_HanatLpm ------------------------------
(* Bounds for HanatLpm at 4-bit addresses and 8-bit compound keys.         *)
EXTENDS HanatLpm

\* prefixes of which no two masked keys coincide, nested three deep
MCPrefixesDistinct == {<<0, 0>>, <<8, 1>>, <<12, 2>>, <<11, 4>>}

\* the scaled form of spec.md 8's test: 10.1.0.0/16 and 10.1.0.0/24 share
\* their masked key, beside a disjoint /2
MCPrefixesNested == {<<8, 1>>, <<8, 3>>, <<12, 2>>}

\* 11 is covered at lengths 0, 1 and 4, 13 at 0, 1 and 2, 5 only at 0
MCAddressesDistinct == {11, 13, 5}

\* 9 is covered by 8/1 and 8/3, 13 by 8/1 and 12/2, and 10 only by 8/1
MCAddressesNested == {9, 13, 10}
================================================================================
