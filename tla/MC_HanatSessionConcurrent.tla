-------------------------- MODULE MC_HanatSessionConcurrent --------------------------
(* Two workers, two keys, a pool of at most two sessions, one buffer index. *)
EXTENDS HanatSessionConcurrent

CONSTANTS w1, w2, k1, k2

MCWorkers == {w1, w2}
MCKeys == {k1, k2}

MCSymmetry == Permutations(MCWorkers) \cup Permutations(MCKeys)

=============================================================================
