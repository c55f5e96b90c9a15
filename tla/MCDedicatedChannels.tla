------------------------ MODULE MCDedicatedChannels ------------------------
(* Two phones that compete for two SDCCHs and one TCH. *)
EXTENDS DedicatedChannels, TLC

CONSTANTS s1, s2, t1, p1, p2

MCSymmetry == Permutations({s1, s2})
============================================================================
