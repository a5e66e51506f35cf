------------------------- MODULE MCAdapterLifecycle -------------------------
(* Small instances of AdapterLifecycle for TLC. *)
EXTENDS AdapterLifecycle, TLC

CONSTANTS i1, i2, u1, u2, s1

Symmetry == Permutations(Instances) \cup Permutations(Users) \cup Permutations(Senders)
=============================================================================
