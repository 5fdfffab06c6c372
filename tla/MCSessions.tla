----------------------------- MODULE MCSessions -----------------------------
(* Instances of Sessions for TLC: one user, two devices.                   *)
EXTENDS Sessions, TLC

CONSTANTS r1, r2, r3, r4, r5, phone, tablet

RequestSymmetry == Permutations(Requests) \cup Permutations(Devices)

=============================================================================
