---------------------------- MODULE MCOnboarding ----------------------------
(* Instances of Onboarding for TLC.                                        *)
EXTENDS Onboarding, TLC

CONSTANTS r1, r2, r3, r4, p, q

RequestSymmetry == Permutations(Requests) \cup Permutations(Phones)

=============================================================================
