-------------------------- MODULE MCLoginRateLimit --------------------------
(* An instance of LoginRateLimit for TLC.                                  *)
EXTENDS LoginRateLimit

CONSTANTS r1, r2, r3, r4

=============================================================================
