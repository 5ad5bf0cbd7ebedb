-------------------------- MODULE MCVerificationJob --------------------------
(* VerificationJob with two tasks; of three archives the second verifies.  *)
EXTENDS VerificationJob

SecondOnly == {2}
=============================================================================
