------------------------------- MODULE MCTpm2 -------------------------------
(* Tpm2 with two goroutines and a TPM that has the fewest slots allowed. *)
EXTENDS Tpm2

CONSTANTS p1, p2

MCProc == {p1, p2}
=============================================================================
