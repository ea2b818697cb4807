------------------------------ MODULE MCAttest ------------------------------
(* Attest with the two character devices of Linux. *)
EXTENDS Attest

linuxTPMRoutes == <<"tpmrm0", "tpm0">>
=============================================================================
