------------------------------ MODULE MCGenesis ------------------------------
(***************************************************************************)
(* Genesis for TLC: the main identity, a spark and a spark of that spark   *)
(* (or a second spark of main); initializers from two modules.             *)
(***************************************************************************)
EXTENDS Genesis

CONSTANTS m1, m2, pkg

MCOrigin == {<<m1, pkg>>, <<m2, pkg>>}
=============================================================================
