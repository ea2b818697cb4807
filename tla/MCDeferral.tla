----------------------------- MODULE MCDeferral -----------------------------
(***************************************************************************)
(* Deferral for TLC: three cleanups, a spark, and two goroutines that end  *)
(* the process (main.main returning, a caller of os.Exit).                 *)
(***************************************************************************)
EXTENDS Deferral

CONSTANTS s1, x1, x2

MCSpark == {s1}
MCExiter == {x1, x2}
=============================================================================
