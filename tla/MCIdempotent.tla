---------------------------- MODULE MCIdempotent ----------------------------
(***************************************************************************)
(* Idempotent for TLC: the main goroutine, two goroutines that share a     *)
(* sparked identity, and an identity that gets the address of that one     *)
(* once it is dead.                                                        *)
(***************************************************************************)
EXTENDS Idempotent, TLC

CONSTANTS p1, p2, p3, p4, main, first, second, x, y

MCP == {p1, p2, p3, p4}
MCId == {main, first, second}
MCAddr == {x, y}
MCIdentOf == p1 :> main @@ p2 :> first @@ p3 :> first @@ p4 :> second
MCAddrOf == main :> x @@ first :> y @@ second :> y
=============================================================================
