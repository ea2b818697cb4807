------------------------------- MODULE Attest -------------------------------
(***************************************************************************)
(* Package attest: what Probe and Available answer on Linux, Windows and   *)
(* Darwin, on a machine whose device nodes come, go and change permissions *)
(* between calls. The description of a facility (route, vendor, version)   *)
(* is left out.                                                            *)
(***************************************************************************)
EXTENDS Naturals, Sequences, FiniteSetsExt

CONSTANT Routes  \* linuxTPMRoutes, in order of preference

VARIABLE machine \* what the package finds when it asks

Machine ==
  [os: {"linux", "windows", "darwin"},
   node: [DOMAIN Routes -> {"absent", "denied", "open"}], \* of each route
   tbs: {0, 1, 2},      \* the version TBS reports, 0 if it finds no TPM
   silicon: BOOLEAN]    \* hw.optional.arm64

MechanismNone == 0
MechanismTPM20 == 1
MechanismSecureEnclave == 2

Found(mechanism) == [mechanism |-> mechanism, err |-> "nil"]
NotAccessible == [mechanism |-> MechanismTPM20, err |-> "not accessible"]
ErrUnavailable == [mechanism |-> MechanismNone, err |-> "unavailable"]

-----------------------------------------------------------------------------
(* Linux: the first route that is there decides *)

Present(m) == {i \in DOMAIN Routes : m.node[i] # "absent"}

linuxProbe(m) ==
  IF Present(m) = {} THEN ErrUnavailable
  ELSE IF m.node[Min(Present(m))] = "denied" THEN NotAccessible
  ELSE Found(MechanismTPM20)

\* available goes on to the next route when one cannot be opened.
linuxAvailable(m) == \E i \in DOMAIN Routes : m.node[i] = "open"

-----------------------------------------------------------------------------
(* Windows and Darwin: Available asks Probe *)

windowsProbe(m) == IF m.tbs = 2 THEN Found(MechanismTPM20) ELSE ErrUnavailable

darwinProbe(m) ==
  IF m.silicon THEN Found(MechanismSecureEnclave) ELSE ErrUnavailable

Probe(m) ==
  CASE m.os = "linux" -> linuxProbe(m)
    [] m.os = "windows" -> windowsProbe(m)
    [] m.os = "darwin" -> darwinProbe(m)

Available(m) ==
  IF m.os = "linux" THEN linuxAvailable(m) ELSE Probe(m).err = "nil"

-----------------------------------------------------------------------------
\* A machine starts without device nodes;
Init ==
  /\ machine \in Machine
  /\ machine.node = [i \in DOMAIN Routes |-> "absent"]

\* the system makes and removes them and changes who may open them.
Change(i) ==
  \E s \in {"absent", "denied", "open"} :
    machine' = [machine EXCEPT !.node[i] = s]

Next == \E i \in DOMAIN Routes : Change(i)

Spec == Init /\ [][Next]_machine

-----------------------------------------------------------------------------
(* Properties *)

\* "Available() is true exactly when Probe() returns a nil error. This holds on
\* every platform regardless of whether hardware is actually present"
\* (TestProbeAvailableAgree).
ProbeAvailableAgree == Available(machine) <=> Probe(machine).err = "nil"
=============================================================================
