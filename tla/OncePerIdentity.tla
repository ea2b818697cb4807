--------------------------- MODULE OncePerIdentity ---------------------------
(***************************************************************************)
(* What sync.Idempotent promises: "runs a function at most once per        *)
(* identity", and a call of Do returns only when the function has run for  *)
(* the caller's identity. There are no locks, no registry and no addresses *)
(* here, only identities.                                                  *)
(***************************************************************************)
CONSTANTS
  P,        \* goroutines
  Id,       \* identities, each minted at most once
  Idem,     \* Idempotent values
  IdentOf   \* [P -> Id]: the identity each goroutine runs under

VARIABLES
  at,       \* [P -> "out" | "in" | "f"]: outside Do, inside, running f
  arg,      \* [P -> Idem]: the Idempotent of the last call
  slot      \* [Idem -> [Id -> "new" | "running" | "done"]]

avars == <<at, arg, slot>>

SlotOf(p) == slot[arg[p]][IdentOf[p]]

Init ==
  /\ at = [p \in P |-> "out"]
  /\ arg \in [P -> Idem]
  /\ slot = [i \in Idem |-> [d \in Id |-> "new"]]

Enter(p, i) ==
  /\ at[p] = "out"
  /\ at' = [at EXCEPT ![p] = "in"]
  /\ arg' = [arg EXCEPT ![p] = i]
  /\ UNCHANGED slot

Run(p) ==
  /\ at[p] = "in"
  /\ SlotOf(p) = "new"
  /\ at' = [at EXCEPT ![p] = "f"]
  /\ slot' = [slot EXCEPT ![arg[p]][IdentOf[p]] = "running"]
  /\ UNCHANGED arg

\* f returns, panics or calls Goexit: the slot is spent in every case.
Finish(p) ==
  /\ at[p] = "f"
  /\ at' = [at EXCEPT ![p] = "out"]
  /\ slot' = [slot EXCEPT ![arg[p]][IdentOf[p]] = "done"]
  /\ UNCHANGED arg

Return(p) ==
  /\ at[p] = "in"
  /\ SlotOf(p) = "done"
  /\ at' = [at EXCEPT ![p] = "out"]
  /\ UNCHANGED <<arg, slot>>

Next ==
  \E p \in P :
    \/ \E i \in Idem : Enter(p, i)
    \/ Run(p)
    \/ Finish(p)
    \/ Return(p)

Spec == Init /\ [][Next]_avars
=============================================================================
