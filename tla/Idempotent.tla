----------------------------- MODULE Idempotent -----------------------------
(***************************************************************************)
(* sync.Idempotent: Do on goroutines that share or do not share an         *)
(* identity, against the block-finalized hook on the finalizer goroutine.  *)
(*                                                                         *)
(* Do takes i.mu and, on the first use of i, the registry's lock inside    *)
(* it; the hook takes the registry's lock and, inside it, the lock of each *)
(* registered Idempotent. Slots are keyed by block address, and the        *)
(* allocator gives the address of a dead block to a later identity.        *)
(*                                                                         *)
(* A goroutine runs under one identity for its life (module Identity); an  *)
(* identity dies when its goroutines have exited and their descriptors     *)
(* have been reused, and its address is not handed out again before the    *)
(* hook has returned: module Identity shows both.                          *)
(***************************************************************************)
EXTENDS Naturals, FiniteSets

CONSTANTS
  P,        \* goroutines
  MainP,    \* the main goroutine, which does not exit
  Id,       \* identities (blocks minted), not addresses
  Addr,     \* block addresses
  Idem,     \* Idempotent values
  IdentOf,  \* [P -> Id]
  AddrOf,   \* [Id -> Addr]
  MaxOnce,  \* bound: Once values allocated in one behaviour
  None,     \* no lock holder
  Fin       \* the finalizer goroutine, as a lock holder

ASSUME IdempotentAssumption ==
  /\ MainP \in P
  /\ IdentOf \in [P -> Id]
  /\ AddrOf \in [Id -> Addr]
  /\ MaxOnce \in Nat
  /\ None \notin P /\ Fin \notin P /\ None # Fin

VARIABLES
  life,     \* [Id -> stage of the identity's block]
  pc,       \* [P -> where in Do the goroutine is]
  arg,      \* [P -> the Idempotent it calls Do on]
  entry,    \* [P -> the Once it found, used after i.mu is released]
  imu,      \* [Idem -> holder of i.mu]
  registered, \* [Idem -> i.registered]
  list,     \* idempotentRegistry.list: weak pointers
  entries,  \* [Idem -> [Addr -> Once, 0 if absent]]
  once,     \* [allocated Once -> "fresh" | "running" | "done"]
  nonce,    \* number of Once values allocated
  reachable,\* [Idem -> does user code still refer to it]
  regmu,    \* holder of idempotentRegistry.mu: Fin or None
  walk,     \* what is left of the hook's walk over the list
  slot      \* history: [Idem -> [Id -> "new" | "running" | "done"]]

vars == <<life, pc, arg, entry, imu, registered, list, entries, once, nonce,
          reachable, regmu, walk, slot>>

doVars  == <<pc, arg, entry>>
onceVars == <<once, nonce, slot>>
regVars == <<registered, list, regmu, walk>>

PC == {"unborn", "idle", "lock", "locked", "register", "once", "f", "exited"}
Stage == {"unborn", "live", "queued", "finalizing", "gone"}

Goto(p, from, to) == pc[p] = from /\ pc' = [pc EXCEPT ![p] = to]

-----------------------------------------------------------------------------
(* Identities and goroutines, as module Identity provides them *)

Running(p) == pc[p] \notin {"unborn", "exited"}

\* A block is minted where no other block is: not even one whose finalizer has
\* yet to run.
AddressFree(a) ==
  \A d \in Id : AddrOf[d] = a => life[d] \in {"unborn", "gone"}

\* SparkAs: a running goroutine mints an identity and starts its goroutine.
Spark(p) ==
  /\ life[IdentOf[p]] = "unborn"
  /\ AddressFree(AddrOf[IdentOf[p]])
  /\ \E q \in P : Running(q)
  /\ Goto(p, "unborn", "idle")
  /\ life' = [life EXCEPT ![IdentOf[p]] = "live"]
  /\ UNCHANGED <<arg, entry, imu, entries, reachable, onceVars, regVars>>

\* go f(): the child shares the identity of a running goroutine.
Go(p) ==
  /\ \E q \in P : Running(q) /\ IdentOf[q] = IdentOf[p]
  /\ Goto(p, "unborn", "idle")
  /\ UNCHANGED <<life, arg, entry, imu, entries, reachable, onceVars, regVars>>

Exit(p) ==
  /\ p # MainP
  /\ Goto(p, "idle", "exited")
  /\ UNCHANGED <<life, arg, entry, imu, entries, reachable, onceVars, regVars>>

\* The collector finds the block of an identity unreachable.
Collect(d) ==
  /\ life[d] = "live"
  /\ \A p \in P : IdentOf[p] = d => ~Running(p)
  /\ life' = [life EXCEPT ![d] = "queued"]
  /\ UNCHANGED <<doVars, imu, entries, reachable, onceVars, regVars>>

\* User code drops its last reference to an Idempotent nobody is inside of.
DropIdempotent(i) ==
  /\ reachable[i]
  /\ \A p \in P : Running(p) /\ arg[p] = i => pc[p] = "idle"
  /\ imu[i] = None
  /\ reachable' = [reachable EXCEPT ![i] = FALSE]
  /\ UNCHANGED <<life, doVars, imu, entries, onceVars, regVars>>

-----------------------------------------------------------------------------
(* Do *)

DoCall(p, i) ==
  /\ reachable[i]
  /\ Goto(p, "idle", "lock")
  /\ arg' = [arg EXCEPT ![p] = i]
  /\ UNCHANGED <<life, entry, imu, entries, reachable, onceVars, regVars>>

\* Do registers an Idempotent once, on its first use.
AlwaysRegister(i) == TRUE
NeedsRegister(i) == ~registered[i]

\* i.mu.Lock(); the first user of i marks it registered before registering it.
DoLock(p) ==
  LET i == arg[p] IN
  /\ imu[i] = None
  /\ imu' = [imu EXCEPT ![i] = p]
  /\ Goto(p, "lock", IF NeedsRegister(i) THEN "register" ELSE "locked")
  /\ registered' = [registered EXCEPT ![i] = TRUE]
  /\ UNCHANGED <<life, arg, entry, entries, reachable, onceVars, list, regmu,
                 walk>>

\* selfRegister: takes and releases the registry's lock while holding i.mu.
selfRegister(p) ==
  /\ regmu = None
  /\ list' = list \cup {arg[p]}
  /\ Goto(p, "register", "locked")
  /\ UNCHANGED <<life, arg, entry, imu, registered, entries, reachable,
                 onceVars, regmu, walk>>

\* i.entries[addr] = entry
SlotNotStored(i, a, o) == entries
SlotStored(i, a, o) == [entries EXCEPT ![i][a] = o]

\* The slot of the caller's block address, made on first use; i.mu.Unlock().
DoSlot(p) ==
  LET i == arg[p]
      a == AddrOf[IdentOf[p]]
      o == IF entries[i][a] # 0 THEN entries[i][a] ELSE nonce + 1
  IN
  /\ o <= MaxOnce
  /\ entry' = [entry EXCEPT ![p] = o]
  /\ entries' = SlotStored(i, a, o)
  /\ nonce' = IF o > nonce THEN o ELSE nonce
  /\ imu' = [imu EXCEPT ![i] = None]
  /\ Goto(p, "locked", "once")
  /\ UNCHANGED <<life, arg, once, slot, reachable, regVars>>

\* entry.Do(f), outside i.mu: the first caller runs f, later ones wait for it.
OnceRun(p) ==
  /\ Goto(p, "once", "f")
  /\ once[entry[p]] = "fresh"
  /\ once' = [once EXCEPT ![entry[p]] = "running"]
  /\ slot' = [slot EXCEPT ![arg[p]][IdentOf[p]] = "running"]
  /\ UNCHANGED <<life, arg, entry, imu, entries, nonce, reachable, regVars>>

OnceDone(p) ==
  /\ Goto(p, "once", "idle")
  /\ once[entry[p]] = "done"
  /\ UNCHANGED <<life, arg, entry, imu, entries, reachable, onceVars, regVars>>

\* What the deferred store in Once leaves.
OncePanicked == "panicked"
OnceSpent == "done"

\* f is over: it returned, or it panicked or called Goexit and the deferred
\* store in Once marks the slot done all the same.
FinishF(p, to) ==
  /\ to \in {"idle", "exited"}
  /\ p = MainP => to = "idle"
  /\ Goto(p, "f", to)
  /\ once' = [once EXCEPT ![entry[p]] = OnceSpent]
  /\ slot' = [slot EXCEPT ![arg[p]][IdentOf[p]] = "done"]
  /\ UNCHANGED <<life, arg, entry, imu, entries, nonce, reachable, regVars>>

-----------------------------------------------------------------------------
(* idempotentOnBlockFinalized, on the finalizer goroutine *)

\* janosBlockFinalized calls the hook, which locks the registry.
HookLock(d) ==
  /\ life[d] = "queued"
  /\ \A e \in Id : life[e] # "finalizing"
  /\ regmu = None
  /\ life' = [life EXCEPT ![d] = "finalizing"]
  /\ regmu' = Fin
  /\ walk' = list
  /\ UNCHANGED <<doVars, imu, entries, reachable, onceVars, registered, list>>

\* A weak pointer whose Idempotent is gone is dropped from the list.
HookSweep(i) ==
  /\ i \in walk
  /\ ~reachable[i]
  /\ walk' = walk \ {i}
  /\ list' = list \ {i}
  /\ UNCHANGED <<life, doVars, imu, entries, reachable, onceVars, registered,
                 regmu>>

\* evictBlock locks i.mu; the walk is at one Idempotent at a time.
HookEvictLock(i) ==
  /\ i \in walk
  /\ reachable[i]
  /\ \A j \in Idem : imu[j] # Fin
  /\ imu[i] = None
  /\ imu' = [imu EXCEPT ![i] = Fin]
  /\ UNCHANGED <<life, doVars, entries, reachable, onceVars, regVars>>

\* delete(i.entries, addr)
NothingDeleted(i, a) == entries
SlotDeleted(i, a) == [entries EXCEPT ![i][a] = 0]

HookEvict(i) ==
  /\ imu[i] = Fin
  /\ \E d \in Id :
       /\ life[d] = "finalizing"
       /\ entries' = SlotDeleted(i, AddrOf[d])
  /\ imu' = [imu EXCEPT ![i] = None]
  /\ walk' = walk \ {i}
  /\ UNCHANGED <<life, doVars, reachable, onceVars, registered, list, regmu>>

HookUnlock(d) ==
  /\ life[d] = "finalizing"
  /\ walk = {}
  /\ life' = [life EXCEPT ![d] = "gone"]
  /\ regmu' = None
  /\ UNCHANGED <<doVars, imu, entries, reachable, onceVars, registered, list,
                 walk>>

-----------------------------------------------------------------------------
Init ==
  /\ life = [d \in Id |-> IF d = IdentOf[MainP] THEN "live" ELSE "unborn"]
  /\ pc = [p \in P |-> IF p = MainP THEN "idle" ELSE "unborn"]
  /\ arg \in {[p \in P |-> i] : i \in Idem}
  /\ entry = [p \in P |-> 0]
  /\ imu = [i \in Idem |-> None]
  /\ registered = [i \in Idem |-> FALSE]
  /\ list = {}
  /\ entries = [i \in Idem |-> [a \in Addr |-> 0]]
  /\ once = [o \in 1..MaxOnce |-> "fresh"]
  /\ nonce = 0
  /\ reachable = [i \in Idem |-> TRUE]
  /\ regmu = None
  /\ walk = {}
  /\ slot = [i \in Idem |-> [d \in Id |-> "new"]]

Do(p) ==
  \/ DoLock(p)
  \/ selfRegister(p)
  \/ DoSlot(p)
  \/ OnceRun(p)
  \/ OnceDone(p)
  \/ \E to \in PC : FinishF(p, to)

Hook ==
  \/ \E d \in Id : HookLock(d)
  \/ \E i \in Idem : HookSweep(i)
  \/ \E i \in Idem : HookEvictLock(i)
  \/ \E i \in Idem : HookEvict(i)
  \/ \E d \in Id : HookUnlock(d)

Next ==
  \/ \E p \in P : Spark(p)
  \/ \E p \in P : Go(p)
  \/ \E p \in P : Exit(p)
  \/ \E d \in Id : Collect(d)
  \/ \E i \in Idem : DropIdempotent(i)
  \/ \E p \in P, i \in Idem : DoCall(p, i)
  \/ \E p \in P : Do(p)
  \/ Hook

Spec == Init /\ [][Next]_vars

\* Goroutines inside Do, and the finalizer goroutine, are scheduled; a Mutex in
\* starvation mode goes to the longest waiter, so nobody who keeps asking for a
\* lock that keeps being released is passed over for ever; f returns.
Fairness ==
  /\ \A p \in P : /\ WF_vars(Do(p))
                  /\ SF_vars(DoLock(p) \/ selfRegister(p))
  /\ WF_vars(Hook)
  /\ SF_vars((\E d \in Id : HookLock(d)) \/ \E i \in Idem : HookEvictLock(i))

FairSpec == Spec /\ Fairness

-----------------------------------------------------------------------------
(* Properties *)

\* Every variable has its type.
TypeOK ==
  /\ life \in [Id -> Stage]
  /\ pc \in [P -> PC]
  /\ arg \in [P -> Idem]
  /\ entry \in [P -> 0..MaxOnce]
  /\ imu \in [Idem -> P \cup {None, Fin}]
  /\ registered \in [Idem -> BOOLEAN]
  /\ list \in SUBSET Idem
  /\ entries \in [Idem -> [Addr -> 0..MaxOnce]]
  /\ once \in [1..MaxOnce -> {"fresh", "running", "done"}]
  /\ nonce \in 0..MaxOnce
  /\ reachable \in [Idem -> BOOLEAN]
  /\ regmu \in {None, Fin}
  /\ walk \in SUBSET Idem
  /\ slot \in [Idem -> [Id -> {"new", "running", "done"}]]

\* Where the goroutine is, as a caller of Do sees it.
At ==
  [p \in P |-> IF pc[p] \in {"lock", "locked", "register", "once"} THEN "in"
               ELSE IF pc[p] = "f" THEN "f" ELSE "out"]

Once == INSTANCE OncePerIdentity WITH at <- At

\* Do implements the promise of its documentation: f runs at most once per
\* identity and has run when Do returns, although slots are keyed by addresses
\* that later identities reuse and are evicted while others call Do.
DoIsOncePerIdentity == Once!Spec

\* A slot never outlives the identity it was made for by more than the
\* finalizer run that evicts it: a later identity at that address finds none.
SlotHasOwner ==
  \A i \in Idem, a \in Addr :
    reachable[i] /\ entries[i][a] # 0 =>
      \E d \in Id : AddrOf[d] = a /\ life[d] \notin {"unborn", "gone"}

\* Do takes i.mu before the registry's lock, the hook the other way round: they
\* never wait for each other, because an Idempotent whose first user still has
\* to register it is not on the list the hook walks.
NoLockCycle ==
  \A p \in P : pc[p] = "register" => ~(regmu = Fin /\ arg[p] \in walk)

\* Every call of Do comes to an end, and so does every hook call.
DoReturns ==
  /\ \A p \in P : pc[p] = "lock" ~> pc[p] \in {"idle", "exited"}
  /\ \A d \in Id : life[d] = "queued" ~> life[d] = "gone"
=============================================================================
