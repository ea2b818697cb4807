------------------------------ MODULE Deferral ------------------------------
(***************************************************************************)
(* Genesis deferral: Defer and DeferSelf, the drain that runs the cleanups *)
(* of a spark or of the process, and the runtime's exit hooks, which run   *)
(* the process drain when main.main returns or somebody calls os.Exit.     *)
(*                                                                         *)
(* A registry is the process's (shutdown) or a spark's (selfState.deferred)*)
(* Both drains take the whole list under its mutex, run it last to first,  *)
(* wait for the batch's WaitGroup and look again until the list is empty.  *)
(* Any goroutine may register or exit meanwhile: another spark, a go-child,*)
(* a cleanup that runs, the background work a cleanup left behind.         *)
(*                                                                         *)
(* Abstractions: a cleanup is a number, given out in the order of          *)
(* registration; what it can do is register another, leave background work *)
(* behind, call os.Exit or runtime.Goexit, return or panic (which          *)
(* runDeferred recovers, so both end alike). drainShutdown is the only     *)
(* exit hook.                                                              *)
(***************************************************************************)
EXTENDS Naturals, Sequences, Functions

CONSTANTS
  MaxCleanups, \* bound: cleanups registered
  Spark,    \* sparks
  Proc,     \* the process, as the owner of a registry
  Exiter,   \* goroutines that end the process: main and callers of os.Exit
  None      \* no goroutine, no cleanup, no registry

ASSUME DeferralAssumption ==
  /\ MaxCleanups \in Nat
  /\ Proc \notin Spark
  /\ None \notin Spark \cup {Proc} \cup Exiter
  /\ None \notin Nat

Cleanup == 1..MaxCleanups
Registry == Spark \cup {Proc}

VARIABLES
  proc,     \* "up", "exited" or "crashed"
  funcs,    \* [Registry -> registered and not yet taken]
  drain,    \* [Registry -> where its drain is]
  batch,    \* [Registry -> what runDeferred has yet to invoke]
  cur,      \* [Registry -> the cleanup runDeferred is inside of]
  wg,       \* [Registry -> cleanups with background work in the batch's group]
  panics,   \* sparks that drain because their function panicked
  exiter,   \* [Exiter -> where in exithook.Run and exit the goroutine is]
  locked,   \* exithook.locked: who holds it
  hooks,    \* is drainShutdown still in exithook.hooks
  count,    \* how many cleanups have been registered
  home,     \* history: [Cleanup -> its registry, None before it has one]
  tooLate,  \* history: cleanups registered after the drain's last look
  invoked   \* history: [Cleanup -> how often it was invoked]

vars == <<proc, funcs, drain, batch, cur, wg, panics, exiter, locked, hooks,
          count, home, tooLate, invoked>>

drainVars == <<drain, batch, cur, wg, panics>>
exitVars == <<exiter, locked, hooks>>
regVars == <<count, home, tooLate>>

Up == proc = "up"

Step(r, from, to) == Up /\ drain[r] = from /\ drain' = [drain EXCEPT ![r] = to]

-----------------------------------------------------------------------------
(* Registration *)

\* funcs = append(funcs, f), under the registry's mutex.
Registered(r) ==
  /\ Up
  /\ count < MaxCleanups
  /\ count' = count + 1
  /\ funcs' = [funcs EXCEPT ![r] = Append(@, count')]
  /\ home' = [home EXCEPT ![count'] = r]
  /\ tooLate' = IF drain[r] \in {"over", "gone"} THEN tooLate \cup {count'} ELSE tooLate
  /\ UNCHANGED <<proc, drainVars, exitVars, invoked>>

\* Defer, and DeferSelf under the main identity. Whoever runs, calls it: user
\* code, a cleanup, its background work.
Defer == Registered(Proc)

\* DeferSelf under a spark's identity, which its go-children share.
DeferSelf(s) == Registered(s)

-----------------------------------------------------------------------------
(* drainShutdown, drainSelfDeferred and runDeferred *)

\* What is left of the list when a drain has taken it.
ListKept(r) == funcs
ListTaken(r) == [funcs EXCEPT ![r] = <<>>]

\* The drain takes the list; an empty one ends it.
Take(r) ==
  /\ Step(r, "take", IF funcs[r] = <<>> THEN "over" ELSE "run")
  /\ batch' = [batch EXCEPT ![r] = funcs[r]]
  /\ funcs' = ListTaken(r)
  /\ UNCHANGED <<proc, cur, wg, panics, exitVars, regVars, invoked>>

\* runDeferred goes from the last of the batch to the first.
OldestFirst(r) == 1
NewestFirst(r) == Len(batch[r])

Invoke(r) ==
  LET k == NewestFirst(r)
      c == batch[r][k]
  IN
  /\ Up
  /\ drain[r] = "run"
  /\ cur[r] = None
  /\ batch[r] # <<>>
  /\ cur' = [cur EXCEPT ![r] = c]
  /\ batch' = [batch EXCEPT ![r] = SubSeq(@, 1, k - 1) \o SubSeq(@, k + 1, Len(@))]
  /\ invoked' = [invoked EXCEPT ![c] = @ + 1]
  /\ UNCHANGED <<proc, funcs, drain, wg, panics, exitVars, regVars>>

\* The cleanup does wg.Add(1) and starts background work.
Background(r) ==
  /\ Up
  /\ cur[r] # None
  /\ wg' = [wg EXCEPT ![r] = @ \cup {cur[r]}]
  /\ UNCHANGED <<proc, funcs, drain, batch, cur, panics, exitVars, regVars,
                 invoked>>

BackgroundDone(r, c) ==
  /\ Up
  /\ c \in wg[r]
  /\ wg' = [wg EXCEPT ![r] = @ \ {c}]
  /\ UNCHANGED <<proc, funcs, drain, batch, cur, panics, exitVars, regVars,
                 invoked>>

\* The cleanup returns, or panics and is recovered.
Return(r) ==
  /\ Up
  /\ cur[r] # None
  /\ cur' = [cur EXCEPT ![r] = None]
  /\ UNCHANGED <<proc, funcs, drain, batch, wg, panics, exitVars, regVars,
                 invoked>>

\* wg.Wait(), after the last of the batch; then the list is looked at again.
NotWaiting(r) == TRUE
GroupDrained(r) == wg[r] = {}

Wait(r) ==
  /\ cur[r] = None
  /\ batch[r] = <<>>
  /\ GroupDrained(r)
  /\ Step(r, "run", "take")
  /\ UNCHANGED <<proc, funcs, batch, cur, wg, panics, exitVars, regVars, invoked>>

-----------------------------------------------------------------------------
(* Sparks *)

\* The spark's work returns, or an initializer or work panics.
SparkEnds(s, panicking) ==
  /\ s \in Spark
  /\ Step(s, "idle", "take")
  /\ panics' = IF panicking THEN panics \cup {s} ELSE panics
  /\ UNCHANGED <<proc, funcs, batch, cur, wg, exitVars, regVars, invoked>>

\* After the drain the panic goes on and takes the process with it.
SparkCrashes(s) ==
  /\ Up
  /\ s \in panics
  /\ drain[s] = "over"
  /\ proc' = "crashed"
  /\ UNCHANGED <<funcs, drainVars, exitVars, regVars, invoked>>

-----------------------------------------------------------------------------
(* Process exit *)

At(e, from, to) == Up /\ exiter[e] = from /\ exiter' = [exiter EXCEPT ![e] = to]

\* main.main returns, or a goroutine calls os.Exit: user code, or genesis in
\* fatalMissingIdentity.
Exit(e) ==
  /\ At(e, "out", "spin")
  /\ UNCHANGED <<proc, funcs, drainVars, locked, hooks, regVars, invoked>>

\* exithook.Run spins until it has the lock.
HookLockIgnored == TRUE
HookLockFree == locked = None

RunLock(e) ==
  /\ HookLockFree
  /\ At(e, "spin", "hooks")
  /\ locked' = e
  /\ UNCHANGED <<proc, funcs, drainVars, hooks, regVars, invoked>>

\* It takes the hook off the list before it calls it, and
RunHook(e) ==
  /\ hooks
  /\ hooks' = FALSE
  /\ At(e, "hooks", "draining")
  /\ Step(Proc, "idle", "take")
  /\ UNCHANGED <<proc, funcs, batch, cur, wg, panics, locked, regVars,
                 invoked>>

\* when drainShutdown has returned, or was no longer there, unlocks.
RunUnlock(e) ==
  /\ \/ At(e, "hooks", "exit") /\ ~hooks
     \/ At(e, "draining", "exit") /\ drain[Proc] = "over"
  /\ locked' = None
  /\ UNCHANGED <<proc, funcs, drainVars, hooks, regVars, invoked>>

\* exit(code): the process is gone.
ExitProcess(e) ==
  /\ Up
  /\ exiter[e] = "exit"
  /\ proc' = "exited"
  /\ UNCHANGED <<funcs, drainVars, exitVars, regVars, invoked>>

\* A cleanup of the process drain that calls os.Exit is on the goroutine that
\* holds the lock: exithook throws.
CleanupExits ==
  /\ Up
  /\ cur[Proc] # None
  /\ proc' = "crashed"
  /\ UNCHANGED <<funcs, drainVars, exitVars, regVars, invoked>>

\* A cleanup calls runtime.Goexit: nothing recovers that, and the goroutine that
\* drains ends with the rest of the batch. exithook.Run's deferred calls let the
\* lock go; the spark's panic, if it has one, is aborted.
LockLeaked == locked
LockLetGo == None

CleanupGoexits(r) ==
  /\ cur[r] # None
  /\ Step(r, "run", "gone")
  /\ cur' = [cur EXCEPT ![r] = None]
  /\ batch' = [batch EXCEPT ![r] = <<>>]
  /\ \/ /\ r = Proc
        /\ exiter' = [exiter EXCEPT ![locked] = "gone"]
        /\ locked' = LockLetGo
     \/ r # Proc /\ UNCHANGED <<exiter, locked>>
  /\ UNCHANGED <<proc, funcs, wg, panics, hooks, regVars, invoked>>

-----------------------------------------------------------------------------
Init ==
  /\ proc = "up"
  /\ funcs = [r \in Registry |-> <<>>]
  /\ drain = [r \in Registry |-> "idle"]
  /\ batch = [r \in Registry |-> <<>>]
  /\ cur = [r \in Registry |-> None]
  /\ wg = [r \in Registry |-> {}]
  /\ panics = {}
  /\ exiter = [e \in Exiter |-> "out"]
  /\ locked = None
  /\ hooks = TRUE
  /\ count = 0
  /\ home = [c \in Cleanup |-> None]
  /\ tooLate = {}
  /\ invoked = [c \in Cleanup |-> 0]

Drain(r) ==
  \/ Take(r)
  \/ Invoke(r)
  \/ Return(r)
  \/ Wait(r)

Run(e) ==
  \/ RunLock(e)
  \/ RunHook(e)
  \/ RunUnlock(e)
  \/ ExitProcess(e)

Next ==
  \/ Defer
  \/ \E s \in Spark : DeferSelf(s)
  \/ \E r \in Registry : Drain(r)
  \/ \E r \in Registry : Background(r)
  \/ \E r \in Registry, c \in Cleanup : BackgroundDone(r, c)
  \/ \E s \in Spark, panicking \in BOOLEAN : SparkEnds(s, panicking)
  \/ \E s \in Spark : SparkCrashes(s)
  \/ \E e \in Exiter : Exit(e)
  \/ \E e \in Exiter : Run(e)
  \/ CleanupExits
  \/ \E r \in Registry : CleanupGoexits(r)

Spec == Init /\ [][Next]_vars

\* Goroutines are scheduled; cleanups return and their background work ends.
Fairness ==
  /\ \A r \in Registry : /\ WF_vars(Take(r) \/ Invoke(r) \/ Wait(r))
                         /\ WF_vars(Return(r))
  /\ \A r \in Registry, c \in Cleanup : WF_vars(BackgroundDone(r, c))
  /\ \A e \in Exiter : WF_vars(Run(e))

FairSpec == Spec /\ Fairness

-----------------------------------------------------------------------------
(* Properties *)

DrainStage == {"idle", "take", "run", "over", "gone"}

\* Every variable has its type; no cleanup is invoked twice.
TypeOK ==
  /\ proc \in {"up", "exited", "crashed"}
  /\ funcs \in [Registry -> Seq(Cleanup)]
  /\ drain \in [Registry -> DrainStage]
  /\ batch \in [Registry -> Seq(Cleanup)]
  /\ cur \in [Registry -> Cleanup \cup {None}]
  /\ wg \in [Registry -> SUBSET Cleanup]
  /\ panics \in SUBSET Spark
  /\ exiter \in [Exiter -> {"out", "spin", "hooks", "draining", "exit", "gone"}]
  /\ locked \in Exiter \cup {None}
  /\ hooks \in BOOLEAN
  /\ count \in 0..MaxCleanups
  /\ home \in [Cleanup -> Registry \cup {None}]
  /\ tooLate \in SUBSET Cleanup
  /\ invoked \in [Cleanup -> 0..1]

\* All there was to do for c is done.
Finished(c) == invoked[c] = 1 /\ \A r \in Registry : c \notin wg[r] /\ cur[r] # c

\* However many goroutines call os.Exit while main returns, the process does
\* not end before the cleanups registered up to the drain's last look at the
\* list, by cleanups and their background work too, are over. Only a cleanup
\* that calls runtime.Goexit can lose others.
CleanedUpAtExit ==
  proc = "exited" /\ drain[Proc] # "gone" =>
    \A c \in Cleanup : home[c] = Proc => c \in tooLate \/ Finished(c)

\* The same for a spark, when its goroutine ends or its panic goes on.
CleanedUpAtSparkExit ==
  \A s \in Spark : drain[s] = "over" =>
    \A c \in Cleanup : home[c] = s => c \in tooLate \/ Finished(c)

\* Cleanups run in the opposite order of their registration, except that one
\* registered during the drain comes after the batch that was taken before.
LastRegisteredFirst ==
  [][\A r \in Registry :
       cur[r] = None /\ cur'[r] # None =>
         \A c \in Range(batch'[r]) : c < cur'[r]]_vars

\* Whoever starts to exit ends the process, or is itself ended by a cleanup that
\* calls runtime.Goexit; it then stands in nobody's way.
ExitHappens == \A e \in Exiter : exiter[e] = "spin" ~> ~Up \/ exiter[e] = "gone"
=============================================================================
