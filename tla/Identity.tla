------------------------------ MODULE Identity ------------------------------
(***************************************************************************)
(* Goroutine identity in the JanOS runtime: how a provenance record        *)
(* reaches every goroutine, how SparkAs mints a fresh identityBlock, and   *)
(* how a block that no goroutine refers to any more is finalized so that   *)
(* the packages that keyed state on its address can drop that state before *)
(* the allocator hands the address out again.                              *)
(*                                                                         *)
(* A goroutine descriptor (a g) keeps its provenance when it dies: gfput   *)
(* puts it on the free list as it is and newproc1 overwrites it only when  *)
(* the descriptor is reused. Timer callbacks start goroutines from the g0  *)
(* of whatever thread runs the timer, and a C thread calling into Go gets  *)
(* a g that newproc1 never touched.                                        *)
(*                                                                         *)
(* Abstractions: a key pair, an index and an InstanceID are fresh numbers  *)
(* (the code draws them at random); the garbage collector is one step per  *)
(* block, taken when the block is unreachable; parentInstanceID, which     *)
(* nothing reads, is left out.                                             *)
(***************************************************************************)
EXTENDS Naturals, FiniteSets

CONSTANTS
  G,        \* goroutine descriptors
  MainG,    \* the descriptor runtime.main starts on
  G0,       \* m0.g0, the system goroutine schedinit runs on
  OtherG0,  \* the g0s of all other threads
  Addr,     \* heap addresses an identityBlock may get
  Hook,     \* packages that key state on block addresses (genesis, sync)
  Nil,      \* the nil *identityBlock
  MaxMint   \* bound: how many blocks are minted in one behaviour

ASSUME IdentityAssumption ==
  /\ MainG \in G
  /\ G0 \notin G \cup OtherG0
  /\ G \cap OtherG0 = {}
  /\ Nil \notin Addr
  /\ MaxMint \in Nat \ {0}

VARIABLES
  boot,     \* how far schedinit and runtime.main have come
  gstat,    \* [G -> status]
  prov,     \* [every g and g0 -> gProvenance]
  spark,    \* [G -> the block and InstanceID a janosSpark call carries]
  bstate,   \* [Addr -> state of the heap object there]
  binc,     \* [Addr -> which mint the object there is, 0 before the first]
  bfin,     \* [Addr -> is a finalizer attached]
  minted,   \* number of blocks minted so far
  ready,    \* janosFinalizersReady
  deferred, \* janosDeferredFinalizerBlock
  hooks,    \* janosBlockFinalizedHooks.fns
  fing,     \* the finalizer goroutine: the block it has, the hooks to call
  held,     \* blocks reachable from Identity values user code keeps
  table     \* [Hook -> [Addr -> mint the entry was made for, 0 if none]]

vars == <<boot, gstat, prov, spark, bstate, binc, bfin, minted, ready,
          deferred, hooks, fing, held, table>>

heapVars  == <<bstate, binc, bfin, minted>>
finVars   == <<ready, deferred, hooks, fing>>
clientVars == <<held, table>>

Gs == G \cup {G0} \cup OtherG0
Block == Addr \cup {Nil}
TrustNone == 0
TrustSelfAttested == 1
TrustJanosReleased == 2
TrustLevel == {TrustNone, TrustSelfAttested, TrustJanosReleased}

gProvenance ==
  [identity: Block, instanceID: 0..MaxMint, trustLevel: TrustLevel]

ZeroProvenance ==
  [identity |-> Nil, instanceID |-> 0, trustLevel |-> TrustNone]

NoSpark == [block |-> Nil, iid |-> 0]
FingIdle == [block |-> Nil, todo |-> {}]

BootPhase == {"schedinit", "initIdentity", "rt0", "doInit", "lateInit", "main",
              "aborted"}

-----------------------------------------------------------------------------
(* Minting and spawning *)

\* A g that newproc1 may use: off the free list, or newly allocated.
Spawnable(g) == gstat[g] \in {"none", "free"}

\* janosMintIdentity attaches the finalizer only once janosFinalizersReady.
FinalizerForgotten == FALSE
FinalizerAtMint == ready

\* janosMintIdentity at address a; before janosFinalizersReady the block goes
\* into the one slot there is.
janosMintIdentity(a) ==
  /\ bstate[a] = "free"
  /\ minted < MaxMint
  /\ minted' = minted + 1
  /\ bstate' = [bstate EXCEPT ![a] = "live"]
  /\ binc' = [binc EXCEPT ![a] = minted + 1]
  /\ bfin' = [bfin EXCEPT ![a] = FinalizerAtMint]
  /\ deferred' = IF ready THEN deferred ELSE a

\* newproc1 with callergp = caller: the new g copies the caller's provenance.
newproc1(caller, g, status) ==
  /\ Spawnable(g)
  /\ prov' = [prov EXCEPT ![g] = prov[caller]]
  /\ gstat' = [gstat EXCEPT ![g] = status]

-----------------------------------------------------------------------------
(* Boot: schedinit on m0.g0, then runtime.main *)

\* janosInitInstanceID, janosInitBinaryHash and janosVerifyCertSlot: what the
\* boot checks conclude is the trust level (module DivinedBoot).
SchedinitProvenance ==
  /\ boot = "schedinit"
  /\ \E t \in TrustLevel :
       prov' = [prov EXCEPT ![G0] = [@ EXCEPT !.instanceID = 1,
                                              !.trustLevel = t]]
  /\ boot' = "initIdentity"
  /\ UNCHANGED <<gstat, spark, heapVars, finVars, clientVars>>

\* janosInitIdentity: the main identity is written to the g schedinit runs on.
janosInitIdentity ==
  /\ boot = "initIdentity"
  /\ \E a \in Addr :
       /\ janosMintIdentity(a)
       /\ prov' = [prov EXCEPT ![G0].identity = a]
  /\ boot' = "rt0"
  /\ UNCHANGED <<gstat, spark, ready, hooks, fing, clientVars>>

\* rt0_go: newproc(runtime.main), called on m0.g0, which keeps its record.
StartMainMoving ==
  /\ boot = "rt0"
  /\ prov' = [prov EXCEPT ![MainG] = prov[G0], ![G0] = ZeroProvenance]
  /\ gstat' = [gstat EXCEPT ![MainG] = "run"]
  /\ boot' = "doInit"
  /\ UNCHANGED <<spark, heapVars, finVars, clientVars>>

StartMain ==
  /\ boot = "rt0"
  /\ newproc1(G0, MainG, "run")
  /\ boot' = "doInit"
  /\ UNCHANGED <<spark, heapVars, finVars, clientVars>>

\* A package init of sync or genesis, run by doInit on the main goroutine.
janosRegisterBlockFinalizedHook(h) ==
  /\ boot = "doInit"
  /\ hooks' = hooks \cup {h}
  /\ UNCHANGED <<boot, gstat, prov, spark, heapVars, ready, deferred, fing,
                 clientVars>>

\* runtime.main after doInit: attach the finalizer queued for main's block.
janosLateFinalizerInit ==
  /\ boot = "doInit"
  /\ bfin' = [a \in Addr |-> bfin[a] \/ a = deferred]
  /\ deferred' = Nil
  /\ ready' = TRUE
  /\ boot' = "lateInit"
  /\ UNCHANGED <<gstat, prov, spark, bstate, binc, minted, hooks, fing,
                 clientVars>>

\* janosMaybeCloseGenesisPhase: from here CurrentSelf answers on main, so
\* SparkAs gets past its ErrPhaseOpen return.
janosMaybeCloseGenesisPhase ==
  /\ boot = "lateInit"
  /\ boot' = "main"
  /\ UNCHANGED <<gstat, prov, spark, heapVars, finVars, clientVars>>

\* SparkAs returns ErrPhaseOpen while its caller's phase is open.
PhaseUnchecked == TRUE
PhaseClosed == boot = "main"

-----------------------------------------------------------------------------
(* Goroutines *)

\* go f() from user code.
Go(g, ng) ==
  /\ gstat[g] = "run"
  /\ newproc1(g, ng, "run")
  /\ UNCHANGED <<boot, spark, heapVars, finVars, clientVars>>

\* time.AfterFunc: goFunc runs `go f()` on the g0 of the thread that finds the
\* timer expired, so that g0 is the caller newproc1 copies from.
TimerGo(m, ng) ==
  /\ boot \in {"doInit", "lateInit", "main"}
  /\ newproc1(m, ng, "run")
  /\ UNCHANGED <<boot, spark, heapVars, finVars, clientVars>>

\* A C thread enters Go: its g comes from malg in oneNewExtraM.
CgoCallback(ng) ==
  /\ boot \in {"doInit", "lateInit", "main"}
  /\ gstat[ng] = "none"
  /\ gstat' = [gstat EXCEPT ![ng] = "run"]
  /\ prov' = [prov EXCEPT ![ng] = ZeroProvenance]
  /\ UNCHANGED <<boot, spark, heapVars, finVars, clientVars>>

\* SparkAs asks for its caller's Self first, which ends the process if the
\* caller has no identity.
CallerUnchecked(g) == TRUE
CallerHasIdentity(g) == prov[g].identity # Nil

\* janosSpark, in the parent: the block and the InstanceID are made first, and
\* only the closure of the go statement carries them.
ParentOverwritten(g, p) == [prov EXCEPT ![g].identity = p.block]
ParentKept(g, p) == prov

SparkMint(g) ==
  /\ PhaseClosed
  /\ gstat[g] = "run"
  /\ CallerHasIdentity(g)
  /\ \E a \in Addr :
       LET p == [block |-> a, iid |-> minted + 1] IN
       /\ janosMintIdentity(a)
       /\ spark' = [spark EXCEPT ![g] = p]
       /\ prov' = ParentKept(g, p)
  /\ gstat' = [gstat EXCEPT ![g] = "spark"]
  /\ UNCHANGED <<boot, ready, hooks, fing, clientVars>>

\* janosSpark, in the parent: the go statement. The child has the closure.
SparkGo(g, ng) ==
  /\ gstat[g] = "spark"
  /\ Spawnable(ng)
  /\ prov' = [prov EXCEPT ![ng] = prov[g]]
  /\ gstat' = [gstat EXCEPT ![g] = "run", ![ng] = "install"]
  /\ spark' = [spark EXCEPT ![g] = NoSpark, ![ng] = spark[g]]
  /\ UNCHANGED <<boot, heapVars, finVars, clientVars>>

\* janosSpark, in the child: its first instructions install the identity.
InstalledWithoutID(g) == [prov[g] EXCEPT !.identity = spark[g].block]
Installed(g) ==
  [prov[g] EXCEPT !.identity = spark[g].block, !.instanceID = spark[g].iid]

SparkInstall(g) ==
  /\ gstat[g] = "install"
  /\ prov' = [prov EXCEPT ![g] = Installed(g)]
  /\ gstat' = [gstat EXCEPT ![g] = "run"]
  /\ spark' = [spark EXCEPT ![g] = NoSpark]
  /\ UNCHANGED <<boot, heapVars, finVars, clientVars>>

\* The status gdestroy leaves; newproc1 takes nothing but _Gdead.
StatusNotDead == "waiting"
StatusDead == "free"

\* goexit0: gdestroy clears the descriptor except for its provenance. Main's
\* goroutine leaves this way when it calls runtime.Goexit.
Goexit(g) ==
  /\ gstat[g] = "run"
  /\ g = MainG => boot = "main"
  /\ gstat' = [gstat EXCEPT ![g] = StatusDead]
  /\ UNCHANGED <<boot, prov, spark, heapVars, finVars, clientVars>>

\* User code keeps an Identity value somewhere global, or lets go of it.
Identify(g) ==
  /\ gstat[g] = "run"
  /\ prov[g].identity # Nil
  /\ held' = held \cup {prov[g].identity}
  /\ UNCHANGED <<boot, gstat, prov, spark, heapVars, finVars, table>>

DropIdentity(a) ==
  /\ boot # "aborted"
  /\ a \in held
  /\ held' = held \ {a}
  /\ UNCHANGED <<boot, gstat, prov, spark, heapVars, finVars, table>>

\* A client looks up the entry of its caller's identity and makes one if there
\* is none (genesis stateForCurrent, the slot lookup of Idempotent.Do).
Lookup(g, h) ==
  /\ gstat[g] = "run"
  /\ h \in hooks
  /\ prov[g].identity # Nil
  /\ table[h][prov[g].identity] = 0
  /\ table' = [table EXCEPT ![h][prov[g].identity] = binc[prov[g].identity]]
  /\ UNCHANGED <<boot, gstat, prov, spark, heapVars, finVars, held>>

\* The same call on a goroutine without an identity ends the process: genesis
\* exits (fatalMissingIdentity), sync throws.
LookupWithoutIdentity(g) ==
  /\ gstat[g] = "run"
  /\ prov[g].identity = Nil
  /\ boot' = "aborted"
  /\ gstat' = [x \in G |-> "free"]
  /\ UNCHANGED <<prov, spark, heapVars, finVars, clientVars>>

-----------------------------------------------------------------------------
(* Garbage collection and finalizers *)

\* What keeps a block alive: a descriptor, dead ones on the free list too; a
\* spark closure; an Identity value; the slot for the late finalizer.
Reachable(a) ==
  \/ \E x \in Gs : prov[x].identity = a
  \/ \E g \in G : spark[g].block = a
  \/ a \in held
  \/ a = deferred

\* The collector finds a block unreachable: one with a finalizer is queued,
\* and the association is dropped; one without is freed.
Collect(a) ==
  /\ boot # "aborted"
  /\ bstate[a] \in {"live", "finalized"}
  /\ ~Reachable(a)
  /\ bstate' = [bstate EXCEPT ![a] = IF bfin[a] THEN "queued" ELSE "free"]
  /\ bfin' = [bfin EXCEPT ![a] = FALSE]
  /\ UNCHANGED <<boot, gstat, prov, spark, binc, minted, finVars, clientVars>>

\* janosBlockFinalized: snapshot the hook list under its lock, and
FinalizeBegin(a) ==
  /\ boot # "aborted"
  /\ fing = FingIdle
  /\ bstate[a] = "queued"
  /\ fing' = [block |-> a, todo |-> hooks]
  /\ UNCHANGED <<boot, gstat, prov, spark, heapVars, ready, deferred, hooks,
                 clientVars>>

\* call the hooks one by one; each drops the client's entry for the address.
FinalizeHook(h) ==
  /\ boot # "aborted"
  /\ h \in fing.todo
  /\ table' = [table EXCEPT ![h][fing.block] = 0]
  /\ fing' = [fing EXCEPT !.todo = @ \ {h}]
  /\ UNCHANGED <<boot, gstat, prov, spark, heapVars, ready, deferred, hooks,
                 held>>

\* janosBlockFinalized returns after the last hook has.
ReturnBeforeHooks == fing.block # Nil
HooksReturned == fing.block # Nil /\ fing.todo = {}

\* runFinalizers forgets the block, which the next collection may free.
FinalizeEnd ==
  /\ boot # "aborted"
  /\ HooksReturned
  /\ bstate' = [bstate EXCEPT ![fing.block] = "finalized"]
  /\ fing' = FingIdle
  /\ UNCHANGED <<boot, gstat, prov, spark, binc, bfin, minted, ready,
                 deferred, hooks, clientVars>>

-----------------------------------------------------------------------------
Init ==
  /\ boot = "schedinit"
  /\ gstat = [g \in G |-> "none"]
  /\ prov = [x \in Gs |-> ZeroProvenance]
  /\ spark = [g \in G |-> NoSpark]
  /\ bstate = [a \in Addr |-> "free"]
  /\ binc = [a \in Addr |-> 0]
  /\ bfin = [a \in Addr |-> FALSE]
  /\ minted = 0
  /\ ready = FALSE
  /\ deferred = Nil
  /\ hooks = {}
  /\ fing = FingIdle
  /\ held = {}
  /\ table = [h \in Hook |-> [a \in Addr |-> 0]]

Boot ==
  \/ SchedinitProvenance
  \/ janosInitIdentity
  \/ StartMain
  \/ \E h \in Hook : janosRegisterBlockFinalizedHook(h)
  \/ janosLateFinalizerInit
  \/ janosMaybeCloseGenesisPhase

Goroutine(g) ==
  \/ \E ng \in G : Go(g, ng)
  \/ \E m \in {G0} \cup OtherG0 : TimerGo(m, g)
  \/ CgoCallback(g)
  \/ SparkMint(g)
  \/ \E ng \in G : SparkGo(g, ng)
  \/ SparkInstall(g)
  \/ Goexit(g)
  \/ Identify(g)
  \/ \E h \in Hook : Lookup(g, h)
  \/ LookupWithoutIdentity(g)

Finalizer ==
  \/ \E a \in Addr : FinalizeBegin(a)
  \/ \E h \in Hook : FinalizeHook(h)
  \/ FinalizeEnd

Next ==
  \/ Boot
  \/ \E g \in G : Goroutine(g)
  \/ \E a \in Addr : DropIdentity(a)
  \/ \E a \in Addr : Collect(a)
  \/ Finalizer

\* sysmon forces a collection at least every two minutes (forcegcperiod), and
\* the finalizer goroutine is woken whenever its queue is not empty.
Fairness ==
  /\ \A a \in Addr : WF_vars(Collect(a))
  /\ WF_vars(Finalizer)

Spec == Init /\ [][Next]_vars

FairSpec == Spec /\ Fairness
-----------------------------------------------------------------------------
(* Properties *)

\* Every variable has its type.
TypeOK ==
  /\ boot \in BootPhase
  /\ gstat \in [G -> {"none", "free", "run", "spark", "install"}]
  /\ prov \in [Gs -> gProvenance]
  /\ spark \in [G -> [block: Block, iid: 0..MaxMint]]
  /\ bstate \in [Addr -> {"free", "live", "queued", "finalized"}]
  /\ binc \in [Addr -> 0..MaxMint]
  /\ bfin \in [Addr -> BOOLEAN]
  /\ minted \in 0..MaxMint
  /\ ready \in BOOLEAN
  /\ deferred \in Block
  /\ hooks \in SUBSET Hook
  /\ fing \in [block: Block, todo: SUBSET Hook]
  /\ held \in SUBSET Addr
  /\ table \in [Hook -> [Addr -> 0..MaxMint]]

\* A package's entry for an address always belongs to the identity that is at
\* that address now: no identity minted where a dead one was ever meets the
\* dead one's state (the registries of genesis and sync are keyed by uintptr,
\* and only janosBlockFinalized keeps them in step with the allocator).
KeysAreCurrent ==
  \A h \in Hook, a \in Addr :
    table[h][a] # 0 => table[h][a] = binc[a] /\ bstate[a] # "free"

\* Every live block will be finalized: it has its finalizer, or it waits in the
\* one-block slot that janosLateFinalizerInit empties. A second mint before
\* janosFinalizersReady would overwrite the slot and lose one.
FinalizerNotLost ==
  \A a \in Addr : bstate[a] = "live" => bfin[a] \/ deferred = a

\* The main identity's block is never finalized nor its address reused, even
\* after the main goroutine has called Goexit and its descriptor has been
\* reused: genesis caches that address in mainBlockAddr for good.
MainBlockPinned ==
  boot \notin {"schedinit", "initIdentity"} =>
    \E a \in Addr : binc[a] = 1 /\ bstate[a] = "live"

\* Provenance is all or nothing: a descriptor either has none, or has an
\* identity, an InstanceID and exactly the trust level boot established. No
\* sequence of go, SparkAs, timers and descriptor reuse mixes the two.
WholeProvenance ==
  boot \notin {"schedinit", "initIdentity"} =>
    \A x \in Gs :
      \/ prov[x] = ZeroProvenance
      \/ /\ prov[x].identity # Nil
         /\ prov[x].instanceID # 0
         /\ prov[x].trustLevel = prov[G0].trustLevel

\* Running goroutines share an InstanceID exactly if they share a block: the
\* two identifiers janosSpark replaces never get out of step.
InstanceMatchesBlock ==
  \A x, y \in {g \in G : gstat[g] \in {"run", "spark"}} :
    (prov[x].identity = prov[y].identity)
      <=> (prov[x].instanceID = prov[y].instanceID)

\* "provenance is fixed for the lifetime of a goroutine" (CurrentProvenance):
\* while a goroutine runs code of its own, its record does not change.
ProvenanceFixed ==
  [][\A g \in G :
       /\ gstat[g] \in {"run", "spark"}
       /\ gstat'[g] \in {"run", "spark"}
       => prov'[g] = prov[g]]_vars

\* "Every goroutine has a valid Identity from spawn time" (Identify).
EveryGoroutineHasIdentity ==
  \A g \in G : gstat[g] = "run" => prov[g].identity # Nil

\* The entries of an identity nothing refers to any more are dropped.
EntriesEvicted ==
  \A a \in Addr : \A n \in 1..MaxMint :
    (bstate[a] = "live" /\ binc[a] = n /\ ~Reachable(a))
      ~> (boot = "aborted" \/ \A h \in Hook : table[h][a] # n)
=============================================================================
