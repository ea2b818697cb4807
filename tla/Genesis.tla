------------------------------- MODULE Genesis -------------------------------
(***************************************************************************)
(* Package runtime/genesis: the phase in which the traits of an identity's *)
(* Self are gathered, its close, and SparkAs.                              *)
(*                                                                         *)
(* Every identity has an owner goroutine: runtime.main for the main        *)
(* identity, the goroutine janosSpark started for the others. The owner    *)
(* registers traits and closes the phase. Any number of go-children share  *)
(* the identity and may call CurrentSelf, TraitOf and SparkAs at any time; *)
(* asynchronous initializers, which exist in main's phase only (nothing    *)
(* hands a child's WaitGroup out), hold the phase open until they are done.*)
(*                                                                         *)
(* Abstractions: a trait's value is left out, its type and origin are      *)
(* kept; what user initializers do is register, start asynchronous work,   *)
(* panic or call Goexit; drainSelfDeferred is one step here (module        *)
(* Deferral has its own); inception times are left out.                    *)
(***************************************************************************)
EXTENDS Integers, Sequences

CONSTANTS
  Id,       \* identities
  Main,     \* the main identity
  Type,     \* trait types
  Origin,   \* <<module, package>> pairs initializers come from
  MaxAsync  \* bound: asynchronous initializers outstanding

ASSUME GenesisAssumption ==
  /\ Main \in Id
  /\ MaxAsync \in Nat

VARIABLES
  up,       \* the process is running
  stage,    \* [Id -> where the owner goroutine is]
  traits,   \* [Id -> st.traits]
  typeIdx,  \* [Id -> [Type -> index in traits, 0 if absent]]
  frozen,   \* [Id -> st.frozen]
  mu,       \* [Id -> is st.mu held, by the owner inside closePhase]
  wg,       \* [Id -> st.wg]
  asking,   \* [Id -> how many asynchronous initializers will call CurrentSelf]
  snap,     \* [Id -> parentSelf.Traits, in the closure SparkAs made]
  parent    \* [Id -> the identity whose goroutine called SparkAs]

vars == <<up, stage, traits, typeIdx, frozen, mu, wg, asking, snap, parent>>

phaseVars == <<traits, typeIdx, frozen>>
asyncVars == <<wg, asking>>
sparkVars == <<snap, parent>>

Stage == {"none", "born", "primary", "inits", "check", "unlock", "wait",
          "relock", "freeze", "work", "unwind", "exited"}

Trait == [typ: Type, origin: Origin]

\* The owner of d gets from one place to another.
Goto(d, from, to) ==
  /\ up
  /\ stage[d] = from
  /\ stage' = [stage EXCEPT ![d] = to]

-----------------------------------------------------------------------------
(* Registration *)

\* The index registerTraitAny records for a trait it is about to append.
IdxBeforeAppend(d) == Len(traits[d])
IdxTwiceLess(d) == Len(traits[d]) - 1
NextIdx(d) == Len(traits[d]) + 1

\* typeIdx refuses a second trait of a type.
Accepts(d, tr) == ~frozen[d] /\ typeIdx[d][tr.typ] = 0

\* registerTraitAny under st.mu, when it returns no error.
registerTraitAny(d, tr) ==
  /\ ~mu[d]
  /\ Accepts(d, tr)
  /\ traits' = [traits EXCEPT ![d] = Append(@, tr)]
  /\ typeIdx' = [typeIdx EXCEPT ![d][tr.typ] = NextIdx(d)]
  /\ UNCHANGED <<frozen, mu>>

\* It returns errPhaseClosed or errDuplicateType.
RegisterFails(d, tr) == ~mu[d] /\ ~Accepts(d, tr)

\* Register from a package init with a value or a func() T.
Register(tr) ==
  /\ Goto(Main, "inits", "inits")
  /\ registerTraitAny(Main, tr)
  /\ UNCHANGED <<up, asyncVars, sparkVars>>

\* Register with a func(*sync.WaitGroup) T that starts a goroutine, which may
\* ask for its Self before it is done.
RegisterAsync(tr, asks) ==
  /\ Goto(Main, "inits", "inits")
  /\ ~frozen[Main]
  /\ wg[Main] < MaxAsync
  /\ registerTraitAny(Main, tr)
  /\ wg' = [wg EXCEPT ![Main] = @ + 1]
  /\ asking' = [asking EXCEPT ![Main] = @ + asks]
  /\ UNCHANGED <<up, sparkVars>>

\* A registration that fails in a package init panics on the main goroutine.
RegisterPanics(tr) ==
  /\ up
  /\ stage[Main] = "inits"
  /\ RegisterFails(Main, tr)
  /\ up' = FALSE
  /\ UNCHANGED <<stage, phaseVars, mu, asyncVars, sparkVars>>

\* Register anywhere but under doInit panics (mustBeInInitPhase); on a go-child
\* nothing recovers it.
RegisterOutsideInit(d) ==
  /\ up
  /\ stage[d] # "none"
  /\ up' = FALSE
  /\ UNCHANGED <<stage, phaseVars, mu, asyncVars, sparkVars>>

\* doInit is over; runtime.main calls mainPhaseCloseHook.
InitsOver ==
  /\ Goto(Main, "inits", "check")
  /\ UNCHANGED <<up, phaseVars, mu, asyncVars, sparkVars>>

\* An asynchronous initializer adds work of its own before it is done.
AsyncAdd(d) ==
  /\ up
  /\ wg[d] \in 1..(MaxAsync - 1)
  /\ wg' = [wg EXCEPT ![d] = @ + 1]
  /\ UNCHANGED <<up, stage, phaseVars, mu, asking, sparkVars>>

\* It calls CurrentSelf (and gets ErrPhaseOpen), which takes st.mu,
AsyncAsk(d) ==
  /\ up
  /\ asking[d] > 0
  /\ ~mu[d]
  /\ asking' = [asking EXCEPT ![d] = @ - 1]
  /\ UNCHANGED <<up, stage, phaseVars, mu, wg, sparkVars>>

\* and calls Done.
AsyncDone(d) ==
  /\ up
  /\ wg[d] > asking[d]
  /\ wg' = [wg EXCEPT ![d] = @ - 1]
  /\ UNCHANGED <<up, stage, phaseVars, mu, asking, sparkVars>>

-----------------------------------------------------------------------------
(* closePhase, on the owner *)

\* st.mu.Lock(); if st.frozen the caller panics with errPhaseClosed.
CloseCheck(d) ==
  /\ ~mu[d]
  /\ mu' = [mu EXCEPT ![d] = ~frozen[d]]
  /\ Goto(d, "check", IF frozen[d] THEN "unwind" ELSE "unlock")
  /\ UNCHANGED <<up, phaseVars, asyncVars, sparkVars>>

\* st.mu.Unlock(): the mutex is not held while closePhase waits.
StillLocked(d) == mu
Unlocked(d) == [mu EXCEPT ![d] = FALSE]

CloseUnlock(d) ==
  /\ Goto(d, "unlock", "wait")
  /\ mu' = Unlocked(d)
  /\ UNCHANGED <<up, phaseVars, asyncVars, sparkVars>>

\* st.wg.Wait()
DoesNotWait(d) == TRUE
Waited(d) == wg[d] = 0

CloseWait(d) ==
  /\ Waited(d)
  /\ Goto(d, "wait", "relock")
  /\ UNCHANGED <<up, phaseVars, mu, asyncVars, sparkVars>>

\* st.mu.Lock(); st.frozen is looked at again.
CloseRelock(d) ==
  /\ ~mu[d]
  /\ mu' = [mu EXCEPT ![d] = ~frozen[d]]
  /\ Goto(d, "relock", IF frozen[d] THEN "unwind" ELSE "freeze")
  /\ UNCHANGED <<up, phaseVars, asyncVars, sparkVars>>

\* st.frozen = true, and the deferred unlock; work (or main.main) starts.
CloseFreeze(d) ==
  /\ Goto(d, "freeze", "work")
  /\ frozen' = [frozen EXCEPT ![d] = TRUE]
  /\ mu' = [mu EXCEPT ![d] = FALSE]
  /\ UNCHANGED <<up, traits, typeIdx, asyncVars, sparkVars>>

-----------------------------------------------------------------------------
(* SparkAs *)

\* CurrentSelf answers: anything else returns ErrPhaseOpen.
AnswersEarly(d) == stage[d] # "none" /\ ~mu[d]
CurrentSelfAnswers(d) == stage[d] # "none" /\ ~mu[d] /\ frozen[d]

\* A goroutine of d calls SparkAs: CurrentSelf, then janosSpark with a closure
\* that holds a copy of the traits.
SparkAs(d, c) ==
  /\ CurrentSelfAnswers(d)
  /\ Goto(c, "none", "born")
  /\ snap' = [snap EXCEPT ![c] = traits[d]]
  /\ parent' = [parent EXCEPT ![c] = d]
  /\ UNCHANGED <<up, phaseVars, mu, asyncVars>>

\* Where the loop over parentSelf.Traits puts the i-th of them.
InheritedAt(c, i) == Len(traits[c]) + i

\* The child makes its selfState, defers drainSelfDeferred and inherits.
Inherit(c) ==
  /\ Goto(c, "born", "primary")
  /\ ~mu[c]
  /\ traits' = [traits EXCEPT ![c] = @ \o snap[c]]
  /\ typeIdx' = [typeIdx EXCEPT ![c] =
       [t \in Type |->
          IF \E i \in DOMAIN snap[c] : snap[c][i].typ = t
          THEN InheritedAt(c, CHOOSE i \in DOMAIN snap[c] : snap[c][i].typ = t)
          ELSE @[t]]]
  /\ UNCHANGED <<up, frozen, mu, asyncVars, sparkVars>>

\* primaryInit ran and its result is registered.
PrimaryInit(c, tr) ==
  /\ Goto(c, "primary", "inits")
  /\ registerTraitAny(c, tr)
  /\ UNCHANGED <<up, asyncVars, sparkVars>>

\* One round of the loop over additionalInits.
AdditionalInit(c, tr) ==
  /\ c # Main
  /\ Goto(c, "inits", "inits")
  /\ registerTraitAny(c, tr)
  /\ UNCHANGED <<up, asyncVars, sparkVars>>

AdditionalInitsOver(c) ==
  /\ c # Main
  /\ Goto(c, "inits", "check")
  /\ UNCHANGED <<up, phaseVars, mu, asyncVars, sparkVars>>

\* An initializer is nil, returns nil or a type that is taken, or panics; or
\* work panics. The panic unwinds through drainSelfDeferred and
ChildPanics(c) ==
  /\ c # Main
  /\ stage[c] \in {"primary", "inits", "work"}
  /\ Goto(c, stage[c], "unwind")
  /\ UNCHANGED <<up, phaseVars, mu, asyncVars, sparkVars>>

\* ends the process.
Crash(d) ==
  /\ up
  /\ stage[d] = "unwind"
  /\ up' = FALSE
  /\ UNCHANGED <<stage, phaseVars, mu, asyncVars, sparkVars>>

\* work returns, or the child calls Goexit in an initializer or in work: the
\* deferred drain runs and the goroutine ends, without a panic. A phase that is
\* still open then stays open for the go-children that are left.
ChildExits(c) ==
  /\ c # Main
  /\ stage[c] \in {"primary", "inits", "work"}
  /\ Goto(c, stage[c], "exited")
  /\ UNCHANGED <<up, phaseVars, mu, asyncVars, sparkVars>>

\* main.main returns.
MainReturns ==
  /\ Goto(Main, "work", "exited")
  /\ up' = FALSE
  /\ UNCHANGED <<phaseVars, mu, asyncVars, sparkVars>>

-----------------------------------------------------------------------------
(* TraitOf: the indices it finds; {} is ErrNotFound, two are ErrAmbiguous *)

Matching(d, typ, filters) ==
  {i \in DOMAIN traits[d] :
     /\ traits[d][i].typ = typ
     /\ \A k \in 1..Len(filters) : k <= 2 => traits[d][i].origin[k] = filters[k]}

TraitOf(d, typ, filters) ==
  IF filters = <<>>
  THEN IF typeIdx[d][typ] = 0 THEN {} ELSE {typeIdx[d][typ]}
  ELSE Matching(d, typ, filters)

-----------------------------------------------------------------------------
Init ==
  /\ up = TRUE
  /\ stage = [d \in Id |-> IF d = Main THEN "inits" ELSE "none"]
  /\ traits = [d \in Id |-> <<>>]
  /\ typeIdx = [d \in Id |-> [t \in Type |-> 0]]
  /\ frozen = [d \in Id |-> FALSE]
  /\ mu = [d \in Id |-> FALSE]
  /\ wg = [d \in Id |-> 0]
  /\ asking = [d \in Id |-> 0]
  /\ snap = [d \in Id |-> <<>>]
  /\ parent = [d \in Id |-> Main]

closePhase(d) ==
  \/ CloseCheck(d)
  \/ CloseUnlock(d)
  \/ CloseWait(d)
  \/ CloseRelock(d)
  \/ CloseFreeze(d)

MainInits ==
  \/ \E tr \in Trait : Register(tr)
  \/ \E tr \in Trait, asks \in {0, 1} : RegisterAsync(tr, asks)
  \/ \E tr \in Trait : RegisterPanics(tr)
  \/ InitsOver

Async(d) ==
  \/ AsyncAdd(d)
  \/ AsyncAsk(d)
  \/ AsyncDone(d)

Child(c) ==
  \/ Inherit(c)
  \/ \E tr \in Trait : PrimaryInit(c, tr)
  \/ \E tr \in Trait : AdditionalInit(c, tr)
  \/ AdditionalInitsOver(c)
  \/ ChildPanics(c)
  \/ ChildExits(c)

Next ==
  \/ MainInits
  \/ MainReturns
  \/ \E d \in Id : \/ RegisterOutsideInit(d)
                   \/ Async(d)
                   \/ closePhase(d)
                   \/ Crash(d)
                   \/ Child(d)
  \/ \E d, c \in Id : SparkAs(d, c)

Spec == Init /\ [][Next]_vars

\* Goroutines are scheduled, a program has finitely many package inits, an
\* asynchronous initializer asks at most once, adds no more work from some
\* point on and calls Done.
Fairness ==
  /\ WF_vars(InitsOver)
  /\ \A d \in Id : /\ WF_vars(AsyncAsk(d))
                   /\ SF_vars(AsyncDone(d) /\ wg[d] = 1)
                   /\ WF_vars(AsyncDone(d))
                   /\ WF_vars(closePhase(d))
                   /\ WF_vars(Crash(d))
                   /\ WF_vars(Child(d))

FairSpec == Spec /\ Fairness

-----------------------------------------------------------------------------
(* Properties *)

\* Every variable has its type.
TypeOK ==
  /\ up \in BOOLEAN
  /\ stage \in [Id -> Stage]
  /\ traits \in [Id -> Seq(Trait)]
  /\ typeIdx \in [Id -> [Type -> Nat]]
  /\ frozen \in [Id -> BOOLEAN]
  /\ mu \in [Id -> BOOLEAN]
  /\ wg \in [Id -> 0..MaxAsync]
  /\ asking \in [Id -> 0..MaxAsync]
  /\ snap \in [Id -> Seq(Trait)]
  /\ parent \in [Id -> Id]

Published == {d \in Id : frozen[d]}
SelfOf == [d \in Id |-> IF frozen[d] THEN traits[d] ELSE <<>>]

Self == INSTANCE WriteOnceSelf WITH published <- Published, self <- SelfOf

\* "User code sees either no Self or a complete Self": whatever CurrentSelf,
\* TraitOf and SparkAs can see of an identity is published in one step, unique
\* by type and a continuation of its parent's Self, and never changes again.
SelfIsWrittenOnce == Self!Spec

\* The two ways TraitOf looks up a trait agree, in a child that inherited its
\* index as well as in main: filters only narrow what the index finds, and
\* nothing is ever ambiguous.
LookupsAgree ==
  \A d \in Id, t \in Type :
    /\ TraitOf(d, t, <<>>) = Matching(d, t, <<>>)
    /\ \A o \in Origin : TraitOf(d, t, o) \subseteq TraitOf(d, t, <<>>)

\* Nothing observes a Self while an initializer still works on it.
AsyncInitsDone == \A d \in Id : frozen[d] => wg[d] = 0

\* Every phase that is begun comes to an end: the Self is frozen, or the owner
\* or the process is gone.
PhaseCloses ==
  \A d \in Id : stage[d] \in {"born", "inits"} ~>
    (frozen[d] \/ stage[d] = "exited" \/ ~up)
=============================================================================
