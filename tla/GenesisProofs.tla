---------------------------- MODULE GenesisProofs ----------------------------
(***************************************************************************)
(* Proofs about the genesis phase, for any number of identities, types,    *)
(* origins and asynchronous initializers: its variables keep their types,  *)
(* the two ways to look a trait up agree, nothing observes a Self that an  *)
(* initializer still works on, and the phase implements WriteOnceSelf.     *)
(***************************************************************************)
EXTENDS Genesis, TLAPS

\* st.mu is held where closePhase holds it, and only a phase that was closed
\* is frozen.
PhaseInv ==
  \A d \in Id :
    /\ mu[d] <=> stage[d] \in {"unlock", "freeze"}
    /\ frozen[d] => stage[d] \in {"work", "unwind", "exited"}

\* What will ask has not called Done, and nothing adds to a WaitGroup that
\* closePhase found at zero.
AsyncInv ==
  \A d \in Id :
    /\ asking[d] <= wg[d]
    /\ frozen[d] \/ stage[d] \in {"relock", "freeze"} => wg[d] = 0

\* typeIdx is the inverse of the types of traits.
IndexInv ==
  \A d \in Id :
    /\ \A i \in DOMAIN traits[d] : typeIdx[d][traits[d][i].typ] = i
    /\ \A t \in Type : typeIdx[d][t] # 0 =>
         /\ typeIdx[d][t] \in DOMAIN traits[d]
         /\ traits[d][typeIdx[d][t]].typ = t

\* A spark holds a copy of its parent's Self, which is frozen: it has no traits
\* before it inherits them, and they stay in front.
SparkInv ==
  /\ stage[Main] \notin {"none", "born"}
  /\ \A c \in Id \ {Main} :
       /\ stage[c] # "none" => frozen[parent[c]] /\ snap[c] = traits[parent[c]]
       /\ IF stage[c] \in {"none", "born"}
          THEN traits[c] = <<>>
          ELSE Self!Extends(traits[c], snap[c])

IInv ==
  /\ TypeOK
  /\ PhaseInv
  /\ AsyncInv
  /\ IndexInv
  /\ SparkInv

-----------------------------------------------------------------------------
(* What the operations share *)

\* A step that registers nothing, freezes nothing and sparks nothing, and
\* takes an owner at most from one place after the inheritance to another.
LEMMA OwnerMoves ==
  ASSUME IInv, NEW d \in Id, UNCHANGED <<phaseVars, sparkVars>>,
         \/ UNCHANGED stage
         \/ /\ stage[d] \notin {"none", "born"}
            /\ \E to \in Stage \ {"none", "born"} :
                 stage' = [stage EXCEPT ![d] = to]
  PROVE  /\ IndexInv' /\ SparkInv'
         /\ stage' \in [Id -> Stage]
  <1>1. UNCHANGED <<traits, typeIdx, frozen, snap, parent>>
    BY DEF phaseVars, sparkVars
  <1>2. stage' \in [Id -> Stage]
    BY DEF IInv, TypeOK
  <1>3. \A c \in Id : stage'[c] \in {"none", "born"} <=> stage[c] \in {"none", "born"}
    BY DEF IInv, TypeOK
  <1>4. \A c \in Id : stage'[c] = "none" <=> stage[c] = "none"
    BY DEF IInv, TypeOK
  <1>5. IndexInv'
    BY <1>1 DEF IInv, IndexInv
  <1>6. SparkInv'
    BY <1>1, <1>3, <1>4, GenesisAssumption DEF IInv, SparkInv, Self!Extends
  <1> QED
    BY <1>2, <1>5, <1>6

\* A trait has a type, and so has each one in a sequence of them.
LEMMA TraitType ==
  /\ \A tr \in Trait : tr.typ \in Type
  /\ \A s \in Seq(Trait) : Len(s) \in Nat /\ \A i \in DOMAIN s : s[i].typ \in Type
  <1>1. \A tr \in Trait : tr.typ \in Type
    BY DEF Trait
  <1>2. \A s \in Seq(Trait) : Len(s) \in Nat /\ \A i \in DOMAIN s : s[i] \in Trait
    OBVIOUS
  <1> QED
    BY <1>1, <1>2

\* registerTraitAny appends one trait and keeps the index the inverse.
LEMMA RegisterKeeps ==
  ASSUME TypeOK, IndexInv, NEW d \in Id, NEW tr \in Trait,
         registerTraitAny(d, tr)
  PROVE  /\ traits' \in [Id -> Seq(Trait)]
         /\ typeIdx' \in [Id -> [Type -> Nat]]
         /\ IndexInv'
  <1> DEFINE n == Len(traits[d]) + 1
             s == Append(traits[d], tr)
  <1>1. /\ tr.typ \in Type /\ traits[d] \in Seq(Trait) /\ n \in Nat \ {0}
        /\ Len(traits[d]) \in Nat
    BY TraitType DEF TypeOK
  <1>2. /\ s \in Seq(Trait) /\ DOMAIN s = 1..n /\ s[n] = tr
        /\ DOMAIN traits[d] = 1..(n - 1)
        /\ \A i \in 1..(n - 1) : s[i] = traits[d][i]
    BY <1>1
  <1>3. /\ traits' = [traits EXCEPT ![d] = s]
        /\ typeIdx' = [typeIdx EXCEPT ![d] = [@ EXCEPT ![tr.typ] = n]]
        /\ typeIdx[d][tr.typ] = 0
    BY DEF registerTraitAny, NextIdx, Accepts
  <1>4. /\ traits'[d] = s
        /\ typeIdx'[d] = [typeIdx[d] EXCEPT ![tr.typ] = n]
        /\ \A e \in Id : e # d => traits'[e] = traits[e] /\ typeIdx'[e] = typeIdx[e]
    BY <1>3 DEF TypeOK
  <1>5. typeIdx[d] \in [Type -> Nat]
    BY DEF TypeOK
  <1>6. traits' \in [Id -> Seq(Trait)]
    BY <1>2, <1>3 DEF TypeOK
  <1>7. typeIdx' \in [Id -> [Type -> Nat]]
    <2>1. [typeIdx[d] EXCEPT ![tr.typ] = n] \in [Type -> Nat]
      BY <1>1, <1>5
    <2> QED
      BY <1>3, <2>1 DEF TypeOK
  <1>8. ASSUME NEW e \in Id, e # d
        PROVE  /\ \A i \in DOMAIN traits'[e] : typeIdx'[e][traits'[e][i].typ] = i
               /\ \A t \in Type : typeIdx'[e][t] # 0 =>
                    /\ typeIdx'[e][t] \in DOMAIN traits'[e]
                    /\ traits'[e][typeIdx'[e][t]].typ = t
    BY <1>4, <1>8 DEF IndexInv
  <1>9. ASSUME NEW i \in DOMAIN traits'[d]
        PROVE  typeIdx'[d][traits'[d][i].typ] = i
    <2>1. CASE i = n
      BY <1>1, <1>2, <1>4, <1>5, <2>1
    <2>2. CASE i # n
      <3>1. i \in 1..(n - 1) /\ traits'[d][i] = traits[d][i]
        BY <1>1, <1>2, <1>4, <1>9, <2>2
      <3>2. typeIdx[d][traits[d][i].typ] = i /\ traits[d][i].typ \in Type
        BY <1>1, <1>2, <3>1, TraitType DEF IndexInv
      <3>3. traits[d][i].typ # tr.typ
        BY <1>3, <3>1, <3>2
      <3> QED
        BY <1>4, <1>5, <3>1, <3>2, <3>3
    <2> QED
      BY <2>1, <2>2
  <1>10. ASSUME NEW t \in Type, typeIdx'[d][t] # 0
         PROVE  /\ typeIdx'[d][t] \in DOMAIN traits'[d]
                /\ traits'[d][typeIdx'[d][t]].typ = t
    <2>1. CASE t = tr.typ
      BY <1>1, <1>2, <1>4, <1>5, <2>1
    <2>2. CASE t # tr.typ
      <3>1. typeIdx'[d][t] = typeIdx[d][t]
        BY <1>4, <1>5, <2>2
      <3>2. typeIdx[d][t] \in 1..(n - 1) /\ traits[d][typeIdx[d][t]].typ = t
        BY <1>2, <1>10, <3>1 DEF IndexInv
      <3> QED
        BY <1>1, <1>2, <1>4, <3>1, <3>2
    <2> QED
      BY <2>1, <2>2
  <1>11. IndexInv'
    <2> HIDE DEF n, s
    <2> QED
      BY <1>8, <1>9, <1>10 DEF IndexInv
  <1> QED
    BY <1>6, <1>7, <1>11

\* An owner that registers, before or after which it is past the inheritance,
\* keeps what it inherited in front.
LEMMA RegisterBehind ==
  ASSUME IInv, NEW d \in Id, NEW tr \in Trait, registerTraitAny(d, tr),
         stage[d] \notin {"none", "born"},
         NEW to \in Stage \ {"none", "born"},
         stage' = [stage EXCEPT ![d] = to],
         UNCHANGED sparkVars
  PROVE  SparkInv'
  <1>1. /\ UNCHANGED <<snap, parent, frozen>> /\ ~frozen[d]
        /\ traits' = [traits EXCEPT ![d] = Append(@, tr)]
    BY DEF sparkVars, registerTraitAny, Accepts
  <1>2. \A c \in Id : stage'[c] \in {"none", "born"} <=> stage[c] \in {"none", "born"}
    BY DEF IInv, TypeOK
  <1>3. \A c \in Id : stage'[c] = "none" <=> stage[c] = "none"
    BY DEF IInv, TypeOK
  <1>4. \A c \in Id : c # d => traits'[c] = traits[c]
    BY <1>1 DEF IInv, TypeOK
  <1>5. traits'[d] = Append(traits[d], tr) /\ traits[d] \in Seq(Trait)
    BY <1>1 DEF IInv, TypeOK
  <1>6. \A c \in Id : frozen[c] => traits'[c] = traits[c]
    BY <1>1, <1>4
  <1>7. ASSUME d # Main PROVE Self!Extends(traits'[d], snap[d])
    <2>1. Self!Extends(traits[d], snap[d]) /\ snap[d] \in Seq(Trait)
      BY <1>7 DEF IInv, SparkInv, TypeOK
    <2> QED
      BY <1>5, <2>1 DEF Self!Extends
  <1>8. ASSUME NEW c \in Id \ {Main}
        PROVE  /\ stage'[c] # "none" =>
                    frozen'[parent'[c]] /\ snap'[c] = traits'[parent'[c]]
               /\ IF stage'[c] \in {"none", "born"}
                  THEN traits'[c] = <<>>
                  ELSE Self!Extends(traits'[c], snap'[c])
    <2>1. parent[c] \in Id
      BY DEF IInv, TypeOK
    <2>2. stage'[c] # "none" => frozen'[parent'[c]] /\ snap'[c] = traits'[parent'[c]]
      BY <1>1, <1>3, <1>6, <2>1 DEF IInv, SparkInv
    <2>3. CASE c = d
      BY <1>1, <1>2, <1>7, <2>2, <2>3
    <2>4. CASE c # d
      BY <1>1, <1>2, <1>4, <2>2, <2>4 DEF IInv, SparkInv, Self!Extends
    <2> QED
      BY <2>3, <2>4
  <1>9. stage'[Main] \notin {"none", "born"}
    BY <1>2, GenesisAssumption DEF IInv, SparkInv
  <1> QED
    BY <1>8, <1>9 DEF SparkInv, Self!Extends

-----------------------------------------------------------------------------
(* One lemma per operation *)

\* RegisterPanics keeps IInv.
LEMMA RegisterPanicsStep ==
  ASSUME IInv, NEW tr \in Trait, RegisterPanics(tr)
  PROVE  IInv'
  <1> USE DEF IInv, RegisterPanics
  <1>moves. IndexInv' /\ SparkInv' /\ stage' \in [Id -> Stage]
    BY OwnerMoves, GenesisAssumption
  <1>type. TypeOK'
    BY <1>moves, GenesisAssumption DEF TypeOK, phaseVars, sparkVars, asyncVars
  <1>phase. PhaseInv'
    BY GenesisAssumption DEF PhaseInv, TypeOK, phaseVars
  <1>async. AsyncInv'
    BY GenesisAssumption DEF AsyncInv, TypeOK, PhaseInv, phaseVars, asyncVars
  <1> QED
    BY <1>moves, <1>type, <1>phase, <1>async

\* RegisterOutsideInit keeps IInv.
LEMMA RegisterOutsideInitStep ==
  ASSUME IInv, NEW d \in Id, RegisterOutsideInit(d)
  PROVE  IInv'
  <1> USE DEF IInv, RegisterOutsideInit
  <1>moves. IndexInv' /\ SparkInv' /\ stage' \in [Id -> Stage]
    BY OwnerMoves, GenesisAssumption
  <1>type. TypeOK'
    BY <1>moves, GenesisAssumption DEF TypeOK, phaseVars, sparkVars, asyncVars
  <1>phase. PhaseInv'
    BY GenesisAssumption DEF PhaseInv, TypeOK, phaseVars
  <1>async. AsyncInv'
    BY GenesisAssumption DEF AsyncInv, TypeOK, PhaseInv, phaseVars, asyncVars
  <1> QED
    BY <1>moves, <1>type, <1>phase, <1>async

\* InitsOver keeps IInv.
LEMMA InitsOverStep ==
  ASSUME IInv, InitsOver
  PROVE  IInv'
  <1> USE DEF IInv, InitsOver, Goto
  <1>moves. IndexInv' /\ SparkInv' /\ stage' \in [Id -> Stage]
    <2>1. /\ stage[Main] \notin {"none", "born"}
          /\ \E to \in Stage \ {"none", "born"} :
               stage' = [stage EXCEPT ![Main] = to]
      BY DEF Stage
    <2> QED
      BY <2>1, OwnerMoves, GenesisAssumption
  <1>type. TypeOK'
    BY <1>moves, GenesisAssumption DEF TypeOK, phaseVars, sparkVars, asyncVars
  <1>phase. PhaseInv'
    BY GenesisAssumption DEF PhaseInv, TypeOK, phaseVars
  <1>async. AsyncInv'
    BY GenesisAssumption DEF AsyncInv, TypeOK, PhaseInv, phaseVars, asyncVars
  <1> QED
    BY <1>moves, <1>type, <1>phase, <1>async

\* AsyncAdd keeps IInv.
LEMMA AsyncAddStep ==
  ASSUME IInv, NEW d \in Id, AsyncAdd(d)
  PROVE  IInv'
  <1> USE DEF IInv, AsyncAdd
  <1>moves. IndexInv' /\ SparkInv' /\ stage' \in [Id -> Stage]
    BY OwnerMoves, GenesisAssumption
  <1>type. TypeOK'
    BY <1>moves, GenesisAssumption DEF TypeOK, phaseVars, sparkVars, asyncVars
  <1>phase. PhaseInv'
    BY GenesisAssumption DEF PhaseInv, TypeOK, phaseVars
  <1>async. AsyncInv'
    BY GenesisAssumption DEF AsyncInv, TypeOK, PhaseInv, phaseVars, asyncVars
  <1> QED
    BY <1>moves, <1>type, <1>phase, <1>async

\* AsyncAsk keeps IInv.
LEMMA AsyncAskStep ==
  ASSUME IInv, NEW d \in Id, AsyncAsk(d)
  PROVE  IInv'
  <1> USE DEF IInv, AsyncAsk
  <1>moves. IndexInv' /\ SparkInv' /\ stage' \in [Id -> Stage]
    BY OwnerMoves, GenesisAssumption
  <1>type. TypeOK'
    BY <1>moves, GenesisAssumption DEF TypeOK, phaseVars, sparkVars, asyncVars
  <1>phase. PhaseInv'
    BY GenesisAssumption DEF PhaseInv, TypeOK, phaseVars
  <1>async. AsyncInv'
    BY GenesisAssumption DEF AsyncInv, TypeOK, PhaseInv, phaseVars, asyncVars
  <1> QED
    BY <1>moves, <1>type, <1>phase, <1>async

\* AsyncDone keeps IInv.
LEMMA AsyncDoneStep ==
  ASSUME IInv, NEW d \in Id, AsyncDone(d)
  PROVE  IInv'
  <1> USE DEF IInv, AsyncDone
  <1>moves. IndexInv' /\ SparkInv' /\ stage' \in [Id -> Stage]
    BY OwnerMoves, GenesisAssumption
  <1>type. TypeOK'
    BY <1>moves, GenesisAssumption DEF TypeOK, phaseVars, sparkVars, asyncVars
  <1>phase. PhaseInv'
    BY GenesisAssumption DEF PhaseInv, TypeOK, phaseVars
  <1>async. AsyncInv'
    BY GenesisAssumption DEF AsyncInv, TypeOK, PhaseInv, phaseVars, asyncVars
  <1> QED
    BY <1>moves, <1>type, <1>phase, <1>async

\* CloseCheck keeps IInv.
LEMMA CloseCheckStep ==
  ASSUME IInv, NEW d \in Id, CloseCheck(d)
  PROVE  IInv'
  <1> USE DEF IInv, CloseCheck, Goto
  <1>moves. IndexInv' /\ SparkInv' /\ stage' \in [Id -> Stage]
    <2>1. /\ stage[d] \notin {"none", "born"}
          /\ \E to \in Stage \ {"none", "born"} :
               stage' = [stage EXCEPT ![d] = to]
      BY DEF Stage
    <2> QED
      BY <2>1, OwnerMoves, GenesisAssumption
  <1>type. TypeOK'
    BY <1>moves, GenesisAssumption DEF TypeOK, phaseVars, sparkVars, asyncVars
  <1>phase. PhaseInv'
    BY GenesisAssumption DEF PhaseInv, TypeOK, phaseVars
  <1>async. AsyncInv'
    BY GenesisAssumption DEF AsyncInv, TypeOK, PhaseInv, phaseVars, asyncVars
  <1> QED
    BY <1>moves, <1>type, <1>phase, <1>async

\* CloseUnlock keeps IInv.
LEMMA CloseUnlockStep ==
  ASSUME IInv, NEW d \in Id, CloseUnlock(d)
  PROVE  IInv'
  <1> USE DEF IInv, CloseUnlock, Unlocked, Goto
  <1>moves. IndexInv' /\ SparkInv' /\ stage' \in [Id -> Stage]
    <2>1. /\ stage[d] \notin {"none", "born"}
          /\ \E to \in Stage \ {"none", "born"} :
               stage' = [stage EXCEPT ![d] = to]
      BY DEF Stage
    <2> QED
      BY <2>1, OwnerMoves, GenesisAssumption
  <1>type. TypeOK'
    BY <1>moves, GenesisAssumption DEF TypeOK, phaseVars, sparkVars, asyncVars
  <1>phase. PhaseInv'
    BY GenesisAssumption DEF PhaseInv, TypeOK, phaseVars
  <1>async. AsyncInv'
    BY GenesisAssumption DEF AsyncInv, TypeOK, PhaseInv, phaseVars, asyncVars
  <1> QED
    BY <1>moves, <1>type, <1>phase, <1>async

\* CloseWait keeps IInv.
LEMMA CloseWaitStep ==
  ASSUME IInv, NEW d \in Id, CloseWait(d)
  PROVE  IInv'
  <1> USE DEF IInv, CloseWait, Waited, Goto
  <1>moves. IndexInv' /\ SparkInv' /\ stage' \in [Id -> Stage]
    <2>1. /\ stage[d] \notin {"none", "born"}
          /\ \E to \in Stage \ {"none", "born"} :
               stage' = [stage EXCEPT ![d] = to]
      BY DEF Stage
    <2> QED
      BY <2>1, OwnerMoves, GenesisAssumption
  <1>type. TypeOK'
    BY <1>moves, GenesisAssumption DEF TypeOK, phaseVars, sparkVars, asyncVars
  <1>phase. PhaseInv'
    BY GenesisAssumption DEF PhaseInv, TypeOK, phaseVars
  <1>async. AsyncInv'
    BY GenesisAssumption DEF AsyncInv, TypeOK, PhaseInv, phaseVars, asyncVars
  <1> QED
    BY <1>moves, <1>type, <1>phase, <1>async

\* CloseRelock keeps IInv.
LEMMA CloseRelockStep ==
  ASSUME IInv, NEW d \in Id, CloseRelock(d)
  PROVE  IInv'
  <1> USE DEF IInv, CloseRelock, Goto
  <1>moves. IndexInv' /\ SparkInv' /\ stage' \in [Id -> Stage]
    <2>1. /\ stage[d] \notin {"none", "born"}
          /\ \E to \in Stage \ {"none", "born"} :
               stage' = [stage EXCEPT ![d] = to]
      BY DEF Stage
    <2> QED
      BY <2>1, OwnerMoves, GenesisAssumption
  <1>type. TypeOK'
    BY <1>moves, GenesisAssumption DEF TypeOK, phaseVars, sparkVars, asyncVars
  <1>phase. PhaseInv'
    BY GenesisAssumption DEF PhaseInv, TypeOK, phaseVars
  <1>async. AsyncInv'
    BY GenesisAssumption DEF AsyncInv, TypeOK, PhaseInv, phaseVars, asyncVars
  <1> QED
    BY <1>moves, <1>type, <1>phase, <1>async

\* AdditionalInitsOver keeps IInv.
LEMMA AdditionalInitsOverStep ==
  ASSUME IInv, NEW c \in Id, AdditionalInitsOver(c)
  PROVE  IInv'
  <1> USE DEF IInv, AdditionalInitsOver, Goto
  <1>moves. IndexInv' /\ SparkInv' /\ stage' \in [Id -> Stage]
    <2>1. /\ stage[c] \notin {"none", "born"}
          /\ \E to \in Stage \ {"none", "born"} :
               stage' = [stage EXCEPT ![c] = to]
      BY DEF Stage
    <2> QED
      BY <2>1, OwnerMoves, GenesisAssumption
  <1>type. TypeOK'
    BY <1>moves, GenesisAssumption DEF TypeOK, phaseVars, sparkVars, asyncVars
  <1>phase. PhaseInv'
    BY GenesisAssumption DEF PhaseInv, TypeOK, phaseVars
  <1>async. AsyncInv'
    BY GenesisAssumption DEF AsyncInv, TypeOK, PhaseInv, phaseVars, asyncVars
  <1> QED
    BY <1>moves, <1>type, <1>phase, <1>async

\* ChildPanics keeps IInv.
LEMMA ChildPanicsStep ==
  ASSUME IInv, NEW c \in Id, ChildPanics(c)
  PROVE  IInv'
  <1> USE DEF IInv, ChildPanics, Goto
  <1>moves. IndexInv' /\ SparkInv' /\ stage' \in [Id -> Stage]
    <2>1. /\ stage[c] \notin {"none", "born"}
          /\ \E to \in Stage \ {"none", "born"} :
               stage' = [stage EXCEPT ![c] = to]
      BY DEF Stage
    <2> QED
      BY <2>1, OwnerMoves, GenesisAssumption
  <1>type. TypeOK'
    BY <1>moves, GenesisAssumption DEF TypeOK, phaseVars, sparkVars, asyncVars
  <1>phase. PhaseInv'
    BY GenesisAssumption DEF PhaseInv, TypeOK, phaseVars
  <1>async. AsyncInv'
    BY GenesisAssumption DEF AsyncInv, TypeOK, PhaseInv, phaseVars, asyncVars
  <1> QED
    BY <1>moves, <1>type, <1>phase, <1>async

\* ChildExits keeps IInv.
LEMMA ChildExitsStep ==
  ASSUME IInv, NEW c \in Id, ChildExits(c)
  PROVE  IInv'
  <1> USE DEF IInv, ChildExits, Goto
  <1>moves. IndexInv' /\ SparkInv' /\ stage' \in [Id -> Stage]
    <2>1. /\ stage[c] \notin {"none", "born"}
          /\ \E to \in Stage \ {"none", "born"} :
               stage' = [stage EXCEPT ![c] = to]
      BY DEF Stage
    <2> QED
      BY <2>1, OwnerMoves, GenesisAssumption
  <1>type. TypeOK'
    BY <1>moves, GenesisAssumption DEF TypeOK, phaseVars, sparkVars, asyncVars
  <1>phase. PhaseInv'
    BY GenesisAssumption DEF PhaseInv, TypeOK, phaseVars
  <1>async. AsyncInv'
    BY GenesisAssumption DEF AsyncInv, TypeOK, PhaseInv, phaseVars, asyncVars
  <1> QED
    BY <1>moves, <1>type, <1>phase, <1>async

\* Crash keeps IInv.
LEMMA CrashStep ==
  ASSUME IInv, NEW d \in Id, Crash(d)
  PROVE  IInv'
  <1> USE DEF IInv, Crash
  <1>moves. IndexInv' /\ SparkInv' /\ stage' \in [Id -> Stage]
    BY OwnerMoves, GenesisAssumption
  <1>type. TypeOK'
    BY <1>moves, GenesisAssumption DEF TypeOK, phaseVars, sparkVars, asyncVars
  <1>phase. PhaseInv'
    BY GenesisAssumption DEF PhaseInv, TypeOK, phaseVars
  <1>async. AsyncInv'
    BY GenesisAssumption DEF AsyncInv, TypeOK, PhaseInv, phaseVars, asyncVars
  <1> QED
    BY <1>moves, <1>type, <1>phase, <1>async

\* MainReturns keeps IInv.
LEMMA MainReturnsStep ==
  ASSUME IInv, MainReturns
  PROVE  IInv'
  <1> USE DEF IInv, MainReturns, Goto
  <1>moves. IndexInv' /\ SparkInv' /\ stage' \in [Id -> Stage]
    <2>1. /\ stage[Main] \notin {"none", "born"}
          /\ \E to \in Stage \ {"none", "born"} :
               stage' = [stage EXCEPT ![Main] = to]
      BY DEF Stage
    <2> QED
      BY <2>1, OwnerMoves, GenesisAssumption
  <1>type. TypeOK'
    BY <1>moves, GenesisAssumption DEF TypeOK, phaseVars, sparkVars, asyncVars
  <1>phase. PhaseInv'
    BY GenesisAssumption DEF PhaseInv, TypeOK, phaseVars
  <1>async. AsyncInv'
    BY GenesisAssumption DEF AsyncInv, TypeOK, PhaseInv, phaseVars, asyncVars
  <1> QED
    BY <1>moves, <1>type, <1>phase, <1>async

\* Register keeps IInv.
LEMMA RegisterStep ==
  ASSUME IInv, NEW tr \in Trait, Register(tr)
  PROVE  IInv'
  <1> USE GenesisAssumption DEF IInv, Register, Goto
  <1>reg. registerTraitAny(Main, tr)
    OBVIOUS
  <1>index. /\ traits' \in [Id -> Seq(Trait)] /\ typeIdx' \in [Id -> [Type -> Nat]]
            /\ IndexInv'
    BY <1>reg, RegisterKeeps
  <1>stage. /\ stage[Main] \notin {"none", "born", "unlock", "freeze"}
            /\ stage' = [stage EXCEPT ![Main] = "inits"] /\ UNCHANGED <<frozen, mu>>
            /\ ~frozen[Main] /\ "inits" \in Stage \ {"none", "born"}
    BY DEF Stage, registerTraitAny, Accepts
  <1>spark. SparkInv'
    BY <1>reg, <1>stage, RegisterBehind
  <1> HIDE DEF registerTraitAny
  <1>type. TypeOK'
    <2>1. stage' \in [Id -> Stage]
      BY <1>stage DEF TypeOK
    <2>2. wg' \in [Id -> 0..MaxAsync] /\ asking' \in [Id -> 0..MaxAsync]
      BY DEF TypeOK, asyncVars
    <2>3. up' \in BOOLEAN /\ UNCHANGED <<snap, parent>>
      BY DEF TypeOK, sparkVars
    <2> QED
      BY <1>index, <1>stage, <2>1, <2>2, <2>3 DEF TypeOK
  <1>phase. PhaseInv'
    BY <1>stage DEF PhaseInv, TypeOK
  <1>async. AsyncInv'
    BY <1>stage DEF AsyncInv, TypeOK, asyncVars
  <1> QED
    BY <1>index, <1>spark, <1>type, <1>phase, <1>async

\* RegisterAsync keeps IInv.
LEMMA RegisterAsyncStep ==
  ASSUME IInv, NEW asks \in {0, 1}, NEW tr \in Trait, RegisterAsync(tr, asks)
  PROVE  IInv'
  <1> USE GenesisAssumption DEF IInv, RegisterAsync, Goto
  <1>reg. registerTraitAny(Main, tr)
    OBVIOUS
  <1>index. /\ traits' \in [Id -> Seq(Trait)] /\ typeIdx' \in [Id -> [Type -> Nat]]
            /\ IndexInv'
    BY <1>reg, RegisterKeeps
  <1>stage. /\ stage[Main] \notin {"none", "born", "unlock", "freeze"}
            /\ stage' = [stage EXCEPT ![Main] = "inits"] /\ UNCHANGED <<frozen, mu>>
            /\ ~frozen[Main] /\ "inits" \in Stage \ {"none", "born"}
    BY DEF Stage, registerTraitAny, Accepts
  <1>spark. SparkInv'
    BY <1>reg, <1>stage, RegisterBehind
  <1> HIDE DEF registerTraitAny
  <1>type. TypeOK'
    <2>1. stage' \in [Id -> Stage]
      BY <1>stage DEF TypeOK
    <2>2. wg' \in [Id -> 0..MaxAsync] /\ asking' \in [Id -> 0..MaxAsync]
      BY DEF TypeOK, asyncVars, AsyncInv
    <2>3. up' \in BOOLEAN /\ UNCHANGED <<snap, parent>>
      BY DEF TypeOK, sparkVars
    <2> QED
      BY <1>index, <1>stage, <2>1, <2>2, <2>3 DEF TypeOK
  <1>phase. PhaseInv'
    BY <1>stage DEF PhaseInv, TypeOK
  <1>async. AsyncInv'
    BY <1>stage DEF AsyncInv, TypeOK, asyncVars
  <1> QED
    BY <1>index, <1>spark, <1>type, <1>phase, <1>async

\* PrimaryInit keeps IInv.
LEMMA PrimaryInitStep ==
  ASSUME IInv, NEW c \in Id, NEW tr \in Trait, PrimaryInit(c, tr)
  PROVE  IInv'
  <1> USE GenesisAssumption DEF IInv, PrimaryInit, Goto
  <1>reg. registerTraitAny(c, tr)
    OBVIOUS
  <1>index. /\ traits' \in [Id -> Seq(Trait)] /\ typeIdx' \in [Id -> [Type -> Nat]]
            /\ IndexInv'
    BY <1>reg, RegisterKeeps
  <1>stage. /\ stage[c] \notin {"none", "born", "unlock", "freeze"}
            /\ stage' = [stage EXCEPT ![c] = "inits"] /\ UNCHANGED <<frozen, mu>>
            /\ ~frozen[c] /\ "inits" \in Stage \ {"none", "born"}
    BY DEF Stage, registerTraitAny, Accepts
  <1>spark. SparkInv'
    BY <1>reg, <1>stage, RegisterBehind
  <1> HIDE DEF registerTraitAny
  <1>type. TypeOK'
    <2>1. stage' \in [Id -> Stage]
      BY <1>stage DEF TypeOK
    <2>2. wg' \in [Id -> 0..MaxAsync] /\ asking' \in [Id -> 0..MaxAsync]
      BY DEF TypeOK, asyncVars
    <2>3. up' \in BOOLEAN /\ UNCHANGED <<snap, parent>>
      BY DEF TypeOK, sparkVars
    <2> QED
      BY <1>index, <1>stage, <2>1, <2>2, <2>3 DEF TypeOK
  <1>phase. PhaseInv'
    BY <1>stage DEF PhaseInv, TypeOK
  <1>async. AsyncInv'
    BY <1>stage DEF AsyncInv, TypeOK, asyncVars
  <1> QED
    BY <1>index, <1>spark, <1>type, <1>phase, <1>async

\* AdditionalInit keeps IInv.
LEMMA AdditionalInitStep ==
  ASSUME IInv, NEW c \in Id, NEW tr \in Trait, AdditionalInit(c, tr)
  PROVE  IInv'
  <1> USE GenesisAssumption DEF IInv, AdditionalInit, Goto
  <1>reg. registerTraitAny(c, tr)
    OBVIOUS
  <1>index. /\ traits' \in [Id -> Seq(Trait)] /\ typeIdx' \in [Id -> [Type -> Nat]]
            /\ IndexInv'
    BY <1>reg, RegisterKeeps
  <1>stage. /\ stage[c] \notin {"none", "born", "unlock", "freeze"}
            /\ stage' = [stage EXCEPT ![c] = "inits"] /\ UNCHANGED <<frozen, mu>>
            /\ ~frozen[c] /\ "inits" \in Stage \ {"none", "born"}
    BY DEF Stage, registerTraitAny, Accepts
  <1>spark. SparkInv'
    BY <1>reg, <1>stage, RegisterBehind
  <1> HIDE DEF registerTraitAny
  <1>type. TypeOK'
    <2>1. stage' \in [Id -> Stage]
      BY <1>stage DEF TypeOK
    <2>2. wg' \in [Id -> 0..MaxAsync] /\ asking' \in [Id -> 0..MaxAsync]
      BY DEF TypeOK, asyncVars
    <2>3. up' \in BOOLEAN /\ UNCHANGED <<snap, parent>>
      BY DEF TypeOK, sparkVars
    <2> QED
      BY <1>index, <1>stage, <2>1, <2>2, <2>3 DEF TypeOK
  <1>phase. PhaseInv'
    BY <1>stage DEF PhaseInv, TypeOK
  <1>async. AsyncInv'
    BY <1>stage DEF AsyncInv, TypeOK, asyncVars
  <1> QED
    BY <1>index, <1>spark, <1>type, <1>phase, <1>async

\* CloseFreeze keeps IInv.
LEMMA CloseFreezeStep ==
  ASSUME IInv, NEW d \in Id, CloseFreeze(d)
  PROVE  IInv'
  <1> USE GenesisAssumption DEF IInv, CloseFreeze, Goto, asyncVars, sparkVars
  <1>stage. /\ stage[d] = "freeze" /\ stage' = [stage EXCEPT ![d] = "work"]
            /\ frozen' = [frozen EXCEPT ![d] = TRUE]
            /\ UNCHANGED <<traits, typeIdx, snap, parent, wg, asking>>
    OBVIOUS
  <1>type. TypeOK'
    BY DEF TypeOK, Stage
  <1>phase. PhaseInv'
    BY DEF PhaseInv, TypeOK
  <1>async. AsyncInv'
    BY DEF AsyncInv, TypeOK
  <1>index. IndexInv'
    BY <1>stage DEF IndexInv
  <1>spark. SparkInv'
    <2>1. \A c \in Id : frozen[c] => frozen'[c]
      BY <1>stage DEF TypeOK
    <2>2. \A c \in Id : /\ stage'[c] \in {"none", "born"} <=> stage[c] \in {"none", "born"}
                        /\ stage'[c] = "none" <=> stage[c] = "none"
      BY <1>stage DEF TypeOK
    <2>3. \A c \in Id : parent[c] \in Id
      BY DEF TypeOK
    <2> HIDE DEF CloseFreeze
    <2> QED
      BY <1>stage, <2>1, <2>2, <2>3 DEF SparkInv, Self!Extends
  <1> QED
    BY <1>type, <1>phase, <1>async, <1>index, <1>spark

\* SparkAs keeps IInv.
LEMMA SparkAsStep ==
  ASSUME IInv, NEW d \in Id, NEW c \in Id, SparkAs(d, c)
  PROVE  IInv'
  <1> USE GenesisAssumption
      DEF IInv, SparkAs, CurrentSelfAnswers, Goto, phaseVars, asyncVars
  <1>stage. /\ stage[c] = "none" /\ stage' = [stage EXCEPT ![c] = "born"]
            /\ snap' = [snap EXCEPT ![c] = traits[d]]
            /\ parent' = [parent EXCEPT ![c] = d]
            /\ frozen[d] /\ UNCHANGED <<traits, typeIdx, frozen, wg, asking, mu>>
    OBVIOUS
  <1>type. TypeOK'
    BY DEF TypeOK, Stage
  <1>phase. PhaseInv'
    BY DEF PhaseInv, TypeOK
  <1>async. AsyncInv'
    BY DEF AsyncInv, TypeOK
  <1>index. IndexInv'
    BY <1>stage DEF IndexInv
  <1>spark. SparkInv'
    <2>1. /\ stage'[c] = "born" /\ snap'[c] = traits[d] /\ parent'[c] = d
          /\ \A e \in Id : e # c => /\ stage'[e] = stage[e] /\ snap'[e] = snap[e]
                                    /\ parent'[e] = parent[e]
      BY <1>stage DEF TypeOK
    <2> HIDE DEF SparkAs
    <2>2. stage'[Main] \notin {"none", "born"}
      BY <1>stage, <2>1 DEF SparkInv
    <2>3. ASSUME NEW e \in Id \ {Main}
          PROVE  /\ stage'[e] # "none" =>
                      frozen'[parent'[e]] /\ snap'[e] = traits'[parent'[e]]
                 /\ IF stage'[e] \in {"none", "born"}
                    THEN traits'[e] = <<>>
                    ELSE Self!Extends(traits'[e], snap'[e])
      <3>1. CASE e = c
        BY <1>stage, <2>1, <3>1 DEF SparkInv
      <3>2. CASE e # c
        BY <1>stage, <2>1, <3>2 DEF SparkInv, Self!Extends
      <3> QED
        BY <3>1, <3>2
    <2> QED
      BY <2>2, <2>3 DEF SparkInv, Self!Extends
  <1> QED
    BY <1>type, <1>phase, <1>async, <1>index, <1>spark

\* Inherit keeps IInv: the index it makes of the copied traits is the one their
\* owner has.
LEMMA InheritStep ==
  ASSUME IInv, NEW c \in Id, Inherit(c)
  PROVE  IInv'
  <1> USE GenesisAssumption DEF IInv, Inherit, Goto, asyncVars, sparkVars
  <1> DEFINE s == snap[c]
             q == parent[c]
  <1>stage. /\ stage[c] = "born" /\ stage' = [stage EXCEPT ![c] = "primary"]
            /\ UNCHANGED <<frozen, mu, snap, parent, wg, asking>>
    OBVIOUS
  <1>child. /\ c # Main /\ traits[c] = <<>> /\ q \in Id
            /\ s = traits[q] /\ s \in Seq(Trait) /\ ~frozen[c]
    BY DEF SparkInv, TypeOK, PhaseInv
  <1>traits. /\ traits' = [traits EXCEPT ![c] = s] /\ traits'[c] = s
             /\ \A e \in Id : e # c => traits'[e] = traits[e]
    <2>1. traits[c] \o s = s
      BY <1>child
    <2>2. traits' = [traits EXCEPT ![c] = traits[c] \o s]
      OBVIOUS
    <2> QED
      BY <2>1, <2>2 DEF TypeOK
  <1>typ. \A i \in DOMAIN s : s[i].typ \in Type /\ i \in Nat
    BY <1>child, TraitType
  <1>unique. \A i, j \in DOMAIN s : s[i].typ = s[j].typ => i = j
    BY <1>child DEF IndexInv
  <1>empty. \A t \in Type : typeIdx[c][t] = 0
    BY <1>child DEF IndexInv
  <1> DEFINE At(t) == CHOOSE i \in DOMAIN s : s[i].typ = t
             Has(t) == \E i \in DOMAIN s : s[i].typ = t
  <1>at. \A t \in Type : InheritedAt(c, At(t)) = At(t) \/ ~Has(t)
    <2>1. \A t \in Type : Has(t) => At(t) \in DOMAIN s
      OBVIOUS
    <2>2. Len(traits[c]) = 0
      BY <1>child
    <2> QED
      BY <1>typ, <2>1, <2>2 DEF InheritedAt
  <1>idx. /\ typeIdx' = [typeIdx EXCEPT ![c] =
                           [t \in Type |-> IF Has(t) THEN At(t) ELSE 0]]
          /\ typeIdx'[c] = [t \in Type |-> IF Has(t) THEN At(t) ELSE 0]
          /\ \A e \in Id : e # c => typeIdx'[e] = typeIdx[e]
    <2> DEFINE f == [t \in Type |-> IF Has(t) THEN InheritedAt(c, At(t))
                                    ELSE typeIdx[c][t]]
               g == [t \in Type |-> IF Has(t) THEN At(t) ELSE 0]
    <2>1. f = g
      BY <1>at, <1>empty
    <2>2. typeIdx' = [typeIdx EXCEPT ![c] = f]
      BY Zenon
    <2> HIDE DEF f, g
    <2>3. typeIdx' = [typeIdx EXCEPT ![c] = g]
      BY <2>1, <2>2
    <2>4. /\ typeIdx'[c] = g
          /\ \A e \in Id : e # c => typeIdx'[e] = typeIdx[e]
      BY <2>3 DEF TypeOK
    <2> QED
      BY <2>3, <2>4 DEF g
  <1>pick. \A t \in Type : Has(t) => At(t) \in DOMAIN s /\ s[At(t)].typ = t
    OBVIOUS
  <1> HIDE DEF Inherit, At
  <1>type. TypeOK'
    <2>1. [t \in Type |-> IF Has(t) THEN At(t) ELSE 0] \in [Type -> Nat]
      BY <1>pick, <1>typ
    <2>2. typeIdx' \in [Id -> [Type -> Nat]]
      BY <1>idx, <2>1 DEF TypeOK
    <2>3. traits' \in [Id -> Seq(Trait)] /\ stage' \in [Id -> Stage]
      BY <1>traits, <1>child, <1>stage DEF TypeOK, Stage
    <2>4. up' \in BOOLEAN
      BY DEF Inherit, TypeOK
    <2> QED
      BY <1>stage, <2>2, <2>3, <2>4 DEF TypeOK
  <1>phase. PhaseInv'
    BY <1>stage DEF PhaseInv, TypeOK
  <1>async. AsyncInv'
    BY <1>stage DEF AsyncInv, TypeOK
  <1>index. IndexInv'
    <2>1. \A i \in DOMAIN s : typeIdx'[c][s[i].typ] = i
      <3> SUFFICES ASSUME NEW i \in DOMAIN s PROVE typeIdx'[c][s[i].typ] = i
        OBVIOUS
      <3>1. Has(s[i].typ) /\ s[i].typ \in Type
        BY <1>typ
      <3>2. At(s[i].typ) = i
        BY <1>pick, <1>unique, <3>1
      <3> QED
        BY <1>idx, <3>1, <3>2
    <2>2. \A t \in Type : typeIdx'[c][t] # 0 =>
            typeIdx'[c][t] \in DOMAIN s /\ s[typeIdx'[c][t]].typ = t
      BY <1>idx, <1>pick
    <2>3. \A e \in Id \ {c} : traits'[e] = traits[e] /\ typeIdx'[e] = typeIdx[e]
      BY <1>idx, <1>traits
    <2> QED
      BY <1>traits, <2>1, <2>2, <2>3 DEF IndexInv
  <1>spark. SparkInv'
    <2>1. /\ stage'[c] = "primary"
          /\ \A e \in Id : e # c => stage'[e] = stage[e]
      BY <1>stage DEF TypeOK
    <2>2. Self!Extends(traits'[c], snap[c])
      BY <1>traits, <1>child DEF Self!Extends
    <2>3. \A e \in Id : frozen[e] => traits'[e] = traits[e]
      BY <1>traits, <1>child
    <2>4. ASSUME NEW e \in Id \ {Main}
          PROVE  /\ stage'[e] # "none" =>
                      frozen'[parent'[e]] /\ snap'[e] = traits'[parent'[e]]
                 /\ IF stage'[e] \in {"none", "born"}
                    THEN traits'[e] = <<>>
                    ELSE Self!Extends(traits'[e], snap'[e])
      <3>1. stage[e] # "none" <=> stage'[e] # "none"
        BY <1>stage, <2>1
      <3>2. parent[e] \in Id
        BY DEF TypeOK
      <3>3. stage'[e] # "none" => frozen'[parent'[e]] /\ snap'[e] = traits'[parent'[e]]
        BY <1>stage, <2>3, <3>1, <3>2 DEF SparkInv
      <3>4. CASE e = c
        BY <1>stage, <2>1, <2>2, <3>3, <3>4
      <3>5. CASE e # c
        BY <1>stage, <1>traits, <2>1, <3>3, <3>5 DEF SparkInv, Self!Extends
      <3> QED
        BY <3>4, <3>5
    <2>5. stage'[Main] \notin {"none", "born"}
      BY <1>child, <2>1 DEF SparkInv
    <2> QED
      BY <2>4, <2>5 DEF SparkInv, Self!Extends
  <1> QED
    BY <1>type, <1>phase, <1>async, <1>index, <1>spark

-----------------------------------------------------------------------------
(* The theorems *)

\* The initial state satisfies IInv.
LEMMA InitIInv == Init => IInv
  BY GenesisAssumption
     DEF Init, IInv, TypeOK, Stage, PhaseInv, AsyncInv, IndexInv, SparkInv

\* Every step keeps IInv.
LEMMA NextIInv == IInv /\ [Next]_vars => IInv'
  <1> SUFFICES ASSUME IInv, [Next]_vars PROVE IInv'
    OBVIOUS
  <1>1. ASSUME MainInits PROVE IInv'
    BY <1>1, RegisterStep, RegisterAsyncStep, RegisterPanicsStep, InitsOverStep
       DEF MainInits
  <1>2. ASSUME NEW d \in Id, Async(d) \/ closePhase(d) \/ Crash(d) PROVE IInv'
    BY <1>2, AsyncAddStep, AsyncAskStep, AsyncDoneStep, CloseCheckStep,
       CloseUnlockStep, CloseWaitStep, CloseRelockStep, CloseFreezeStep, CrashStep
       DEF Async, closePhase
  <1>3. ASSUME NEW c \in Id, Child(c) PROVE IInv'
    BY <1>3, InheritStep, PrimaryInitStep, AdditionalInitStep,
       AdditionalInitsOverStep, ChildPanicsStep, ChildExitsStep DEF Child
  <1>4. CASE UNCHANGED vars
    BY <1>4 DEF vars, IInv, TypeOK, PhaseInv, AsyncInv, IndexInv, SparkInv,
                Self!Extends
  <1> QED
    BY <1>1, <1>2, <1>3, <1>4, MainReturnsStep, RegisterOutsideInitStep,
       SparkAsStep DEF Next

\* The inductive invariant holds throughout.
THEOREM Invariance == Spec => []IInv
  BY InitIInv, NextIInv, PTL DEF Spec

\* Every variable keeps its type: no more initializers ask than are out, and an
\* index is never negative.
THEOREM TypeCorrect == Spec => []TypeOK
  BY Invariance, PTL DEF IInv

\* CurrentSelf, TraitOf and SparkAs see no Self that an asynchronous initializer
\* still works on, although closePhase waits without st.mu.
THEOREM InitsDone == Spec => []AsyncInitsDone
  <1>1. IInv => AsyncInitsDone
    BY DEF IInv, AsyncInv, AsyncInitsDone
  <1> QED
    BY <1>1, Invariance, PTL

\* TraitOf with filters and TraitOf without them agree in every identity, be its
\* traits registered or inherited.
THEOREM Lookups == Spec => []LookupsAgree
  <1>1. ASSUME IInv, NEW d \in Id, NEW t \in Type
        PROVE  /\ TraitOf(d, t, <<>>) = Matching(d, t, <<>>)
               /\ \A o \in Origin : TraitOf(d, t, o) \subseteq TraitOf(d, t, <<>>)
    <2>1. Matching(d, t, <<>>) = {i \in DOMAIN traits[d] : traits[d][i].typ = t}
      BY DEF Matching
    <2>2. TraitOf(d, t, <<>>) = {i \in DOMAIN traits[d] : traits[d][i].typ = t}
      <3>1. typeIdx[d][t] \in Nat
        BY <1>1 DEF IInv, TypeOK
      <3>2. \A i \in DOMAIN traits[d] : traits[d][i].typ = t => i = typeIdx[d][t] /\ i # 0
        <4>1. traits[d] \in Seq(Trait)
          BY <1>1 DEF IInv, TypeOK
        <4> QED
          BY <1>1, <4>1 DEF IInv, IndexInv
      <3> QED
        BY <1>1, <3>1, <3>2 DEF TraitOf, IInv, IndexInv
    <2>3. \A o : Matching(d, t, o) \subseteq {i \in DOMAIN traits[d] : traits[d][i].typ = t}
      BY DEF Matching
    <2>4. \A o : TraitOf(d, t, o) = TraitOf(d, t, <<>>) \/ TraitOf(d, t, o) = Matching(d, t, o)
      BY DEF TraitOf
    <2> QED
      BY <2>1, <2>2, <2>3, <2>4
  <1>2. IInv => LookupsAgree
    BY <1>1 DEF LookupsAgree
  <1> QED
    BY <1>2, Invariance, PTL

-----------------------------------------------------------------------------
(* WriteOnceSelf *)

\* A step that freezes nothing, registers only in open phases and sparks
\* nothing changes nothing that can be observed.
LEMMA Unobserved ==
  ASSUME TypeOK, UNCHANGED <<frozen, parent>>,
         \A d \in Id : frozen[d] => traits'[d] = traits[d]
  PROVE  UNCHANGED Self!wvars
  <1>1. UNCHANGED Published
    BY DEF Published
  <1>2. UNCHANGED SelfOf
    BY DEF SelfOf
  <1> QED
    BY <1>1, <1>2 DEF Self!wvars

\* CloseFreeze publishes a complete Self.
LEMMA FreezePublishes ==
  ASSUME IInv, NEW d \in Id, CloseFreeze(d)
  PROVE  Self!Publish(d)
  <1>1. /\ stage[d] = "freeze" /\ ~frozen[d]
        /\ frozen' = [frozen EXCEPT ![d] = TRUE] /\ UNCHANGED <<traits, parent>>
    BY DEF IInv, PhaseInv, CloseFreeze, Goto, sparkVars
  <1>2. d \notin Published /\ Published' = Published \cup {d}
    BY <1>1 DEF Published, IInv, TypeOK
  <1>3. /\ \A e \in Id \ {d} : SelfOf'[e] = SelfOf[e]
        /\ SelfOf'[d] = traits[d]
    BY <1>1 DEF SelfOf, IInv, TypeOK
  <1>4. Self!Unique(traits[d])
    BY DEF Self!Unique, IInv, IndexInv
  <1>5. ASSUME d # Main
        PROVE  parent[d] \in Published /\ Self!Extends(traits[d], SelfOf[parent[d]])
    <2>1. /\ parent[d] \in Id /\ frozen[parent[d]] /\ snap[d] = traits[parent[d]]
          /\ Self!Extends(traits[d], snap[d])
      BY <1>1, <1>5 DEF IInv, TypeOK, SparkInv
    <2> QED
      BY <2>1 DEF Published, SelfOf
  <1>6. Self!Complete(d)
    BY <1>3, <1>4, <1>5 DEF Self!Complete
  <1> QED
    BY <1>1, <1>2, <1>3, <1>6 DEF Self!Publish

\* User code sees either no Self or a complete one: Genesis implements
\* WriteOnceSelf.
THEOREM Refinement == Spec => SelfIsWrittenOnce
  <1>init. Init => Self!Init
    BY DEF Init, Self!Init, Published, SelfOf
  <1>next. ASSUME IInv, [Next]_vars PROVE [Self!Next]_(Self!wvars)
    <2> USE GenesisAssumption DEF phaseVars, sparkVars, asyncVars, Goto
    <2>typ. TypeOK
      BY <1>next DEF IInv
    <2>1. ASSUME NEW d \in Id, CloseFreeze(d) PROVE Self!Next
      BY <1>next, <2>1, FreezePublishes DEF Self!Next
    <2>2. ASSUME NEW d \in Id, NEW c \in Id, SparkAs(d, c) PROVE Self!Next
      <3>1. /\ frozen[d] /\ stage[c] = "none" /\ UNCHANGED <<traits, frozen>>
            /\ parent' = [parent EXCEPT ![c] = d]
        BY <2>2 DEF SparkAs, CurrentSelfAnswers
      <3>2. d \in Published /\ c \notin Published
        BY <1>next, <3>1 DEF Published, IInv, PhaseInv
      <3>3. UNCHANGED <<Published, SelfOf>>
        BY <3>1 DEF Published, SelfOf
      <3>4. Self!Adopt(d, c)
        BY <3>1, <3>2, <3>3 DEF Self!Adopt
      <3> QED
        BY <3>4 DEF Self!Next
    <2>3. ASSUME NEW c \in Id, Inherit(c) PROVE UNCHANGED Self!wvars
      <3>1. /\ UNCHANGED <<frozen, parent>> /\ stage[c] = "born"
            /\ traits' = [traits EXCEPT ![c] = traits[c] \o snap[c]]
        BY <2>3 DEF Inherit
      <3>2. ~frozen[c]
        BY <1>next, <3>1 DEF IInv, PhaseInv
      <3>3. \A d \in Id : frozen[d] => traits'[d] = traits[d]
        BY <2>typ, <3>1, <3>2 DEF TypeOK
      <3> QED
        BY <2>typ, <3>1, <3>3, Unobserved
    <2>4. ASSUME NEW d \in Id, NEW tr \in Trait, registerTraitAny(d, tr),
                 UNCHANGED parent
          PROVE  UNCHANGED Self!wvars
      <3>1. /\ UNCHANGED <<frozen, parent>> /\ ~frozen[d]
            /\ traits' = [traits EXCEPT ![d] = Append(traits[d], tr)]
        BY <2>4 DEF registerTraitAny, Accepts
      <3>2. \A e \in Id : frozen[e] => traits'[e] = traits[e]
        BY <2>typ, <3>1 DEF TypeOK
      <3> QED
        BY <2>typ, <3>1, <3>2, Unobserved
    <2>5. ASSUME UNCHANGED <<frozen, traits, parent>> PROVE UNCHANGED Self!wvars
      BY <2>typ, <2>5, Unobserved
    <2>6. ASSUME MainInits PROVE UNCHANGED Self!wvars
      BY <2>4, <2>5, <2>6
         DEF MainInits, Register, RegisterAsync, RegisterPanics, InitsOver
    <2>7. ASSUME NEW c \in Id, Child(c) PROVE UNCHANGED Self!wvars
      BY <2>3, <2>4, <2>5, <2>7
         DEF Child, PrimaryInit, AdditionalInit, AdditionalInitsOver, ChildPanics,
             ChildExits
    <2>8. ASSUME NEW d \in Id, Async(d) \/ Crash(d) \/ RegisterOutsideInit(d)
          PROVE  UNCHANGED Self!wvars
      BY <2>5, <2>8 DEF Async, AsyncAdd, AsyncAsk, AsyncDone, Crash,
                        RegisterOutsideInit
    <2>9. ASSUME NEW d \in Id, closePhase(d) PROVE [Self!Next]_(Self!wvars)
      BY <2>1, <2>5, <2>9
         DEF closePhase, CloseCheck, CloseUnlock, CloseWait, CloseRelock
    <2>10. CASE MainReturns
      BY <2>5, <2>10 DEF MainReturns
    <2>11. CASE UNCHANGED vars
      BY <2>5, <2>11 DEF vars
    <2> HIDE DEF phaseVars, sparkVars, asyncVars, Goto
    <2> QED
      BY <1>next, <2>2, <2>6, <2>7, <2>8, <2>9, <2>10, <2>11 DEF Next
  <1> QED
    BY <1>init, <1>next, Invariance, PTL DEF Spec, SelfIsWrittenOnce, Self!Spec
=============================================================================
