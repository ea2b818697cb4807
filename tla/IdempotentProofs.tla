-------------------------- MODULE IdempotentProofs --------------------------
(***************************************************************************)
(* Proofs about module Idempotent, for any number of goroutines,           *)
(* identities, addresses, Idempotent values and Once values.               *)
(***************************************************************************)
EXTENDS Idempotent, TLAPS

InCall == {"lock", "locked", "register", "once", "f"}

\* The identity has a block: its address is taken.
HasBlock(d) == life[d] \notin {"unborn", "gone"}

\* A goroutine runs under a live identity, an address has one identity at a
\* time, and the finalizer goroutine runs one hook call, under the registry's
\* lock.
LifeInv ==
  /\ \A p \in P : Running(p) => life[IdentOf[p]] = "live"
  /\ \A d, e \in Id : HasBlock(d) /\ HasBlock(e) /\ AddrOf[d] = AddrOf[e] => d = e
  /\ \A d \in Id : life[d] = "finalizing" => regmu = Fin
  /\ \A d, e \in Id : life[d] = "finalizing" /\ life[e] = "finalizing" => d = e

\* Who holds a lock is where it says, and what is in use is reachable.
LockInv ==
  /\ \A i \in Idem, p \in P :
       imu[i] = p <=> pc[p] \in {"locked", "register"} /\ arg[p] = i
  /\ \A i \in Idem : imu[i] = Fin => i \in walk /\ reachable[i]
  /\ regmu = None => walk = {}
  /\ walk \subseteq list
  /\ \A p \in P : pc[p] \in InCall => reachable[arg[p]]

\* An Idempotent is registered from its first use on; it is on the list unless
\* its first user is about to put it there.
RegInv ==
  /\ \A i \in Idem : ~registered[i] => i \notin list
  /\ \A i \in Idem : registered[i] /\ reachable[i] =>
       i \in list \/ \E p \in P : pc[p] = "register" /\ arg[p] = i
  /\ \A p \in P : pc[p] = "register" => registered[arg[p]] /\ arg[p] \notin list
  /\ \A p \in P : pc[p] = "locked" => arg[p] \in list

\* Only a registered Idempotent has slots, and the hook has emptied the slot of
\* the dead identity wherever its walk has been.
EvictInv ==
  /\ \A i \in Idem, a \in Addr : reachable[i] /\ entries[i][a] # 0 => i \in list
  /\ \A i \in Idem, d \in Id :
       life[d] = "finalizing" /\ reachable[i] /\ i \notin walk =>
         entries[i][AddrOf[d]] = 0

\* A Once is in one slot, and a goroutine that uses it outside i.mu still has it
\* in the slot of its own address.
OnceInv ==
  /\ \A i \in Idem, a \in Addr : entries[i][a] <= nonce
  /\ \A i, j \in Idem, a, b \in Addr :
       entries[i][a] = entries[j][b] /\ entries[i][a] # 0 => i = j /\ a = b
  /\ \A p \in P : pc[p] \in {"once", "f"} =>
       entry[p] # 0 /\ entries[arg[p]][AddrOf[IdentOf[p]]] = entry[p]
  /\ \A o \in 1..MaxOnce : o > nonce => once[o] = "fresh"

\* What the Once of an address has done, it has done for the identity there.
HistoryInv ==
  /\ \A i \in Idem, d \in Id : life[d] = "unborn" => slot[i][d] = "new"
  /\ \A i \in Idem, d \in Id :
       reachable[i] /\ life[d] = "live" /\ entries[i][AddrOf[d]] = 0 =>
         slot[i][d] = "new"
  /\ \A i \in Idem, d \in Id :
       reachable[i] /\ life[d] = "live" /\ entries[i][AddrOf[d]] # 0 =>
         slot[i][d] = IF once[entries[i][AddrOf[d]]] = "fresh" THEN "new"
                      ELSE once[entries[i][AddrOf[d]]]

IInv ==
  /\ TypeOK
  /\ LifeInv
  /\ LockInv
  /\ RegInv
  /\ EvictInv
  /\ SlotHasOwner
  /\ OnceInv
  /\ HistoryInv

\* Spark keeps IInv.
LEMMA SparkStep ==
  ASSUME IInv, NEW q \in P, Spark(q)
  PROVE  IInv'
  <1> USE IdempotentAssumption
      DEF IInv, Goto, doVars, onceVars, regVars, Spark, AddressFree, Running
  <1>pc. /\ pc[q] = "unborn" /\ pc'[q] = "idle"
         /\ \A p \in P : p # q => pc'[p] = pc[p]
    BY DEF TypeOK
  <1>same. (RegInv /\ EvictInv)'
    BY DEF RegInv, EvictInv, TypeOK
  <1>type. TypeOK'
    BY DEF TypeOK, PC, Stage
  <1>life. LifeInv'
    <2>1. /\ life[IdentOf[q]] = "unborn" /\ life'[IdentOf[q]] = "live"
          /\ \A d \in Id : d # IdentOf[q] => life'[d] = life[d]
      BY DEF TypeOK
    <2>2. \A d \in Id : AddrOf[d] = AddrOf[IdentOf[q]] => ~HasBlock(d)
      BY DEF HasBlock
    <2>3. UNCHANGED regmu
      OBVIOUS
    <2> HIDE DEF Spark
    <2> QED
      BY <1>pc, <2>1, <2>2, <2>3 DEF LifeInv, HasBlock
  <1>lock. LockInv'
    <2>1. UNCHANGED <<imu, arg, walk, list, regmu, reachable>>
      OBVIOUS
    <2> HIDE DEF Spark
    <2> QED
      BY <1>pc, <2>1 DEF LockInv, InCall
  <1>owner. SlotHasOwner'
    BY DEF TypeOK, SlotHasOwner
  <1>once. OnceInv'
    <2>1. UNCHANGED <<entries, nonce, entry, arg, once>>
      OBVIOUS
    <2> HIDE DEF Spark
    <2> QED
      BY <1>pc, <2>1 DEF OnceInv
  <1>hist. HistoryInv'
    <2>1. \A d \in Id : d # IdentOf[q] => life'[d] = life[d]
      BY DEF TypeOK
    <2>2. \A i \in Idem : reachable[i] => entries[i][AddrOf[IdentOf[q]]] = 0
      <3>1. \A d \in Id : AddrOf[d] = AddrOf[IdentOf[q]] => life[d] \in {"unborn", "gone"}
        OBVIOUS
      <3> HIDE DEF Spark
      <3> QED
        BY <3>1 DEF SlotHasOwner
    <2>3. \A i \in Idem : slot[i][IdentOf[q]] = "new"
      BY DEF HistoryInv
    <2> QED
      BY <2>1, <2>2, <2>3 DEF HistoryInv
  <1> QED
    BY <1>same, <1>type, <1>life, <1>lock, <1>owner, <1>once, <1>hist

\* Go keeps IInv.
LEMMA GoStep ==
  ASSUME IInv, NEW q \in P, Go(q)
  PROVE  IInv'
  <1> USE IdempotentAssumption
      DEF IInv, Goto, doVars, onceVars, regVars, Go, Running
  <1>pc. /\ pc[q] = "unborn" /\ pc'[q] = "idle"
         /\ \A p \in P : p # q => pc'[p] = pc[p]
    BY DEF TypeOK
  <1>same. (RegInv /\ EvictInv /\ SlotHasOwner /\ HistoryInv)'
    BY DEF RegInv, EvictInv, SlotHasOwner, HistoryInv, TypeOK
  <1>type. TypeOK'
    BY DEF TypeOK, PC, Stage
  <1>life. LifeInv'
    <2>1. life[IdentOf[q]] = "live" /\ UNCHANGED <<life, regmu>>
      BY DEF LifeInv
    <2> HIDE DEF Go
    <2> QED
      BY <1>pc, <2>1 DEF LifeInv, HasBlock
  <1>lock. LockInv'
    <2>1. UNCHANGED <<imu, arg, walk, list, regmu, reachable>>
      OBVIOUS
    <2> HIDE DEF Go
    <2> QED
      BY <1>pc, <2>1 DEF LockInv, InCall
  <1>once. OnceInv'
    <2>1. UNCHANGED <<entries, nonce, entry, arg, once>>
      OBVIOUS
    <2> HIDE DEF Go
    <2> QED
      BY <1>pc, <2>1 DEF OnceInv
  <1> QED
    BY <1>same, <1>type, <1>life, <1>lock, <1>once

\* Exit keeps IInv.
LEMMA ExitStep ==
  ASSUME IInv, NEW q \in P, Exit(q)
  PROVE  IInv'
  <1> USE IdempotentAssumption
      DEF IInv, Goto, doVars, onceVars, regVars, Exit, Running
  <1>same. (RegInv /\ EvictInv /\ SlotHasOwner /\ HistoryInv)'
    BY DEF RegInv, EvictInv, SlotHasOwner, HistoryInv, TypeOK
  <1>type. TypeOK'
    BY DEF TypeOK, PC, Stage
  <1>life. LifeInv'
    BY DEF TypeOK, LifeInv, Running, HasBlock
  <1>lock. LockInv'
    BY DEF TypeOK, LockInv, InCall
  <1>once. OnceInv'
    BY DEF TypeOK, OnceInv
  <1> QED
    BY <1>same, <1>type, <1>life, <1>lock, <1>once

\* Collect keeps IInv.
LEMMA CollectStep ==
  ASSUME IInv, NEW c \in Id, Collect(c)
  PROVE  IInv'
  <1> USE IdempotentAssumption
      DEF IInv, Goto, doVars, onceVars, regVars, Collect, Running
  <1>same. (LockInv /\ RegInv /\ OnceInv)'
    BY DEF LockInv, RegInv, OnceInv, TypeOK
  <1>type. TypeOK'
    BY DEF TypeOK, PC, Stage
  <1>life. LifeInv'
    BY DEF TypeOK, LifeInv, Running, HasBlock
  <1>evict. EvictInv'
    BY DEF TypeOK, EvictInv
  <1>owner. SlotHasOwner'
    BY DEF TypeOK, SlotHasOwner
  <1>hist. HistoryInv'
    BY DEF TypeOK, HistoryInv
  <1> QED
    BY <1>same, <1>type, <1>life, <1>evict, <1>owner, <1>hist

\* DropIdempotent keeps IInv.
LEMMA DropIdempotentStep ==
  ASSUME IInv, NEW k \in Idem, DropIdempotent(k)
  PROVE  IInv'
  <1> USE IdempotentAssumption
      DEF IInv, Goto, doVars, onceVars, regVars, DropIdempotent, Running
  <1>same. (LifeInv /\ RegInv /\ OnceInv)'
    BY DEF LifeInv, RegInv, OnceInv, TypeOK, HasBlock
  <1>type. TypeOK'
    BY DEF TypeOK, PC, Stage
  <1>lock. LockInv'
    <2>1. \A p \in P : pc[p] \in InCall => arg[p] # k
      BY DEF InCall
    <2>2. \A i \in Idem : i # k => reachable'[i] = reachable[i]
      BY DEF TypeOK
    <2>3. imu[k] # Fin
      OBVIOUS
    <2> QED
      BY <2>1, <2>2, <2>3 DEF LockInv, TypeOK
  <1>evict. EvictInv'
    BY DEF TypeOK, EvictInv
  <1>owner. SlotHasOwner'
    BY DEF TypeOK, SlotHasOwner
  <1>hist. HistoryInv'
    BY DEF TypeOK, HistoryInv
  <1> QED
    BY <1>same, <1>type, <1>lock, <1>evict, <1>owner, <1>hist

\* DoCall keeps IInv.
LEMMA DoCallStep ==
  ASSUME IInv, NEW q \in P, NEW k \in Idem, DoCall(q, k)
  PROVE  IInv'
  <1> USE IdempotentAssumption
      DEF IInv, Goto, doVars, onceVars, regVars, DoCall, Running
  <1>same. (RegInv /\ EvictInv /\ SlotHasOwner /\ HistoryInv)'
    BY DEF RegInv, EvictInv, SlotHasOwner, HistoryInv, TypeOK
  <1>type. TypeOK'
    BY DEF TypeOK, PC, Stage
  <1>life. LifeInv'
    BY DEF TypeOK, LifeInv, Running, HasBlock
  <1>lock. LockInv'
    BY DEF TypeOK, LockInv, InCall
  <1>once. OnceInv'
    BY DEF TypeOK, OnceInv
  <1> QED
    BY <1>same, <1>type, <1>life, <1>lock, <1>once

\* DoLock keeps IInv.
LEMMA DoLockStep ==
  ASSUME IInv, NEW q \in P, DoLock(q)
  PROVE  IInv'
  <1> USE IdempotentAssumption
      DEF IInv, Goto, doVars, onceVars, regVars, DoLock, NeedsRegister
  <1>same. (EvictInv /\ SlotHasOwner /\ HistoryInv)'
    BY DEF EvictInv, SlotHasOwner, HistoryInv, TypeOK
  <1>type. TypeOK'
    BY DEF TypeOK, PC, Stage
  <1>life. LifeInv'
    BY DEF TypeOK, LifeInv, Running, HasBlock
  <1>lock. LockInv'
    BY DEF TypeOK, LockInv, InCall
  <1>reg. RegInv'
    BY DEF TypeOK, RegInv, LockInv, InCall
  <1>once. OnceInv'
    BY DEF TypeOK, OnceInv
  <1> QED
    BY <1>same, <1>type, <1>life, <1>lock, <1>reg, <1>once

\* selfRegister keeps IInv.
LEMMA selfRegisterStep ==
  ASSUME IInv, NEW q \in P, selfRegister(q)
  PROVE  IInv'
  <1> USE IdempotentAssumption
      DEF IInv, Goto, doVars, onceVars, regVars, selfRegister
  <1>same. (EvictInv /\ SlotHasOwner /\ HistoryInv)'
    BY DEF EvictInv, SlotHasOwner, HistoryInv, TypeOK
  <1>type. TypeOK'
    BY DEF TypeOK, PC, Stage
  <1>life. LifeInv'
    BY DEF TypeOK, LifeInv, Running, HasBlock
  <1>lock. LockInv'
    BY DEF TypeOK, LockInv, InCall
  <1>reg. RegInv'
    BY DEF TypeOK, RegInv, LockInv, InCall
  <1>once. OnceInv'
    BY DEF TypeOK, OnceInv
  <1> QED
    BY <1>same, <1>type, <1>life, <1>lock, <1>reg, <1>once

\* DoSlot keeps IInv.
LEMMA DoSlotStep ==
  ASSUME IInv, NEW q \in P, DoSlot(q)
  PROVE  IInv'
  <1> USE IdempotentAssumption
      DEF IInv, Goto, doVars, onceVars, regVars, DoSlot, SlotStored
  <1> DEFINE k == arg[q]
             a == AddrOf[IdentOf[q]]
             o == IF entries[k][a] # 0 THEN entries[k][a] ELSE nonce + 1
  <1>here. k \in Idem /\ a \in Addr /\ IdentOf[q] \in Id /\ pc[q] = "locked"
    BY DEF TypeOK
  <1>o. o \in 1..MaxOnce /\ nonce \in Nat
    BY <1>here DEF TypeOK
  <1>live. life[IdentOf[q]] = "live" /\ reachable[k] /\ k \in list
    BY <1>here DEF LifeInv, LockInv, RegInv, Running, InCall
  <1>entries. /\ entries'[k][a] = o
              /\ \A i \in Idem, b \in Addr :
                   i # k \/ b # a => entries'[i][b] = entries[i][b]
    BY <1>here DEF TypeOK
  <1> HIDE DEF o
  <1>same. (LifeInv)'
    BY DEF LifeInv, TypeOK, Running, HasBlock
  <1>type. TypeOK'
    <2>1. entries' \in [Idem -> [Addr -> 0..MaxOnce]]
      BY <1>here, <1>o DEF TypeOK, o
    <2>2. entry' \in [P -> 0..MaxOnce] /\ nonce' \in 0..MaxOnce
      BY <1>o DEF TypeOK, o
    <2> QED
      BY <2>1, <2>2 DEF TypeOK, PC
  <1>lock. LockInv'
    <2>1. /\ pc[q] = "locked" /\ pc'[q] = "once" /\ imu[k] = q /\ imu'[k] = None
          /\ \A p \in P : p # q => pc'[p] = pc[p]
          /\ \A i \in Idem : i # k => imu'[i] = imu[i]
      BY <1>here DEF TypeOK, LockInv
    <2>2. UNCHANGED <<arg, walk, list, regmu, reachable>>
      OBVIOUS
    <2> HIDE DEF DoSlot
    <2> QED
      BY <1>here, <2>1, <2>2 DEF LockInv, InCall
  <1>reg. RegInv'
    BY DEF TypeOK, RegInv, LockInv
  <1>evict. EvictInv'
    <2>1. \A d \in Id : life[d] = "finalizing" => AddrOf[d] # a
      BY <1>live, <1>here DEF LifeInv, HasBlock
    <2>2. \A d \in Id : AddrOf[d] \in Addr
      OBVIOUS
    <2> QED
      BY <1>live, <1>entries, <2>1, <2>2 DEF EvictInv
  <1>owner. SlotHasOwner'
    BY <1>live, <1>here, <1>entries DEF SlotHasOwner
  <1>once. OnceInv'
    <2>1. nonce' = IF o > nonce THEN o ELSE nonce
      BY DEF o
    <2>2. entry' = [entry EXCEPT ![q] = o] /\ pc' = [pc EXCEPT ![q] = "once"]
      BY DEF o
    <2>3. \A i \in Idem, b \in Addr : entries[i][b] \in Nat
      BY DEF TypeOK
    <2>4. \/ entries[k][a] = o
          \/ entries[k][a] = 0 /\ o = nonce + 1
      BY DEF o
    <2>5. \A i \in Idem, b \in Addr : entries'[i][b] <= nonce'
      BY <1>entries, <1>o, <2>1, <2>3, <2>4 DEF OnceInv
    <2>6. \A i \in Idem, b \in Addr : entries'[i][b] = o => i = k /\ b = a
      BY <1>entries, <1>o, <1>here, <2>3, <2>4 DEF OnceInv
    <2>7. \A i, j \in Idem, b, d \in Addr :
            entries'[i][b] = entries'[j][d] /\ entries'[i][b] # 0 => i = j /\ b = d
      BY <1>entries, <2>6 DEF OnceInv
    <2>8. \A p \in P : pc'[p] \in {"once", "f"} =>
            entry'[p] # 0 /\ entries'[arg'[p]][AddrOf[IdentOf[p]]] = entry'[p]
      <3> SUFFICES ASSUME NEW p \in P, pc'[p] \in {"once", "f"}
                   PROVE  entry'[p] # 0 /\ entries'[arg[p]][AddrOf[IdentOf[p]]] = entry'[p]
        OBVIOUS
      <3>1. CASE p = q
        BY <3>1, <2>2, <1>entries, <1>o DEF TypeOK
      <3>2. CASE p # q
        <4>1. /\ entry[p] # 0 /\ entries[arg[p]][AddrOf[IdentOf[p]]] = entry[p]
              /\ entry'[p] = entry[p]
          BY <3>2, <2>2 DEF OnceInv, TypeOK
        <4>2. arg[p] \in Idem /\ AddrOf[IdentOf[p]] \in Addr
          BY DEF TypeOK
        <4> QED
          BY <4>1, <4>2, <1>entries, <2>4
      <3> QED
        BY <3>1, <3>2
    <2>9. \A n \in 1..MaxOnce : n > nonce' => once'[n] = "fresh"
      BY <2>1, <1>o DEF OnceInv
    <2> QED
      BY <2>5, <2>7, <2>8, <2>9 DEF OnceInv
  <1>hist. HistoryInv'
    <2>1. \A d \in Id : AddrOf[d] \in Addr
      OBVIOUS
    <2>2. entries[k][a] = 0 => once[o] = "fresh"
      BY <1>o DEF o, OnceInv
    <2>3. entries[k][a] # 0 => entries'[k][a] = entries[k][a]
      BY <1>entries DEF o
    <2>4. entries'[k][a] # 0
      BY <1>entries, <1>o
    <2>5. \A d \in Id : life[d] = "live" /\ AddrOf[d] = a => d = IdentOf[q]
      BY <1>live, <1>here DEF LifeInv, HasBlock
    <2>6. slot[k][IdentOf[q]] = IF once[o] = "fresh" THEN "new" ELSE once[o]
      BY <1>here, <1>live, <1>entries, <2>2, <2>3 DEF HistoryInv
    <2> QED
      <3>1. ASSUME NEW i \in Idem, NEW d \in Id, reachable[i], life[d] = "live",
                   i # k \/ d # IdentOf[q]
            PROVE  entries'[i][AddrOf[d]] = entries[i][AddrOf[d]]
        BY <3>1, <1>entries, <2>1, <2>5
      <3> HIDE DEF DoSlot
      <3>2. UNCHANGED <<life, slot, once, reachable>>
        BY DEF DoSlot
      <3>3. k \in Idem /\ IdentOf[q] \in Id /\ entries'[k][a] = o
        BY <1>entries, <1>here
      <3> QED
        BY <3>1, <3>2, <3>3, <2>4, <2>6 DEF HistoryInv
  <1> QED
    BY <1>same, <1>type, <1>lock, <1>reg, <1>evict, <1>owner, <1>once, <1>hist

\* OnceRun keeps IInv.
LEMMA OnceRunStep ==
  ASSUME IInv, NEW q \in P, OnceRun(q)
  PROVE  IInv'
  <1> USE IdempotentAssumption
      DEF IInv, Goto, doVars, onceVars, regVars, OnceRun
  <1>typ. /\ arg[q] \in Idem /\ IdentOf[q] \in Id /\ AddrOf[IdentOf[q]] \in Addr
          /\ entry[q] \in 0..MaxOnce
    BY DEF TypeOK
  <1>here. /\ life[IdentOf[q]] = "live"
           /\ entry[q] \in 1..MaxOnce
           /\ entries[arg[q]][AddrOf[IdentOf[q]]] = entry[q]
    BY <1>typ DEF LifeInv, Running, OnceInv
  <1>same. (RegInv /\ EvictInv /\ SlotHasOwner)'
    BY DEF RegInv, EvictInv, SlotHasOwner, TypeOK
  <1>type. TypeOK'
    BY DEF TypeOK, PC, Stage
  <1>life. LifeInv'
    BY DEF TypeOK, LifeInv, Running, HasBlock
  <1>lock. LockInv'
    BY DEF TypeOK, LockInv, InCall
  <1>once. OnceInv'
    <2>1. \A n \in 1..MaxOnce : n # entry[q] => once'[n] = once[n]
      BY DEF TypeOK
    <2>2. entry[q] <= nonce /\ nonce \in Nat /\ entry[q] \in Nat
      BY <1>typ, <1>here DEF OnceInv, TypeOK
    <2> QED
      BY <2>1, <2>2 DEF OnceInv, TypeOK
  <1>hist. HistoryInv'
    <2>1. \A i \in Idem, d \in Id :
            i # arg[q] \/ d # IdentOf[q] => slot'[i][d] = slot[i][d]
      BY DEF TypeOK
    <2>2. slot'[arg[q]][IdentOf[q]] = "running" /\ once'[entry[q]] = "running"
      BY <1>typ, <1>here DEF TypeOK
    <2>3. \A i \in Idem, d \in Id :
            life[d] = "live" /\ entries[i][AddrOf[d]] = entry[q] =>
              i = arg[q] /\ d = IdentOf[q]
      BY <1>typ, <1>here DEF OnceInv, LifeInv, HasBlock
    <2>4. \A i \in Idem, d \in Id : entries[i][AddrOf[d]] # 0 =>
            entries[i][AddrOf[d]] \in 1..MaxOnce
      BY DEF TypeOK
    <2>5. \A n \in 1..MaxOnce : n # entry[q] => once'[n] = once[n]
      BY DEF TypeOK
    <2> QED
      BY <1>typ, <1>here, <2>1, <2>2, <2>3, <2>4, <2>5 DEF HistoryInv
  <1> QED
    BY <1>same, <1>type, <1>life, <1>lock, <1>once, <1>hist

\* OnceDone keeps IInv.
LEMMA OnceDoneStep ==
  ASSUME IInv, NEW q \in P, OnceDone(q)
  PROVE  IInv'
  <1> USE IdempotentAssumption
      DEF IInv, Goto, doVars, onceVars, regVars, OnceDone
  <1>same. (RegInv /\ EvictInv /\ SlotHasOwner /\ HistoryInv)'
    BY DEF RegInv, EvictInv, SlotHasOwner, HistoryInv, TypeOK
  <1>type. TypeOK'
    BY DEF TypeOK, PC, Stage
  <1>life. LifeInv'
    BY DEF TypeOK, LifeInv, Running, HasBlock
  <1>lock. LockInv'
    BY DEF TypeOK, LockInv, InCall
  <1>once. OnceInv'
    BY DEF TypeOK, OnceInv
  <1> QED
    BY <1>same, <1>type, <1>life, <1>lock, <1>once

\* FinishF keeps IInv.
LEMMA FinishFStep ==
  ASSUME IInv, NEW q \in P, NEW to \in PC, FinishF(q, to)
  PROVE  IInv'
  <1> USE IdempotentAssumption
      DEF IInv, Goto, doVars, onceVars, regVars, FinishF, OnceSpent
  <1>typ. /\ arg[q] \in Idem /\ IdentOf[q] \in Id /\ AddrOf[IdentOf[q]] \in Addr
          /\ entry[q] \in 0..MaxOnce
    BY DEF TypeOK
  <1>here. /\ life[IdentOf[q]] = "live"
           /\ entry[q] \in 1..MaxOnce
           /\ entries[arg[q]][AddrOf[IdentOf[q]]] = entry[q]
    BY <1>typ DEF LifeInv, Running, OnceInv
  <1>same. (RegInv /\ EvictInv /\ SlotHasOwner)'
    BY DEF RegInv, EvictInv, SlotHasOwner, TypeOK
  <1>type. TypeOK'
    BY DEF TypeOK, PC, Stage
  <1>life. LifeInv'
    BY DEF TypeOK, LifeInv, Running, HasBlock
  <1>lock. LockInv'
    <2>1. /\ pc[q] = "f" /\ pc'[q] \in {"idle", "exited"}
          /\ \A p \in P : p # q => pc'[p] = pc[p]
      BY DEF TypeOK
    <2>2. UNCHANGED <<imu, arg, walk, list, regmu, reachable>>
      OBVIOUS
    <2> HIDE DEF FinishF
    <2> QED
      BY <2>1, <2>2 DEF LockInv, InCall
  <1>once. OnceInv'
    <2>1. \A n \in 1..MaxOnce : n # entry[q] => once'[n] = once[n]
      BY DEF TypeOK
    <2>2. entry[q] <= nonce /\ nonce \in Nat /\ entry[q] \in Nat
      BY <1>typ, <1>here DEF OnceInv, TypeOK
    <2> QED
      BY <2>1, <2>2 DEF OnceInv, TypeOK
  <1>hist. HistoryInv'
    <2>1. \A i \in Idem, d \in Id :
            i # arg[q] \/ d # IdentOf[q] => slot'[i][d] = slot[i][d]
      BY DEF TypeOK
    <2>2. slot'[arg[q]][IdentOf[q]] = "done" /\ once'[entry[q]] = "done"
      BY <1>typ, <1>here DEF TypeOK
    <2>3. \A i \in Idem, d \in Id :
            life[d] = "live" /\ entries[i][AddrOf[d]] = entry[q] =>
              i = arg[q] /\ d = IdentOf[q]
      BY <1>typ, <1>here DEF OnceInv, LifeInv, HasBlock
    <2>4. \A i \in Idem, d \in Id : entries[i][AddrOf[d]] # 0 =>
            entries[i][AddrOf[d]] \in 1..MaxOnce
      BY DEF TypeOK
    <2>5. \A n \in 1..MaxOnce : n # entry[q] => once'[n] = once[n]
      BY DEF TypeOK
    <2> QED
      BY <1>typ, <1>here, <2>1, <2>2, <2>3, <2>4, <2>5 DEF HistoryInv
  <1> QED
    BY <1>same, <1>type, <1>life, <1>lock, <1>once, <1>hist

\* HookLock keeps IInv.
LEMMA HookLockStep ==
  ASSUME IInv, NEW c \in Id, HookLock(c)
  PROVE  IInv'
  <1> USE IdempotentAssumption
      DEF IInv, Goto, doVars, onceVars, regVars, HookLock
  <1>same. (RegInv /\ OnceInv)'
    BY DEF RegInv, OnceInv, TypeOK
  <1>type. TypeOK'
    BY DEF TypeOK, PC, Stage
  <1>life. LifeInv'
    BY DEF TypeOK, LifeInv, Running, HasBlock
  <1>lock. LockInv'
    BY DEF TypeOK, LockInv, InCall
  <1>evict. EvictInv'
    BY DEF TypeOK, EvictInv
  <1>owner. SlotHasOwner'
    BY DEF TypeOK, SlotHasOwner
  <1>hist. HistoryInv'
    BY DEF TypeOK, HistoryInv
  <1> QED
    BY <1>same, <1>type, <1>life, <1>lock, <1>evict, <1>owner, <1>hist

\* HookSweep keeps IInv.
LEMMA HookSweepStep ==
  ASSUME IInv, NEW k \in Idem, HookSweep(k)
  PROVE  IInv'
  <1> USE IdempotentAssumption
      DEF IInv, Goto, doVars, onceVars, regVars, HookSweep
  <1>same. (LifeInv /\ SlotHasOwner /\ OnceInv /\ HistoryInv)'
    BY DEF LifeInv, SlotHasOwner, OnceInv, HistoryInv, TypeOK, Running, HasBlock
  <1>type. TypeOK'
    BY DEF TypeOK, PC, Stage
  <1>lock. LockInv'
    BY DEF TypeOK, LockInv, InCall
  <1>reg. RegInv'
    BY DEF TypeOK, RegInv, LockInv, InCall
  <1>evict. EvictInv'
    BY DEF TypeOK, EvictInv
  <1> QED
    BY <1>same, <1>type, <1>lock, <1>reg, <1>evict

\* HookEvictLock keeps IInv.
LEMMA HookEvictLockStep ==
  ASSUME IInv, NEW k \in Idem, HookEvictLock(k)
  PROVE  IInv'
  <1> USE IdempotentAssumption
      DEF IInv, Goto, doVars, onceVars, regVars, HookEvictLock
  <1>same. (LifeInv /\ RegInv /\ EvictInv /\ SlotHasOwner /\ OnceInv /\ HistoryInv)'
    BY DEF LifeInv, RegInv, EvictInv, SlotHasOwner, OnceInv, HistoryInv, Running,
           HasBlock
  <1>type. TypeOK'
    BY DEF TypeOK, PC, Stage
  <1>lock. LockInv'
    BY DEF TypeOK, LockInv, InCall
  <1> QED
    BY <1>same, <1>type, <1>lock

\* HookEvict keeps IInv.
LEMMA HookEvictStep ==
  ASSUME IInv, NEW k \in Idem, HookEvict(k)
  PROVE  IInv'
  <1> USE IdempotentAssumption
      DEF IInv, Goto, doVars, onceVars, regVars, HookEvict, SlotDeleted
  <1>d. PICK d \in Id : /\ life[d] = "finalizing"
                        /\ entries' = [entries EXCEPT ![k][AddrOf[d]] = 0]
    OBVIOUS
  <1>entries. /\ entries'[k][AddrOf[d]] = 0
              /\ \A i \in Idem, b \in Addr :
                   i # k \/ b # AddrOf[d] => entries'[i][b] = entries[i][b]
    BY <1>d DEF TypeOK
  <1>other. \A e \in Id : AddrOf[e] \in Addr /\ (life[e] = "live" => AddrOf[e] # AddrOf[d])
    BY <1>d DEF LifeInv, HasBlock
  <1>same. (LifeInv /\ RegInv)'
    BY DEF LifeInv, RegInv, TypeOK, Running, HasBlock
  <1>type. TypeOK'
    BY DEF TypeOK, PC, Stage
  <1>lock. LockInv'
    <2>1. /\ imu[k] = Fin /\ imu'[k] = None
          /\ \A i \in Idem : i # k => imu'[i] = imu[i]
      BY DEF TypeOK
    <2>2. UNCHANGED <<pc, arg, list, regmu, reachable>> /\ walk' = walk \ {k}
      OBVIOUS
    <2> HIDE DEF HookEvict
    <2> QED
      BY <2>1, <2>2 DEF LockInv, InCall
  <1>evict. EvictInv'
    BY <1>d, <1>entries DEF EvictInv, LifeInv
  <1>owner. SlotHasOwner'
    BY <1>entries DEF SlotHasOwner, TypeOK
  <1>once. OnceInv'
    <2>1. \A p \in P : pc[p] \in {"once", "f"} =>
            entries'[arg[p]][AddrOf[IdentOf[p]]] = entries[arg[p]][AddrOf[IdentOf[p]]]
      <3>1. \A p \in P : arg[p] \in Idem /\ IdentOf[p] \in Id
        BY DEF TypeOK
      <3>2. \A p \in P : pc[p] \in {"once", "f"} => life[IdentOf[p]] = "live"
        BY DEF LifeInv, Running
      <3> QED
        BY <1>entries, <1>other, <3>1, <3>2
    <2>2. \A i \in Idem, b \in Addr : entries'[i][b] \in {0, entries[i][b]}
      BY <1>entries
    <2> QED
      <3>1. \A i \in Idem, b \in Addr : entries[i][b] \in Nat
        BY DEF TypeOK
      <3>2. UNCHANGED <<pc, arg, entry, nonce, once>> /\ nonce \in Nat
        BY DEF TypeOK
      <3> HIDE DEF HookEvict
      <3> QED
        BY <2>1, <2>2, <3>1, <3>2 DEF OnceInv
  <1>hist. HistoryInv'
    BY <1>entries, <1>other DEF HistoryInv
  <1> QED
    BY <1>same, <1>type, <1>lock, <1>evict, <1>owner, <1>once, <1>hist

\* HookUnlock keeps IInv.
LEMMA HookUnlockStep ==
  ASSUME IInv, NEW c \in Id, HookUnlock(c)
  PROVE  IInv'
  <1> USE IdempotentAssumption
      DEF IInv, Goto, doVars, onceVars, regVars, HookUnlock
  <1>same. (RegInv /\ OnceInv)'
    BY DEF RegInv, OnceInv, TypeOK
  <1>type. TypeOK'
    BY DEF TypeOK, PC, Stage
  <1>life. LifeInv'
    BY DEF TypeOK, LifeInv, Running, HasBlock
  <1>lock. LockInv'
    BY DEF TypeOK, LockInv, InCall
  <1>evict. EvictInv'
    BY DEF TypeOK, EvictInv
  <1>owner. SlotHasOwner'
    <2>1. \A i \in Idem : reachable[i] => entries[i][AddrOf[c]] = 0
      BY DEF EvictInv
    <2>2. \A d \in Id : d # c => life'[d] = life[d]
      BY DEF TypeOK
    <2> QED
      BY <2>1, <2>2 DEF SlotHasOwner
  <1>hist. HistoryInv'
    BY DEF TypeOK, HistoryInv
  <1> QED
    BY <1>same, <1>type, <1>life, <1>lock, <1>evict, <1>owner, <1>hist

\* The initial states satisfy IInv.
LEMMA InitIInv == Init => IInv
  <1> SUFFICES ASSUME Init PROVE IInv
    OBVIOUS
  <1> USE IdempotentAssumption DEF Init
  <1>type. TypeOK
    BY DEF TypeOK, PC, Stage
  <1>life. LifeInv
    BY DEF LifeInv, Running, HasBlock
  <1>lock. LockInv /\ RegInv
    BY DEF LockInv, RegInv, InCall
  <1>slots. EvictInv /\ SlotHasOwner /\ OnceInv
    BY DEF EvictInv, SlotHasOwner, OnceInv
  <1>hist. HistoryInv
    BY DEF HistoryInv
  <1> QED
    BY <1>type, <1>life, <1>lock, <1>slots, <1>hist DEF IInv

\* Every step keeps IInv.
LEMMA NextIInv == IInv /\ [Next]_vars => IInv'
  <1> SUFFICES ASSUME IInv, [Next]_vars PROVE IInv'
    OBVIOUS
  <1>do. ASSUME NEW p \in P, Do(p) PROVE IInv'
    BY <1>do, DoLockStep, selfRegisterStep, DoSlotStep, OnceRunStep,
       OnceDoneStep, FinishFStep DEF Do
  <1>hook. CASE Hook
    BY <1>hook, HookLockStep, HookSweepStep, HookEvictLockStep, HookEvictStep,
       HookUnlockStep DEF Hook
  <1>goroutine. ASSUME NEW p \in P, Spark(p) \/ Go(p) \/ Exit(p) PROVE IInv'
    BY <1>goroutine, SparkStep, GoStep, ExitStep
  <1>call. ASSUME NEW p \in P, NEW i \in Idem, DoCall(p, i) PROVE IInv'
    BY <1>call, DoCallStep
  <1>memory. ASSUME \/ \E d \in Id : Collect(d)
                    \/ \E i \in Idem : DropIdempotent(i)
             PROVE  IInv'
    BY <1>memory, CollectStep, DropIdempotentStep
  <1>stutter. CASE UNCHANGED vars
    BY <1>stutter DEF vars, IInv, TypeOK, LifeInv, LockInv, RegInv, EvictInv,
       SlotHasOwner, OnceInv, HistoryInv, Running, HasBlock
  <1> QED
    BY <1>do, <1>hook, <1>goroutine, <1>call, <1>memory, <1>stutter DEF Next

\* The inductive invariant of sync.Idempotent: locks, registration and slots are
\* where Do and the block-finalized hook leave them, in every reachable state.
THEOREM Invariance == Spec => []IInv
  BY InitIInv, NextIInv, PTL DEF Spec

\* Every variable of Do and of the hook keeps its type.
THEOREM TypeCorrect == Spec => []TypeOK
  <1> IInv => TypeOK
    BY DEF IInv
  <1> QED
    BY Invariance, PTL

\* No slot outlives the identity whose block finalization evicts it, so that an
\* identity at a reused address starts without one.
THEOREM SlotsOwned == Spec => []SlotHasOwner
  <1> IInv => SlotHasOwner
    BY DEF IInv
  <1> QED
    BY Invariance, PTL

\* Do, which takes i.mu and then the registry's lock, and the hook, which takes
\* them the other way round, never wait for each other.
THEOREM LocksAcyclic == Spec => []NoLockCycle
  <1> IInv => NoLockCycle
    BY DEF IInv, NoLockCycle, RegInv, LockInv
  <1> QED
    BY Invariance, PTL

-----------------------------------------------------------------------------
(* Do implements OncePerIdentity *)

\* A goroutine that gets somewhere else in Do, seen as a caller of Do sees it.
LEMMA AtMoves ==
  ASSUME TypeOK, NEW q \in P, NEW from, NEW to \in PC, Goto(q, from, to)
  PROVE  /\ At[q] = (IF from \in {"lock", "locked", "register", "once"} THEN "in"
                     ELSE IF from = "f" THEN "f" ELSE "out")
         /\ At' = [At EXCEPT ![q] =
                     IF to \in {"lock", "locked", "register", "once"} THEN "in"
                     ELSE IF to = "f" THEN "f" ELSE "out"]
  BY DEF TypeOK, Goto, At

\* Steps of Do map to steps of OncePerIdentity or change nothing it can see.
LEMMA DoRefines ==
  ASSUME IInv, NEW q \in P, Do(q)
  PROVE  [Once!Next]_(Once!avars)
  <1> USE DEF IInv
  <1>typ. arg[q] \in Idem /\ IdentOf[q] \in Id
    BY IdempotentAssumption DEF TypeOK
  <1>lock. CASE DoLock(q) \/ selfRegister(q) \/ DoSlot(q)
    <2>1. PICK from, to \in {"lock", "locked", "register", "once"} : Goto(q, from, to)
      BY <1>lock DEF DoLock, selfRegister, DoSlot
    <2>2. UNCHANGED <<arg, slot>>
      BY <1>lock DEF DoLock, selfRegister, DoSlot, onceVars
    <2>3. At' = At
      BY <2>1 DEF TypeOK, Goto, At
    <2> QED
      BY <2>2, <2>3 DEF Once!avars
  <1>run. CASE OnceRun(q)
    <2>1. At[q] = "in" /\ At' = [At EXCEPT ![q] = "f"]
      BY <1>run, AtMoves DEF OnceRun, PC
    <2>2. /\ life[IdentOf[q]] = "live" /\ reachable[arg[q]]
          /\ entries[arg[q]][AddrOf[IdentOf[q]]] = entry[q] /\ entry[q] # 0
      BY <1>run, <1>typ DEF OnceRun, Goto, LifeInv, LockInv, OnceInv, InCall, Running
    <2>3. slot[arg[q]][IdentOf[q]] = "new"
      BY <1>run, <1>typ, <2>2 DEF OnceRun, HistoryInv
    <2>4. Once!Run(q)
      BY <1>run, <2>1, <2>3 DEF OnceRun, Once!Run, Once!SlotOf
    <2> QED
      BY <2>4 DEF Once!Next
  <1>done. CASE OnceDone(q)
    <2>1. At[q] = "in" /\ At' = [At EXCEPT ![q] = "out"]
      BY <1>done, AtMoves DEF OnceDone, PC
    <2>2. /\ life[IdentOf[q]] = "live" /\ reachable[arg[q]]
          /\ entries[arg[q]][AddrOf[IdentOf[q]]] = entry[q] /\ entry[q] # 0
      BY <1>done, <1>typ DEF OnceDone, Goto, LifeInv, LockInv, OnceInv, InCall, Running
    <2>3. slot[arg[q]][IdentOf[q]] = "done"
      BY <1>done, <1>typ, <2>2 DEF OnceDone, HistoryInv
    <2>4. Once!Return(q)
      BY <1>done, <2>1, <2>3 DEF OnceDone, onceVars, Once!Return, Once!SlotOf
    <2> QED
      BY <2>4 DEF Once!Next
  <1>finish. ASSUME NEW to \in PC, FinishF(q, to) PROVE Once!Next
    <2>1. At[q] = "f" /\ At' = [At EXCEPT ![q] = "out"]
      BY <1>finish, AtMoves DEF FinishF, PC
    <2>2. Once!Finish(q)
      BY <1>finish, <2>1 DEF FinishF, Once!Finish
    <2> QED
      BY <2>2 DEF Once!Next
  <1> QED
    BY <1>lock, <1>run, <1>done, <1>finish DEF Do

\* The other steps do not change what a caller of Do can see, except a call.
LEMMA OthersRefine ==
  ASSUME IInv, Next, ~ \E p \in P : Do(p)
  PROVE  [Once!Next]_(Once!avars)
  <1> USE DEF IInv
  <1>goroutine. ASSUME NEW q \in P, Spark(q) \/ Go(q) \/ Exit(q)
                PROVE  UNCHANGED Once!avars
    <2>1. PICK from, to \in {"unborn", "idle", "exited"} : Goto(q, from, to)
      BY <1>goroutine DEF Spark, Go, Exit
    <2>2. At' = At
      BY <2>1 DEF TypeOK, Goto, At
    <2> QED
      BY <1>goroutine, <2>2 DEF Spark, Go, Exit, onceVars, Once!avars
  <1>call. ASSUME NEW q \in P, NEW i \in Idem, DoCall(q, i)
           PROVE  Once!Next
    <2>1. At[q] = "out" /\ At' = [At EXCEPT ![q] = "in"]
      BY <1>call, AtMoves DEF DoCall, PC
    <2>2. Once!Enter(q, i)
      BY <1>call, <2>1 DEF DoCall, onceVars, Once!Enter
    <2> QED
      BY <2>2 DEF Once!Next
  <1>memory. ASSUME \/ \E d \in Id : Collect(d)
                    \/ \E i \in Idem : DropIdempotent(i)
                    \/ Hook
             PROVE  UNCHANGED Once!avars
    BY <1>memory DEF Collect, DropIdempotent, Hook, HookLock, HookSweep,
       HookEvictLock, HookEvict, HookUnlock, doVars, onceVars, At, Once!avars
  <1> QED
    BY <1>goroutine, <1>call, <1>memory DEF Next

\* sync.Idempotent implements what its documentation promises: f runs at most
\* once per identity and has run when Do returns, although the slots are keyed
\* by addresses that the allocator reuses and a finalizer evicts.
THEOREM Refinement == Spec => DoIsOncePerIdentity
  <1>init. Init => Once!Init
    BY IdempotentAssumption DEF Init, At, Once!Init
  <1>next. IInv /\ [Next]_vars => [Once!Next]_(Once!avars)
    <2>1. ASSUME IInv, UNCHANGED vars PROVE UNCHANGED Once!avars
      BY <2>1 DEF vars, At, Once!avars
    <2> QED
      BY <2>1, DoRefines, OthersRefine
  <1> QED
    BY <1>init, <1>next, Invariance, PTL DEF Spec, DoIsOncePerIdentity, Once!Spec
=============================================================================
