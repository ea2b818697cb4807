----------------------------- MODULE Tpm2Proofs -----------------------------
(***************************************************************************)
(* Proofs about module Tpm2, for any number of goroutines, transient       *)
(* slots, keys and faults.                                                 *)
(***************************************************************************)
EXTENDS Tpm2, FiniteSetTheorems, TLAPS

\* Where a call holds d.mu.
Inside == {"query", "srk", "create", "load", "use", "flush", "closing",
           "closed", "unlock"}

\* d.mu is held by the call that is inside.
MutexInv == \A p \in Proc : mu = p <=> pc[p] \in Inside

\* Where a goroutine can be in the call it makes.
Path(o) ==
  IF o = "Query" THEN {"idle", "lock", "query", "unlock"}
  ELSE IF o = "GenerateKey" THEN {"lock", "srk", "create", "unlock"}
  ELSE IF o = "Close" THEN {"lock", "closing", "closed", "unlock"}
  ELSE {"test", "deref", "rejected", "panics", "lock", "srk", "load", "use",
        "flush", "unlock"}

\* A call is on its path, has the key it was made on, and has a result from
\* where that is settled.
CallInv ==
  \A p \in Proc :
    /\ pc[p] \in Path(op[p])
    /\ IF op[p] = "Use" THEN arg[p] \in 1..nkeys ELSE arg[p] = 0
    /\ ret[p] # None <=> pc[p] \in {"rejected", "panics", "flush", "unlock"}

\* The calls that may still make a key; the bound on keys counts them.
Pending ==
  {p \in Proc : op[p] = "GenerateKey" /\ pc[p] \in {"lock", "srk", "create"}}

BoundInv == nkeys + Cardinality(Pending) <= MaxKeys

\* A call has a handle from Load to Flush, and it is its key's; the storage root
\* key is cached where a command needs it, and forgotten before the transport
\* closes; what a fault took away is still there.
HandleInv ==
  /\ \A p \in Proc :
       IF pc[p] \in {"use", "flush"}
       THEN hnd[p] \in Handle \ lost /\ slot[hnd[p]] = arg[p]
       ELSE hnd[p] = 0
  /\ \A p \in Proc : pc[p] \in {"create", "load"} => srk # 0
  /\ \A p \in Proc : pc[p] = "closed" => srk = 0
  /\ \A h \in lost : slot[h] # Empty

IInv ==
  /\ TypeOK
  /\ MutexInv
  /\ CallInv
  /\ BoundInv
  /\ HandleInv
  /\ CachedSRKIsValid
  /\ SlotsAccounted

\* Fewer calls that may make a key, and no key made.
LEMMA FewerPending ==
  ASSUME BoundInv, Pending' \subseteq Pending, nkeys \in Nat, nkeys' = nkeys
  PROVE  BoundInv'
  <1>1. IsFiniteSet(Pending)
    BY Tpm2Assumption, FS_Subset DEF Pending
  <1>2. /\ Cardinality(Pending') <= Cardinality(Pending)
        /\ Cardinality(Pending) \in Nat /\ Cardinality(Pending') \in Nat
    BY <1>1, FS_Subset, FS_CardinalityType
  <1> QED
    BY <1>2, Tpm2Assumption DEF BoundInv

\* Whoever is inside has d.mu to itself, and nobody else has a handle.
LEMMA Alone ==
  ASSUME IInv, NEW q \in Proc, pc[q] \in Inside
  PROVE  /\ mu = q
         /\ \A p \in Proc : p # q => pc[p] \notin Inside /\ hnd[p] = 0
  BY DEF IInv, MutexInv, HandleInv, Inside

\* A call that has loaded a key, or is about to, is one on a key.
LEMMA AtKey ==
  ASSUME IInv, NEW q \in Proc, pc[q] \in {"load", "use", "flush"}
  PROVE  op[q] = "Use" /\ arg[q] \in Key
  BY Tpm2Assumption DEF IInv, TypeOK, CallInv, Path, Key, Op

\* CallDevice keeps IInv.
LEMMA CallDeviceStep ==
  ASSUME IInv, NEW q \in Proc, NEW o \in Op, CallDevice(q, o)
  PROVE  IInv'
  <1> USE Tpm2Assumption
      DEF IInv, Goto, tpmVars, devVars, keyVars, callVars, Give, Works, Fault,
          Fails, Handle, Key, Object, CallDevice
  <1>same. (CachedSRKIsValid /\ SlotsAccounted)'
    BY DEF CachedSRKIsValid, SlotsAccounted, Resident
  <1>type. TypeOK'
    BY DEF TypeOK, Op
  <1>mutex. MutexInv'
    BY DEF TypeOK, MutexInv, Inside
  <1>call. CallInv'
    BY DEF TypeOK, CallInv, Path, Op
  <1>bound. BoundInv'
    <2> DEFINE gen == {p \in Proc : pc[p] # "idle" /\ op[p] = "GenerateKey"}
    <2>1. CASE o = "GenerateKey"
      <3>1. nkeys + Cardinality(gen) < MaxKeys
        BY <2>1 DEF Generating
      <3>2. Pending' \subseteq gen \cup {q}
        BY DEF Pending, TypeOK
      <3>3. IsFiniteSet(gen) /\ Cardinality(gen) \in Nat
        BY FS_Subset, FS_CardinalityType
      <3>4. /\ IsFiniteSet(gen \cup {q})
            /\ Cardinality(gen \cup {q}) <= Cardinality(gen) + 1
            /\ Cardinality(gen \cup {q}) \in Nat
        <4> HIDE DEF gen
        <4> QED
          <5>1. /\ IsFiniteSet(gen \cup {q})
                /\ Cardinality(gen \cup {q}) =
                     IF q \in gen THEN Cardinality(gen) ELSE Cardinality(gen) + 1
            BY <3>3, FS_AddElement
          <5> QED
            BY <5>1, <3>3
      <3>5. /\ Cardinality(Pending') <= Cardinality(gen \cup {q})
            /\ Cardinality(Pending') \in Nat
        <4> HIDE DEF gen
        <4> QED
          BY <3>2, <3>4, FS_Subset, FS_CardinalityType
      <3>6. nkeys \in Nat /\ nkeys' = nkeys
        BY DEF TypeOK
      <3> HIDE DEF gen, CallDevice
      <3> QED
        BY <3>1, <3>3, <3>4, <3>5, <3>6 DEF BoundInv
    <2>2. CASE o # "GenerateKey"
      <3>1. Pending' \subseteq Pending /\ nkeys' = nkeys
        BY <2>2 DEF Pending, TypeOK
      <3> QED
        BY <3>1, FewerPending DEF TypeOK
    <2> QED
      BY <2>1, <2>2
  <1>handle. HandleInv'
    BY DEF TypeOK, HandleInv
  <1> QED
    BY <1>same, <1>type, <1>mutex, <1>call, <1>bound, <1>handle

\* CallKey keeps IInv.
LEMMA CallKeyStep ==
  ASSUME IInv, NEW q \in Proc, NEW k \in Key, CallKey(q, k)
  PROVE  IInv'
  <1> USE Tpm2Assumption
      DEF IInv, Goto, tpmVars, devVars, keyVars, callVars, Give, Works, Fault,
          Fails, Handle, Key, Object, CallKey
  <1>same. (CachedSRKIsValid /\ SlotsAccounted)'
    BY DEF CachedSRKIsValid, SlotsAccounted, Resident
  <1>type. TypeOK'
    BY DEF TypeOK, Op
  <1>mutex. MutexInv'
    BY DEF TypeOK, MutexInv, Inside
  <1>call. CallInv'
    BY DEF TypeOK, CallInv, Path, Op
  <1>bound. BoundInv'
    <2>1. Pending' \subseteq Pending /\ nkeys' = nkeys
      BY DEF Pending, TypeOK
    <2> QED
      BY <2>1, FewerPending DEF TypeOK
  <1>handle. HandleInv'
    BY DEF TypeOK, HandleInv
  <1> QED
    BY <1>same, <1>type, <1>mutex, <1>call, <1>bound, <1>handle

\* CloseKey keeps IInv.
LEMMA CloseKeyStep ==
  ASSUME IInv, NEW k \in Key, CloseKey(k)
  PROVE  IInv'
  <1> USE Tpm2Assumption
      DEF IInv, Goto, tpmVars, devVars, keyVars, callVars, Give, Works, Fault,
          Fails, Handle, Key, Object, CloseKey
  <1>same. (MutexInv /\ CallInv /\ HandleInv /\ CachedSRKIsValid /\ SlotsAccounted)'
    BY DEF MutexInv, CallInv, HandleInv, CachedSRKIsValid, SlotsAccounted, Resident
  <1>type. TypeOK'
    BY DEF TypeOK, Op
  <1>bound. BoundInv'
    <2>1. Pending' \subseteq Pending /\ nkeys' = nkeys
      BY DEF Pending, TypeOK
    <2> QED
      BY <2>1, FewerPending DEF TypeOK
  <1> QED
    BY <1>same, <1>type, <1>bound

\* TestDev keeps IInv.
LEMMA TestDevStep ==
  ASSUME IInv, NEW q \in Proc, TestDev(q)
  PROVE  IInv'
  <1> USE Tpm2Assumption
      DEF IInv, Goto, tpmVars, devVars, keyVars, callVars, Give, Works, Fault,
          Fails, Handle, Key, Object, TestDev, KeyOpen
  <1>same. (CachedSRKIsValid /\ SlotsAccounted)'
    BY DEF CachedSRKIsValid, SlotsAccounted, Resident
  <1>type. TypeOK'
    BY DEF TypeOK, Op
  <1>mutex. MutexInv'
    BY DEF TypeOK, MutexInv, Inside
  <1>call. CallInv'
    BY DEF TypeOK, CallInv, Path, Op
  <1>bound. BoundInv'
    <2>1. Pending' \subseteq Pending /\ nkeys' = nkeys
      BY DEF Pending, TypeOK
    <2> QED
      BY <2>1, FewerPending DEF TypeOK
  <1>handle. HandleInv'
    BY DEF TypeOK, HandleInv
  <1> QED
    BY <1>same, <1>type, <1>mutex, <1>call, <1>bound, <1>handle

\* DerefDev keeps IInv.
LEMMA DerefDevStep ==
  ASSUME IInv, NEW q \in Proc, DerefDev(q)
  PROVE  IInv'
  <1> USE Tpm2Assumption
      DEF IInv, Goto, tpmVars, devVars, keyVars, callVars, Give, Works, Fault,
          Fails, Handle, Key, Object, DerefDev
  <1>same. (CachedSRKIsValid /\ SlotsAccounted)'
    BY DEF CachedSRKIsValid, SlotsAccounted, Resident
  <1>type. TypeOK'
    BY DEF TypeOK, Op
  <1>mutex. MutexInv'
    BY DEF TypeOK, MutexInv, Inside
  <1>call. CallInv'
    BY DEF TypeOK, CallInv, Path, Op
  <1>bound. BoundInv'
    <2>1. Pending' \subseteq Pending /\ nkeys' = nkeys
      BY DEF CallInv, Path, Pending, TypeOK
    <2> QED
      BY <2>1, FewerPending DEF TypeOK
  <1>handle. HandleInv'
    BY DEF TypeOK, HandleInv
  <1> QED
    BY <1>same, <1>type, <1>mutex, <1>call, <1>bound, <1>handle

\* ReturnEarly keeps IInv.
LEMMA ReturnEarlyStep ==
  ASSUME IInv, NEW q \in Proc, ReturnEarly(q)
  PROVE  IInv'
  <1> USE Tpm2Assumption
      DEF IInv, Goto, tpmVars, devVars, keyVars, callVars, Give, Works, Fault,
          Fails, Handle, Key, Object, ReturnEarly, Returned
  <1>same. (CachedSRKIsValid /\ SlotsAccounted)'
    BY DEF CachedSRKIsValid, SlotsAccounted, Resident
  <1>type. TypeOK'
    BY DEF TypeOK, Op
  <1>mutex. MutexInv'
    BY DEF TypeOK, MutexInv, Inside
  <1>call. CallInv'
    BY DEF TypeOK, CallInv, Path, Op
  <1>bound. BoundInv'
    <2>1. Pending' \subseteq Pending /\ nkeys' = nkeys
      BY DEF Pending, TypeOK
    <2> QED
      BY <2>1, FewerPending DEF TypeOK
  <1>handle. HandleInv'
    BY DEF TypeOK, HandleInv
  <1> QED
    BY <1>same, <1>type, <1>mutex, <1>call, <1>bound, <1>handle

\* Lock keeps IInv.
LEMMA LockStep ==
  ASSUME IInv, NEW q \in Proc, Lock(q)
  PROVE  IInv'
  <1> USE Tpm2Assumption
      DEF IInv, Goto, tpmVars, devVars, keyVars, callVars, Give, Works, Fault,
          Fails, Handle, Key, Object, Lock
  <1>same. (CachedSRKIsValid)'
    BY DEF CachedSRKIsValid, Resident
  <1>type. TypeOK'
    BY DEF TypeOK, Op
  <1>mutex. MutexInv'
    BY DEF TypeOK, MutexInv, Inside
  <1>call. CallInv'
    BY DEF TypeOK, CallInv, Path, Op
  <1>bound. BoundInv'
    <2>1. Pending' \subseteq Pending /\ nkeys' = nkeys
      BY DEF Pending, TypeOK
    <2> QED
      BY <2>1, FewerPending DEF TypeOK
  <1>handle. HandleInv'
    BY DEF TypeOK, HandleInv
  <1>slots. SlotsAccounted'
    BY DEF TypeOK, SlotsAccounted, Resident
  <1> QED
    BY <1>same, <1>type, <1>mutex, <1>call, <1>bound, <1>handle, <1>slots

\* Unlock keeps IInv.
LEMMA UnlockStep ==
  ASSUME IInv, NEW q \in Proc, Unlock(q)
  PROVE  IInv'
  <1> USE Tpm2Assumption
      DEF IInv, Goto, tpmVars, devVars, keyVars, callVars, Give, Works, Fault,
          Fails, Handle, Key, Object, Unlock, Returned, MuReleased
  <1>same. (CachedSRKIsValid)'
    BY DEF CachedSRKIsValid, Resident
  <1>type. TypeOK'
    BY DEF TypeOK, Op
  <1>mutex. MutexInv'
    BY DEF TypeOK, MutexInv, Inside
  <1>call. CallInv'
    BY DEF TypeOK, CallInv, Path, Op
  <1>bound. BoundInv'
    <2>1. Pending' \subseteq Pending /\ nkeys' = nkeys
      BY DEF Pending, TypeOK
    <2> QED
      BY <2>1, FewerPending DEF TypeOK
  <1>handle. HandleInv'
    BY DEF TypeOK, HandleInv
  <1>slots. SlotsAccounted'
    BY DEF TypeOK, SlotsAccounted, Resident, HandleInv, MutexInv, Inside
  <1> QED
    BY <1>same, <1>type, <1>mutex, <1>call, <1>bound, <1>handle, <1>slots

\* Query keeps IInv.
LEMMA QueryStep ==
  ASSUME IInv, NEW q \in Proc, Query(q)
  PROVE  IInv'
  <1> USE Tpm2Assumption
      DEF IInv, Goto, tpmVars, devVars, keyVars, callVars, Give, Works, Fault,
          Fails, Handle, Key, Object, Query
  <1>same. (CachedSRKIsValid /\ SlotsAccounted)'
    BY DEF CachedSRKIsValid, SlotsAccounted, Resident
  <1>type. TypeOK'
    BY DEF TypeOK, Op
  <1>mutex. MutexInv'
    BY DEF TypeOK, MutexInv, Inside
  <1>call. CallInv'
    BY DEF TypeOK, CallInv, Path, Op
  <1>bound. BoundInv'
    <2>1. Pending' \subseteq Pending /\ nkeys' = nkeys
      BY DEF Pending, TypeOK
    <2> QED
      BY <2>1, FewerPending DEF TypeOK
  <1>handle. HandleInv'
    BY DEF TypeOK, HandleInv
  <1> QED
    BY <1>same, <1>type, <1>mutex, <1>call, <1>bound, <1>handle

\* SRKThere keeps IInv.
LEMMA SRKThereStep ==
  ASSUME IInv, NEW q \in Proc, SRKThere(q)
  PROVE  IInv'
  <1> USE Tpm2Assumption
      DEF IInv, Goto, tpmVars, devVars, keyVars, callVars, Give, Works, Fault,
          Fails, Handle, Key, Object, SRKThere, AfterSRK, SRKCached
  <1>same. (CachedSRKIsValid /\ SlotsAccounted)'
    BY DEF CachedSRKIsValid, SlotsAccounted, Resident
  <1>type. TypeOK'
    BY DEF TypeOK, Op
  <1>mutex. MutexInv'
    BY DEF TypeOK, MutexInv, Inside
  <1>call. CallInv'
    BY DEF TypeOK, CallInv, Path, Op
  <1>bound. BoundInv'
    <2>1. Pending' \subseteq Pending /\ nkeys' = nkeys
      BY DEF Pending, TypeOK
    <2> QED
      BY <2>1, FewerPending DEF TypeOK
  <1>handle. HandleInv'
    BY DEF TypeOK, HandleInv
  <1> QED
    BY <1>same, <1>type, <1>mutex, <1>call, <1>bound, <1>handle

\* CreatePrimary keeps IInv.
LEMMA CreatePrimaryStep ==
  ASSUME IInv, NEW q \in Proc, CreatePrimary(q)
  PROVE  IInv'
  <1> USE Tpm2Assumption
      DEF IInv, Goto, tpmVars, devVars, keyVars, callVars, Give, Works, Fault,
          Fails, Handle, Key, Object, CreatePrimary, AfterSRK, SRKCached,
          NextSlot, Free, Loses, Refuses
  <1>q. pc[q] = "srk" /\ op[q] \in {"GenerateKey", "Use"} /\ srk = 0 /\ mu = q
    BY Alone DEF CallInv, Path, Inside, TypeOK, Op
  <1>effect. \/ \E h \in Handle :
                  /\ slot[h] = Empty /\ slot' = [slot EXCEPT ![h] = SRK] /\ open
                  /\ \/ /\ srk' = h /\ UNCHANGED lost
                        /\ pc' = [pc EXCEPT ![q] = AfterSRK(q)]
                     \/ /\ lost' = lost \cup {h} /\ UNCHANGED srk
                        /\ pc' = [pc EXCEPT ![q] = "unlock"]
             \/ /\ UNCHANGED <<slot, lost, srk>>
                /\ pc' = [pc EXCEPT ![q] = "unlock"]
    OBVIOUS
  <1>type. TypeOK'
    <2>slot. slot' \in [Handle -> Object \cup {Empty}] /\ lost' \subseteq Handle
      BY DEF TypeOK
    <2>faults. faults' \in 0..MaxFaults
      BY DEF TypeOK
    <2>ret. ret' \in [Proc -> Key \cup {None, Err, Done}]
      BY DEF TypeOK
    <2>srk. srk' \in Handle \cup {0}
      BY DEF TypeOK
    <2> QED
      BY <2>slot, <2>faults, <2>ret, <2>srk DEF TypeOK
  <1>mutex. MutexInv'
    BY DEF TypeOK, MutexInv, Inside
  <1>call. CallInv'
    BY DEF TypeOK, CallInv, Path, Op
  <1>bound. BoundInv'
    <2>1. Pending' \subseteq Pending /\ nkeys' = nkeys
      BY DEF Pending, TypeOK
    <2> QED
      BY <2>1, FewerPending DEF TypeOK
  <1>handle. HandleInv'
    <2>1. \A p \in Proc : p # q => pc[p] \notin Inside /\ hnd[p] = 0
      BY <1>q, Alone DEF Inside
    <2>2. UNCHANGED <<hnd, arg>> /\ hnd[q] = 0
      BY <1>q DEF HandleInv
    <2>3. \A h \in Handle \cap lost : slot[h] # Empty
      BY DEF HandleInv
    <2> HIDE DEF CreatePrimary
    <2> QED
      <3>1. \A p \in Proc : /\ pc'[p] \notin {"use", "flush", "closed"}
                            /\ pc'[p] \in {"create", "load"} => srk' # 0
        BY <1>q, <1>effect, <2>1 DEF TypeOK, Inside
      <3>2. \A h \in lost' : slot'[h] # Empty
        <4>1. /\ SRK # Empty /\ lost \subseteq Handle
              /\ slot \in [Handle -> Object \cup {Empty}]
          BY DEF TypeOK
        <4> HIDE DEF IInv
        <4> QED
          BY <1>effect, <2>3, <4>1
      <3>3. \A p \in Proc : hnd'[p] = 0
        BY <2>1, <2>2
      <3>4. \A p \in Proc : IF pc'[p] \in {"use", "flush"}
                           THEN /\ hnd'[p] \in Handle \ lost'
                                /\ slot'[hnd'[p]] = arg'[p]
                           ELSE hnd'[p] = 0
        BY <3>1, <3>3
      <3>5. \A p \in Proc : pc'[p] = "closed" => srk' = 0
        BY <3>1
      <3>6. \A p \in Proc : pc'[p] \in {"create", "load"} => srk' # 0
        BY <3>1
      <3> HIDE DEF IInv
      <3> QED
        BY <3>2, <3>4, <3>5, <3>6 DEF HandleInv
  <1>srk. CachedSRKIsValid'
    <2>1. UNCHANGED open
      OBVIOUS
    <2>2. \A h \in Handle \cap lost : slot[h] # Empty
      BY DEF HandleInv
    <2> HIDE DEF CreatePrimary
    <2> QED
      BY <1>q, <1>effect, <2>1, <2>2 DEF CachedSRKIsValid, TypeOK
  <1>slots. SlotsAccounted'
    BY DEF TypeOK, SlotsAccounted, Resident
  <1> QED
    BY <1>type, <1>mutex, <1>call, <1>bound, <1>handle, <1>srk, <1>slots

\* Create keeps IInv.
LEMMA CreateStep ==
  ASSUME IInv, NEW q \in Proc, Create(q)
  PROVE  IInv'
  <1> USE Tpm2Assumption
      DEF IInv, Goto, tpmVars, devVars, keyVars, callVars, Give, Works, Fault,
          Fails, Handle, Key, Object, Create
  <1>q. pc[q] = "create" /\ op[q] = "GenerateKey" /\ ret[q] = None /\ srk # 0
    BY DEF CallInv, Path, HandleInv
  <1>pending. /\ q \in Pending /\ IsFiniteSet(Pending)
              /\ Cardinality(Pending) \in Nat \ {0}
    <2>1. q \in Pending /\ IsFiniteSet(Pending)
      BY <1>q, FS_Subset DEF Pending
    <2> QED
      BY <2>1, FS_CardinalityType, FS_EmptySet
  <1>nkeys. nkeys \in Nat /\ nkeys + 1 <= MaxKeys /\ nkeys' \in {nkeys, nkeys + 1}
    BY <1>pending DEF BoundInv, TypeOK
  <1>same. (CachedSRKIsValid /\ SlotsAccounted)'
    BY DEF CachedSRKIsValid, SlotsAccounted, Resident
  <1>type. TypeOK'
    <2>faults. faults' \in 0..MaxFaults
      BY DEF TypeOK
    <2>ret. ret' \in [Proc -> Key \cup {None, Err, Done}]
      BY <1>nkeys DEF TypeOK
    <2>keys. nkeys' \in 0..MaxKeys /\ dropped' \subseteq 1..nkeys'
      BY <1>nkeys DEF TypeOK
    <2> QED
      BY <2>faults, <2>ret, <2>keys DEF TypeOK
  <1>mutex. MutexInv'
    BY DEF TypeOK, MutexInv, Inside
  <1>call. CallInv'
    <2>1. \E r \in {Err, nkeys'} : ret' = [ret EXCEPT ![q] = r]
      OBVIOUS
    <2>2. UNCHANGED <<op, arg>> /\ pc' = [pc EXCEPT ![q] = "unlock"]
      OBVIOUS
    <2>3. nkeys' # None /\ nkeys <= nkeys'
      BY <1>nkeys
    <2> HIDE DEF Create
    <2> QED
      BY <1>q, <1>nkeys, <2>1, <2>2, <2>3 DEF CallInv, Path, TypeOK
  <1>bound. BoundInv'
    <2>1. Pending' = Pending \ {q}
      BY DEF Pending, TypeOK
    <2>2. Cardinality(Pending \ {q}) = Cardinality(Pending) - 1
      BY <1>pending, FS_RemoveElement
    <2> QED
      BY <2>1, <2>2, <1>pending, <1>nkeys DEF BoundInv
  <1>handle. HandleInv'
    BY DEF TypeOK, HandleInv
  <1> QED
    BY <1>same, <1>type, <1>mutex, <1>call, <1>bound, <1>handle

\* Load keeps IInv.
LEMMA LoadStep ==
  ASSUME IInv, NEW q \in Proc, Load(q)
  PROVE  IInv'
  <1> USE Tpm2Assumption
      DEF IInv, Goto, tpmVars, devVars, keyVars, callVars, Give, Works, Fault,
          Fails, Handle, Key, Object, Load, NextSlot, Free, Loses, Refuses
  <1>key. pc[q] = "load" /\ op[q] = "Use" /\ arg[q] \in Key /\ mu = q
    BY Alone, AtKey DEF Inside
  <1>root. srk \in Handle /\ slot[srk] = SRK /\ open /\ srk \notin lost
    BY <1>key DEF HandleInv, CachedSRKIsValid, TypeOK
  <1>effect. \/ \E h \in Handle :
                  /\ slot[h] = Empty /\ slot' = [slot EXCEPT ![h] = arg[q]]
                  /\ \/ /\ hnd' = [hnd EXCEPT ![q] = h] /\ UNCHANGED lost
                        /\ pc' = [pc EXCEPT ![q] = "use"]
                     \/ /\ lost' = lost \cup {h} /\ UNCHANGED hnd
                        /\ pc' = [pc EXCEPT ![q] = "unlock"]
             \/ /\ UNCHANGED <<slot, lost, hnd>>
                /\ pc' = [pc EXCEPT ![q] = "unlock"]
    OBVIOUS
  <1>type. TypeOK'
    <2>slot. slot' \in [Handle -> Object \cup {Empty}] /\ lost' \subseteq Handle
      BY <1>key, <1>effect DEF TypeOK
    <2>faults. faults' \in 0..MaxFaults
      BY DEF TypeOK
    <2>ret. ret' \in [Proc -> Key \cup {None, Err, Done}]
      BY DEF TypeOK
    <2>hnd. hnd' \in [Proc -> Handle \cup {0}]
      BY <1>effect DEF TypeOK
    <2> QED
      BY <2>slot, <2>faults, <2>ret, <2>hnd DEF TypeOK
  <1>mutex. MutexInv'
    BY DEF TypeOK, MutexInv, Inside
  <1>call. CallInv'
    BY DEF TypeOK, CallInv, Path, Op
  <1>bound. BoundInv'
    <2>1. Pending' \subseteq Pending /\ nkeys' = nkeys
      BY DEF Pending, TypeOK
    <2> QED
      BY <2>1, FewerPending DEF TypeOK
  <1>handle. HandleInv'
    <2>1. \A p \in Proc : p # q => pc[p] \notin Inside /\ hnd[p] = 0
      BY <1>key, Alone DEF Inside
    <2>2. UNCHANGED <<srk, arg>> /\ hnd[q] = 0
      BY <1>key DEF HandleInv
    <2>3. \A h \in Handle \cap lost : slot[h] # Empty
      BY DEF HandleInv
    <2> HIDE DEF Load
    <2> QED
      BY <1>key, <1>effect, <2>1, <2>2, <2>3 DEF HandleInv, TypeOK, Inside
  <1>srk. CachedSRKIsValid'
    <2>1. UNCHANGED <<srk, open>>
      OBVIOUS
    <2> HIDE DEF Load
    <2> QED
      BY <1>effect, <2>1 DEF CachedSRKIsValid, TypeOK
  <1>slots. SlotsAccounted'
    <2>1. UNCHANGED <<srk, mu>> /\ hnd[q] = 0
      BY <1>key DEF HandleInv
    <2> HIDE DEF Load
    <2> QED
      BY <1>key, <1>effect, <2>1 DEF SlotsAccounted, Resident, TypeOK
  <1> QED
    BY <1>type, <1>mutex, <1>call, <1>bound, <1>handle, <1>srk, <1>slots

\* Use keeps IInv.
LEMMA UseStep ==
  ASSUME IInv, NEW q \in Proc, Use(q)
  PROVE  IInv'
  <1> USE Tpm2Assumption
      DEF IInv, Goto, tpmVars, devVars, keyVars, callVars, Give, Works, Fault,
          Fails, Handle, Key, Object, Use, AlwaysFlushes, KeyHandle
  <1>key. /\ pc[q] = "use" /\ op[q] = "Use" /\ arg[q] \in Key
          /\ slot[hnd[q]] = arg[q]
    BY Alone, AtKey DEF Inside, HandleInv
  <1>effect. /\ pc' = [pc EXCEPT ![q] = "flush"]
             /\ \E e \in Key \cup {Err} : ret' = [ret EXCEPT ![q] = e]
    BY <1>key
  <1>same. (CachedSRKIsValid /\ SlotsAccounted)'
    BY DEF CachedSRKIsValid, SlotsAccounted, Resident
  <1>type. TypeOK'
    <2>faults. faults' \in 0..MaxFaults
      BY DEF TypeOK
    <2>ret. ret' \in [Proc -> Key \cup {None, Err, Done}]
      BY <1>key DEF TypeOK
    <2> QED
      BY <2>faults, <2>ret DEF TypeOK
  <1>mutex. MutexInv'
    BY DEF TypeOK, MutexInv, Inside
  <1>call. CallInv'
    <2>1. UNCHANGED <<op, arg, nkeys>>
      OBVIOUS
    <2>2. PICK e \in Key \cup {Err} : ret' = [ret EXCEPT ![q] = e]
      BY <1>effect
    <2>3. e # None
      OBVIOUS
    <2> HIDE DEF Use
    <2> QED
      BY <1>key, <1>effect, <2>1, <2>2, <2>3 DEF CallInv, Path, TypeOK
  <1>bound. BoundInv'
    <2>1. Pending' \subseteq Pending /\ nkeys' = nkeys
      BY DEF Pending, TypeOK
    <2> QED
      BY <2>1, FewerPending DEF TypeOK
  <1>handle. HandleInv'
    <2>1. UNCHANGED <<hnd, arg, srk, slot, lost>>
      BY <1>key
    <2> HIDE DEF Use
    <2> QED
      BY <1>key, <1>effect, <2>1 DEF HandleInv, TypeOK
  <1> QED
    BY <1>same, <1>type, <1>mutex, <1>call, <1>bound, <1>handle

\* Flush keeps IInv.
LEMMA FlushStep ==
  ASSUME IInv, NEW q \in Proc, Flush(q)
  PROVE  IInv'
  <1> USE Tpm2Assumption
      DEF IInv, Goto, tpmVars, devVars, keyVars, callVars, Give, Works, Fault,
          Fails, Handle, Key, Object, Flush, FlushContext
  <1>key. /\ pc[q] = "flush" /\ op[q] = "Use" /\ arg[q] \in Key /\ mu = q
          /\ hnd[q] \in Handle \ lost /\ slot[hnd[q]] = arg[q]
    BY Alone, AtKey DEF Inside, HandleInv
  <1>effect. /\ pc' = [pc EXCEPT ![q] = "unlock"] /\ hnd' = [hnd EXCEPT ![q] = 0]
             /\ \/ slot' = [slot EXCEPT ![hnd[q]] = Empty] /\ UNCHANGED lost
                \/ lost' = lost \cup {hnd[q]} /\ UNCHANGED slot
             /\ UNCHANGED <<srk, open, mu, arg>>
    OBVIOUS
  <1>type. TypeOK'
    <2>slot. slot' \in [Handle -> Object \cup {Empty}] /\ lost' \subseteq Handle
      BY <1>key, <1>effect DEF TypeOK
    <2>faults. faults' \in 0..MaxFaults
      BY DEF TypeOK
    <2>hnd. hnd' \in [Proc -> Handle \cup {0}]
      BY DEF TypeOK
    <2> QED
      BY <2>slot, <2>faults, <2>hnd DEF TypeOK
  <1>mutex. MutexInv'
    BY DEF TypeOK, MutexInv, Inside
  <1>call. CallInv'
    BY DEF TypeOK, CallInv, Path, Op
  <1>bound. BoundInv'
    <2>1. Pending' \subseteq Pending /\ nkeys' = nkeys
      BY DEF Pending, TypeOK
    <2> QED
      BY <2>1, FewerPending DEF TypeOK
  <1>handle. HandleInv'
    <2>1. \A p \in Proc : p # q => pc[p] \notin Inside /\ hnd[p] = 0
      BY <1>key, Alone DEF Inside
    <2> HIDE DEF Flush
    <2> QED
      BY <1>key, <1>effect, <2>1 DEF HandleInv, TypeOK, Inside
  <1>srk. CachedSRKIsValid'
    <2> HIDE DEF Flush
    <2> QED
      BY <1>key, <1>effect DEF CachedSRKIsValid, TypeOK
  <1>slots. SlotsAccounted'
    <2> HIDE DEF Flush
    <2> QED
      BY <1>key, <1>effect DEF SlotsAccounted, Resident, TypeOK
  <1> QED
    BY <1>type, <1>mutex, <1>call, <1>bound, <1>handle, <1>srk, <1>slots

\* CloseFlush keeps IInv.
LEMMA CloseFlushStep ==
  ASSUME IInv, NEW q \in Proc, CloseFlush(q)
  PROVE  IInv'
  <1> USE Tpm2Assumption
      DEF IInv, Goto, tpmVars, devVars, keyVars, callVars, Give, Works, Fault,
          Fails, Handle, Key, Object, CloseFlush, FlushContext, ForgetsSRK
  <1>q. pc[q] = "closing" /\ mu = q /\ hnd[q] = 0
    BY Alone DEF Inside, HandleInv
  <1>effect. /\ pc' = [pc EXCEPT ![q] = "closed"] /\ srk' = 0
             /\ \/ slot' = [slot EXCEPT ![srk] = Empty] /\ UNCHANGED lost
                \/ lost' = lost \cup {srk} /\ UNCHANGED slot
             /\ UNCHANGED <<hnd, arg>>
    OBVIOUS
  <1>root. srk \in Handle \ lost /\ slot[srk] = SRK
    BY DEF CachedSRKIsValid, TypeOK
  <1>type. TypeOK'
    <2>slot. slot' \in [Handle -> Object \cup {Empty}] /\ lost' \subseteq Handle
      BY DEF TypeOK
    <2>faults. faults' \in 0..MaxFaults
      BY DEF TypeOK
    <2>srk. srk' \in Handle \cup {0}
      BY DEF TypeOK
    <2> QED
      BY <2>slot, <2>faults, <2>srk DEF TypeOK
  <1>mutex. MutexInv'
    BY DEF TypeOK, MutexInv, Inside
  <1>call. CallInv'
    BY DEF TypeOK, CallInv, Path, Op
  <1>bound. BoundInv'
    <2>1. Pending' \subseteq Pending /\ nkeys' = nkeys
      BY DEF Pending, TypeOK
    <2> QED
      BY <2>1, FewerPending DEF TypeOK
  <1>handle. HandleInv'
    <2>1. \A p \in Proc : p # q => pc[p] \notin Inside /\ hnd[p] = 0
      BY <1>q, Alone DEF Inside
    <2> HIDE DEF CloseFlush
    <2> QED
      BY <1>q, <1>effect, <1>root, <2>1 DEF HandleInv, TypeOK, Inside
  <1>srk. CachedSRKIsValid'
    BY DEF TypeOK, CachedSRKIsValid
  <1>slots. SlotsAccounted'
    BY DEF TypeOK, SlotsAccounted, Resident
  <1> QED
    BY <1>type, <1>mutex, <1>call, <1>bound, <1>handle, <1>srk, <1>slots

\* CloseTransport keeps IInv.
LEMMA CloseTransportStep ==
  ASSUME IInv, NEW q \in Proc, CloseTransport(q)
  PROVE  IInv'
  <1> USE Tpm2Assumption
      DEF IInv, Goto, tpmVars, devVars, keyVars, callVars, Give, Works, Fault,
          Fails, Handle, Key, Object, CloseTransport
  <1>same. (SlotsAccounted)'
    BY DEF SlotsAccounted, Resident
  <1>type. TypeOK'
    BY DEF TypeOK, Op
  <1>mutex. MutexInv'
    BY DEF TypeOK, MutexInv, Inside
  <1>call. CallInv'
    BY DEF TypeOK, CallInv, Path, Op
  <1>bound. BoundInv'
    <2>1. Pending' \subseteq Pending /\ nkeys' = nkeys
      BY DEF Pending, TypeOK
    <2> QED
      BY <2>1, FewerPending DEF TypeOK
  <1>handle. HandleInv'
    BY DEF TypeOK, HandleInv
  <1>srk. CachedSRKIsValid'
    BY DEF TypeOK, CachedSRKIsValid, HandleInv
  <1> QED
    BY <1>same, <1>type, <1>mutex, <1>call, <1>bound, <1>handle, <1>srk

\* The initial states satisfy IInv.
LEMMA InitIInv == Init => IInv
  <1> SUFFICES ASSUME Init PROVE IInv
    OBVIOUS
  <1> USE Tpm2Assumption DEF Init
  <1>type. TypeOK
    BY DEF TypeOK, Op, Handle, Object, Key
  <1>bound. BoundInv
    <2>1. Pending = {}
      BY DEF Pending
    <2> QED
      BY <2>1, FS_EmptySet DEF BoundInv
  <1>calls. MutexInv /\ CallInv /\ HandleInv
    BY DEF MutexInv, CallInv, HandleInv, Inside, Path
  <1>slots. CachedSRKIsValid /\ SlotsAccounted
    BY DEF CachedSRKIsValid, SlotsAccounted, Resident
  <1> QED
    BY <1>type, <1>bound, <1>calls, <1>slots DEF IInv

\* Every step keeps IInv.
LEMMA NextIInv == IInv /\ [Next]_vars => IInv'
  <1> SUFFICES ASSUME IInv, [Next]_vars PROVE IInv'
    OBVIOUS
  <1>step. ASSUME NEW p \in Proc, Step(p) PROVE IInv'
    BY <1>step, TestDevStep, DerefDevStep, ReturnEarlyStep, LockStep, UnlockStep,
       QueryStep, SRKThereStep, CreatePrimaryStep, CreateStep, LoadStep, UseStep,
       FlushStep, CloseFlushStep, CloseTransportStep DEF Step
  <1>call. ASSUME \/ \E p \in Proc, o \in Op : CallDevice(p, o)
                  \/ \E p \in Proc, k \in Key : CallKey(p, k)
                  \/ \E k \in Key : CloseKey(k)
           PROVE  IInv'
    BY <1>call, CallDeviceStep, CallKeyStep, CloseKeyStep
  <1>stutter. CASE UNCHANGED vars
    BY <1>stutter DEF vars, IInv, TypeOK, MutexInv, CallInv, BoundInv, Pending,
       HandleInv, CachedSRKIsValid, SlotsAccounted, Resident
  <1> QED
    BY <1>step, <1>call, <1>stutter DEF Next

\* The inductive invariant of the device: every handle, result and cached key is
\* where the calls of package tpm2 leave it, whatever fails meanwhile.
THEOREM Invariance == Spec => []IInv
  BY InitIInv, NextIInv, PTL DEF Spec

\* Every variable of the device, its keys and its calls keeps its type.
THEOREM TypeCorrect == Spec => []TypeOK
  <1> IInv => TypeOK
    BY DEF IInv
  <1> QED
    BY Invariance, PTL

\* No error path of Sign, ECDH, GenerateKey or Close leaves an object in the TPM
\* that neither d.srk nor a running call knows of, unless a fault took its handle.
THEOREM Accounted == Spec => []SlotsAccounted
  <1> IInv => SlotsAccounted
    BY DEF IInv
  <1> QED
    BY Invariance, PTL

\* The handle ensureSRKLocked has cached is the storage root key's until Close.
THEOREM SRKValid == Spec => []CachedSRKIsValid
  <1> IInv => CachedSRKIsValid
    BY DEF IInv
  <1> QED
    BY Invariance, PTL

-----------------------------------------------------------------------------
(* The package implements HardwareKey *)

\* Neither the keys nor the session change.
SameKeys == UNCHANGED <<nkeys, dropped, open>>

\* A step of p that leaves its call as a caller sees it.
LEMMA Invisible ==
  ASSUME SameKeys, NEW q \in Proc, UNCHANGED <<op, arg>>,
         \A p \in Proc : p # q => pc'[p] = pc[p],
         \A p \in Proc : p # q => ret'[p] = ret[p],
         op[q] = "Use" => (pc'[q] \in {"test", "rejected"} <=> pc[q] \in {"test", "rejected"}),
         op[q] = "Query" \/ ret'[q] = ret[q]
  PROVE  UNCHANGED HK!vars
  BY DEF SameKeys, HK!vars, CallBar, ResBar, InUse

\* A step of p that only settles the result of its call.
LEMMA Settles ==
  ASSUME NEW q \in Proc, UNCHANGED <<op, arg>>, NEW r,
         \A p \in Proc : p # q => pc'[p] = pc[p],
         ret' = [ret EXCEPT ![q] = r], ret \in [Proc -> Key \cup {None, Err, Done}],
         op[q] # "Query", ret[q] = None,
         op[q] = "Use" => (pc'[q] \in {"test", "rejected"} <=> pc[q] \in {"test", "rejected"})
  PROVE  CallBar' = CallBar /\ HK!Settle(q, r)
  BY DEF HK!Settle, CallBar, ResBar, InUse

\* A call begins: GenerateKey and Close of the device, Sign and ECDH of a key.
LEMMA CallsRefine ==
  ASSUME IInv, NEW q \in Proc,
         \/ \E o \in Op : CallDevice(q, o)
         \/ \E k \in Key : CallKey(q, k)
  PROVE  [HK!Next]_(HK!vars)
  <1> USE DEF IInv
  <1>idle. /\ pc[q] = "idle" /\ op[q] = "Query" /\ arg[q] = 0 /\ ret[q] = None
           /\ SameKeys /\ UNCHANGED ret
    BY DEF CallDevice, CallKey, Goto, devVars, keyVars, SameKeys, CallInv, Path,
           TypeOK, Op
  <1>none. CallBar[q] = HK!NoCall
    BY <1>idle DEF CallBar, HK!NoCall
  <1>device. ASSUME NEW o \in Op, CallDevice(q, o)
             PROVE  [HK!Next]_(HK!vars)
    <2>1. /\ o \in {"Query", "GenerateKey", "Close"}
          /\ pc' = [pc EXCEPT ![q] = "lock"] /\ op' = [op EXCEPT ![q] = o]
          /\ UNCHANGED arg
      BY <1>device DEF CallDevice, Goto
    <2>2. ResBar' = ResBar
      BY <1>idle, <2>1 DEF ResBar, InUse, TypeOK
    <2>3. CASE o = "Query"
      <3>1. CallBar' = CallBar
        BY <1>idle, <2>1, <2>3 DEF CallBar, TypeOK
      <3> QED
        BY <1>idle, <2>2, <3>1 DEF SameKeys, HK!vars
    <2>4. CASE o = "GenerateKey"
      <3>1. CallBar' = [CallBar EXCEPT ![q].op = "generate"]
        BY <1>idle, <2>1, <2>4 DEF CallBar, TypeOK
      <3>2. HK!Invoke(q)
        BY <1>idle, <1>none, <2>2, <3>1 DEF HK!Invoke, SameKeys
      <3> QED
        BY <3>2 DEF HK!Next
    <2>5. CASE o = "Close"
      <3>1. CallBar' = [CallBar EXCEPT ![q].op = "close"]
        BY <1>idle, <2>1, <2>5 DEF CallBar, TypeOK
      <3>2. HK!Invoke(q)
        BY <1>idle, <1>none, <2>2, <3>1 DEF HK!Invoke, SameKeys
      <3> QED
        BY <3>2 DEF HK!Next
    <2> QED
      BY <2>1, <2>3, <2>4, <2>5
  <1>key. ASSUME NEW k \in Key, CallKey(q, k)
          PROVE  [HK!Next]_(HK!vars)
    <2>1. /\ k \in 1..nkeys
          /\ pc' = [pc EXCEPT ![q] = "test"] /\ op' = [op EXCEPT ![q] = "Use"]
          /\ arg' = [arg EXCEPT ![q] = k]
      BY <1>key DEF CallKey, Goto
    <2>2. ResBar' = ResBar
      BY <1>idle, <2>1 DEF ResBar, InUse, TypeOK
    <2>3. CallBar' = [CallBar EXCEPT ![q].op = "use", ![q].key = k]
      BY <1>idle, <2>1 DEF CallBar, TypeOK
    <2>4. HK!Invoke(q)
      BY <1>idle, <1>none, <2>1, <2>2, <2>3 DEF HK!Invoke, SameKeys
    <2> QED
      BY <2>4 DEF HK!Next
  <1> QED
    BY <1>device, <1>key

\* A call is over, when its result is settled.
LEMMA ReturnsRefine ==
  ASSUME IInv, NEW q \in Proc, ReturnEarly(q) \/ Unlock(q)
  PROVE  [HK!Next]_(HK!vars)
  <1> USE DEF IInv
  <1>1. /\ pc[q] \in {"rejected", "panics", "unlock"} /\ ret[q] # None
        /\ pc' = [pc EXCEPT ![q] = "idle"] /\ op' = [op EXCEPT ![q] = "Query"]
        /\ arg' = [arg EXCEPT ![q] = 0] /\ ret' = [ret EXCEPT ![q] = None]
        /\ SameKeys
    BY DEF ReturnEarly, Unlock, Returned, Give, Goto, keyVars, SameKeys, CallInv
  <1>2. CASE op[q] = "Query"
    <2>1. arg[q] = 0
      BY <1>2 DEF CallInv
    <2>2. CallBar' = CallBar /\ ResBar' = ResBar
      BY <1>1, <1>2, <2>1 DEF CallBar, ResBar, InUse, TypeOK
    <2> QED
      BY <1>1, <2>2 DEF HK!vars, SameKeys
  <1>3. CASE op[q] # "Query"
    <2>1. CallBar' = [CallBar EXCEPT ![q] = HK!NoCall]
      BY <1>1 DEF CallBar, TypeOK, HK!NoCall
    <2>2. ResBar' = [ResBar EXCEPT ![q] = None] /\ ResBar[q] # None
      BY <1>1, <1>3 DEF ResBar, InUse, TypeOK
    <2>3. HK!Return(q)
      BY <1>1, <2>1, <2>2 DEF HK!Return, SameKeys
    <2> QED
      BY <2>3 DEF HK!Next
  <1> QED
    BY <1>2, <1>3

\* A call that settles an error has failed, as HardwareKey sees it.
LEMMA FailsRefine ==
  ASSUME IInv, SameKeys, NEW q \in Proc, UNCHANGED <<op, arg>>,
         op[q] \in {"GenerateKey", "Use"}, ret[q] = None,
         ret' = [ret EXCEPT ![q] = Err],
         \A p \in Proc : p # q => pc'[p] = pc[p],
         op[q] = "Use" => (pc'[q] \in {"test", "rejected"} <=> pc[q] \in {"test", "rejected"})
  PROVE  HK!Next
  <1>1. CallBar' = CallBar /\ HK!Settle(q, Err)
    BY Settles DEF IInv, TypeOK
  <1>2. CallBar[q].op \in {"generate", "use"}
    BY DEF CallBar
  <1>3. HK!Fail(q)
    BY <1>1, <1>2 DEF HK!Fail, SameKeys
  <1> QED
    BY <1>3 DEF HK!Next

\* A call on a key is let in, or turned away.
LEMMA TestRefines ==
  ASSUME IInv, NEW q \in Proc, TestDev(q) \/ DerefDev(q)
  PROVE  [HK!Next]_(HK!vars)
  <1> USE DEF IInv
  <1>1. /\ pc[q] \in {"test", "deref"} /\ op[q] = "Use" /\ ret[q] = None
        /\ SameKeys /\ UNCHANGED <<op, arg>>
        /\ \A p \in Proc : p # q => pc'[p] = pc[p]
    BY DEF TestDev, DerefDev, Goto, devVars, keyVars, callVars, SameKeys, CallInv,
           Path, TypeOK, Op
  <1>2. CASE pc'[q] = "deref"
    <2>1. pc[q] = "test" /\ UNCHANGED ret /\ arg[q] \notin dropped
          /\ pc' = [pc EXCEPT ![q] = "deref"]
      BY <1>2 DEF TestDev, DerefDev, KeyOpen, Goto, TypeOK
    <2>2. CallBar' = [CallBar EXCEPT ![q].accepted = TRUE] /\ ResBar' = ResBar
      BY <1>1, <2>1 DEF CallBar, ResBar, InUse, TypeOK
    <2>3. /\ CallBar[q].op = "use" /\ ~CallBar[q].accepted /\ ResBar[q] = None
          /\ CallBar[q].key = arg[q]
      BY <1>1, <2>1 DEF CallBar, ResBar
    <2>4. HK!Accept(q)
      BY <1>1, <2>1, <2>2, <2>3 DEF HK!Accept, SameKeys
    <2> QED
      BY <2>4 DEF HK!Next
  <1>3. CASE pc'[q] = "lock"
    <2>1. pc[q] = "deref" /\ UNCHANGED ret
      BY <1>3 DEF TestDev, DerefDev, Goto, TypeOK
    <2> QED
      BY <1>1, <1>3, <2>1, Invisible
  <1>4. CASE pc'[q] \in {"rejected", "panics"}
    <2>1. /\ ret' = [ret EXCEPT ![q] = Err]
          /\ pc'[q] = "rejected" <=> pc[q] = "test"
      BY <1>4 DEF TestDev, DerefDev, Goto, Give, TypeOK
    <2> QED
      BY <1>1, <1>4, <2>1, FailsRefine
  <1> QED
    BY <1>2, <1>3, <1>4 DEF TestDev, DerefDev, Goto, TypeOK

\* Inside d.mu a call settles its result, or does nothing its caller can see.
LEMMA InsideRefines ==
  ASSUME IInv, NEW q \in Proc,
         \/ Lock(q) \/ Query(q) \/ SRKThere(q) \/ CreatePrimary(q) \/ Load(q)
         \/ Flush(q) \/ CloseFlush(q)
  PROVE  [HK!Next]_(HK!vars)
  <1> USE DEF IInv
  <1>1. /\ SameKeys /\ UNCHANGED <<op, arg>>
        /\ \A p \in Proc : p # q => pc'[p] = pc[p]
        /\ pc[q] \notin {"test", "rejected"} /\ pc'[q] \notin {"test", "rejected"}
    BY DEF Lock, Query, SRKThere, CreatePrimary, Load, Flush, CloseFlush, Goto,
           devVars, keyVars, callVars, SameKeys, AfterSRK, TypeOK
  <1>2. CASE UNCHANGED ret
    BY <1>1, <1>2, Invisible
  <1>3. CASE Query(q)
    <2>1. op[q] = "Query" /\ \A p \in Proc : p # q => ret'[p] = ret[p]
      BY <1>3 DEF Query, Goto, Give, CallInv, Path, TypeOK, Op
    <2> QED
      BY <1>1, <2>1, Invisible
  <1>4. CASE ret' = [ret EXCEPT ![q] = Err] /\ (CreatePrimary(q) \/ Load(q))
    <2>1. op[q] \in {"GenerateKey", "Use"} /\ ret[q] = None
      BY <1>4 DEF CreatePrimary, Load, Goto, CallInv, Path, TypeOK, Op
    <2> QED
      BY <1>1, <1>4, <2>1, FailsRefine
  <1> QED
    BY <1>2, <1>3, <1>4 DEF Lock, SRKThere, CreatePrimary, Load, Flush, CloseFlush,
       Give

\* GenerateKey mints the next key, or fails.
LEMMA CreateRefines ==
  ASSUME IInv, NEW q \in Proc, Create(q)
  PROVE  HK!Next
  <1> USE DEF IInv
  <1>1. /\ pc[q] = "create" /\ op[q] = "GenerateKey" /\ ret[q] = None
        /\ UNCHANGED <<op, arg, dropped, open>>
        /\ pc' = [pc EXCEPT ![q] = "unlock"]
    BY DEF Create, Goto, devVars, callVars, CallInv, Path, TypeOK, Op
  <1>2. CASE ret' = [ret EXCEPT ![q] = Err] /\ nkeys' = nkeys
    BY <1>1, <1>2, FailsRefine DEF SameKeys, TypeOK
  <1>3. CASE open /\ nkeys' = nkeys + 1 /\ ret' = [ret EXCEPT ![q] = nkeys']
    <2>1. nkeys \in Nat /\ nkeys + 1 \in Key
      BY <1>3, CreateStep, Tpm2Assumption DEF TypeOK, Key
    <2>2. CallBar' = CallBar /\ HK!Settle(q, nkeys + 1)
      BY <1>1, <1>3, Settles DEF TypeOK
    <2>3. nkeys + 1 \in Key \ (1..nkeys) /\ 1..nkeys' = (1..nkeys) \cup {nkeys + 1}
      BY <1>3, <2>1
    <2>4. CallBar[q].op = "generate"
      BY <1>1 DEF CallBar
    <2>5. HK!Mint(q)
      BY <1>1, <1>3, <2>2, <2>3, <2>4 DEF HK!Mint
    <2> QED
      BY <2>5 DEF HK!Next
  <1> QED
    BY <1>2, <1>3 DEF Create, Give, Works

\* Sign and ECDH answer with the key they were called on, or fail.
LEMMA UseRefines ==
  ASSUME IInv, NEW q \in Proc, Use(q)
  PROVE  HK!Next
  <1> USE DEF IInv
  <1>1. /\ pc[q] = "use" /\ op[q] = "Use" /\ ret[q] = None /\ slot[hnd[q]] = arg[q]
        /\ UNCHANGED <<op, arg>> /\ SameKeys
        /\ pc' = [pc EXCEPT ![q] = "flush"]
    BY DEF Use, Goto, AlwaysFlushes, devVars, keyVars, callVars, SameKeys, CallInv,
           HandleInv, Path, TypeOK, Op
  <1>2. CASE ret' = [ret EXCEPT ![q] = Err]
    BY <1>1, <1>2, FailsRefine DEF TypeOK
  <1>3. CASE open /\ ret' = [ret EXCEPT ![q] = arg[q]]
    <2>1. CallBar' = CallBar /\ HK!Settle(q, arg[q])
      BY <1>1, <1>3, Settles DEF TypeOK
    <2>2. CallBar[q].op = "use" /\ CallBar[q].accepted /\ CallBar[q].key = arg[q]
      BY <1>1 DEF CallBar
    <2>3. HK!Answer(q)
      BY <1>1, <1>3, <2>1, <2>2 DEF HK!Answer, SameKeys
    <2> QED
      BY <2>3 DEF HK!Next
  <1> QED
    BY <1>1, <1>2, <1>3 DEF Use, Give, KeyHandle, Works

\* Device.Close ends the session.
LEMMA CloseRefines ==
  ASSUME IInv, NEW q \in Proc, CloseTransport(q)
  PROVE  HK!Next
  <1> USE DEF IInv
  <1>1. /\ pc[q] \in {"closing", "closed"} /\ op[q] = "Close" /\ ret[q] = None
        /\ UNCHANGED <<op, arg, nkeys, dropped>> /\ open' = FALSE
        /\ pc' = [pc EXCEPT ![q] = "unlock"]
    BY DEF CloseTransport, Goto, keyVars, callVars, CallInv, Path, TypeOK, Op
  <1>2. PICK r \in {Done, Err} : ret' = [ret EXCEPT ![q] = r]
    BY DEF CloseTransport, Give
  <1>3. CallBar' = CallBar /\ HK!Settle(q, r)
    BY <1>1, <1>2, Settles DEF TypeOK
  <1>4. CallBar[q].op = "close"
    BY <1>1 DEF CallBar
  <1>5. HK!EndSession(q)
    BY <1>1, <1>3, <1>4 DEF HK!EndSession
  <1> QED
    BY <1>5 DEF HK!Next

\* Package tpm2 implements what internal/hwkey promises: every call takes effect
\* at one moment or not at all, on the key it was made on, whatever other calls,
\* closes and faults come between.
THEOREM Refinement == Spec => ImplementsHardwareKey
  <1>init. ASSUME Init PROVE HK!Init
    <2>1. 1..nkeys = {} /\ dropped = {} /\ open = TRUE
      BY <1>init DEF Init
    <2>2. CallBar = [p \in Proc |-> HK!NoCall]
      BY <1>init DEF Init, CallBar, HK!NoCall
    <2>3. ResBar = [p \in Proc |-> None]
      BY <1>init DEF Init, ResBar, InUse
    <2> QED
      BY <2>1, <2>2, <2>3 DEF HK!Init
  <1>next. ASSUME IInv, [Next]_vars PROVE [HK!Next]_(HK!vars)
    <2>1. ASSUME NEW p \in Proc, Step(p) PROVE [HK!Next]_(HK!vars)
      BY <1>next, <2>1, TestRefines, ReturnsRefine, InsideRefines, CreateRefines,
         UseRefines, CloseRefines DEF Step
    <2>2. ASSUME NEW k \in Key, CloseKey(k) PROVE HK!Next
      <3>1. UNCHANGED <<CallBar, ResBar>>
        BY <2>2 DEF CloseKey, keyVars, callVars, devVars, CallBar, ResBar, InUse
      <3>2. HK!CloseKey(k)
        BY <2>2, <3>1 DEF CloseKey, HK!CloseKey, devVars
      <3> QED
        BY <3>2 DEF HK!Next
    <2>3. CASE UNCHANGED vars
      BY <2>3 DEF vars, HK!vars, CallBar, ResBar, InUse
    <2> QED
      BY <1>next, <2>1, <2>2, <2>3, CallsRefine DEF Next
  <1> QED
    BY <1>init, <1>next, Invariance, PTL DEF Spec, ImplementsHardwareKey, HK!Spec
=============================================================================
