-------------------------------- MODULE Tpm2 --------------------------------
(***************************************************************************)
(* Package internal/tpm2: a Device that several goroutines share. A key is *)
(* a wrapped blob in memory; every Sign and ECDH loads it into one of the  *)
(* TPM's few transient slots, uses it and flushes it, all under d.mu. The  *)
(* storage root key that wraps the blobs is loaded on first use and its    *)
(* handle cached in d.srk until Close.                                     *)
(*                                                                         *)
(* A command may fail (an error code, a failed write: the TPM did nothing) *)
(* or be done with its answer lost (a failed read, an answer that does not *)
(* parse), and the code cannot tell these apart.                           *)
(*                                                                         *)
(* Abstractions: a handle is a slot number; a command and its answer are   *)
(* one step, as d.mu serializes them; Sign and ECDH differ in what they    *)
(* compute and not in what they do to the device, and are one action; a    *)
(* closed file descriptor is not reused.                                   *)
(***************************************************************************)
EXTENDS Naturals, FiniteSets

CONSTANTS
  Proc,      \* goroutines
  Slots,     \* transient slots of the TPM (the TCG minimum is 3)
  MaxKeys,   \* bound: keys generated
  MaxFaults, \* bound: commands that fail or lose their answer
  Empty,     \* nothing in a slot
  SRK,       \* the storage root key
  None,      \* no goroutine, no result
  Err,       \* an error
  Done       \* success of a call that returns nothing else

ASSUME Tpm2Assumption ==
  /\ IsFiniteSet(Proc)
  /\ Slots \in Nat \ {0, 1}
  /\ MaxKeys \in Nat /\ MaxFaults \in Nat
  /\ Empty # SRK
  /\ None # Err /\ None # Done
  /\ {Empty, SRK, None, Err, Done} \cap (Nat \cup Proc) = {}

Handle == 1..Slots
Key == 1..MaxKeys
Object == Key \cup {SRK}

VARIABLES
  slot,     \* [Handle -> what the TPM holds there]
  mu,       \* who holds d.mu
  open,     \* is the transport open
  srk,      \* d.srk, 0 if not cached
  nkeys,    \* keys generated
  dropped,  \* keys whose Close was called
  pc,       \* [Proc -> where it is in its call]
  op,       \* [Proc -> the call]
  arg,      \* [Proc -> the key of a Use call]
  hnd,      \* [Proc -> the handle loadLocked returned]
  ret,      \* [Proc -> what the call will return: Err, Done, a new key, or the
            \*          object that signed or agreed]
  faults,   \* commands that went wrong
  lost      \* history: slots whose handle a fault took away

vars == <<slot, mu, open, srk, nkeys, dropped, pc, op, arg, hnd, ret, faults,
          lost>>

tpmVars == <<slot, faults, lost>>
devVars == <<mu, open, srk>>
keyVars == <<nkeys, dropped>>
callVars == <<op, arg>>

Op == {"Query", "GenerateKey", "Use", "Close"}

Goto(p, from, to) == pc[p] = from /\ pc' = [pc EXCEPT ![p] = to]

-----------------------------------------------------------------------------
(* Commands, as d.transact carries them out *)

Free == {h \in Handle : slot[h] = Empty}

\* The handle the TPM gives a new object.
NextSlot == {h \in Free : \A i \in Free : h <= i}

\* The command goes through and the TPM did it.
Works == open /\ UNCHANGED faults

\* It does not: the transport is closed, or there is a fault.
Fault ==
  \/ ~open /\ UNCHANGED faults
  \/ open /\ faults < MaxFaults /\ faults' = faults + 1

\* The command failed and left the slots as they are.
Fails == Fault /\ UNCHANGED <<slot, lost>>

\* The TPM loaded an object but its handle did not come back.
Loses(h, obj) ==
  /\ open
  /\ Fault
  /\ slot' = [slot EXCEPT ![h] = obj]
  /\ lost' = lost \cup {h}

\* The TPM has no slot left (TPM_RC_OBJECT_MEMORY), or no such parent.
Refuses(parentOK) ==
  /\ open
  /\ Free = {} \/ ~parentOK
  /\ UNCHANGED tpmVars

\* An error on the way: the call returns it.
Give(p, e) == ret' = [ret EXCEPT ![p] = e]

-----------------------------------------------------------------------------
(* Calls *)

\* Keys there are or will be.
Generating ==
  nkeys + Cardinality({p \in Proc : pc[p] # "idle" /\ op[p] = "GenerateKey"})

\* GetRandom, Info, GenerateKey or Device.Close is called,
CallDevice(p, o) ==
  /\ o \in {"Query", "GenerateKey", "Close"}
  /\ o = "GenerateKey" => Generating < MaxKeys
  /\ Goto(p, "idle", "lock")
  /\ op' = [op EXCEPT ![p] = o]
  /\ UNCHANGED <<tpmVars, devVars, keyVars, arg, hnd, ret>>

\* or Sign or ECDH of a key. (With a digest of a wrong length Sign returns an
\* error at once.)
CallKey(p, k) ==
  /\ k \in 1..nkeys
  /\ Goto(p, "idle", "test")
  /\ op' = [op EXCEPT ![p] = "Use"]
  /\ arg' = [arg EXCEPT ![p] = k]
  /\ UNCHANGED <<tpmVars, devVars, keyVars, hnd, ret>>

\* They test k.dev,
Untested(k) == TRUE
KeyOpen(k) == k \notin dropped

TestDev(p) ==
  /\ \/ Goto(p, "test", "deref") /\ KeyOpen(arg[p]) /\ UNCHANGED ret
     \/ Goto(p, "test", "rejected") /\ ~KeyOpen(arg[p]) /\ Give(p, Err)
  /\ UNCHANGED <<tpmVars, devVars, keyVars, callVars, hnd>>

\* and read it again: no lock orders this with Key.Close on another goroutine,
\* so that d may be nil (d.mu.Lock() panics) or what the test has read.
DerefDev(p) ==
  /\ \/ Goto(p, "deref", "lock") /\ UNCHANGED ret
     \/ Goto(p, "deref", "panics") /\ arg[p] \in dropped /\ Give(p, Err)
  /\ UNCHANGED <<tpmVars, devVars, keyVars, callVars, hnd>>

\* Key.Close: there is nothing in the TPM to release.
CloseKey(k) ==
  /\ k \in 1..nkeys
  /\ dropped' = dropped \cup {k}
  /\ UNCHANGED <<tpmVars, devVars, nkeys, pc, callVars, hnd, ret>>

\* The call is over.
Returned(p) ==
  /\ op' = [op EXCEPT ![p] = "Query"]
  /\ arg' = [arg EXCEPT ![p] = 0]
  /\ Give(p, None)
  /\ UNCHANGED <<tpmVars, open, srk, keyVars, hnd>>

\* It never came to the lock.
ReturnEarly(p) ==
  /\ Goto(p, "rejected", "idle") \/ Goto(p, "panics", "idle")
  /\ Returned(p)
  /\ UNCHANGED mu

\* d.mu.Lock(), for the whole call.
Lock(p) ==
  /\ mu = None
  /\ mu' = p
  /\ Goto(p, "lock", CASE op[p] = "Query" -> "query"
                       [] op[p] = "Close" -> "closing"
                       [] OTHER -> "srk")
  /\ UNCHANGED <<tpmVars, open, srk, keyVars, callVars, hnd, ret>>

\* The deferred d.mu.Unlock(), on every path.
MuKept(p) == p
MuReleased(p) == None

Unlock(p) ==
  /\ Goto(p, "unlock", "idle")
  /\ mu' = MuReleased(p)
  /\ Returned(p)

\* GetRandom and GetCapability leave the TPM as it is.
Query(p) ==
  /\ Goto(p, "query", "unlock")
  /\ \/ Works /\ Give(p, Done)
     \/ Fails /\ Give(p, Err)
     \/ UNCHANGED faults /\ Give(p, Err) \* a count out of range
  /\ UNCHANGED <<slot, lost, devVars, keyVars, callVars, hnd>>

-----------------------------------------------------------------------------
(* The storage root key *)

SRKCached == srk # 0

AfterSRK(p) == IF op[p] = "GenerateKey" THEN "create" ELSE "load"

\* ensureSRKLocked finds the handle cached, or
SRKThere(p) ==
  /\ SRKCached
  /\ Goto(p, "srk", AfterSRK(p))
  /\ UNCHANGED <<tpmVars, devVars, keyVars, callVars, hnd, ret>>

\* issues CreatePrimary, once: a failure ends the call.
CreatePrimary(p) ==
  /\ ~SRKCached
  /\ \/ \E h \in NextSlot :
          /\ Works
          /\ slot' = [slot EXCEPT ![h] = SRK]
          /\ srk' = h
          /\ Goto(p, "srk", AfterSRK(p))
          /\ UNCHANGED <<ret, lost>>
     \/ /\ Goto(p, "srk", "unlock")
        /\ Fails \/ Refuses(TRUE) \/ \E h \in NextSlot : Loses(h, SRK)
        /\ Give(p, Err)
        /\ UNCHANGED srk
  /\ UNCHANGED <<mu, open, keyVars, callVars, hnd>>

-----------------------------------------------------------------------------
(* Keys *)

\* GenerateKey: Create under the storage root key takes no slot of its own.
Create(p) ==
  /\ Goto(p, "create", "unlock")
  /\ \/ /\ Works
        /\ slot[srk] = SRK
        /\ nkeys' = nkeys + 1
        /\ Give(p, nkeys')
        /\ UNCHANGED <<slot, lost>>
     \/ /\ \/ Fails
           \/ Works /\ slot[srk] # SRK /\ UNCHANGED <<slot, lost>>
        /\ Give(p, Err)
        /\ UNCHANGED nkeys
  /\ UNCHANGED <<devVars, dropped, callVars, hnd>>

\* loadLocked: Load the blob under the storage root key.
Load(p) ==
  \/ /\ Goto(p, "load", "use")
     /\ Works
     /\ slot[srk] = SRK
     /\ \E h \in NextSlot :
          /\ slot' = [slot EXCEPT ![h] = arg[p]]
          /\ hnd' = [hnd EXCEPT ![p] = h]
     /\ UNCHANGED <<lost, devVars, keyVars, callVars, ret>>
  \/ /\ Goto(p, "load", "unlock")
     /\ Give(p, Err)
     /\ \/ Fails
        \/ Refuses(slot[srk] = SRK)
        \/ slot[srk] = SRK /\ \E h \in NextSlot : Loses(h, arg[p])
     /\ UNCHANGED <<devVars, keyVars, callVars, hnd>>

\* The handle Sign and ECDH authorize, and where they go from there: the
\* deferred flush runs when the command fails too.
RootHandle(p) == srk
KeyHandle(p) == hnd[p]
SkipsFlush(e) == IF e = Err THEN "unlock" ELSE "flush"
AlwaysFlushes(e) == "flush"

\* The command, and the answer, which may not parse, or may make the copy into
\* the result panic; the panic goes on after the deferred calls.
Use(p) ==
  /\ \E e \in Object \cup {Err} :
       /\ Goto(p, "use", AlwaysFlushes(e))
       /\ Give(p, e)
       /\ IF e = Err
          THEN Fails
          ELSE Works /\ e = slot[KeyHandle(p)] /\ UNCHANGED <<slot, lost>>
  /\ UNCHANGED <<devVars, keyVars, callVars, hnd>>

\* flushLocked, whose error nobody looks at.
FlushContext(h) ==
  \/ /\ Works \/ (open /\ Fault)
     /\ slot' = [slot EXCEPT ![h] = Empty]
     /\ UNCHANGED lost
  \/ Fault /\ lost' = lost \cup {h} /\ UNCHANGED slot

Flush(p) ==
  /\ Goto(p, "flush", "unlock")
  /\ FlushContext(hnd[p])
  /\ hnd' = [hnd EXCEPT ![p] = 0]
  /\ UNCHANGED <<devVars, keyVars, callVars, ret>>

\* Device.Close: the cached handle is flushed and forgotten, then the transport
\* is closed. d.t stays set, so that a second Close closes it again.
KeepsSRK == srk
ForgetsSRK == 0

CloseFlush(p) ==
  /\ srk # 0
  /\ Goto(p, "closing", "closed")
  /\ FlushContext(srk)
  /\ srk' = ForgetsSRK
  /\ UNCHANGED <<mu, open, keyVars, callVars, hnd, ret>>

CloseTransport(p) ==
  /\ \/ Goto(p, "closing", "unlock") /\ srk = 0
     \/ Goto(p, "closed", "unlock")
  /\ open' = FALSE
  /\ Give(p, IF open THEN Done ELSE Err)
  /\ UNCHANGED <<tpmVars, mu, srk, keyVars, callVars, hnd>>

-----------------------------------------------------------------------------
Init ==
  /\ slot = [h \in Handle |-> Empty]
  /\ mu = None
  /\ open = TRUE
  /\ srk = 0
  /\ nkeys = 0
  /\ dropped = {}
  /\ pc = [p \in Proc |-> "idle"]
  /\ op = [p \in Proc |-> "Query"]
  /\ arg = [p \in Proc |-> 0]
  /\ hnd = [p \in Proc |-> 0]
  /\ ret = [p \in Proc |-> None]
  /\ faults = 0
  /\ lost = {}

Step(p) ==
  \/ TestDev(p)
  \/ DerefDev(p)
  \/ ReturnEarly(p)
  \/ Lock(p)
  \/ Unlock(p)
  \/ Query(p)
  \/ SRKThere(p)
  \/ CreatePrimary(p)
  \/ Create(p)
  \/ Load(p)
  \/ Use(p)
  \/ Flush(p)
  \/ CloseFlush(p)
  \/ CloseTransport(p)

Next ==
  \/ \E p \in Proc, o \in Op : CallDevice(p, o)
  \/ \E p \in Proc, k \in Key : CallKey(p, k)
  \/ \E k \in Key : CloseKey(k)
  \/ \E p \in Proc : Step(p)

Spec == Init /\ [][Next]_vars

\* Goroutines are scheduled, a command comes to an end, and a Mutex in
\* starvation mode goes to the longest waiter.
Fairness == \A p \in Proc : WF_vars(Step(p)) /\ SF_vars(Lock(p))

FairSpec == Spec /\ Fairness

-----------------------------------------------------------------------------
(* Properties *)

\* Every variable has its type.
TypeOK ==
  /\ slot \in [Handle -> Object \cup {Empty}]
  /\ mu \in Proc \cup {None}
  /\ open \in BOOLEAN
  /\ srk \in Handle \cup {0}
  /\ nkeys \in 0..MaxKeys
  /\ dropped \in SUBSET (1..nkeys)
  /\ pc \in [Proc -> {"idle", "test", "deref", "rejected", "panics", "lock",
                      "query", "srk", "create", "load", "use", "flush",
                      "closing", "closed", "unlock"}]
  /\ op \in [Proc -> Op]
  /\ arg \in [Proc -> Key \cup {0}]
  /\ hnd \in [Proc -> Handle \cup {0}]
  /\ ret \in [Proc -> Key \cup {None, Err, Done}]
  /\ faults \in 0..MaxFaults
  /\ lost \in SUBSET Handle

Resident == {h \in Handle : slot[h] # Empty}

\* "only the SRK plus one working slot resident at a time": whatever else is in
\* the TPM got there by a fault, and never by an error path that forgot it.
\* Without faults a TPM with two slots serves any number of keys.
SlotsAccounted ==
  \A h \in Resident \ lost :
    \/ h = srk
    \/ \E p \in Proc : mu = p /\ hnd[p] = h

\* The cached handle is the storage root key's as long as it is cached, over
\* every failed call; and none is cached once the transport is closed, when the
\* slot may be anybody's.
CachedSRKIsValid == srk # 0 => open /\ slot[srk] = SRK /\ srk \notin lost

InUse(p) == op[p] # "Query"

\* The call a goroutine is in and its result, as a caller of hwkey sees them.
CallBar ==
  [p \in Proc |->
     [op |-> CASE op[p] = "GenerateKey" -> "generate"
               [] op[p] = "Close" -> "close"
               [] op[p] = "Use" -> "use"
               [] OTHER -> "none",
      key |-> arg[p],
      accepted |-> op[p] = "Use" /\ pc[p] \notin {"test", "rejected"}]]

ResBar == [p \in Proc |-> IF InUse(p) THEN ret[p] ELSE None]

HK == INSTANCE HardwareKey WITH
  minted <- 1..nkeys, closed <- dropped, session <- open,
  call <- CallBar, res <- ResBar

\* The package is a linearizable implementation of what internal/hwkey says of
\* keys and providers: whoever loads, flushes and closes other keys meanwhile,
\* Sign and ECDH answer with the key they were called on or not at all; a key
\* that is closed lets nobody in, and nothing succeeds once the device is closed.
ImplementsHardwareKey == HK!Spec

\* Every call returns, on its error paths too.
CallsReturn == \A p \in Proc : pc[p] # "idle" ~> pc[p] = "idle"
=============================================================================
