--------------------------- MODULE IdentityProofs ---------------------------
(***************************************************************************)
(* Proofs about module Identity, for any number of goroutine descriptors,  *)
(* threads, addresses, client packages and mints.                          *)
(***************************************************************************)
EXTENDS Identity, TLAPS

Early == boot \in {"schedinit", "initIdentity"}

\* Before runtime.main starts nothing runs, nothing has been minted and only
\* m0.g0 has any provenance; afterwards m0.g0 keeps the first mint's block.
BootInv ==
  /\ Early => /\ minted = 0
              /\ deferred = Nil
              /\ prov[G0].identity = Nil
              /\ \A x \in Gs \ {G0} : prov[x] = ZeroProvenance
  /\ boot = "initIdentity" => prov[G0].instanceID = 1
  /\ boot \in {"schedinit", "initIdentity", "rt0"} =>
       \A g \in G : gstat[g] = "none"
  /\ ~Early => /\ prov[G0].identity \in Addr
               /\ binc[prov[G0].identity] = 1
  /\ boot \in {"lateInit", "main"} => ready

\* Whatever refers to a block refers to a live one, and carries its number.
RefInv ==
  /\ \A x \in Gs : prov[x].identity # Nil =>
       /\ bstate[prov[x].identity] = "live"
       /\ prov[x].instanceID = binc[prov[x].identity]
  /\ \A g \in G : spark[g].block # Nil =>
       /\ bstate[spark[g].block] = "live"
       /\ spark[g].iid = binc[spark[g].block]
  /\ \A a \in held : bstate[a] = "live"
  /\ deferred # Nil => bstate[deferred] = "live"

\* A goroutine inside janosSpark has an identity and carries a new block.
SparkInv ==
  \A g \in G : gstat[g] \in {"spark", "install"} =>
    spark[g].block # Nil /\ prov[g].identity # Nil

\* Mint numbers are unique and at most minted; objects have one.
MintInv ==
  /\ \A a \in Addr : binc[a] <= minted
  /\ \A a, b \in Addr : binc[a] = binc[b] => a = b \/ binc[a] = 0
  /\ \A a \in Addr : bstate[a] # "free" => binc[a] # 0

\* Finalizers are on live blocks, and the finalizer goroutine has a queued one.
FinInv ==
  /\ \A a \in Addr : bfin[a] => bstate[a] = "live"
  /\ fing.block # Nil => bstate[fing.block] = "queued"
  /\ fing.block = Nil => fing.todo = {}

\* An entry is for the block at its address, and as long as it is there its
\* hook still has to be called for that block.
KeyInv ==
  \A h \in Hook, a \in Addr : table[h][a] # 0 =>
    /\ table[h][a] = binc[a]
    /\ h \in hooks
    /\ bstate[a] \in {"live", "queued"}
    /\ fing.block = a => h \in fing.todo

IInv ==
  /\ TypeOK
  /\ BootInv
  /\ RefInv
  /\ SparkInv
  /\ MintInv
  /\ FinInv
  /\ FinalizerNotLost
  /\ KeyInv
  /\ WholeProvenance

\* The action SchedinitProvenance keeps IInv.
LEMMA SchedinitProvenanceStep ==
  ASSUME IInv, SchedinitProvenance
  PROVE  IInv'
  <1> USE IdentityAssumption
      DEF IInv, SchedinitProvenance, heapVars, finVars, clientVars, Gs,
          Block, ZeroProvenance
  <1>1. TypeOK'
    <2>trust. PICK t \in TrustLevel :
            prov' = [prov EXCEPT ![G0] = [prov[G0] EXCEPT !.instanceID = 1,
                                                          !.trustLevel = t]]
      OBVIOUS
    <2>before. prov \in [Gs -> gProvenance] /\ prov[G0] \in gProvenance
      BY DEF TypeOK
    <2>one. 1 \in 0..MaxMint
      OBVIOUS
    <2>record. [prov[G0] EXCEPT !.instanceID = 1, !.trustLevel = t] \in gProvenance
      BY <2>before, <2>one DEF gProvenance
    <2>prov. prov' \in [Gs -> gProvenance]
      BY <2>trust, <2>before, <2>record
    <2> QED
      BY <2>prov DEF TypeOK, BootPhase
  <1>2. (MintInv /\ FinInv /\ FinalizerNotLost /\ KeyInv
         /\ WholeProvenance)'
    BY DEF MintInv, FinInv, FinalizerNotLost, KeyInv, WholeProvenance
  <1>3. BootInv'
    BY DEF BootInv, Early, TypeOK
  <1>4. RefInv'
    BY DEF RefInv, BootInv, Early, TypeOK, gProvenance
  <1>5. SparkInv'
    BY DEF SparkInv, TypeOK
  <1>6. QED
    BY <1>1, <1>2, <1>3, <1>4, <1>5

\* The action janosInitIdentity keeps IInv.
LEMMA janosInitIdentityStep ==
  ASSUME IInv, janosInitIdentity
  PROVE  IInv'
  <1> USE IdentityAssumption
      DEF IInv, janosInitIdentity, janosMintIdentity, FinalizerAtMint,
          heapVars, finVars, clientVars, Gs, Block, ZeroProvenance
  <1>1. TypeOK'
    <2>prov. prov' \in [Gs -> gProvenance]
      <3>1. PICK a \in Addr : prov' = [prov EXCEPT ![G0].identity = a]
        OBVIOUS
      <3>2. prov \in [Gs -> gProvenance] /\ prov[G0] \in gProvenance
        BY DEF TypeOK
      <3>3. [prov[G0] EXCEPT !.identity = a] \in gProvenance
        BY <3>2 DEF gProvenance
      <3>4. QED
        BY <3>1, <3>2, <3>3
    <2>bfin. bfin' \in [Addr -> BOOLEAN]
      BY DEF TypeOK
    <2>minted. deferred' \in Block /\ minted' \in 0..MaxMint
      BY DEF TypeOK
    <2>bstate. bstate' \in [Addr -> {"free", "live", "queued", "finalized"}]
      BY DEF TypeOK
    <2>binc. binc' \in [Addr -> 0..MaxMint]
      BY DEF TypeOK
    <2> QED
      BY <2>prov, <2>bfin, <2>minted, <2>bstate, <2>binc DEF TypeOK, BootPhase
  <1>2. (SparkInv /\ KeyInv)'
    BY DEF SparkInv, KeyInv
  <1>3. BootInv'
    BY DEF BootInv, Early, TypeOK
  <1>4. RefInv'
    BY DEF RefInv, BootInv, Early, TypeOK, gProvenance
  <1>5. MintInv'
    BY DEF MintInv, TypeOK
  <1>6. FinInv'
    BY DEF FinInv, TypeOK
  <1>7. FinalizerNotLost'
    BY DEF FinalizerNotLost, BootInv, Early, TypeOK, gProvenance
  <1>8. WholeProvenance'
    BY DEF WholeProvenance, BootInv, Early, TypeOK, gProvenance
  <1>9. QED
    BY <1>1, <1>2, <1>3, <1>4, <1>5, <1>6, <1>7, <1>8

\* The action StartMain keeps IInv.
LEMMA StartMainStep ==
  ASSUME IInv, StartMain
  PROVE  IInv'
  <1> USE IdentityAssumption
      DEF IInv, StartMain, newproc1, Spawnable, heapVars, finVars,
          clientVars, Gs, Block, ZeroProvenance
  <1>1. TypeOK'
    BY DEF TypeOK, BootPhase, gProvenance, TrustLevel, TrustNone, TrustSelfAttested,
           TrustJanosReleased
  <1>2. (BootInv /\ RefInv /\ SparkInv /\ MintInv
         /\ FinInv /\ FinalizerNotLost /\ KeyInv /\ WholeProvenance)'
    BY DEF BootInv, RefInv, SparkInv, MintInv, FinInv, FinalizerNotLost,
           KeyInv, WholeProvenance, Early
  <1>3. QED
    BY <1>1, <1>2

\* The action janosRegisterBlockFinalizedHook keeps IInv.
LEMMA janosRegisterBlockFinalizedHookStep ==
  ASSUME IInv, NEW h \in Hook, janosRegisterBlockFinalizedHook(h)
  PROVE  IInv'
  <1> USE IdentityAssumption
      DEF IInv, janosRegisterBlockFinalizedHook, heapVars, finVars,
          clientVars, Gs, Block, ZeroProvenance
  <1>1. TypeOK'
    BY DEF TypeOK, BootPhase, gProvenance, TrustLevel, TrustNone, TrustSelfAttested,
           TrustJanosReleased
  <1>2. (BootInv /\ RefInv /\ SparkInv /\ MintInv
         /\ FinInv /\ FinalizerNotLost /\ KeyInv /\ WholeProvenance)'
    BY DEF BootInv, RefInv, SparkInv, MintInv, FinInv, FinalizerNotLost,
           KeyInv, WholeProvenance, Early
  <1>3. QED
    BY <1>1, <1>2

\* The action janosLateFinalizerInit keeps IInv.
LEMMA janosLateFinalizerInitStep ==
  ASSUME IInv, janosLateFinalizerInit
  PROVE  IInv'
  <1> USE IdentityAssumption
      DEF IInv, janosLateFinalizerInit, heapVars, finVars, clientVars,
          Gs, Block, ZeroProvenance
  <1>1. TypeOK'
    BY DEF TypeOK, BootPhase, gProvenance, TrustLevel, TrustNone, TrustSelfAttested,
           TrustJanosReleased
  <1>2. (BootInv /\ RefInv /\ SparkInv /\ MintInv
         /\ KeyInv /\ WholeProvenance)'
    BY DEF BootInv, RefInv, SparkInv, MintInv, KeyInv, WholeProvenance,
           Early
  <1>3. FinInv'
    BY DEF FinInv, RefInv, TypeOK, gProvenance
  <1>4. FinalizerNotLost'
    BY DEF FinalizerNotLost, RefInv, TypeOK
  <1>5. QED
    BY <1>1, <1>2, <1>3, <1>4

\* The action janosMaybeCloseGenesisPhase keeps IInv.
LEMMA janosMaybeCloseGenesisPhaseStep ==
  ASSUME IInv, janosMaybeCloseGenesisPhase
  PROVE  IInv'
  <1> USE IdentityAssumption
      DEF IInv, janosMaybeCloseGenesisPhase, heapVars, finVars,
          clientVars, Gs, Block, ZeroProvenance
  <1>1. TypeOK'
    BY DEF TypeOK, BootPhase, gProvenance, TrustLevel, TrustNone, TrustSelfAttested,
           TrustJanosReleased
  <1>2. (BootInv /\ RefInv /\ SparkInv /\ MintInv
         /\ FinInv /\ FinalizerNotLost /\ KeyInv /\ WholeProvenance)'
    BY DEF BootInv, RefInv, SparkInv, MintInv, FinInv, FinalizerNotLost,
           KeyInv, WholeProvenance, Early
  <1>3. QED
    BY <1>1, <1>2

\* The action Go keeps IInv.
LEMMA GoStep ==
  ASSUME IInv, NEW g \in G, NEW ng \in G, Go(g, ng)
  PROVE  IInv'
  <1> USE IdentityAssumption
      DEF IInv, Go, newproc1, Spawnable, heapVars, finVars, clientVars,
          Gs, Block, ZeroProvenance
  <1>1. TypeOK'
    BY DEF TypeOK, BootPhase, gProvenance, TrustLevel, TrustNone, TrustSelfAttested,
           TrustJanosReleased
  <1>2. (BootInv /\ RefInv /\ SparkInv /\ MintInv
         /\ FinInv /\ FinalizerNotLost /\ KeyInv /\ WholeProvenance)'
    BY DEF BootInv, RefInv, SparkInv, MintInv, FinInv, FinalizerNotLost,
           KeyInv, WholeProvenance, Early
  <1>3. QED
    BY <1>1, <1>2

\* The action TimerGo keeps IInv.
LEMMA TimerGoStep ==
  ASSUME IInv, NEW m \in {G0} \cup OtherG0, NEW ng \in G, TimerGo(m, ng)
  PROVE  IInv'
  <1> USE IdentityAssumption
      DEF IInv, TimerGo, newproc1, Spawnable, heapVars, finVars,
          clientVars, Gs, Block, ZeroProvenance
  <1>1. TypeOK'
    BY DEF TypeOK, BootPhase, gProvenance, TrustLevel, TrustNone, TrustSelfAttested,
           TrustJanosReleased
  <1>2. (BootInv /\ RefInv /\ SparkInv /\ MintInv
         /\ FinInv /\ FinalizerNotLost /\ KeyInv /\ WholeProvenance)'
    BY DEF BootInv, RefInv, SparkInv, MintInv, FinInv, FinalizerNotLost,
           KeyInv, WholeProvenance, Early
  <1>3. QED
    BY <1>1, <1>2

\* The action CgoCallback keeps IInv.
LEMMA CgoCallbackStep ==
  ASSUME IInv, NEW ng \in G, CgoCallback(ng)
  PROVE  IInv'
  <1> USE IdentityAssumption
      DEF IInv, CgoCallback, heapVars, finVars, clientVars, Gs, Block,
          ZeroProvenance
  <1>1. TypeOK'
    BY DEF TypeOK, BootPhase, gProvenance, TrustLevel, TrustNone, TrustSelfAttested,
           TrustJanosReleased
  <1>2. (BootInv /\ RefInv /\ SparkInv /\ MintInv
         /\ FinInv /\ FinalizerNotLost /\ KeyInv /\ WholeProvenance)'
    BY DEF BootInv, RefInv, SparkInv, MintInv, FinInv, FinalizerNotLost,
           KeyInv, WholeProvenance, Early
  <1>3. QED
    BY <1>1, <1>2

\* The action SparkMint keeps IInv.
LEMMA SparkMintStep ==
  ASSUME IInv, NEW g \in G, SparkMint(g)
  PROVE  IInv'
  <1> USE IdentityAssumption
      DEF IInv, SparkMint, janosMintIdentity, FinalizerAtMint,
          PhaseClosed, CallerHasIdentity, ParentKept, heapVars,
          finVars, clientVars, Gs, Block, ZeroProvenance
  <1>1. TypeOK'
    <2>spark. spark' \in [G -> [block: Block, iid: 0..MaxMint]]
      BY DEF TypeOK
    <2>bfin. bfin' \in [Addr -> BOOLEAN]
      BY DEF TypeOK
    <2>minted. deferred' \in Block /\ minted' \in 0..MaxMint
      BY DEF TypeOK
    <2>bstate. bstate' \in [Addr -> {"free", "live", "queued", "finalized"}]
      BY DEF TypeOK
    <2>binc. binc' \in [Addr -> 0..MaxMint]
      BY DEF TypeOK
    <2> QED
      BY <2>spark, <2>bfin, <2>minted, <2>bstate, <2>binc DEF TypeOK, BootPhase
  <1>2. (KeyInv /\ WholeProvenance)'
    BY DEF KeyInv, WholeProvenance
  <1>3. BootInv'
    BY DEF BootInv, Early, RefInv, TypeOK, gProvenance
  <1>4. RefInv'
    BY DEF RefInv, TypeOK
  <1>5. SparkInv'
    BY DEF SparkInv, TypeOK
  <1>6. MintInv'
    BY DEF MintInv, TypeOK
  <1>7. FinInv'
    BY DEF FinInv, TypeOK
  <1>8. FinalizerNotLost'
    BY DEF FinalizerNotLost, BootInv, Early, TypeOK, gProvenance
  <1>9. QED
    BY <1>1, <1>2, <1>3, <1>4, <1>5, <1>6, <1>7, <1>8

\* The action SparkGo keeps IInv.
LEMMA SparkGoStep ==
  ASSUME IInv, NEW g \in G, NEW ng \in G, SparkGo(g, ng)
  PROVE  IInv'
  <1> USE IdentityAssumption
      DEF IInv, SparkGo, Spawnable, NoSpark, heapVars, finVars,
          clientVars, Gs, Block, ZeroProvenance
  <1>1. TypeOK'
    <2>1. prov' \in [Gs -> gProvenance]
      BY DEF TypeOK
    <2>2. gstat' \in [G -> {"none", "free", "run", "spark", "install"}]
      BY DEF TypeOK
    <2>3. spark' \in [G -> [block: Block, iid: 0..MaxMint]]
      <3>1. /\ spark \in [G -> [block: Block, iid: 0..MaxMint]]
            /\ spark[g] \in [block: Block, iid: 0..MaxMint]
        BY DEF TypeOK
      <3>2. 0 \in 0..MaxMint
        OBVIOUS
      <3>3. NoSpark \in [block: Block, iid: 0..MaxMint]
        BY <3>2
      <3>4. QED
        BY <3>1, <3>3
    <2>4. QED
      BY <2>1, <2>2, <2>3 DEF TypeOK, BootPhase
  <1>2. (BootInv /\ MintInv /\ FinInv /\ FinalizerNotLost
         /\ KeyInv /\ WholeProvenance)'
    BY DEF BootInv, MintInv, FinInv, FinalizerNotLost, KeyInv,
           WholeProvenance, Early
  <1>3. RefInv'
    BY DEF RefInv, BootInv, Early, FinInv, TypeOK, gProvenance
  <1>4. SparkInv'
    BY DEF SparkInv, TypeOK
  <1>5. QED
    BY <1>1, <1>2, <1>3, <1>4

\* The action SparkInstall keeps IInv.
LEMMA SparkInstallStep ==
  ASSUME IInv, NEW g \in G, SparkInstall(g)
  PROVE  IInv'
  <1> USE IdentityAssumption
      DEF IInv, SparkInstall, Installed, NoSpark, heapVars, finVars,
          clientVars, Gs, Block, ZeroProvenance
  <1>1. TypeOK'
    <2>1. prov' \in [Gs -> gProvenance]
      <3>1. prov \in [Gs -> gProvenance] /\ prov[g] \in gProvenance
        BY DEF TypeOK
      <3>2. spark[g].block \in Block /\ spark[g].iid \in 0..MaxMint
        BY DEF TypeOK
      <3>3. Installed(g) \in gProvenance
        BY <3>1, <3>2 DEF gProvenance
      <3>4. QED
        BY <3>1, <3>3
    <2>2. spark' \in [G -> [block: Block, iid: 0..MaxMint]]
      BY DEF TypeOK
    <2>3. QED
      BY <2>1, <2>2 DEF TypeOK, BootPhase
  <1>2. (BootInv /\ RefInv /\ MintInv /\ FinInv
         /\ FinalizerNotLost /\ KeyInv)'
    BY DEF BootInv, RefInv, MintInv, FinInv, FinalizerNotLost, KeyInv,
           Early
  <1>3. SparkInv'
    BY DEF SparkInv, TypeOK
  <1>4. WholeProvenance'
    BY DEF WholeProvenance, SparkInv, RefInv, MintInv, BootInv, Early, TypeOK,
           gProvenance
  <1>5. QED
    BY <1>1, <1>2, <1>3, <1>4

\* The action Goexit keeps IInv.
LEMMA GoexitStep ==
  ASSUME IInv, NEW g \in G, Goexit(g)
  PROVE  IInv'
  <1> USE IdentityAssumption
      DEF IInv, Goexit, StatusDead, heapVars, finVars, clientVars, Gs,
          Block, ZeroProvenance
  <1>1. TypeOK'
    BY DEF TypeOK, BootPhase, gProvenance, TrustLevel, TrustNone, TrustSelfAttested,
           TrustJanosReleased
  <1>2. (BootInv /\ RefInv /\ SparkInv /\ MintInv
         /\ FinInv /\ FinalizerNotLost /\ KeyInv /\ WholeProvenance)'
    BY DEF BootInv, RefInv, SparkInv, MintInv, FinInv, FinalizerNotLost,
           KeyInv, WholeProvenance, Early
  <1>3. QED
    BY <1>1, <1>2

\* The action Identify keeps IInv.
LEMMA IdentifyStep ==
  ASSUME IInv, NEW g \in G, Identify(g)
  PROVE  IInv'
  <1> USE IdentityAssumption
      DEF IInv, Identify, heapVars, finVars, clientVars, Gs, Block,
          ZeroProvenance
  <1>1. TypeOK'
    BY DEF TypeOK, BootPhase, gProvenance, TrustLevel, TrustNone, TrustSelfAttested,
           TrustJanosReleased
  <1>2. (BootInv /\ RefInv /\ SparkInv /\ MintInv
         /\ FinInv /\ FinalizerNotLost /\ KeyInv /\ WholeProvenance)'
    BY DEF BootInv, RefInv, SparkInv, MintInv, FinInv, FinalizerNotLost,
           KeyInv, WholeProvenance, Early
  <1>3. QED
    BY <1>1, <1>2

\* The action DropIdentity keeps IInv.
LEMMA DropIdentityStep ==
  ASSUME IInv, NEW a \in Addr, DropIdentity(a)
  PROVE  IInv'
  <1> USE IdentityAssumption
      DEF IInv, DropIdentity, heapVars, finVars, clientVars, Gs, Block,
          ZeroProvenance
  <1>1. TypeOK'
    BY DEF TypeOK, BootPhase, gProvenance, TrustLevel, TrustNone, TrustSelfAttested,
           TrustJanosReleased
  <1>2. (BootInv /\ RefInv /\ SparkInv /\ MintInv
         /\ FinInv /\ FinalizerNotLost /\ KeyInv /\ WholeProvenance)'
    BY DEF BootInv, RefInv, SparkInv, MintInv, FinInv, FinalizerNotLost,
           KeyInv, WholeProvenance, Early
  <1>3. QED
    BY <1>1, <1>2

\* The action Lookup keeps IInv.
LEMMA LookupStep ==
  ASSUME IInv, NEW g \in G, NEW h \in Hook, Lookup(g, h)
  PROVE  IInv'
  <1> USE IdentityAssumption
      DEF IInv, Lookup, heapVars, finVars, clientVars, Gs, Block,
          ZeroProvenance
  <1>1. TypeOK'
    BY DEF TypeOK, BootPhase, gProvenance, TrustLevel, TrustNone, TrustSelfAttested,
           TrustJanosReleased
  <1>2. (BootInv /\ RefInv /\ SparkInv /\ MintInv
         /\ FinInv /\ FinalizerNotLost /\ WholeProvenance)'
    BY DEF BootInv, RefInv, SparkInv, MintInv, FinInv, FinalizerNotLost,
           WholeProvenance, Early
  <1>3. KeyInv'
    BY DEF KeyInv, RefInv, FinInv, TypeOK, gProvenance
  <1>4. QED
    BY <1>1, <1>2, <1>3

\* The action LookupWithoutIdentity keeps IInv.
LEMMA LookupWithoutIdentityStep ==
  ASSUME IInv, NEW g \in G, LookupWithoutIdentity(g)
  PROVE  IInv'
  <1> USE IdentityAssumption
      DEF IInv, LookupWithoutIdentity, heapVars, finVars, clientVars,
          Gs, Block, ZeroProvenance
  <1>1. TypeOK'
    BY DEF TypeOK, BootPhase, gProvenance, TrustLevel, TrustNone, TrustSelfAttested,
           TrustJanosReleased
  <1>2. (BootInv /\ RefInv /\ SparkInv /\ MintInv
         /\ FinInv /\ FinalizerNotLost /\ KeyInv)'
    BY DEF BootInv, RefInv, SparkInv, MintInv, FinInv, FinalizerNotLost,
           KeyInv, Early
  <1>3. WholeProvenance'
    BY DEF WholeProvenance, BootInv, Early, TypeOK, gProvenance
  <1>4. QED
    BY <1>1, <1>2, <1>3

\* The action Collect keeps IInv.
LEMMA CollectStep ==
  ASSUME IInv, NEW a \in Addr, Collect(a)
  PROVE  IInv'
  <1> USE IdentityAssumption
      DEF IInv, Collect, Reachable, heapVars, finVars, clientVars, Gs,
          Block, ZeroProvenance
  <1>1. TypeOK'
    BY DEF TypeOK, BootPhase, gProvenance, TrustLevel, TrustNone, TrustSelfAttested,
           TrustJanosReleased
  <1>2. (BootInv /\ RefInv /\ SparkInv /\ MintInv
         /\ WholeProvenance)'
    BY DEF BootInv, RefInv, SparkInv, MintInv, WholeProvenance, Early
  <1>3. FinInv'
    BY DEF FinInv, TypeOK
  <1>4. FinalizerNotLost'
    BY DEF FinalizerNotLost, TypeOK
  <1>5. KeyInv'
    BY DEF KeyInv, FinalizerNotLost, TypeOK, gProvenance
  <1>6. QED
    BY <1>1, <1>2, <1>3, <1>4, <1>5

\* The action FinalizeBegin keeps IInv.
LEMMA FinalizeBeginStep ==
  ASSUME IInv, NEW a \in Addr, FinalizeBegin(a)
  PROVE  IInv'
  <1> USE IdentityAssumption
      DEF IInv, FinalizeBegin, FingIdle, heapVars, finVars, clientVars,
          Gs, Block, ZeroProvenance
  <1>1. TypeOK'
    BY DEF TypeOK, BootPhase, gProvenance, TrustLevel, TrustNone, TrustSelfAttested,
           TrustJanosReleased
  <1>2. (BootInv /\ RefInv /\ SparkInv /\ MintInv
         /\ FinInv /\ FinalizerNotLost /\ KeyInv /\ WholeProvenance)'
    BY DEF BootInv, RefInv, SparkInv, MintInv, FinInv, FinalizerNotLost,
           KeyInv, WholeProvenance, Early
  <1>3. QED
    BY <1>1, <1>2

\* The action FinalizeHook keeps IInv.
LEMMA FinalizeHookStep ==
  ASSUME IInv, NEW h \in Hook, FinalizeHook(h)
  PROVE  IInv'
  <1> USE IdentityAssumption
      DEF IInv, FinalizeHook, heapVars, finVars, clientVars, Gs, Block,
          ZeroProvenance
  <1>1. TypeOK'
    <2>1. table' \in [Hook -> [Addr -> 0..MaxMint]]
      <3>1. /\ table \in [Hook -> [Addr -> 0..MaxMint]]
            /\ table[h] \in [Addr -> 0..MaxMint]
        BY DEF TypeOK
      <3>2. 0 \in 0..MaxMint
        OBVIOUS
      <3>3. [table[h] EXCEPT ![fing.block] = 0] \in [Addr -> 0..MaxMint]
        BY <3>1, <3>2
      <3>4. QED
        BY <3>1, <3>3
    <2>2. fing' \in [block: Block, todo: SUBSET Hook]
      BY DEF TypeOK
    <2>3. QED
      BY <2>1, <2>2 DEF TypeOK, BootPhase
  <1>2. (BootInv /\ RefInv /\ SparkInv /\ MintInv
         /\ FinInv /\ FinalizerNotLost /\ WholeProvenance)'
    BY DEF BootInv, RefInv, SparkInv, MintInv, FinInv, FinalizerNotLost,
           WholeProvenance, Early
  <1>3. KeyInv'
    BY DEF KeyInv, TypeOK
  <1>4. QED
    BY <1>1, <1>2, <1>3

\* The action FinalizeEnd keeps IInv.
LEMMA FinalizeEndStep ==
  ASSUME IInv, FinalizeEnd
  PROVE  IInv'
  <1> USE IdentityAssumption
      DEF IInv, FinalizeEnd, FingIdle, HooksReturned, heapVars,
          finVars, clientVars, Gs, Block, ZeroProvenance
  <1>1. TypeOK'
    BY DEF TypeOK, BootPhase, gProvenance, TrustLevel, TrustNone, TrustSelfAttested,
           TrustJanosReleased
  <1>2. (BootInv /\ SparkInv /\ FinInv /\ FinalizerNotLost
         /\ KeyInv /\ WholeProvenance)'
    BY DEF BootInv, SparkInv, FinInv, FinalizerNotLost, KeyInv,
           WholeProvenance, Early
  <1>3. RefInv'
    BY DEF RefInv, FinInv, TypeOK, gProvenance
  <1>4. MintInv'
    BY DEF MintInv, FinInv, TypeOK, gProvenance
  <1>5. QED
    BY <1>1, <1>2, <1>3, <1>4

-----------------------------------------------------------------------------

\* IInv holds in the initial state, before schedinit has run.
LEMMA InitInv ==
  ASSUME Init
  PROVE  IInv
  <1> USE IdentityAssumption
      DEF Init, Gs, Block, ZeroProvenance, NoSpark, FingIdle
  <1>1. TypeOK
    <2>1. 0 \in 0..MaxMint
      OBVIOUS
    <2>2. ZeroProvenance \in gProvenance
      BY <2>1 DEF gProvenance, TrustLevel
    <2>3. QED
      BY <2>1, <2>2 DEF TypeOK, BootPhase
  <1>2. BootInv
    BY DEF BootInv, Early
  <1>3. RefInv /\ SparkInv
    BY DEF RefInv, SparkInv
  <1>4. MintInv /\ FinInv /\ FinalizerNotLost
    BY DEF MintInv, FinInv, FinalizerNotLost
  <1>5. KeyInv /\ WholeProvenance
    BY DEF KeyInv, WholeProvenance
  <1>6. QED
    BY <1>1, <1>2, <1>3, <1>4, <1>5 DEF IInv

\* A stuttering step changes nothing IInv mentions.
LEMMA StutterStep ==
  ASSUME IInv, UNCHANGED vars
  PROVE  IInv'
  BY DEF vars, IInv, TypeOK, BootInv, Early, RefInv, SparkInv, MintInv, FinInv,
         FinalizerNotLost, KeyInv, WholeProvenance

\* Every step of the runtime keeps IInv.
LEMMA NextInv ==
  ASSUME IInv, [Next]_vars
  PROVE  IInv'
  <1>boot. CASE Boot
    BY <1>boot, SchedinitProvenanceStep, janosInitIdentityStep, StartMainStep,
       janosRegisterBlockFinalizedHookStep, janosLateFinalizerInitStep,
       janosMaybeCloseGenesisPhaseStep DEF Boot
  <1>goroutine. ASSUME NEW g \in G, Goroutine(g)
        PROVE  IInv'
    BY <1>goroutine, GoStep, TimerGoStep, CgoCallbackStep, SparkMintStep, SparkGoStep,
       SparkInstallStep, GoexitStep, IdentifyStep, LookupStep,
       LookupWithoutIdentityStep DEF Goroutine
  <1>memory. ASSUME NEW a \in Addr, DropIdentity(a) \/ Collect(a)
        PROVE  IInv'
    BY <1>memory, DropIdentityStep, CollectStep
  <1>finalizer. CASE Finalizer
    BY <1>finalizer, FinalizeBeginStep, FinalizeHookStep, FinalizeEndStep DEF Finalizer
  <1>stutter. CASE UNCHANGED vars
    BY <1>stutter, StutterStep
  <1> QED
    BY <1>stutter, <1>finalizer, <1>memory, <1>goroutine, <1>boot DEF Next

\* The conjunction the safety properties follow from holds in every reachable
\* state: boot, go, SparkAs, timers, C threads, the collector, the finalizer
\* goroutine and the client packages, in any order and any number.
THEOREM Invariance == Spec => []IInv
  <1>start. Init => IInv
    BY InitInv
  <1>kept. IInv /\ [Next]_vars => IInv'
    BY NextInv
  <1> QED
    BY <1>kept, <1>start, PTL DEF Spec

\* Every variable keeps its type.
THEOREM TypeCorrect == Spec => []TypeOK
  <1>1. IInv => TypeOK
    BY DEF IInv
  <1>2. QED
    BY <1>1, Invariance, PTL

\* No identity ever meets the entry a dead one left at its address in a table
\* keyed by janosIdentityBlockAddr (the registries of genesis and sync).
THEOREM Keys == Spec => []KeysAreCurrent
  <1>1. IInv => KeysAreCurrent
    BY DEF IInv, KeyInv, KeysAreCurrent
  <1>2. QED
    BY <1>1, Invariance, PTL

\* The one-block slot janosMintIdentity uses before janosFinalizersReady is
\* enough: no live block ever goes without a finalizer to come.
THEOREM Finalizers == Spec => []FinalizerNotLost
  <1>1. IInv => FinalizerNotLost
    BY DEF IInv
  <1>2. QED
    BY <1>1, Invariance, PTL

\* m0.g0 keeps the main identity's block alive whatever happens to the main
\* goroutine, so the address genesis caches in mainBlockAddr is never reused.
THEOREM MainPinned == Spec => []MainBlockPinned
  <1>1. IInv => MainBlockPinned
    BY IdentityAssumption
       DEF IInv, BootInv, Early, RefInv, MainBlockPinned, Gs
  <1>2. QED
    BY <1>1, Invariance, PTL

\* Provenance is all or nothing, on every descriptor and every g0.
THEOREM Whole == Spec => []WholeProvenance
  <1>1. IInv => WholeProvenance
    BY DEF IInv
  <1>2. QED
    BY <1>1, Invariance, PTL

\* Running goroutines share an InstanceID exactly if they share a block.
THEOREM InstanceIDs == Spec => []InstanceMatchesBlock
  <1>1. ASSUME IInv PROVE InstanceMatchesBlock
    <2>1. SUFFICES ASSUME NEW x \in G, NEW y \in G,
                          gstat[x] \in {"run", "spark"},
                          gstat[y] \in {"run", "spark"}
                   PROVE  (prov[x].identity = prov[y].identity)
                            <=> (prov[x].instanceID = prov[y].instanceID)
      BY DEF InstanceMatchesBlock
    <2>2. ~Early
      BY <1>1, <2>1 DEF IInv, BootInv, Early
    <2>3. \A z \in {x, y} :
            \/ prov[z].identity = Nil /\ prov[z].instanceID = 0
            \/ /\ prov[z].identity \in Addr
               /\ prov[z].instanceID # 0
               /\ prov[z].instanceID = binc[prov[z].identity]
      BY <1>1, <2>1, <2>2, IdentityAssumption
         DEF IInv, WholeProvenance, RefInv, TypeOK, Early, Gs, Block,
             gProvenance, ZeroProvenance
    <2>4. \A a, b \in Addr : binc[a] = binc[b] => a = b \/ binc[a] = 0
      BY <1>1 DEF IInv, MintInv
    <2>5. QED
      BY <2>1, <2>3, <2>4, IdentityAssumption
  <1>2. QED
    BY <1>1, Invariance, PTL

\* A goroutine's record does not change while it runs code of its own: nothing
\* but janosSpark's first instructions writes the provenance of a g that has
\* been spawned and is not on the free list.
THEOREM Fixed == Spec => ProvenanceFixed
  <1>action. ASSUME IInv, [Next]_vars, NEW g \in G,
               gstat[g] \in {"run", "spark"}, gstat'[g] \in {"run", "spark"}
        PROVE  prov'[g] = prov[g]
    <2> USE <1>action, IdentityAssumption DEF IInv, TypeOK, Gs
    <2>boot. CASE Boot
      BY <2>boot DEF Boot, BootInv, Early, SchedinitProvenance, janosInitIdentity,
                  StartMain, newproc1, Spawnable, janosLateFinalizerInit,
                  janosRegisterBlockFinalizedHook, janosMaybeCloseGenesisPhase
    <2>goroutine. ASSUME NEW p \in G, Goroutine(p)
          PROVE  prov'[g] = prov[g]
      BY <2>goroutine DEF Goroutine, Go, TimerGo, CgoCallback, newproc1, Spawnable,
                  SparkMint, ParentKept, SparkGo, SparkInstall, Goexit,
                  Identify, Lookup, LookupWithoutIdentity
    <2>memory. ASSUME NEW a \in Addr, DropIdentity(a) \/ Collect(a)
          PROVE  prov'[g] = prov[g]
      BY <2>memory DEF DropIdentity, Collect
    <2>finalizer. CASE Finalizer
      BY <2>finalizer DEF Finalizer, FinalizeBegin, FinalizeHook, FinalizeEnd
    <2>stutter. CASE UNCHANGED vars
      BY <2>stutter DEF vars
    <2> QED
      BY <2>stutter, <2>finalizer, <2>memory, <2>goroutine, <2>boot DEF Next
  <1>box. IInv /\ [Next]_vars =>
          [\A g \in G : /\ gstat[g] \in {"run", "spark"}
                        /\ gstat'[g] \in {"run", "spark"}
                        => prov'[g] = prov[g]]_vars
    BY <1>action
  <1> QED
    BY <1>box, Invariance, PTL DEF Spec, ProvenanceFixed
=============================================================================
