------------------------------ MODULE Sanitize ------------------------------
(***************************************************************************)
(* Zero-on-free: the sweeper and stackfree of the runtime, which JanOS     *)
(* makes clear what they free, with the allocator state their decision to  *)
(* clear depends on (sweepgen, freeindex, allocBits and gcmarkBits of a    *)
(* span, the span an mcache holds, needzero and the arena's zeroedBase,    *)
(* the stack pool, the stack caches and the free list of gs).              *)
(*                                                                         *)
(* A span is one page of NElems words: a span of small objects (one word   *)
(* each), one large object, a span of standard stacks or one large stack.  *)
(* A word reads as "zero", holds a "link" of the stack free lists or       *)
(* something a program wrote ("user"): a program writes to every word it   *)
(* gets, so what malloc itself clears first leaves no trace.  Marking is   *)
(* abstracted to its result.                                               *)
(***************************************************************************)
EXTENDS Integers, FiniteSets, FiniteSetsExt

CONSTANTS NPages, NElems, Proc, G, Nil,
          NeedZeroAfterSysUnused,   \* whether scavenged pages may keep bytes
          MaxGC,                    \* bound on the GC cycles explored
          MaxObj,                   \* bound on the objects at one time
          MaxFin                    \* bound on the finalizers at one time

ASSUME SanitizeAssumption ==
  /\ NPages \in Nat \ {0}
  /\ NElems \in Nat \ {0, 1}
  /\ NeedZeroAfterSysUnused \in BOOLEAN
  /\ MaxGC \in Nat /\ MaxObj \in Nat /\ MaxFin \in Nat
  /\ Nil \notin Proc \cup (1..NPages)

VARIABLES
  span,        \* each page's mspan
  mem,         \* the words of each page
  zeroedBase,  \* pages below it have been used
  cache,       \* mcache.alloc of each P: a page or Nil
  flushed,     \* mcache.flushGen = mheap_.sweepgen
  gcphase,     \* "off" or "mark"
  tail,        \* gcMarkTermination has not called freeStackSpans yet
  cycles,      \* GC cycles started
  owned,       \* objects malloc returned and no sweep has freed
  live,        \* objects the program can reach
  fin,         \* objects with a finalizer
  finq,        \* objects in the finalizer queue
  stackpool,   \* words on a manualFreeList
  stackcache,  \* words on each P's stackcache list
  stackLarge,  \* pages on the stackLarge lists
  gstat,       \* status of each g
  home,        \* the P whose gFree list has a dead g; Nil: sched.gFree
  stk,         \* the words of each g's stack
  old          \* the stack copystack has left and not freed yet

heapVars == <<span, mem, zeroedBase, cache, flushed>>
objVars == <<owned, live, fin, finq>>
gcVars == <<gcphase, tail, cycles>>
stackVars == <<stackpool, stackcache, stackLarge, gstat, home, stk, old>>
vars == <<heapVars, objVars, gcVars, stackVars>>

Page == 1..NPages
Slot == 0..(NElems - 1)
Cell == Page \X Slot
Words(p) == {p} \X Slot

FreeSpan == [state |-> "free", gen |-> "swept", needzero |-> FALSE,
             freeindex |-> 0, freeIndexForScan |-> 0, allocBits |-> {},
             gcmarkBits |-> {}, preserve |-> Nil]

Init ==
  /\ span = [p \in Page |-> [FreeSpan EXCEPT !.state = "scavenged"]]
  /\ mem = [w \in Cell |-> "zero"]
  /\ zeroedBase = 0
  /\ cache = [pp \in Proc |-> Nil]
  /\ flushed = [pp \in Proc |-> TRUE]
  /\ gcphase = "off" /\ tail = FALSE /\ cycles = 0
  /\ owned = {} /\ live = {} /\ fin = {} /\ finq = {}
  /\ stackpool = {} /\ stackcache = [pp \in Proc |-> {}] /\ stackLarge = {}
  /\ gstat = [g \in G |-> "none"]
  /\ home = [g \in G |-> Nil]
  /\ stk = [g \in G |-> {}]
  /\ old = [g \in G |-> {}]

-----------------------------------------------------------------------------
\* The page heap.  What the system has just given is like scavenged memory.

Set(m, W, kind) == [w \in Cell |-> IF w \in W THEN kind ELSE m[w]]

memclr(m, W) == Set(m, W, "zero")

\* Mutant: the last page below the watermark is taken for new.
NeedsZeroBelow(p) == p < zeroedBase

\* Pages below the arena's watermark have been handed out before.
allocNeedsZero(p) == p <= zeroedBase

initSpan(p, state) ==
  [FreeSpan EXCEPT
     !.state = state,
     !.needzero = /\ allocNeedsZero(p)
                  /\ span[p].state # "scavenged" \/ NeedZeroAfterSysUnused]

FreePage(p) == span[p].state \in {"free", "scavenged"}

\* Mutant: the watermark ends one page too late.
WatermarkPast(p) == IF p >= zeroedBase THEN p + 1 ELSE zeroedBase

Watermark(p) == IF p > zeroedBase THEN p ELSE zeroedBase

\* The scavenger gives a free page back to the operating system, which may
\* drop its bytes; if needZeroAfterSysUnused is false it does.
Scavenge(p) ==
  /\ span[p].state = "free"
  /\ span' = [span EXCEPT ![p].state = "scavenged"]
  /\ \/ mem' = memclr(mem, Words(p))
     \/ NeedZeroAfterSysUnused /\ mem' = mem
  /\ UNCHANGED <<zeroedBase, cache, flushed, objVars, gcVars, stackVars>>

-----------------------------------------------------------------------------
\* Objects.

\* The objects of span p that the span's own bits call allocated.
Allocated(s, i) == i < s.freeindex \/ i \in s.allocBits

NextFree(s) == {i \in Slot : i >= s.freeindex /\ i \notin s.allocBits}

\* An object has the words of its slot, a large one those of its page.
ObjWords(o) == IF span[o[1]].state = "large" THEN Words(o[1]) ELSE {o}

\* Mutant: objects are born white during marking.
NewObjectUnmarked(s, i) == s

\* Slot i of s is handed out.  During marking the object is born marked, as
\* the marker need not find it; otherwise the scan index moves past it.
gcmarknewobject(s, i) == [s EXCEPT !.gcmarkBits = @ \cup {i}]

Taken(s, i) ==
  LET u == [s EXCEPT !.freeindex = i + 1]
  IN  IF gcphase = "mark" THEN gcmarknewobject(u, i)
      ELSE [u EXCEPT !.freeIndexForScan = i + 1]

\* A small object out of the P's cached span, which the program then fills.
mallocgcSmall(pp) ==
  LET p == cache[pp]
      s == span[p]
      i == Min(NextFree(s))
  IN  /\ flushed[pp]
      /\ p # Nil
      /\ NextFree(s) # {}
      /\ span' = [span EXCEPT ![p] = Taken(s, i)]
      /\ mem' = Set(mem, {<<p, i>>}, "user")
      /\ Cardinality(owned) < MaxObj
      /\ owned' = owned \cup {<<p, i>>}
      /\ live' = live \cup {<<p, i>>}
      /\ UNCHANGED <<zeroedBase, cache, flushed, fin, finq, gcVars, stackVars>>

\* A large object is a span of its own and never cached.
mallocgcLarge(pp, p) ==
  /\ flushed[pp]
  /\ FreePage(p)
  /\ Cardinality(owned) < MaxObj
  /\ span' = [span EXCEPT ![p] = Taken(initSpan(p, "large"), 0)]
  /\ mem' = Set(mem, Words(p), "user")
  /\ zeroedBase' = Watermark(p)
  /\ owned' = owned \cup {<<p, 0>>}
  /\ live' = live \cup {<<p, 0>>}
  /\ UNCHANGED <<cache, flushed, fin, finq, gcVars, stackVars>>

\* refill gives a full span back, then asks the central list.
Uncached(pp) ==
  IF cache[pp] = Nil THEN span ELSE [span EXCEPT ![cache[pp]].gen = "swept"]

CanRefill(pp) ==
  /\ flushed[pp]
  /\ cache[pp] # Nil => NextFree(span[cache[pp]]) = {}
  /\ \A p \in Page : span[p].preserve # pp

RefillFromSwept(pp, p) ==
  /\ CanRefill(pp)
  /\ p # cache[pp]
  /\ span[p].state = "small" /\ span[p].gen = "swept"
  /\ NextFree(span[p]) # {}
  /\ span' = [Uncached(pp) EXCEPT ![p].gen = "cached"]
  /\ cache' = [cache EXCEPT ![pp] = p]
  /\ UNCHANGED <<mem, zeroedBase, flushed, objVars, gcVars, stackVars>>

RefillFromHeap(pp, p) ==
  /\ CanRefill(pp)
  /\ FreePage(p)
  /\ span' = [Uncached(pp) EXCEPT
                ![p] = [initSpan(p, "small") EXCEPT !.gen = "cached"]]
  /\ zeroedBase' = Watermark(p)
  /\ cache' = [cache EXCEPT ![pp] = p]
  /\ UNCHANGED <<mem, flushed, objVars, gcVars, stackVars>>

\* The program loses an object it could reach.
Drop(o) ==
  /\ o \in live
  /\ live' = live \ {o}
  /\ UNCHANGED <<heapVars, owned, fin, finq, gcVars, stackVars>>

\* addspecial waits in ensureSwept until nobody sweeps the span.
SetFinalizer(o) ==
  /\ o \in live
  /\ span[o[1]].gen \in {"swept", "cached"}
  /\ Cardinality(fin \cup finq) < MaxFin
  /\ fin' = fin \cup {o}
  /\ UNCHANGED <<heapVars, owned, live, finq, gcVars, stackVars>>

\* The finalizer goroutine passes the object to its finalizer.
RunFinalizer(o) ==
  /\ o \in finq
  /\ finq' = finq \ {o}
  /\ live' = live \cup {o}
  /\ UNCHANGED <<heapVars, owned, fin, gcVars, stackVars>>

-----------------------------------------------------------------------------
\* Garbage collection.

Reachable == live \cup finq

\* Sweep termination: everything is swept and every mcache is flushed.
gcStart ==
  /\ gcphase = "off" /\ ~tail
  /\ cycles < MaxGC
  /\ \A p \in Page : span[p].gen \notin {"unswept", "sweeping", "stale"}
  /\ \A pp \in Proc : flushed[pp]
  /\ gcphase' = "mark"
  /\ cycles' = cycles + 1
  /\ UNCHANGED <<tail, heapVars, objVars, stackVars>>

InUse == {p \in Page : span[p].state \in {"small", "large"}}

\* Mark termination: all that is reachable and that the cycle found allocated
\* is marked (an object that is marked and lost before this point behaves like
\* one lost after it).  gcSweep adds 2 to mheap_.sweepgen with the world
\* stopped.
OlderThanCycle(s, i) == i < s.freeIndexForScan \/ i \in s.allocBits

gcMarkTermination ==
  /\ gcphase = "mark"
  /\ span' = [p \in Page |->
       IF p \notin InUse THEN span[p]
       ELSE [span[p] EXCEPT
               !.gcmarkBits = @ \cup {i \in Slot :
                 <<p, i>> \in Reachable /\ OlderThanCycle(span[p], i)},
               !.gen = IF @ = "cached" THEN "stale" ELSE "unswept"]]
  /\ gcphase' = "off"
  /\ tail' = TRUE
  /\ flushed' = [pp \in Proc |-> FALSE]
  /\ UNCHANGED <<mem, zeroedBase, cache, cycles, objVars, stackVars>>

\* The sweep takes a span: dead objects with a finalizer are marked again and
\* queued.  preserve is the P that wants to cache the span, or Nil.
Revived(p) == {o \in fin : o[1] = p /\ o[2] \notin span[p].gcmarkBits}

SweepBegin(spans, p, preserve) ==
  /\ span' = [spans EXCEPT
                ![p].gen = "sweeping",
                ![p].preserve = preserve,
                ![p].gcmarkBits = @ \cup {o[2] : o \in Revived(p)}]
  /\ fin' = fin \ Revived(p)
  /\ finq' = finq \cup Revived(p)

\* bgsweep, sweepone, ensureSwept and reclaim.
Sweep(p) ==
  /\ span[p].gen = "unswept"
  /\ SweepBegin(span, p, Nil)
  /\ UNCHANGED <<mem, zeroedBase, cache, flushed, owned, live, gcVars, stackVars>>

\* cacheSpan sweeps a span nobody has swept yet and keeps it for its P.
RefillFromUnswept(pp, p) ==
  /\ CanRefill(pp)
  /\ span[p].state = "small" /\ span[p].gen = "unswept"
  /\ SweepBegin(Uncached(pp), p, pp)
  /\ cache' = [cache EXCEPT ![pp] = Nil]
  /\ UNCHANGED <<mem, zeroedBase, flushed, owned, live, gcVars, stackVars>>

\* Mutant: only what was allocated at the last sweep counts as freed.
SweepFreesOld(s, i) == i \notin s.gcmarkBits /\ i \in s.allocBits

\* The loop that finds the newly freed objects, where JanOS clears them.
SweepFrees(s, i) == i \notin s.gcmarkBits /\ Allocated(s, i)

SweepCleared(p) ==
  memclr(mem, UNION {ObjWords(<<p, i>>) :
                       i \in {j \in Slot : SweepFrees(span[p], j)}})

\* The bits the sweep leaves: gcmarkBits become allocBits.
SweptSpan(s) ==
  [s EXCEPT !.gen = "swept", !.preserve = Nil, !.freeindex = 0,
            !.freeIndexForScan = 0,
            !.allocBits = s.gcmarkBits, !.gcmarkBits = {},
            !.needzero = @ \/ \E i \in Slot : SweepFrees(s, i)]

janosSanitizeLargeSpan(m, p) == memclr(m, Words(p))

\* The rest of the sweep, by the thread that owns the span: the loop above,
\* the new bits, and the span's way back.  An empty span of small objects goes
\* to the heap unless its sweeper wants to cache it, a dead large one is
\* cleared to the end of its last page first.
SweepEnd(p) ==
  LET s == span[p]
      t == SweptSpan(s)
  IN  /\ s.gen = "sweeping"
      /\ owned' = {o \in owned : o[1] = p => o[2] \in s.gcmarkBits}
      /\ \/ /\ s.state = "large" /\ SweepFrees(s, 0)
            /\ mem' = janosSanitizeLargeSpan(SweepCleared(p), p)
            /\ span' = [span EXCEPT ![p] = FreeSpan]
            /\ cache' = cache
         \/ /\ s.state = "large" /\ ~SweepFrees(s, 0)
            /\ span' = [span EXCEPT ![p] = t]
            /\ mem' = SweepCleared(p) /\ cache' = cache
         \/ /\ s.state = "small" /\ s.preserve = Nil
            /\ span' = [span EXCEPT
                          ![p] = IF s.gcmarkBits = {} THEN FreeSpan ELSE t]
            /\ mem' = SweepCleared(p) /\ cache' = cache
         \/ /\ s.state = "small" /\ s.preserve # Nil /\ NextFree(t) # {}
            /\ span' = [span EXCEPT ![p] = [t EXCEPT !.gen = "cached"]]
            /\ cache' = [cache EXCEPT ![s.preserve] = p]
            /\ mem' = SweepCleared(p)
         \/ /\ s.state = "small" /\ s.preserve # Nil /\ NextFree(t) = {}
            /\ span' = [span EXCEPT ![p] = t]
            /\ mem' = SweepCleared(p) /\ cache' = cache
      /\ UNCHANGED <<zeroedBase, flushed, live, fin, finq, gcVars, stackVars>>

-----------------------------------------------------------------------------
\* Stacks.  A standard stack is one word of a span, a large one a page.

\* A link goes into the first bytes of a stack that is on a free list.
Linked(m, W) ==
  [w \in Cell |-> IF w \in W /\ m[w] = "zero" THEN "link" ELSE m[w]]

\* copystack's memmove; a new goroutine's stack is left as it is.
Copied(m, x, copy) == IF copy THEN Set(m, {x}, "user") ELSE m

Released(spans, Q) == [q \in Page |-> IF q \in Q THEN FreeSpan ELSE spans[q]]

WordsOf(Q) == UNION {Words(q) : q \in Q}

\* stackpoolfree of the stacks W: the spans it empties, which it frees at once
\* unless the collector is marking.
Emptied(W) ==
  {q \in Page : /\ gcphase = "off"
                /\ q \in {w[1] : w \in W}
                /\ Words(q) \subseteq stackpool \cup W}

stackpoolfree(W) == stackpool' = (stackpool \cup W) \ WordsOf(Emptied(W))

\* stackpoolalloc of the stacks R, out of a new span if the pool lacks some.
stackpoolalloc(R, x, copy) ==
  \/ /\ R \subseteq stackpool
     /\ stackpool' = stackpool \ R
     /\ mem' = Copied(mem, x, copy)
     /\ UNCHANGED <<span, zeroedBase>>
  \/ /\ Cardinality(stackpool) < Cardinality(R)
     /\ \E p \in Page :
          /\ FreePage(p)
          /\ stackpool \subseteq R /\ R \subseteq stackpool \cup Words(p)
          /\ stackpool' = Words(p) \ R
          /\ span' = [span EXCEPT ![p] = initSpan(p, "stack")]
          /\ mem' = Copied(Linked(mem, Words(p)), x, copy)
          /\ zeroedBase' = Watermark(p)

\* stackalloc of a standard stack x, by a thread with the P pp or without.  How
\* many stacks a stackcache takes (R) and gives back when it is full (W in
\* stackfree) depends on sizes the model leaves out.
stackalloc(pp, x, copy) ==
  \/ /\ pp # Nil /\ x \in stackcache[pp]
     /\ stackcache' = [stackcache EXCEPT ![pp] = @ \ {x}]
     /\ mem' = Copied(mem, x, copy)
     /\ UNCHANGED <<span, zeroedBase, stackpool>>
  \/ /\ pp # Nil /\ stackcache[pp] = {}
     /\ \E R \in SUBSET Cell :
          /\ x \in R
          /\ stackpoolalloc(R, x, copy)
          /\ stackcache' = [stackcache EXCEPT ![pp] = R \ {x}]
  \/ /\ pp = Nil
     /\ stackpoolalloc({x}, x, copy)
     /\ stackcache' = stackcache

janosSanitizeStack(m, S) == memclr(m, S)

\* stackfree clears the stack, then puts it where the next stackalloc looks.
IsLarge(S) == Cardinality(S) = NElems

stackfree(pp, S) ==
  LET m == janosSanitizeStack(mem, S)
      p == (CHOOSE w \in S : TRUE)[1]
  IN  \/ /\ IsLarge(S) /\ gcphase = "off"
         /\ span' = Released(span, {p})
         /\ mem' = m
         /\ UNCHANGED <<stackpool, stackcache, stackLarge>>
      \/ /\ IsLarge(S) /\ gcphase # "off"
         /\ stackLarge' = stackLarge \cup {p}
         /\ mem' = m
         /\ UNCHANGED <<span, stackpool, stackcache>>
      \/ /\ ~IsLarge(S) /\ pp = Nil
         /\ mem' = Linked(m, S)
         /\ stackpoolfree(S)
         /\ span' = Released(span, Emptied(S))
         /\ UNCHANGED <<stackcache, stackLarge>>
      \/ /\ ~IsLarge(S) /\ pp # Nil
         /\ mem' = Linked(m, S)
         /\ \E W \in SUBSET stackcache[pp] :
              /\ stackpoolfree(W)
              /\ span' = Released(span, Emptied(W))
              /\ stackcache' = [stackcache EXCEPT ![pp] = (@ \ W) \cup S]
         /\ stackLarge' = stackLarge

\* prepareForSweep, which comes before a P may allocate in the new cycle: the
\* P sweeps the span it had cached (SweepEnd goes on with it) and
\* gives its stacks back to the pool.
prepareForSweep(pp) ==
  LET p == cache[pp]
      spans == Released(span, Emptied(stackcache[pp]))
  IN  /\ ~flushed[pp]
      /\ \/ p = Nil /\ span' = spans /\ UNCHANGED <<fin, finq>>
         \/ p # Nil /\ SweepBegin(spans, p, Nil)
      /\ stackpoolfree(stackcache[pp])
      /\ stackcache' = [stackcache EXCEPT ![pp] = {}]
      /\ cache' = [cache EXCEPT ![pp] = Nil]
      /\ flushed' = [flushed EXCEPT ![pp] = TRUE]
      /\ UNCHANGED <<mem, zeroedBase, owned, live, gcVars, stackLarge, gstat,
                     home, stk, old>>

\* freeStackSpans, after mark termination.
freeStackSpans ==
  LET Q == {q \in Page : span[q].state = "stack" /\ Words(q) \subseteq stackpool}
  IN  /\ tail
      /\ span' = Released(span, Q \cup stackLarge)
      /\ stackpool' = stackpool \ WordsOf(Q)
      /\ stackLarge' = {}
      /\ tail' = FALSE
      /\ UNCHANGED <<mem, zeroedBase, cache, flushed, objVars, gcphase, cycles,
                     stackcache, gstat, home, stk, old>>

-----------------------------------------------------------------------------
\* Goroutines.

Dead(h) == {g \in G : gstat[g] = "dead" /\ home[g] = h}

\* newproc1: gfget takes a dead g of this P, else of the scheduler, together
\* with the others there; malg makes one if there is none.  Only a g without
\* a stack gets one from stackalloc.
newproc1(pp, g) ==
  /\ flushed[pp]
  /\ \/ g \in Dead(pp) /\ home' = [home EXCEPT ![g] = Nil]
     \/ /\ Dead(pp) = {} /\ g \in Dead(Nil)
        /\ home' = [h \in G |-> IF h \in Dead(Nil) \ {g} THEN pp ELSE home[h]]
     \/ /\ Dead(pp) = {} /\ Dead(Nil) = {} /\ gstat[g] = "none"
        /\ home' = home
  /\ gstat' = [gstat EXCEPT ![g] = "new"]
  /\ \/ /\ stk[g] = {}
        /\ \E x \in Cell, by \in {pp, Nil} :
             /\ stackalloc(by, x, FALSE)
             /\ stk' = [stk EXCEPT ![g] = {x}]
     \/ /\ stk[g] # {}
        /\ UNCHANGED <<span, mem, zeroedBase, stackpool, stackcache, stk>>
  /\ UNCHANGED <<cache, flushed, objVars, gcVars, stackLarge, old>>

\* The goroutine starts and leaves something in every frame.
RunFrames(g) ==
  /\ gstat[g] = "new"
  /\ gstat' = [gstat EXCEPT ![g] = "run"]
  /\ mem' = Set(mem, stk[g], "user")
  /\ UNCHANGED <<span, zeroedBase, cache, flushed, objVars, gcVars, stackpool,
                 stackcache, stackLarge, home, stk, old>>

\* copystack to a large stack, from the stackLarge list or the heap; what of
\* the old stack is in use is copied and soon the rest is used.
GrowStack(g, p) ==
  /\ gstat[g] = "run" /\ old[g] = {} /\ ~IsLarge(stk[g])
  /\ \/ /\ p \in stackLarge
        /\ stackLarge' = stackLarge \ {p}
        /\ UNCHANGED <<span, zeroedBase>>
     \/ /\ stackLarge = {} /\ FreePage(p)
        /\ span' = [span EXCEPT ![p] = initSpan(p, "stack")]
        /\ zeroedBase' = Watermark(p)
        /\ stackLarge' = stackLarge
  /\ mem' = Set(mem, Words(p), "user")
  /\ stk' = [stk EXCEPT ![g] = Words(p)]
  /\ old' = [old EXCEPT ![g] = stk[g]]
  /\ UNCHANGED <<cache, flushed, objVars, gcVars, stackpool, stackcache, gstat,
                 home>>

\* shrinkstack: copystack to a standard stack.
ShrinkStack(pp, g) ==
  /\ pp # Nil => flushed[pp]
  /\ gstat[g] = "run" /\ old[g] = {} /\ IsLarge(stk[g])
  /\ \E x \in Cell :
       /\ stackalloc(pp, x, TRUE)
       /\ stk' = [stk EXCEPT ![g] = {x}]
  /\ old' = [old EXCEPT ![g] = stk[g]]
  /\ UNCHANGED <<cache, flushed, objVars, gcVars, stackLarge, gstat, home>>

\* copystack has moved what was in use and frees the old stack.
CopyDone(pp, g) ==
  /\ pp # Nil => flushed[pp]
  /\ old[g] # {}
  /\ stackfree(pp, old[g])
  /\ old' = [old EXCEPT ![g] = {}]
  /\ UNCHANGED <<zeroedBase, cache, flushed, objVars, gcVars, gstat, home, stk>>

\* Goexit: gfput frees a stack that is not of the standard size, keeps the
\* others, and moves gs to the scheduler's list when the P has too many,
\* which may be at any time.
Goexit(pp, g) ==
  /\ flushed[pp]
  /\ gstat[g] = "run" /\ old[g] = {}
  /\ gstat' = [gstat EXCEPT ![g] = "dead"]
  /\ \/ /\ IsLarge(stk[g])
        /\ stackfree(pp, stk[g])
        /\ stk' = [stk EXCEPT ![g] = {}]
     \/ /\ ~IsLarge(stk[g])
        /\ UNCHANGED <<span, mem, stackpool, stackcache, stackLarge, stk>>
  /\ LET mine == Dead(pp) \cup {g}
     IN  \E moved \in SUBSET mine :
           home' = [h \in G |-> IF h \in moved THEN Nil
                                ELSE IF h = g THEN pp ELSE home[h]]
  /\ UNCHANGED <<zeroedBase, cache, flushed, objVars, gcVars, old>>

\* markrootFreeGStacks: the marker frees the stacks of the dead gs it finds on
\* the scheduler's list; gs may join the list after it has looked.
FreeGStack(pp, g) ==
  /\ gcphase = "mark"
  /\ g \in Dead(Nil) /\ stk[g] # {}
  /\ stackfree(pp, stk[g])
  /\ stk' = [stk EXCEPT ![g] = {}]
  /\ UNCHANGED <<zeroedBase, cache, flushed, objVars, gcVars, gstat, home, old>>

-----------------------------------------------------------------------------

Mutator ==
  \/ \E pp \in Proc, p \in Page :
       \/ RefillFromSwept(pp, p)
       \/ RefillFromHeap(pp, p)
       \/ RefillFromUnswept(pp, p)
       \/ mallocgcLarge(pp, p)
  \/ \E pp \in Proc : mallocgcSmall(pp)
  \/ \E o \in Cell : Drop(o) \/ SetFinalizer(o) \/ RunFinalizer(o)

Collector ==
  \/ gcStart
  \/ gcMarkTermination
  \/ \E pp \in Proc, g \in G : FreeGStack(pp, g)
  \/ freeStackSpans
  \/ \E pp \in Proc : prepareForSweep(pp)
  \/ \E p \in Page : Sweep(p) \/ SweepEnd(p) \/ Scavenge(p)

Goroutines ==
  \E g \in G :
    \/ RunFrames(g)
    \/ \E p \in Page : GrowStack(g, p)
    \/ \E pp \in Proc : \/ newproc1(pp, g)
                        \/ Goexit(pp, g)
    \/ \E pp \in Proc \cup {Nil} : ShrinkStack(pp, g) \/ CopyDone(pp, g)

Next == Mutator \/ Collector \/ Goroutines

Spec == Init /\ [][Next]_vars

-----------------------------------------------------------------------------

\* Every variable keeps its type.
TypeOK ==
  /\ span \in [Page ->
       [state: {"free", "scavenged", "small", "large", "stack"},
        gen: {"unswept", "sweeping", "swept", "cached", "stale"},
        needzero: BOOLEAN, freeindex: 0..NElems,
        freeIndexForScan: 0..NElems, allocBits: SUBSET Slot,
        gcmarkBits: SUBSET Slot, preserve: Proc \cup {Nil}]]
  /\ mem \in [Cell -> {"zero", "link", "user"}]
  /\ zeroedBase \in 0..NPages
  /\ cache \in [Proc -> Page \cup {Nil}]
  /\ flushed \in [Proc -> BOOLEAN]
  /\ gcphase \in {"off", "mark"} /\ cycles \in 0..MaxGC
  /\ tail \in BOOLEAN
  /\ {owned, live, fin, finq} \subseteq SUBSET Cell
  /\ stackpool \subseteq Cell /\ stackLarge \subseteq Page
  /\ stackcache \in [Proc -> SUBSET Cell]
  /\ gstat \in [G -> {"none", "new", "run", "dead"}]
  /\ home \in [G -> Proc \cup {Nil}]
  /\ stk \in [G -> SUBSET Cell] /\ old \in [G -> SUBSET Cell]

\* Whatever a program wrote is gone from memory once the memory is free: a
\* word with user bytes belongs to an object no sweep has freed or to the stack
\* of a g.  (Freed heap memory always reads as zero, and freed stack memory is
\* zero before another goroutine can receive it from the stack pool.)
FreedIsClean ==
  \A w \in Cell : mem[w] = "user" =>
    \/ \E o \in owned : w \in ObjWords(o)
    \/ \E g \in G : w \in stk[g] \cup old[g]

\* needzero tells the truth: where malloc does not clear, the memory reads as
\* zero, whatever was on the page before (links of stacks, scavenged pages).
NeedzeroIsHonest ==
  \A p \in Page :
    /\ FreePage(p) /\ ~initSpan(p, "small").needzero =>
         \A w \in Words(p) : mem[w] = "zero"
    /\ span[p].state = "small" /\ ~span[p].needzero =>
         \A i \in Slot : ~Allocated(span[p], i) => mem[<<p, i>>] = "zero"

\* Sweeping never clears what the program or the finalizer queue can reach,
\* on whichever thread and in whatever order spans are swept, cached, flushed
\* and allocated from.
ReachableKeepsBytes ==
  [][\A o \in Cell : o \in Reachable /\ o \in Reachable' =>
       \A w \in ObjWords(o) : mem[w] = "user" => mem'[w] = "user"]_vars

\* A new goroutine finds nothing of an earlier one on its stack.
NewStackIsClean ==
  \A g \in G : gstat[g] = "new" => \A w \in stk[g] : mem[w] # "user"
=============================================================================
