--------------------------- MODULE SanitizeProofs ---------------------------
(***************************************************************************)
(* Proofs about Sanitize for any number of pages, words in a page, Ps,     *)
(* goroutines, collections, objects and finalizers.                        *)
(***************************************************************************)
EXTENDS Sanitize, FiniteSetTheorems, TLAPS

-----------------------------------------------------------------------------
(* The inductive invariant *)

\* Every word of a stack has one place: the pool, a P's cache, a page on the
\* stackLarge lists, or a g.
StackPlaces(pool, sc, lg, sk, ol) ==
  /\ \A w \in pool :
       /\ w[1] \notin lg
       /\ \A pp \in Proc : w \notin sc[pp]
       /\ \A g \in G : w \notin sk[g] /\ w \notin ol[g]
  /\ \A pp \in Proc : \A w \in sc[pp] :
       /\ w[1] \notin lg
       /\ \A qq \in Proc : w \in sc[qq] => qq = pp
       /\ \A g \in G : w \notin sk[g] /\ w \notin ol[g]
  /\ \A g \in G : \A w \in sk[g] :
       /\ w[1] \notin lg
       /\ \A h \in G : (w \in sk[h] => h = g) /\ w \notin ol[h]
  /\ \A g \in G : \A w \in ol[g] :
       /\ w[1] \notin lg
       /\ \A h \in G : w \in ol[h] => h = g

\* That place is on a page of stacks.
StackPages(sp, pool, sc, lg, sk, ol) ==
  /\ \A w \in pool : sp[w[1]].state = "stack"
  /\ \A pp \in Proc : \A w \in sc[pp] : sp[w[1]].state = "stack"
  /\ \A g \in G : \A w \in sk[g] \cup ol[g] : sp[w[1]].state = "stack"
  /\ \A q \in lg : sp[q].state = "stack"

\* A stack is a word or a page.
Shape(S) == S = {} \/ (\E x \in Cell : S = {x}) \/ \E p \in Page : S = Words(p)

\* What is on the pages that hold stacks.
StackInv ==
  /\ StackPlaces(stackpool, stackcache, stackLarge, stk, old)
  /\ StackPages(span, stackpool, stackcache, stackLarge, stk, old)
  /\ \A g \in G : Shape(stk[g]) /\ Shape(old[g])

\* Which memory is known to read as zero.
ZeroInv ==
  \A p \in Page :
    /\ p > zeroedBase => span[p].state = "scavenged"
    /\ p > zeroedBase \/ (span[p].state = "scavenged" /\ ~NeedZeroAfterSysUnused) =>
         \A w \in Words(p) : mem[w] = "zero"
    /\ span[p].state = "small" /\ ~span[p].needzero =>
         \A i \in Slot : ~Allocated(span[p], i) => mem[<<p, i>>] = "zero"

\* An object in use is in a span whose bits say so.
OwnInv ==
  /\ \A o \in owned :
       /\ span[o[1]].state \in {"small", "large"}
       /\ span[o[1]].state = "large" => o[2] = 0
       /\ Allocated(span[o[1]], o[2])
  /\ live \cup fin \cup finq \subseteq owned

\* The scan index is behind the free index, and a large span has one object.
BitInv ==
  \A p \in Page :
    /\ span[p].freeIndexForScan <= span[p].freeindex
    /\ span[p].state = "large" =>
         /\ span[p].freeindex <= 1
         /\ span[p].allocBits \subseteq {0} /\ span[p].gcmarkBits \subseteq {0}

\* What the next sweep of its span will find of an object that is reachable.
MarkInv ==
  /\ gcphase = "mark" =>
       /\ \A p \in Page : span[p].gen \in {"swept", "cached"}
       /\ \A pp \in Proc : flushed[pp]
  /\ \A o \in live \cup finq :
       \/ o[2] \in span[o[1]].gcmarkBits
       \/ /\ span[o[1]].gen \in {"swept", "cached"}
          /\ OlderThanCycle(span[o[1]], o[2])
  /\ \A o \in fin : span[o[1]].gen = "sweeping" => o[2] \in span[o[1]].gcmarkBits

\* A span belongs to one P's cache at most, and is not allocated from while it
\* is stale.
CacheInv ==
  /\ \A pp \in Proc : cache[pp] # Nil =>
       /\ span[cache[pp]].state = "small"
       /\ span[cache[pp]].gen = IF flushed[pp] THEN "cached" ELSE "stale"
  /\ \A pp, qq \in Proc : cache[pp] # Nil /\ cache[pp] = cache[qq] => pp = qq
  /\ \A p \in Page : span[p].preserve # Nil =>
       span[p].gen = "sweeping" /\ flushed[span[p].preserve]

\* The inductive invariant.
IInv ==
  /\ TypeOK
  /\ StackInv
  /\ ZeroInv
  /\ OwnInv
  /\ BitInv
  /\ MarkInv
  /\ CacheInv
  /\ FreedIsClean

-----------------------------------------------------------------------------
(* Words and pages *)

\* A word is a page and a slot.
LEMMA CellFacts ==
  /\ \A w \in Cell : w[1] \in Page /\ w[2] \in Slot /\ w = <<w[1], w[2]>>
  /\ \A p \in Page, i \in Slot : /\ <<p, i>> \in Cell
                                 /\ <<p, i>>[1] = p /\ <<p, i>>[2] = i
  /\ \A p \in Page : Words(p) \subseteq Cell /\ Words(p) # {}
  /\ \A p \in Page, w \in Cell : w \in Words(p) <=> w[1] = p
  <1>1. \A w \in Cell : w[1] \in Page /\ w[2] \in Slot /\ w = <<w[1], w[2]>>
    BY DEF Cell
  <1>2. \A p \in Page, i \in Slot : /\ <<p, i>> \in Cell
                                    /\ <<p, i>>[1] = p /\ <<p, i>>[2] = i
    BY DEF Cell
  <1>3. 0 \in Slot
    BY SanitizeAssumption DEF Slot
  <1>4. \A p \in Page : Words(p) \subseteq Cell /\ <<p, 0>> \in Words(p)
    BY <1>3 DEF Cell, Words
  <1>5. \A p \in Page, w \in Cell : w \in Words(p) <=> w[1] = p
    BY <1>1 DEF Cell, Words
  <1> QED
    BY <1>1, <1>2, <1>4, <1>5

\* Slots and pages are numbers, and Nil is neither a P nor a page.
LEMMA SlotFacts ==
  /\ 0 \in Slot
  /\ \A i \in Slot : i \in Nat /\ i + 1 \in 0..NElems
  /\ \A p \in Page : p \in Nat /\ p \in 0..NPages
  /\ Nil \notin Proc /\ Nil \notin Page
  BY SanitizeAssumption DEF Slot, Page

\* A stack that is large is the page its words are on.
LEMMA LargeIsPage ==
  ASSUME NEW S, Shape(S), IsLarge(S)
  PROVE  /\ (CHOOSE w \in S : TRUE) \in S
         /\ (CHOOSE w \in S : TRUE)[1] \in Page
         /\ S = Words((CHOOSE w \in S : TRUE)[1])
  <1>1. \A x : Cardinality({x}) = 1
    BY FS_Singleton
  <1>2. Cardinality({}) = 0
    BY FS_EmptySet
  <1>3. PICK p \in Page : S = Words(p)
    BY <1>1, <1>2, SanitizeAssumption DEF Shape, IsLarge
  <1>4. (CHOOSE w \in S : TRUE) \in S
    BY <1>3, CellFacts
  <1> QED
    BY <1>3, <1>4, CellFacts

\* Of the free slots of a span the least is one.
LEMMA MinFree ==
  ASSUME NEW T \in SUBSET Slot, T # {}
  PROVE  Min(T) \in T /\ \A y \in T : Min(T) <= y
  <1>1. T \subseteq Nat
    BY SlotFacts
  <1>2. PICK x \in T : \A y \in T : <<y, x>> \notin OpToRel(<, Nat)
    BY <1>1, NatLessThanWellFounded, WFMin, Zenon
  <1>3. \A y \in T : ~(y < x)
    BY <1>1, <1>2 DEF OpToRel
  <1>4. \A y \in T : x <= y
    BY <1>1, <1>3
  <1> QED
    BY <1>4 DEF Min

-----------------------------------------------------------------------------
(* Stacks *)

\* The type of an mspan.
SpanType ==
  [state: {"free", "scavenged", "small", "large", "stack"},
   gen: {"unswept", "sweeping", "swept", "cached", "stale"},
   needzero: BOOLEAN, freeindex: 0..NElems,
   freeIndexForScan: 0..NElems, allocBits: SUBSET Slot,
   gcmarkBits: SUBSET Slot, preserve: Proc \cup {Nil}]

\* What TypeOK says, without the sets it has to name.
LEMMA Types ==
  TypeOK <=>
    /\ span \in [Page -> SpanType]
    /\ mem \in [Cell -> {"zero", "link", "user"}]
    /\ zeroedBase \in 0..NPages
    /\ cache \in [Proc -> Page \cup {Nil}]
    /\ flushed \in [Proc -> BOOLEAN]
    /\ gcphase \in {"off", "mark"} /\ cycles \in 0..MaxGC
    /\ tail \in BOOLEAN
    /\ owned \subseteq Cell /\ live \subseteq Cell
    /\ fin \subseteq Cell /\ finq \subseteq Cell
    /\ stackpool \subseteq Cell /\ stackLarge \subseteq Page
    /\ stackcache \in [Proc -> SUBSET Cell]
    /\ gstat \in [G -> {"none", "new", "run", "dead"}]
    /\ home \in [G -> Proc \cup {Nil}]
    /\ stk \in [G -> SUBSET Cell] /\ old \in [G -> SUBSET Cell]
  BY DEF TypeOK, SpanType

\* A span that has just been freed or made has no bits, and needzero says
\* what allocNeedsZero and the page's state make of it.
LEMMA FreshSpans ==
  /\ FreeSpan \in SpanType
  /\ FreeSpan.state = "free" /\ FreeSpan.gen = "swept" /\ FreeSpan.preserve = Nil
  /\ FreeSpan.freeindex = 0 /\ FreeSpan.freeIndexForScan = 0
  /\ FreeSpan.allocBits = {} /\ FreeSpan.gcmarkBits = {}
  /\ \A p \in Page, st \in {"small", "large", "stack"} :
       /\ initSpan(p, st) \in SpanType
       /\ initSpan(p, st).state = st
       /\ initSpan(p, st).gen = "swept" /\ initSpan(p, st).preserve = Nil
       /\ initSpan(p, st).freeindex = 0 /\ initSpan(p, st).freeIndexForScan = 0
       /\ initSpan(p, st).allocBits = {} /\ initSpan(p, st).gcmarkBits = {}
       /\ initSpan(p, st).needzero <=>
            /\ allocNeedsZero(p)
            /\ span[p].state # "scavenged" \/ NeedZeroAfterSysUnused
  <1>1. FreeSpan \in SpanType
    BY SanitizeAssumption DEF FreeSpan, SpanType
  <1>2. /\ FreeSpan.state = "free" /\ FreeSpan.gen = "swept" /\ FreeSpan.preserve = Nil
        /\ FreeSpan.freeindex = 0 /\ FreeSpan.freeIndexForScan = 0
        /\ FreeSpan.allocBits = {} /\ FreeSpan.gcmarkBits = {}
    BY DEF FreeSpan
  <1>3. ASSUME NEW p \in Page, NEW st \in {"small", "large", "stack"}
        PROVE  /\ initSpan(p, st) \in SpanType
               /\ initSpan(p, st).state = st
               /\ initSpan(p, st).gen = "swept" /\ initSpan(p, st).preserve = Nil
               /\ initSpan(p, st).freeindex = 0
               /\ initSpan(p, st).freeIndexForScan = 0
               /\ initSpan(p, st).allocBits = {} /\ initSpan(p, st).gcmarkBits = {}
               /\ initSpan(p, st).needzero <=>
                    /\ allocNeedsZero(p)
                    /\ span[p].state # "scavenged" \/ NeedZeroAfterSysUnused
    <2> DEFINE z == /\ allocNeedsZero(p)
                    /\ span[p].state # "scavenged" \/ NeedZeroAfterSysUnused
    <2>1. z \in BOOLEAN
      OBVIOUS
    <2>2. initSpan(p, st) = [FreeSpan EXCEPT !.state = st, !.needzero = z]
      BY DEF initSpan
    <2> HIDE DEF z
    <2>3. /\ initSpan(p, st) \in SpanType /\ initSpan(p, st).state = st
          /\ initSpan(p, st).needzero = z
      BY <1>1, <2>1, <2>2 DEF SpanType
    <2>4. /\ initSpan(p, st).gen = "swept" /\ initSpan(p, st).preserve = Nil
          /\ initSpan(p, st).freeindex = 0 /\ initSpan(p, st).freeIndexForScan = 0
          /\ initSpan(p, st).allocBits = {} /\ initSpan(p, st).gcmarkBits = {}
      BY <1>1, <1>2, <2>2 DEF SpanType
    <2> QED
      BY <2>3, <2>4 DEF z
  <1> QED
    BY <1>1, <1>2, <1>3

\* Nobody holds the word w.
Unheld(w, pool, sc, lg, sk, ol) ==
  /\ w \notin pool /\ w[1] \notin lg
  /\ \A pp \in Proc : w \notin sc[pp]
  /\ \A g \in G : w \notin sk[g] /\ w \notin ol[g]

\* stackpoolfree: the stacks W go to the pool, and pages with no stack in use
\* leave it.
LEMMA PoolFree ==
  ASSUME TypeOK, NEW W \in SUBSET Cell, NEW sc \in [Proc -> SUBSET Cell],
         NEW sk \in [G -> SUBSET Cell], NEW ol \in [G -> SUBSET Cell], NEW sp,
         StackPlaces(stackpool, sc, stackLarge, sk, ol),
         StackPages(span, stackpool, sc, stackLarge, sk, ol),
         \A w \in W : /\ span[w[1]].state = "stack"
                      /\ w[1] \notin stackLarge
                      /\ \A pp \in Proc : w \notin sc[pp]
                      /\ \A g \in G : w \notin sk[g] /\ w \notin ol[g],
         stackpoolfree(W), sp = Released(span, Emptied(W))
  PROVE  /\ StackPlaces(stackpool', sc, stackLarge, sk, ol)
         /\ StackPages(sp, stackpool', sc, stackLarge, sk, ol)
         /\ stackpool' \subseteq Cell
         /\ Emptied(W) \subseteq Page
         /\ \A q \in Emptied(W) : span[q].state = "stack"
  <1> DEFINE Q == Emptied(W)
  <1>1. Q \subseteq Page /\ \A q \in Q : Words(q) \subseteq stackpool \cup W
    BY DEF Emptied
  <1>2. \A w \in stackpool \cup W : w \in Cell /\ w[1] \in Page
    BY CellFacts, Types
  <1>3. \A w \in Cell : w \in WordsOf(Q) <=> w[1] \in Q
    BY <1>1, CellFacts DEF WordsOf
  <1>4. stackpool' = (stackpool \cup W) \ WordsOf(Q)
    BY DEF stackpoolfree
  <1>5. \A q \in Q : span[q].state = "stack"
    BY DEF Emptied, StackPages
  <1>6. \A w \in Cell : w[1] \in Q => w \in stackpool \cup W
    BY <1>1, CellFacts
  <1>7. \A w \in stackpool' : w \in stackpool \cup W /\ w[1] \notin Q
    BY <1>2, <1>3, <1>4
  <1>8. \A q \in Page : q \notin Q => sp[q] = span[q]
    BY DEF Released
  <1> HIDE DEF Q
  <1>9. StackPlaces(stackpool', sc, stackLarge, sk, ol)
    BY <1>7 DEF StackPlaces
  <1>10. \A q \in stackLarge : q \notin Q
    BY <1>1, CellFacts, Types DEF StackPlaces
  <1>11. /\ \A pp \in Proc : \A w \in sc[pp] : w \in Cell /\ w[1] \in Page \ Q
         /\ \A g \in G : \A w \in sk[g] \cup ol[g] : w \in Cell /\ w[1] \in Page \ Q
    <2>1. /\ \A pp \in Proc : \A w \in sc[pp] : w \in Cell /\ w \notin stackpool \cup W
          /\ \A g \in G : \A w \in sk[g] \cup ol[g] : w \in Cell /\ w \notin stackpool \cup W
      BY DEF StackPlaces
    <2> QED
      BY <2>1, <1>6, CellFacts
  <1>12. StackPages(sp, stackpool', sc, stackLarge, sk, ol)
    BY <1>2, <1>7, <1>8, <1>10, <1>11, Types DEF StackPages
  <1> QED
    BY <1>1, <1>2, <1>5, <1>7, <1>9, <1>12 DEF Q

\* What an operation on stacks does to the heap: it takes free pages and gives
\* back pages of stacks, and writes on no other.
StackStep ==
  /\ span' \in [Page -> SpanType]
  /\ mem' \in [Cell -> {"zero", "link", "user"}]
  /\ zeroedBase' \in 0..NPages /\ zeroedBase <= zeroedBase'
  /\ \A p \in Page :
       \/ span'[p] = span[p]
       \/ span[p].state = "stack" /\ span'[p] = FreeSpan
       \/ FreePage(p) /\ span'[p] = initSpan(p, "stack") /\ p <= zeroedBase'
  /\ \A w \in Cell : mem'[w] # mem[w] =>
       span[w[1]].state = "stack" \/ span'[w[1]].state = "stack"

\* Objects, caches and the marks of the collector are not its concern.
LEMMA StackStepKeeps ==
  ASSUME IInv, StackStep, UNCHANGED <<cache, flushed, objVars, gcphase>>
  PROVE  ZeroInv' /\ OwnInv' /\ BitInv' /\ MarkInv' /\ CacheInv'
  <1> USE DEF IInv
  <1>1. /\ UNCHANGED <<cache, flushed, owned, live, fin, finq, gcphase>>
        /\ live \subseteq Cell /\ fin \subseteq Cell /\ finq \subseteq Cell
        /\ owned \subseteq Cell /\ cache \in [Proc -> Page \cup {Nil}]
        /\ zeroedBase \in Nat /\ zeroedBase' \in Nat
    BY Types, SanitizeAssumption DEF objVars, StackStep
  <1>2. \A p \in Page :
          \/ span'[p] = span[p]
          \/ /\ span[p].state \notin {"small", "large"}
             /\ span'[p].state \in {"free", "stack"}
             /\ span'[p].gen = "swept" /\ span'[p].preserve = Nil
             /\ span'[p].freeindex = 0 /\ span'[p].freeIndexForScan = 0
    BY FreshSpans DEF StackStep, FreePage
  <1>3. \A p \in Page : span[p].state \in {"small", "large"} => span'[p] = span[p]
    BY <1>2
  <1>4. \A p \in Page : p > zeroedBase' =>
          p > zeroedBase /\ span[p].state = "scavenged" /\ span'[p] = span[p]
    <2>1. \A p \in Page : p > zeroedBase' => p > zeroedBase
      BY <1>1, SlotFacts DEF StackStep
    <2> QED
      BY <1>1, <2>1, SlotFacts DEF StackStep, ZeroInv
  <1>5. \A p \in Page : \A w \in Words(p) :
          span[p].state # "stack" /\ span'[p].state # "stack" => mem'[w] = mem[w]
    BY CellFacts DEF StackStep
  <1>zero. ZeroInv'
    <2>1. \A p \in Page : p > zeroedBase' => \A w \in Words(p) : mem'[w] = "zero"
      BY <1>4, <1>5 DEF ZeroInv
    <2>2. \A p \in Page : span'[p].state = "scavenged" => span'[p] = span[p]
      BY <1>2
    <2>3. \A p \in Page : span'[p].state = "scavenged" /\ ~NeedZeroAfterSysUnused =>
            \A w \in Words(p) : mem'[w] = "zero"
      BY <2>2, <1>5 DEF ZeroInv
    <2>4. \A p \in Page : span'[p].state = "small" => span'[p] = span[p]
      BY <1>2
    <2>5. \A p \in Page : span'[p].state = "small" =>
            \A i \in Slot : mem'[<<p, i>>] = mem[<<p, i>>]
      BY <2>4, CellFacts DEF StackStep
    <2> QED
      BY <1>4, <2>1, <2>3, <2>4, <2>5 DEF ZeroInv, Allocated
  <1>own. OwnInv'
    BY <1>1, <1>3, CellFacts DEF OwnInv, Allocated
  <1>bit. BitInv'
    BY <1>2 DEF BitInv
  <1>6. \A o \in owned : span'[o[1]] = span[o[1]]
    BY <1>1, <1>3, CellFacts DEF OwnInv
  <1>mark. MarkInv'
    BY <1>1, <1>2, <1>6 DEF MarkInv, OwnInv, OlderThanCycle
  <1>cache. CacheInv'
    <2>1. \A pp \in Proc : cache[pp] # Nil => span'[cache[pp]] = span[cache[pp]]
      BY <1>1, <1>3 DEF CacheInv
    <2> QED
      BY <1>1, <1>2, <2>1 DEF CacheInv
  <1> QED
    BY <1>zero, <1>own, <1>bit, <1>mark, <1>cache

\* Nor can it leave user bytes behind where no stack is.
LEMMA StackStepClean ==
  ASSUME IInv, StackStep, UNCHANGED owned,
         \A w \in Cell : mem'[w] = "user" =>
           \/ \E g \in G : w \in stk'[g] \cup old'[g]
           \/ mem[w] = "user" /\ \A g \in G : w \notin stk[g] \cup old[g]
  PROVE  FreedIsClean'
  <1> USE DEF IInv
  <1>1. \A o \in owned : span'[o[1]] = span[o[1]]
    <2>1. \A p \in Page : span[p].state \in {"small", "large"} => span'[p] = span[p]
      BY DEF StackStep, FreePage
    <2> QED
      BY <2>1, Types, CellFacts DEF OwnInv
  <1>2. \A o \in owned : ObjWords(o)' = ObjWords(o)
    BY <1>1 DEF ObjWords
  <1> QED
    BY <1>2 DEF FreedIsClean

\* What ReachableKeepsBytes asks of a step that is not a stutter.
KeepsBytes ==
  \A o \in Cell : o \in Reachable /\ o \in Reachable' =>
    \A w \in ObjWords(o) : mem[w] = "user" => mem'[w] = "user"

\* The bytes of an object are not on the page of a stack.
LEMMA StackStepBytes ==
  ASSUME IInv, StackStep
  PROVE  KeepsBytes
  <1> USE DEF IInv
  <1>1. ASSUME NEW o \in Reachable, NEW w \in ObjWords(o)
        PROVE  mem'[w] = mem[w]
    <2>1. o \in owned /\ o \in Cell /\ o[1] \in Page
      BY <1>1, Types, CellFacts DEF OwnInv, Reachable
    <2>2. span[o[1]].state \in {"small", "large"}
      BY <2>1 DEF OwnInv
    <2>3. w \in Cell /\ w[1] = o[1]
      BY <1>1, <2>1, CellFacts DEF ObjWords
    <2>4. span'[o[1]].state = span[o[1]].state
      BY <2>1, <2>2 DEF StackStep, FreePage
    <2> QED
      BY <2>2, <2>3, <2>4 DEF StackStep
  <1> QED
    BY <1>1 DEF KeepsBytes

\* The words that a release of pages turns over.
LEMMA ReleasedStep ==
  ASSUME TypeOK, NEW Q \in SUBSET Page, \A q \in Q : span[q].state = "stack",
         NEW m \in [Cell -> {"zero", "link", "user"}],
         \A w \in Cell : m[w] # mem[w] => span[w[1]].state = "stack",
         span' = Released(span, Q), mem' = m, zeroedBase' = zeroedBase
  PROVE  StackStep
  <1>1. /\ span' \in [Page -> SpanType]
        /\ \A q \in Page : span'[q] = IF q \in Q THEN FreeSpan ELSE span[q]
    BY FreshSpans, Types DEF Released
  <1>2. zeroedBase \in 0..NPages /\ zeroedBase <= zeroedBase
    BY Types, SanitizeAssumption
  <1> QED
    BY <1>1, <1>2 DEF StackStep

\* stackfree takes a stack S that nobody holds any more: afterwards S has its
\* place again, and is clear.
LEMMA StackFree ==
  ASSUME TypeOK, NEW pp \in Proc \cup {Nil}, NEW S \in SUBSET Cell, Shape(S),
         NEW sk \in [G -> SUBSET Cell], NEW ol \in [G -> SUBSET Cell],
         StackPlaces(stackpool, stackcache, stackLarge, sk, ol),
         StackPages(span, stackpool, stackcache, stackLarge, sk, ol),
         \A w \in S : /\ span[w[1]].state = "stack"
                      /\ Unheld(w, stackpool, stackcache, stackLarge, sk, ol),
         stackfree(pp, S), zeroedBase' = zeroedBase
  PROVE  /\ StackPlaces(stackpool', stackcache', stackLarge', sk, ol)
         /\ StackPages(span', stackpool', stackcache', stackLarge', sk, ol)
         /\ stackpool' \subseteq Cell /\ stackLarge' \subseteq Page
         /\ stackcache' \in [Proc -> SUBSET Cell]
         /\ StackStep
         /\ \A w \in Cell : mem'[w] = "user" => mem[w] = "user" /\ w \notin S
  <1> DEFINE m == janosSanitizeStack(mem, S)
             p == (CHOOSE w \in S : TRUE)[1]
  <1>0. /\ stackpool \subseteq Cell /\ stackLarge \subseteq Page
        /\ stackcache \in [Proc -> SUBSET Cell] /\ span \in [Page -> SpanType]
        /\ mem \in [Cell -> {"zero", "link", "user"}]
    BY Types
  <1>1. /\ m \in [Cell -> {"zero", "link", "user"}]
        /\ \A w \in Cell : m[w] # mem[w] => w \in S
        /\ \A w \in Cell : m[w] = "user" => mem[w] = "user" /\ w \notin S
    BY <1>0 DEF janosSanitizeStack, memclr, Set
  <1>2. /\ Linked(m, S) \in [Cell -> {"zero", "link", "user"}]
        /\ \A w \in Cell : Linked(m, S)[w] # mem[w] => w \in S
        /\ \A w \in Cell : Linked(m, S)[w] = "user" => m[w] = "user"
    BY <1>0, <1>1 DEF Linked
  <1> HIDE DEF m
  <1>3. CASE IsLarge(S)
    <2>1. p \in Page /\ S = Words(p) /\ span[p].state = "stack"
      BY <1>3, LargeIsPage
    <2> HIDE DEF p
    <2>2. \A w \in Cell : w[1] = p => w \in S
      BY <2>1, CellFacts
    <2>3. \A q \in stackLarge : q # p
      BY <2>1, CellFacts DEF Unheld
    <2>4. CASE gcphase = "off"
      <3>1. /\ span' = Released(span, {p}) /\ mem' = m
            /\ UNCHANGED <<stackpool, stackcache, stackLarge>>
        BY <1>3, <2>4, Types DEF stackfree, m, p
      <3>2. StackStep
        BY <3>1, <2>1, <1>1, ReleasedStep
      <3>3. \A q \in Page : q # p => span'[q] = span[q]
        BY <3>1 DEF Released
      <3>4. /\ \A w \in stackpool : w[1] \in Page \ {p}
            /\ \A qq \in Proc : \A w \in stackcache[qq] : w[1] \in Page \ {p}
            /\ \A g \in G : \A w \in sk[g] \cup ol[g] : w[1] \in Page \ {p}
        <4>1. /\ \A w \in stackpool : w \in Cell /\ w \notin S
              /\ \A qq \in Proc : \A w \in stackcache[qq] : w \in Cell /\ w \notin S
              /\ \A g \in G : \A w \in sk[g] \cup ol[g] : w \in Cell /\ w \notin S
          BY <1>0 DEF Unheld
        <4> QED
          BY <4>1, <2>2, CellFacts
      <3>5. StackPages(span', stackpool, stackcache, stackLarge, sk, ol)
        BY <3>3, <3>4, <2>3, <1>0 DEF StackPages
      <3> QED
        BY <1>0, <1>1, <3>1, <3>2, <3>5
    <2>5. CASE gcphase # "off"
      <3>1. /\ stackLarge' = stackLarge \cup {p} /\ mem' = m
            /\ UNCHANGED <<span, stackpool, stackcache>>
        BY <1>3, <2>5 DEF stackfree, m, p
      <3>2. StackStep
        BY <3>1, <1>0, <1>1, Types, SanitizeAssumption DEF StackStep
      <3>3. StackPages(span, stackpool, stackcache, stackLarge', sk, ol)
        BY <3>1, <2>1 DEF StackPages
      <3>4. StackPlaces(stackpool, stackcache, stackLarge', sk, ol)
        <4>1. /\ \A w \in stackpool : w[1] # p
              /\ \A qq \in Proc : \A w \in stackcache[qq] : w[1] # p
              /\ \A g \in G : \A w \in sk[g] \cup ol[g] : w[1] # p
          BY <1>0, <2>2 DEF Unheld
        <4> QED
          BY <3>1, <4>1 DEF StackPlaces
      <3> QED
        BY <1>0, <1>1, <2>1, <3>1, <3>2, <3>3, <3>4
    <2> QED
      BY <2>4, <2>5
  <1>4. CASE ~IsLarge(S) /\ pp = Nil
    <2>1. /\ mem' = Linked(m, S) /\ stackpoolfree(S)
          /\ span' = Released(span, Emptied(S))
          /\ UNCHANGED <<stackcache, stackLarge>>
      BY <1>4, SanitizeAssumption DEF stackfree, m
    <2>2. /\ StackPlaces(stackpool', stackcache, stackLarge, sk, ol)
          /\ StackPages(span', stackpool', stackcache, stackLarge, sk, ol)
          /\ stackpool' \subseteq Cell
          /\ Emptied(S) \subseteq Page
          /\ \A q \in Emptied(S) : span[q].state = "stack"
      BY <2>1, <1>0, PoolFree DEF Unheld
    <2>3. StackStep
      BY <2>1, <2>2, <1>2, ReleasedStep
    <2> QED
      BY <1>0, <1>1, <1>2, <2>1, <2>2, <2>3
  <1>5. CASE ~IsLarge(S) /\ pp # Nil
    <2>0. pp \in Proc
      BY <1>5
    <2>1. PICK W \in SUBSET stackcache[pp] :
            /\ stackpoolfree(W)
            /\ span' = Released(span, Emptied(W))
            /\ stackcache' = [stackcache EXCEPT ![pp] = (@ \ W) \cup S]
      BY <1>5 DEF stackfree
    <2>2. mem' = Linked(m, S) /\ stackLarge' = stackLarge
      BY <1>5 DEF stackfree, m
    <2> DEFINE sc == [stackcache EXCEPT ![pp] = (@ \ W) \cup S]
    <2>3. /\ sc \in [Proc -> SUBSET Cell] /\ W \in SUBSET Cell
          /\ \A qq \in Proc : qq # pp => sc[qq] = stackcache[qq]
          /\ sc[pp] = (stackcache[pp] \ W) \cup S
      BY <1>0, <2>0
    <2> HIDE DEF sc
    <2>4. \A w \in W : w \notin S
      BY <2>0 DEF Unheld
    <2>5. StackPlaces(stackpool, sc, stackLarge, sk, ol)
      BY <2>0, <2>3, <2>4 DEF StackPlaces, Unheld
    <2>6. StackPages(span, stackpool, sc, stackLarge, sk, ol)
      BY <2>0, <2>3 DEF StackPages
    <2>7. \A w \in W : /\ span[w[1]].state = "stack"
                       /\ w[1] \notin stackLarge
                       /\ \A qq \in Proc : w \notin sc[qq]
                       /\ \A g \in G : w \notin sk[g] /\ w \notin ol[g]
      <3>1. \A w \in W : w \in stackcache[pp]
        BY <2>1
      <3> QED
        BY <2>0, <2>3, <2>4, <3>1 DEF StackPlaces, StackPages
    <2>8. /\ StackPlaces(stackpool', sc, stackLarge, sk, ol)
          /\ StackPages(span', stackpool', sc, stackLarge, sk, ol)
          /\ stackpool' \subseteq Cell
          /\ Emptied(W) \subseteq Page
          /\ \A q \in Emptied(W) : span[q].state = "stack"
      BY <2>1, <2>3, <2>5, <2>6, <2>7, PoolFree
    <2>9. StackStep
      BY <2>1, <2>2, <2>8, <1>2, ReleasedStep
    <2>10. stackcache' = sc
      BY <2>1 DEF sc
    <2> QED
      BY <1>0, <1>1, <1>2, <2>2, <2>3, <2>8, <2>9, <2>10
  <1> QED
    BY <1>3, <1>4, <1>5

\* The page p is taken from the heap for stacks.
LEMMA TakenStep ==
  ASSUME TypeOK, NEW p \in Page, FreePage(p),
         span' = [span EXCEPT ![p] = initSpan(p, "stack")],
         mem' \in [Cell -> {"zero", "link", "user"}],
         \A w \in Cell : mem'[w] # mem[w] => w[1] = p \/ span[w[1]].state = "stack",
         zeroedBase' = Watermark(p)
  PROVE  StackStep /\ span'[p].state = "stack" /\ \A q \in Page \ {p} : span'[q] = span[q]
  <1>1. /\ span' \in [Page -> SpanType] /\ span'[p] = initSpan(p, "stack")
        /\ \A q \in Page \ {p} : span'[q] = span[q]
    BY FreshSpans, Types
  <1>2. zeroedBase' \in 0..NPages /\ zeroedBase <= zeroedBase' /\ p <= zeroedBase'
    BY SlotFacts, Types, SanitizeAssumption DEF Watermark
  <1>3. span'[p].state = "stack"
    BY <1>1, FreshSpans
  <1> QED
    BY <1>1, <1>2, <1>3 DEF StackStep

\* A step that writes on pages of stacks only.
LEMMA QuietStep ==
  ASSUME TypeOK, UNCHANGED <<span, zeroedBase>>,
         mem' \in [Cell -> {"zero", "link", "user"}],
         \A w \in Cell : mem'[w] # mem[w] => span[w[1]].state = "stack"
  PROVE  StackStep
  <1>1. span \in [Page -> SpanType] /\ zeroedBase \in 0..NPages /\ zeroedBase <= zeroedBase
    BY Types, SanitizeAssumption
  <1> QED
    BY <1>1 DEF StackStep

\* stackpoolalloc takes the stacks R from the pool, or from a page it adds to
\* it: nobody holds them then.
LEMMA PoolAlloc ==
  ASSUME IInv, NEW R \in SUBSET Cell, NEW x \in R, NEW copy \in BOOLEAN,
         stackpoolalloc(R, x, copy)
  PROVE  /\ StackPlaces(stackpool', stackcache, stackLarge, stk, old)
         /\ StackPages(span', stackpool', stackcache, stackLarge, stk, old)
         /\ stackpool' \subseteq Cell
         /\ \A w \in R : /\ span'[w[1]].state = "stack"
                         /\ Unheld(w, stackpool', stackcache, stackLarge, stk, old)
         /\ StackStep
         /\ \A w \in Cell : mem'[w] = "user" => mem[w] = "user" \/ (copy /\ w = x)
  <1> USE DEF IInv
  <1>0. /\ stackpool \subseteq Cell /\ stackLarge \subseteq Page
        /\ stackcache \in [Proc -> SUBSET Cell] /\ span \in [Page -> SpanType]
        /\ mem \in [Cell -> {"zero", "link", "user"}]
        /\ stk \in [G -> SUBSET Cell] /\ old \in [G -> SUBSET Cell]
    BY Types
  <1>1. ASSUME NEW m \in [Cell -> {"zero", "link", "user"}]
        PROVE  /\ Copied(m, x, copy) \in [Cell -> {"zero", "link", "user"}]
               /\ \A w \in Cell : Copied(m, x, copy)[w] # m[w] =>
                    w = x /\ copy /\ Copied(m, x, copy)[w] = "user"
    BY DEF Copied, Set
  <1>2. /\ StackPlaces(stackpool, stackcache, stackLarge, stk, old)
        /\ StackPages(span, stackpool, stackcache, stackLarge, stk, old)
    BY DEF StackInv
  <1>3. CASE R \subseteq stackpool /\ stackpool' = stackpool \ R
             /\ mem' = Copied(mem, x, copy) /\ UNCHANGED <<span, zeroedBase>>
    <2>1. \A w \in R : /\ span[w[1]].state = "stack"
                       /\ Unheld(w, stackpool', stackcache, stackLarge, stk, old)
      BY <1>2, <1>3 DEF StackPlaces, StackPages, Unheld
    <2>2. StackStep
      BY <1>0, <1>1, <1>3, <2>1, QuietStep
    <2>3. /\ StackPlaces(stackpool', stackcache, stackLarge, stk, old)
          /\ StackPages(span, stackpool', stackcache, stackLarge, stk, old)
      BY <1>2, <1>3 DEF StackPlaces, StackPages
    <2> QED
      BY <1>0, <1>1, <1>3, <2>1, <2>2, <2>3
  <1>4. ASSUME NEW p \in Page, FreePage(p), stackpool \subseteq R,
               R \subseteq stackpool \cup Words(p), stackpool' = Words(p) \ R,
               span' = [span EXCEPT ![p] = initSpan(p, "stack")],
               mem' = Copied(Linked(mem, Words(p)), x, copy),
               zeroedBase' = Watermark(p)
        PROVE  /\ StackPlaces(stackpool', stackcache, stackLarge, stk, old)
               /\ StackPages(span', stackpool', stackcache, stackLarge, stk, old)
               /\ stackpool' \subseteq Cell
               /\ \A w \in R : /\ span'[w[1]].state = "stack"
                               /\ Unheld(w, stackpool', stackcache, stackLarge, stk, old)
               /\ StackStep
               /\ \A w \in Cell : mem'[w] = "user" => mem[w] = "user" \/ (copy /\ w = x)
    <2> DEFINE m == Linked(mem, Words(p))
    <2>1. /\ m \in [Cell -> {"zero", "link", "user"}]
          /\ \A w \in Cell : m[w] # mem[w] => w[1] = p /\ m[w] = "link"
      BY <1>0, CellFacts DEF Linked
    <2> HIDE DEF m
    <2>2. mem' = Copied(m, x, copy)
      BY <1>4 DEF m
    <2>3. /\ \A w \in stackpool : w \in Cell /\ w[1] # p
          /\ \A qq \in Proc : \A w \in stackcache[qq] : w \in Cell /\ w[1] # p
          /\ \A g \in G : \A w \in stk[g] \cup old[g] : w \in Cell /\ w[1] # p
          /\ \A q \in stackLarge : q # p
      BY <1>0, <1>2, <1>4 DEF StackPages, FreePage
    <2>4. \A w \in Cell : w \in Words(p) <=> w[1] = p
      BY CellFacts
    <2>5. \A w \in R : w \in Cell /\ (w[1] = p \/ span[w[1]].state = "stack")
      BY <1>2, <1>4, <2>4 DEF StackPages
    <2>6. /\ mem' \in [Cell -> {"zero", "link", "user"}]
          /\ \A w \in Cell : mem'[w] # mem[w] => w[1] = p \/ span[w[1]].state = "stack"
          /\ \A w \in Cell : mem'[w] = "user" => mem[w] = "user" \/ (copy /\ w = x)
      BY <1>1, <2>1, <2>2, <2>5
    <2>7. /\ StackStep /\ span'[p].state = "stack"
          /\ \A q \in Page \ {p} : span'[q] = span[q]
      BY <1>4, <2>6, TakenStep
    <2>8. \A w \in R : /\ span'[w[1]].state = "stack"
                       /\ Unheld(w, stackpool', stackcache, stackLarge, stk, old)
      <3>1. \A w \in R : span'[w[1]].state = "stack"
        BY <2>5, <2>7, CellFacts
      <3>2. \A w \in R : w[1] = p \/ w \in stackpool
        BY <1>4, <2>4
      <3>3. \A w \in R : Unheld(w, stackpool', stackcache, stackLarge, stk, old)
        BY <1>2, <1>4, <2>3, <3>2 DEF Unheld, StackPlaces
      <3> QED
        BY <3>1, <3>3
    <2>9. \A w \in stackpool' : w \in Cell /\ w[1] = p
      BY <1>4, <2>4, CellFacts
    <2>10. StackPlaces(stackpool', stackcache, stackLarge, stk, old)
      BY <1>2, <2>3, <2>9 DEF StackPlaces
    <2>11. StackPages(span', stackpool', stackcache, stackLarge, stk, old)
      <3>1. \A w \in Cell : w[1] # p => span'[w[1]] = span[w[1]]
        BY <2>7, CellFacts
      <3>2. \A w \in stackpool' : span'[w[1]].state = "stack"
        BY <2>7, <2>9
      <3>3. \A qq \in Proc : \A w \in stackcache[qq] : span'[w[1]].state = "stack"
        BY <1>2, <2>3, <3>1 DEF StackPages
      <3>4. \A g \in G : \A w \in stk[g] \cup old[g] : span'[w[1]].state = "stack"
        BY <1>2, <2>3, <3>1 DEF StackPages
      <3>5. \A q \in stackLarge : span'[q].state = "stack"
        BY <1>0, <1>2, <2>3, <2>7 DEF StackPages
      <3> QED
        BY <3>2, <3>3, <3>4, <3>5, Zenon DEF StackPages
    <2> QED
      BY <2>6, <2>7, <2>8, <2>9, <2>10, <2>11
  <1> QED
    BY <1>3, <1>4 DEF stackpoolalloc

\* stackalloc hands out a stack x that nobody holds.
LEMMA StackAlloc ==
  ASSUME IInv, NEW pp \in Proc \cup {Nil}, NEW x \in Cell, NEW copy \in BOOLEAN,
         stackalloc(pp, x, copy)
  PROVE  /\ StackPlaces(stackpool', stackcache', stackLarge, stk, old)
         /\ StackPages(span', stackpool', stackcache', stackLarge, stk, old)
         /\ stackpool' \subseteq Cell /\ stackcache' \in [Proc -> SUBSET Cell]
         /\ span'[x[1]].state = "stack"
         /\ Unheld(x, stackpool', stackcache', stackLarge, stk, old)
         /\ StackStep
         /\ \A w \in Cell : mem'[w] = "user" => mem[w] = "user" \/ (copy /\ w = x)
  <1> USE DEF IInv
  <1>0. /\ stackpool \subseteq Cell /\ stackcache \in [Proc -> SUBSET Cell]
        /\ mem \in [Cell -> {"zero", "link", "user"}] /\ Nil \notin Proc
    BY Types, SlotFacts
  <1>1. /\ StackPlaces(stackpool, stackcache, stackLarge, stk, old)
        /\ StackPages(span, stackpool, stackcache, stackLarge, stk, old)
    BY DEF StackInv
  <1>2. CASE pp # Nil /\ x \in stackcache[pp]
             /\ stackcache' = [stackcache EXCEPT ![pp] = @ \ {x}]
             /\ mem' = Copied(mem, x, copy)
             /\ UNCHANGED <<span, zeroedBase, stackpool>>
    <2>1. /\ pp \in Proc /\ stackcache' \in [Proc -> SUBSET Cell]
          /\ \A qq \in Proc : qq # pp => stackcache'[qq] = stackcache[qq]
          /\ stackcache'[pp] = stackcache[pp] \ {x}
      BY <1>0, <1>2
    <2>2. /\ mem' \in [Cell -> {"zero", "link", "user"}]
          /\ \A w \in Cell : mem'[w] # mem[w] => w = x /\ copy
      BY <1>0, <1>2 DEF Copied, Set
    <2>3. /\ span[x[1]].state = "stack"
          /\ Unheld(x, stackpool, stackcache', stackLarge, stk, old)
      BY <1>1, <1>2, <2>1 DEF StackPlaces, StackPages, Unheld
    <2>4. StackStep
      BY <1>2, <2>2, <2>3, QuietStep
    <2>5. /\ StackPlaces(stackpool, stackcache', stackLarge, stk, old)
          /\ StackPages(span, stackpool, stackcache', stackLarge, stk, old)
      BY <1>1, <2>1 DEF StackPlaces, StackPages
    <2> QED
      BY <1>0, <1>2, <2>1, <2>2, <2>3, <2>4, <2>5
  <1>3. ASSUME pp # Nil, stackcache[pp] = {}, NEW R \in SUBSET Cell, x \in R,
               stackpoolalloc(R, x, copy),
               stackcache' = [stackcache EXCEPT ![pp] = R \ {x}]
        PROVE  /\ StackPlaces(stackpool', stackcache', stackLarge, stk, old)
               /\ StackPages(span', stackpool', stackcache', stackLarge, stk, old)
               /\ stackpool' \subseteq Cell /\ stackcache' \in [Proc -> SUBSET Cell]
               /\ span'[x[1]].state = "stack"
               /\ Unheld(x, stackpool', stackcache', stackLarge, stk, old)
               /\ StackStep
               /\ \A w \in Cell : mem'[w] = "user" => mem[w] = "user" \/ (copy /\ w = x)
    <2>1. /\ pp \in Proc /\ stackcache' \in [Proc -> SUBSET Cell]
          /\ \A qq \in Proc : qq # pp => stackcache'[qq] = stackcache[qq]
          /\ stackcache'[pp] = R \ {x}
      BY <1>0, <1>3
    <2>2. /\ StackPlaces(stackpool', stackcache, stackLarge, stk, old)
          /\ StackPages(span', stackpool', stackcache, stackLarge, stk, old)
          /\ stackpool' \subseteq Cell
          /\ \A w \in R : /\ span'[w[1]].state = "stack"
                          /\ Unheld(w, stackpool', stackcache, stackLarge, stk, old)
          /\ StackStep
          /\ \A w \in Cell : mem'[w] = "user" => mem[w] = "user" \/ (copy /\ w = x)
      <3>1. R \in SUBSET Cell /\ x \in R /\ stackpoolalloc(R, x, copy)
        BY <1>3
      <3> QED
        BY <3>1, PoolAlloc, Zenon
    <2>3. Unheld(x, stackpool', stackcache', stackLarge, stk, old)
      BY <1>3, <2>1, <2>2 DEF Unheld
    <2>4. StackPlaces(stackpool', stackcache', stackLarge, stk, old)
      BY <2>1, <2>2 DEF StackPlaces, Unheld
    <2>5. StackPages(span', stackpool', stackcache', stackLarge, stk, old)
      BY <2>1, <2>2 DEF StackPages
    <2> QED
      BY <1>3, <2>1, <2>2, <2>3, <2>4, <2>5
  <1>4. CASE pp = Nil /\ stackpoolalloc({x}, x, copy) /\ stackcache' = stackcache
    BY <1>0, <1>4, PoolAlloc
  <1> QED
    BY <1>2, <1>3, <1>4 DEF stackalloc

-----------------------------------------------------------------------------
(* The steps of goroutines and their stacks *)

\* What is left to show for a step that is about stacks only.
LEMMA StackActionKeeps ==
  ASSUME IInv, StackStep, UNCHANGED <<cache, flushed, objVars, gcphase>>,
         cycles' \in 0..MaxGC, tail' \in BOOLEAN,
         gstat' \in [G -> {"none", "new", "run", "dead"}],
         home' \in [G -> Proc \cup {Nil}],
         stk' \in [G -> SUBSET Cell], old' \in [G -> SUBSET Cell],
         stackpool' \subseteq Cell, stackLarge' \subseteq Page,
         stackcache' \in [Proc -> SUBSET Cell],
         StackInv',
         \A w \in Cell : mem'[w] = "user" =>
           \/ \E g \in G : w \in stk'[g] \cup old'[g]
           \/ mem[w] = "user" /\ \A g \in G : w \notin stk[g] \cup old[g]
  PROVE  IInv' /\ KeepsBytes
  <1>1. UNCHANGED owned
    BY DEF objVars
  <1>2. TypeOK'
    <2>1. TypeOK
      BY DEF IInv
    <2>2. /\ span' \in [Page -> SpanType]
          /\ mem' \in [Cell -> {"zero", "link", "user"}]
          /\ zeroedBase' \in 0..NPages
      BY DEF StackStep
    <2>3. /\ cache' \in [Proc -> Page \cup {Nil}] /\ flushed' \in [Proc -> BOOLEAN]
          /\ gcphase' \in {"off", "mark"}
          /\ owned' \subseteq Cell /\ live' \subseteq Cell
          /\ fin' \subseteq Cell /\ finq' \subseteq Cell
      BY <2>1, Types DEF objVars
    <2> QED
      BY <2>2, <2>3 DEF TypeOK, SpanType
  <1>3. ZeroInv' /\ OwnInv' /\ BitInv' /\ MarkInv' /\ CacheInv'
    BY StackStepKeeps
  <1>4. FreedIsClean'
    BY <1>1, StackStepClean
  <1>5. KeepsBytes
    BY StackStepBytes
  <1> QED
    BY <1>2, <1>3, <1>4, <1>5 DEF IInv

\* newproc1 keeps the invariant: the stack it takes belonged to nobody.
LEMMA NewprocStep ==
  ASSUME IInv, NEW pp \in Proc, NEW g \in G, newproc1(pp, g)
  PROVE  IInv' /\ KeepsBytes
  <1> USE DEF IInv
  <1>1. /\ UNCHANGED <<cache, flushed, objVars, gcphase, cycles, tail, stackLarge, old>>
        /\ gstat' = [gstat EXCEPT ![g] = "new"]
    BY DEF newproc1, gcVars
  <1>2. /\ cycles' \in 0..MaxGC /\ tail' \in BOOLEAN
        /\ gstat' \in [G -> {"none", "new", "run", "dead"}]
        /\ old' \in [G -> SUBSET Cell] /\ stackLarge' \subseteq Page
        /\ stk \in [G -> SUBSET Cell]
    BY <1>1, Types
  <1>3. home' \in [G -> Proc \cup {Nil}]
    BY Types DEF newproc1
  <1>4. CASE stk[g] # {}
    <2>1. UNCHANGED <<span, mem, zeroedBase, stackpool, stackcache, stk>>
      BY <1>4 DEF newproc1
    <2>2. StackStep
      BY <2>1, Types, QuietStep
    <2>3. StackInv'
      BY <1>1, <2>1 DEF StackInv
    <2>4. stackpool' \subseteq Cell /\ stackcache' \in [Proc -> SUBSET Cell]
      BY <2>1, Types
    <2>5. \A w \in Cell : mem'[w] = "user" =>
            \/ \E h \in G : w \in stk'[h] \cup old'[h]
            \/ mem[w] = "user" /\ \A h \in G : w \notin stk[h] \cup old[h]
      BY <1>1, <2>1
    <2> HIDE DEF IInv
    <2> QED
      BY <1>1, <1>2, <1>3, <2>1, <2>2, <2>3, <2>4, <2>5, StackActionKeeps
  <1>5. CASE stk[g] = {}
    <2>1. PICK x \in Cell, by \in {pp, Nil} :
            stackalloc(by, x, FALSE) /\ stk' = [stk EXCEPT ![g] = {x}]
      BY <1>5 DEF newproc1
    <2>2. /\ StackPlaces(stackpool', stackcache', stackLarge, stk, old)
          /\ StackPages(span', stackpool', stackcache', stackLarge, stk, old)
          /\ stackpool' \subseteq Cell /\ stackcache' \in [Proc -> SUBSET Cell]
          /\ span'[x[1]].state = "stack"
          /\ Unheld(x, stackpool', stackcache', stackLarge, stk, old)
          /\ StackStep
          /\ \A w \in Cell : mem'[w] = "user" => mem[w] = "user"
      <3> HIDE DEF IInv
      <3> QED
        BY <2>1, StackAlloc
    <2>3. /\ stk' \in [G -> SUBSET Cell] /\ stk'[g] = {x}
          /\ \A h \in G : h # g => stk'[h] = stk[h]
      BY <1>2, <2>1
    <2>4. StackPlaces(stackpool', stackcache', stackLarge, stk', old)
      BY <1>5, <2>2, <2>3 DEF StackPlaces, Unheld
    <2>5. StackPages(span', stackpool', stackcache', stackLarge, stk', old)
      BY <2>2, <2>3 DEF StackPages
    <2>6. StackInv'
      BY <1>1, <2>3, <2>4, <2>5 DEF StackInv, Shape
    <2>7. \A w \in Cell : mem'[w] = "user" =>
            \/ \E h \in G : w \in stk'[h] \cup old'[h]
            \/ mem[w] = "user" /\ \A h \in G : w \notin stk[h] \cup old[h]
      BY <1>1, <1>5, <2>2, <2>3
    <2> HIDE DEF IInv
    <2> QED
      BY <1>1, <1>2, <1>3, <2>2, <2>3, <2>6, <2>7, StackActionKeeps
  <1> QED
    BY <1>4, <1>5

\* A goroutine writes to no words but its stack's.
LEMMA RunFramesStep ==
  ASSUME IInv, NEW g \in G, RunFrames(g)
  PROVE  IInv' /\ KeepsBytes
  <1>1. /\ UNCHANGED <<span, zeroedBase, cache, flushed, objVars, gcphase, cycles,
                       tail, stackpool, stackcache, stackLarge, home, stk, old>>
        /\ gstat' = [gstat EXCEPT ![g] = "run"]
        /\ mem' = Set(mem, stk[g], "user")
    BY DEF RunFrames, gcVars
  <1>2. TypeOK /\ StackInv
    BY DEF IInv
  <1>3. /\ cycles' \in 0..MaxGC /\ tail' \in BOOLEAN
        /\ gstat' \in [G -> {"none", "new", "run", "dead"}]
        /\ home' \in [G -> Proc \cup {Nil}]
        /\ stk' \in [G -> SUBSET Cell] /\ old' \in [G -> SUBSET Cell]
        /\ stackpool' \subseteq Cell /\ stackLarge' \subseteq Page
        /\ stackcache' \in [Proc -> SUBSET Cell]
    BY <1>1, <1>2, Types
  <1>4. /\ mem' \in [Cell -> {"zero", "link", "user"}]
        /\ \A w \in Cell : mem'[w] # mem[w] => w \in stk[g]
    BY <1>1, <1>2, Types DEF Set
  <1>5. StackStep
    BY <1>1, <1>2, <1>4, QuietStep DEF StackInv, StackPages
  <1>6. StackInv'
    BY <1>1, <1>2 DEF StackInv
  <1>7. \A w \in Cell : mem'[w] = "user" =>
          \/ \E h \in G : w \in stk'[h] \cup old'[h]
          \/ mem[w] = "user" /\ \A h \in G : w \notin stk[h] \cup old[h]
    BY <1>1, <1>4
  <1> QED
    BY <1>1, <1>3, <1>5, <1>6, <1>7, StackActionKeeps

\* copystack to a large stack takes a page nobody has.
LEMMA GrowStackStep ==
  ASSUME IInv, NEW g \in G, NEW p \in Page, GrowStack(g, p)
  PROVE  IInv' /\ KeepsBytes
  <1>0. TypeOK /\ StackInv
    BY DEF IInv
  <1>1. /\ UNCHANGED <<cache, flushed, objVars, gcphase, cycles, tail, stackpool,
                       stackcache, gstat, home>>
        /\ mem' = Set(mem, Words(p), "user")
        /\ stk' = [stk EXCEPT ![g] = Words(p)]
        /\ old' = [old EXCEPT ![g] = stk[g]]
        /\ old[g] = {}
    BY DEF GrowStack, gcVars
  <1>2. /\ cycles' \in 0..MaxGC /\ tail' \in BOOLEAN
        /\ gstat' \in [G -> {"none", "new", "run", "dead"}]
        /\ home' \in [G -> Proc \cup {Nil}]
        /\ stackpool \subseteq Cell /\ stackpool' \subseteq Cell
        /\ stackcache \in [Proc -> SUBSET Cell]
        /\ stackcache' \in [Proc -> SUBSET Cell]
        /\ stackLarge \subseteq Page /\ span \in [Page -> SpanType]
        /\ stk \in [G -> SUBSET Cell] /\ old \in [G -> SUBSET Cell]
        /\ mem \in [Cell -> {"zero", "link", "user"}]
    BY <1>0, <1>1, Types
  <1>3. /\ stk' \in [G -> SUBSET Cell] /\ stk'[g] = Words(p)
        /\ old' \in [G -> SUBSET Cell] /\ old'[g] = stk[g]
        /\ \A h \in G : h # g => stk'[h] = stk[h] /\ old'[h] = old[h]
    BY <1>1, <1>2, CellFacts
  <1>4. /\ mem' \in [Cell -> {"zero", "link", "user"}]
        /\ \A w \in Cell : mem'[w] # mem[w] => w[1] = p
        /\ \A w \in Cell : w \in Words(p) <=> w[1] = p
    BY <1>1, <1>2, CellFacts DEF Set
  <1>5. /\ StackPlaces(stackpool, stackcache, stackLarge, stk, old)
        /\ StackPages(span, stackpool, stackcache, stackLarge, stk, old)
    BY <1>0 DEF StackInv
  <1>6. /\ StackStep /\ stackLarge' \subseteq stackLarge /\ p \notin stackLarge'
        /\ span'[p].state = "stack" /\ \A q \in Page \ {p} : span'[q] = span[q]
        /\ \A w \in Cell : w[1] = p => Unheld(w, stackpool, stackcache, {}, stk, old)
    <2>1. CASE /\ p \in stackLarge /\ stackLarge' = stackLarge \ {p}
               /\ UNCHANGED <<span, zeroedBase>>
      <3>1. span[p].state = "stack"
        BY <1>5, <2>1 DEF StackPages
      <3>2. StackStep
        BY <1>0, <1>4, <2>1, <3>1, QuietStep
      <3> QED
        BY <1>5, <2>1, <3>1, <3>2 DEF StackPlaces, Unheld
    <2>2. CASE /\ FreePage(p) /\ stackLarge' = stackLarge
               /\ span' = [span EXCEPT ![p] = initSpan(p, "stack")]
               /\ zeroedBase' = Watermark(p)
      <3>1. /\ StackStep /\ span'[p].state = "stack"
            /\ \A q \in Page \ {p} : span'[q] = span[q]
        BY <1>0, <1>4, <2>2, TakenStep
      <3> QED
        BY <1>5, <2>2, <3>1 DEF StackPages, Unheld, FreePage
    <2> QED
      BY <2>1, <2>2 DEF GrowStack
  <1>7. StackPlaces(stackpool, stackcache, stackLarge', stk', old')
    <2>1. /\ \A w \in stackpool : w \in Cell /\ w[1] # p
          /\ \A qq \in Proc : \A w \in stackcache[qq] : w \in Cell /\ w[1] # p
          /\ \A h \in G : \A w \in stk[h] \cup old[h] : w \in Cell /\ w[1] # p
      BY <1>2, <1>6 DEF Unheld
    <2>2. \A w \in Words(p) : w \in Cell /\ w[1] = p
      BY CellFacts
    <2>3. \A h \in G : \A w \in stk'[h] : (w[1] = p /\ h = g) \/ (w \in stk[h] /\ h # g)
      BY <1>3, <2>2
    <2>4. \A h \in G : \A w \in old'[h] :
            w[1] # p /\ ((w \in stk[h] /\ h = g) \/ (w \in old[h] /\ h # g))
      BY <1>3, <2>1
    <2>5. stackLarge' \subseteq stackLarge /\ p \notin stackLarge'
      BY <1>6
    <2> QED
      BY <1>5, <2>1, <2>3, <2>4, <2>5 DEF StackPlaces
  <1>8. StackPages(span', stackpool, stackcache, stackLarge', stk', old')
    <2>1. \A q \in Page : span[q].state = "stack" => span'[q].state = "stack"
      BY <1>6
    <2>2. \A w \in Words(p) : span'[w[1]].state = "stack"
      BY <1>6, CellFacts
    <2>3. \A w \in Cell : span[w[1]].state = "stack" => span'[w[1]].state = "stack"
      BY <2>1, CellFacts
    <2>4. \A h \in G : \A w \in stk'[h] \cup old'[h] :
            w \in Words(p) \/ w \in stk[h] \cup old[h]
      BY <1>3
    <2>5. \A h \in G : \A w \in stk'[h] \cup old'[h] : span'[w[1]].state = "stack"
      BY <1>2, <1>5, <2>2, <2>3, <2>4 DEF StackPages
    <2>6. \A q \in stackLarge' : span'[q].state = "stack"
      BY <1>2, <1>5, <1>6, <2>1 DEF StackPages
    <2> QED
      BY <1>2, <1>5, <2>3, <2>5, <2>6 DEF StackPages
  <1>9. StackInv'
    BY <1>0, <1>1, <1>3, <1>7, <1>8 DEF StackInv, Shape
  <1>10. \A w \in Cell : mem'[w] = "user" =>
          \/ \E h \in G : w \in stk'[h] \cup old'[h]
          \/ mem[w] = "user" /\ \A h \in G : w \notin stk[h] \cup old[h]
    BY <1>1, <1>3, <1>4
  <1>11. stackLarge' \subseteq Page
    BY <1>2, <1>6
  <1> QED
    BY <1>1, <1>2, <1>3, <1>6, <1>9, <1>10, <1>11, StackActionKeeps

\* shrinkstack takes a word nobody has, and the old page is still the g's.
LEMMA ShrinkStackStep ==
  ASSUME IInv, NEW pp \in Proc \cup {Nil}, NEW g \in G, ShrinkStack(pp, g)
  PROVE  IInv' /\ KeepsBytes
  <1>0. TypeOK /\ StackInv
    BY DEF IInv
  <1>1. /\ UNCHANGED <<cache, flushed, objVars, gcphase, cycles, tail, stackLarge,
                       gstat, home>>
        /\ old' = [old EXCEPT ![g] = stk[g]]
        /\ old[g] = {}
    BY DEF ShrinkStack, gcVars
  <1>2. PICK x \in Cell : stackalloc(pp, x, TRUE) /\ stk' = [stk EXCEPT ![g] = {x}]
    BY DEF ShrinkStack
  <1>3. /\ cycles' \in 0..MaxGC /\ tail' \in BOOLEAN
        /\ gstat' \in [G -> {"none", "new", "run", "dead"}]
        /\ home' \in [G -> Proc \cup {Nil}]
        /\ stackLarge' \subseteq Page
        /\ stk \in [G -> SUBSET Cell] /\ old \in [G -> SUBSET Cell]
    BY <1>0, <1>1, Types
  <1>4. /\ stk' \in [G -> SUBSET Cell] /\ stk'[g] = {x}
        /\ old' \in [G -> SUBSET Cell] /\ old'[g] = stk[g]
        /\ \A h \in G : h # g => stk'[h] = stk[h] /\ old'[h] = old[h]
    BY <1>1, <1>2, <1>3
  <1>5. /\ StackPlaces(stackpool', stackcache', stackLarge, stk, old)
        /\ StackPages(span', stackpool', stackcache', stackLarge, stk, old)
        /\ stackpool' \subseteq Cell /\ stackcache' \in [Proc -> SUBSET Cell]
        /\ span'[x[1]].state = "stack"
        /\ Unheld(x, stackpool', stackcache', stackLarge, stk, old)
        /\ StackStep
        /\ \A w \in Cell : mem'[w] = "user" => mem[w] = "user" \/ w = x
    BY <1>2, StackAlloc
  <1>6. StackPlaces(stackpool', stackcache', stackLarge, stk', old')
    BY <1>1, <1>4, <1>5 DEF StackPlaces, Unheld
  <1>7. StackPages(span', stackpool', stackcache', stackLarge, stk', old')
    BY <1>4, <1>5 DEF StackPages
  <1>8. StackInv'
    BY <1>0, <1>1, <1>4, <1>6, <1>7 DEF StackInv, Shape
  <1>9. \A w \in Cell : mem'[w] = "user" =>
          \/ \E h \in G : w \in stk'[h] \cup old'[h]
          \/ mem[w] = "user" /\ \A h \in G : w \notin stk[h] \cup old[h]
    BY <1>1, <1>4, <1>5
  <1> QED
    BY <1>1, <1>3, <1>4, <1>5, <1>8, <1>9, StackActionKeeps

\* A goroutine that gives up its stack, or the one copystack has left, gives up
\* what nobody else holds.
LEMMA GivenUp ==
  ASSUME TypeOK, StackInv, NEW g \in G
  PROVE  /\ LET sk == [stk EXCEPT ![g] = {}]
            IN  /\ sk \in [G -> SUBSET Cell]
                /\ StackPlaces(stackpool, stackcache, stackLarge, sk, old)
                /\ StackPages(span, stackpool, stackcache, stackLarge, sk, old)
                /\ \A w \in stk[g] :
                     /\ span[w[1]].state = "stack"
                     /\ Unheld(w, stackpool, stackcache, stackLarge, sk, old)
                /\ \A h \in G : Shape(sk[h])
                /\ \A h \in G : \A w \in stk[h] : w \in sk[h] \/ w \in stk[g]
                /\ \A h \in G : \A w \in sk[h] : w \in stk[h]
         /\ LET ol == [old EXCEPT ![g] = {}]
            IN  /\ ol \in [G -> SUBSET Cell]
                /\ StackPlaces(stackpool, stackcache, stackLarge, stk, ol)
                /\ StackPages(span, stackpool, stackcache, stackLarge, stk, ol)
                /\ \A w \in old[g] :
                     /\ span[w[1]].state = "stack"
                     /\ Unheld(w, stackpool, stackcache, stackLarge, stk, ol)
                /\ \A h \in G : Shape(ol[h])
                /\ \A h \in G : \A w \in old[h] : w \in ol[h] \/ w \in old[g]
                /\ \A h \in G : \A w \in ol[h] : w \in old[h]
  <1>0. /\ stk \in [G -> SUBSET Cell] /\ old \in [G -> SUBSET Cell]
        /\ StackPlaces(stackpool, stackcache, stackLarge, stk, old)
        /\ StackPages(span, stackpool, stackcache, stackLarge, stk, old)
    BY Types DEF StackInv
  <1> DEFINE sk == [stk EXCEPT ![g] = {}]
             ol == [old EXCEPT ![g] = {}]
  <1>1. /\ sk \in [G -> SUBSET Cell] /\ sk[g] = {}
        /\ \A h \in G : h # g => sk[h] = stk[h]
    BY <1>0
  <1>2. /\ ol \in [G -> SUBSET Cell] /\ ol[g] = {}
        /\ \A h \in G : h # g => ol[h] = old[h]
    BY <1>0
  <1> HIDE DEF sk, ol
  <1>3. /\ \A h \in G : \A w \in stk[h] : w \in sk[h] \/ w \in stk[g]
        /\ \A h \in G : \A w \in sk[h] : w \in stk[h] /\ h # g
        /\ \A h \in G : \A w \in old[h] : w \in ol[h] \/ w \in old[g]
        /\ \A h \in G : \A w \in ol[h] : w \in old[h] /\ h # g
    BY <1>1, <1>2
  <1>4. /\ StackPlaces(stackpool, stackcache, stackLarge, sk, old)
        /\ StackPages(span, stackpool, stackcache, stackLarge, sk, old)
    BY <1>0, <1>3 DEF StackPlaces, StackPages
  <1>5. /\ StackPlaces(stackpool, stackcache, stackLarge, stk, ol)
        /\ StackPages(span, stackpool, stackcache, stackLarge, stk, ol)
    BY <1>0, <1>3 DEF StackPlaces, StackPages
  <1>6. \A w \in stk[g] : /\ span[w[1]].state = "stack"
                          /\ Unheld(w, stackpool, stackcache, stackLarge, sk, old)
    BY <1>0, <1>3 DEF StackPlaces, StackPages, Unheld
  <1>7. \A w \in old[g] : /\ span[w[1]].state = "stack"
                          /\ Unheld(w, stackpool, stackcache, stackLarge, stk, ol)
    BY <1>0, <1>3 DEF StackPlaces, StackPages, Unheld
  <1>8. \A h \in G : Shape(sk[h]) /\ Shape(ol[h])
    BY <1>1, <1>2 DEF StackInv, Shape
  <1> QED
    BY <1>1, <1>2, <1>3, <1>4, <1>5, <1>6, <1>7, <1>8 DEF sk, ol

\* The same, after which stackfree has it.
LEMMA GivenToStackfree ==
  ASSUME IInv, NEW pp \in Proc \cup {Nil}, NEW g \in G, zeroedBase' = zeroedBase,
         \/ /\ stackfree(pp, stk[g]) /\ stk' = [stk EXCEPT ![g] = {}] /\ old' = old
         \/ /\ stackfree(pp, old[g]) /\ old' = [old EXCEPT ![g] = {}] /\ stk' = stk
  PROVE  /\ StackInv' /\ StackStep
         /\ stk' \in [G -> SUBSET Cell] /\ old' \in [G -> SUBSET Cell]
         /\ stackpool' \subseteq Cell /\ stackLarge' \subseteq Page
         /\ stackcache' \in [Proc -> SUBSET Cell]
         /\ \A w \in Cell : mem'[w] = "user" =>
              \/ \E h \in G : w \in stk'[h] \cup old'[h]
              \/ mem[w] = "user" /\ \A h \in G : w \notin stk[h] \cup old[h]
  <1>0. TypeOK /\ StackInv
    BY DEF IInv
  <1>1. /\ stk \in [G -> SUBSET Cell] /\ old \in [G -> SUBSET Cell]
        /\ \A h \in G : Shape(stk[h]) /\ Shape(old[h])
    BY <1>0, Types DEF StackInv
  <1>2. CASE stackfree(pp, stk[g]) /\ stk' = [stk EXCEPT ![g] = {}] /\ old' = old
    <2>1. /\ stk' \in [G -> SUBSET Cell]
          /\ StackPlaces(stackpool, stackcache, stackLarge, stk', old)
          /\ StackPages(span, stackpool, stackcache, stackLarge, stk', old)
          /\ \A w \in stk[g] :
               /\ span[w[1]].state = "stack"
               /\ Unheld(w, stackpool, stackcache, stackLarge, stk', old)
          /\ \A h \in G : Shape(stk'[h])
          /\ \A h \in G : \A w \in stk[h] : w \in stk'[h] \/ w \in stk[g]
      BY <1>0, <1>2, GivenUp
    <2>2. /\ StackPlaces(stackpool', stackcache', stackLarge', stk', old)
          /\ StackPages(span', stackpool', stackcache', stackLarge', stk', old)
          /\ stackpool' \subseteq Cell /\ stackLarge' \subseteq Page
          /\ stackcache' \in [Proc -> SUBSET Cell]
          /\ StackStep
          /\ \A w \in Cell : mem'[w] = "user" => mem[w] = "user" /\ w \notin stk[g]
      <3>1. stk[g] \in SUBSET Cell /\ Shape(stk[g]) /\ stackfree(pp, stk[g])
        BY <1>1, <1>2
      <3> QED
        BY <1>0, <1>1, <2>1, <3>1, StackFree
    <2>3. StackInv'
      BY <1>1, <1>2, <2>1, <2>2 DEF StackInv
    <2> QED
      BY <1>1, <1>2, <2>1, <2>2, <2>3
  <1>3. CASE stackfree(pp, old[g]) /\ old' = [old EXCEPT ![g] = {}] /\ stk' = stk
    <2>1. /\ old' \in [G -> SUBSET Cell]
          /\ StackPlaces(stackpool, stackcache, stackLarge, stk, old')
          /\ StackPages(span, stackpool, stackcache, stackLarge, stk, old')
          /\ \A w \in old[g] :
               /\ span[w[1]].state = "stack"
               /\ Unheld(w, stackpool, stackcache, stackLarge, stk, old')
          /\ \A h \in G : Shape(old'[h])
          /\ \A h \in G : \A w \in old[h] : w \in old'[h] \/ w \in old[g]
      BY <1>0, <1>3, GivenUp
    <2>2. /\ StackPlaces(stackpool', stackcache', stackLarge', stk, old')
          /\ StackPages(span', stackpool', stackcache', stackLarge', stk, old')
          /\ stackpool' \subseteq Cell /\ stackLarge' \subseteq Page
          /\ stackcache' \in [Proc -> SUBSET Cell]
          /\ StackStep
          /\ \A w \in Cell : mem'[w] = "user" => mem[w] = "user" /\ w \notin old[g]
      <3>1. old[g] \in SUBSET Cell /\ Shape(old[g]) /\ stackfree(pp, old[g])
        BY <1>1, <1>3
      <3> QED
        BY <1>0, <1>1, <2>1, <3>1, StackFree
    <2>3. StackInv'
      BY <1>1, <1>3, <2>1, <2>2 DEF StackInv
    <2> QED
      BY <1>1, <1>3, <2>1, <2>2, <2>3
  <1> QED
    BY <1>2, <1>3

\* The old stack goes to stackfree once the g has left it.
LEMMA CopyDoneStep ==
  ASSUME IInv, NEW pp \in Proc \cup {Nil}, NEW g \in G, CopyDone(pp, g)
  PROVE  IInv' /\ KeepsBytes
  <1>1. /\ UNCHANGED <<zeroedBase, cache, flushed, objVars, gcphase, cycles, tail,
                       gstat, home, stk>>
        /\ stackfree(pp, old[g]) /\ old' = [old EXCEPT ![g] = {}]
    BY DEF CopyDone, gcVars
  <1>2. /\ cycles' \in 0..MaxGC /\ tail' \in BOOLEAN
        /\ gstat' \in [G -> {"none", "new", "run", "dead"}]
        /\ home' \in [G -> Proc \cup {Nil}]
    BY <1>1, Types DEF IInv
  <1> QED
    BY <1>1, <1>2, GivenToStackfree, StackActionKeeps

\* markrootFreeGStacks gives the stack of a dead g to stackfree.
LEMMA FreeGStackStep ==
  ASSUME IInv, NEW pp \in Proc, NEW g \in G, FreeGStack(pp, g)
  PROVE  IInv' /\ KeepsBytes
  <1>1. /\ UNCHANGED <<zeroedBase, cache, flushed, objVars, gcphase, cycles, tail,
                       gstat, home, old>>
        /\ stackfree(pp, stk[g]) /\ stk' = [stk EXCEPT ![g] = {}]
    BY DEF FreeGStack, gcVars
  <1>2. /\ cycles' \in 0..MaxGC /\ tail' \in BOOLEAN
        /\ gstat' \in [G -> {"none", "new", "run", "dead"}]
        /\ home' \in [G -> Proc \cup {Nil}]
    BY <1>1, Types DEF IInv
  <1> QED
    BY <1>1, <1>2, GivenToStackfree, StackActionKeeps

\* gfput gives a large stack to stackfree and keeps a standard one with its g.
LEMMA GoexitStep ==
  ASSUME IInv, NEW pp \in Proc, NEW g \in G, Goexit(pp, g)
  PROVE  IInv' /\ KeepsBytes
  <1>0. TypeOK /\ StackInv
    BY DEF IInv
  <1>1. /\ UNCHANGED <<zeroedBase, cache, flushed, objVars, gcphase, cycles, tail, old>>
        /\ gstat' = [gstat EXCEPT ![g] = "dead"]
    BY DEF Goexit, gcVars
  <1>2. /\ cycles' \in 0..MaxGC /\ tail' \in BOOLEAN
        /\ gstat' \in [G -> {"none", "new", "run", "dead"}]
    BY <1>0, <1>1, Types
  <1>3. home' \in [G -> Proc \cup {Nil}]
    <2>1. PICK moved \in SUBSET (Dead(pp) \cup {g}) :
            home' = [h \in G |-> IF h \in moved THEN Nil
                                 ELSE IF h = g THEN pp ELSE home[h]]
      BY DEF Goexit
    <2> QED
      BY <1>0, <2>1, Types
  <1>4. CASE stackfree(pp, stk[g]) /\ stk' = [stk EXCEPT ![g] = {}]
    BY <1>1, <1>2, <1>3, <1>4, GivenToStackfree, StackActionKeeps
  <1>5. CASE UNCHANGED <<span, mem, stackpool, stackcache, stackLarge, stk>>
    <2>1. /\ stk' \in [G -> SUBSET Cell] /\ old' \in [G -> SUBSET Cell]
          /\ stackpool' \subseteq Cell /\ stackLarge' \subseteq Page
          /\ stackcache' \in [Proc -> SUBSET Cell]
      BY <1>0, <1>1, <1>5, Types
    <2>2. StackStep
      BY <1>0, <1>1, <1>5, Types, QuietStep
    <2>3. StackInv'
      BY <1>0, <1>1, <1>5 DEF StackInv
    <2>4. \A w \in Cell : mem'[w] = "user" =>
            \/ \E h \in G : w \in stk'[h] \cup old'[h]
            \/ mem[w] = "user" /\ \A h \in G : w \notin stk[h] \cup old[h]
      BY <1>1, <1>5
    <2> QED
      BY <1>1, <1>2, <1>3, <2>1, <2>2, <2>3, <2>4, StackActionKeeps
  <1> QED
    BY <1>4, <1>5 DEF Goexit

\* freeStackSpans frees pages no stack is left on, which are clean.
LEMMA FreeStackSpansStep ==
  ASSUME IInv, freeStackSpans
  PROVE  IInv' /\ KeepsBytes
  <1> DEFINE Q == {q \in Page : span[q].state = "stack" /\ Words(q) \subseteq stackpool}
  <1>0. TypeOK /\ StackInv
    BY DEF IInv
  <1>1. /\ UNCHANGED <<mem, zeroedBase, cache, flushed, objVars, gcphase, cycles,
                       stackcache, gstat, home, stk, old>>
        /\ span' = Released(span, Q \cup stackLarge)
        /\ stackpool' = stackpool \ WordsOf(Q)
        /\ stackLarge' = {} /\ tail' = FALSE
    BY DEF freeStackSpans
  <1>2. /\ cycles' \in 0..MaxGC /\ tail' \in BOOLEAN
        /\ gstat' \in [G -> {"none", "new", "run", "dead"}]
        /\ home' \in [G -> Proc \cup {Nil}]
        /\ stk' \in [G -> SUBSET Cell] /\ old' \in [G -> SUBSET Cell]
        /\ stackpool' \subseteq Cell /\ stackLarge' \subseteq Page
        /\ stackcache' \in [Proc -> SUBSET Cell]
        /\ stackpool \subseteq Cell /\ stackLarge \subseteq Page
        /\ span \in [Page -> SpanType] /\ mem \in [Cell -> {"zero", "link", "user"}]
    BY <1>0, <1>1, Types
  <1>3. /\ StackPlaces(stackpool, stackcache, stackLarge, stk, old)
        /\ StackPages(span, stackpool, stackcache, stackLarge, stk, old)
    BY <1>0 DEF StackInv
  <1>4. /\ Q \cup stackLarge \subseteq Page
        /\ \A q \in Q \cup stackLarge : span[q].state = "stack"
    BY <1>2, <1>3 DEF StackPages
  <1>5. StackStep
    BY <1>0, <1>1, <1>2, <1>4, ReleasedStep
  <1>6. \A w \in Cell : w \in WordsOf(Q) <=> w[1] \in Q
    BY CellFacts DEF WordsOf
  <1>7. \A w \in Cell : w[1] \in Q => w \in stackpool
    BY CellFacts
  <1>8. \A q \in Page : q \notin Q \cup stackLarge => span'[q] = span[q]
    BY <1>1 DEF Released
  <1> HIDE DEF Q
  <1>9. StackPlaces(stackpool', stackcache, {}, stk, old)
    BY <1>1, <1>3 DEF StackPlaces
  <1>10. /\ \A w \in stackpool' : w \in Cell /\ w[1] \in Page \ (Q \cup stackLarge)
         /\ \A qq \in Proc : \A w \in stackcache[qq] :
              w \in Cell /\ w[1] \in Page \ (Q \cup stackLarge)
         /\ \A h \in G : \A w \in stk[h] \cup old[h] :
              w \in Cell /\ w[1] \in Page \ (Q \cup stackLarge)
    <2>1. /\ \A w \in stackpool' : w \in Cell /\ w \in stackpool /\ w[1] \notin Q
          /\ \A qq \in Proc : \A w \in stackcache[qq] : w \in Cell /\ w[1] \notin Q
          /\ \A h \in G : \A w \in stk[h] \cup old[h] : w \in Cell /\ w[1] \notin Q
      BY <1>0, <1>1, <1>2, <1>3, <1>6, <1>7, Types DEF StackPlaces
    <2> QED
      BY <2>1, <1>3, CellFacts DEF StackPlaces
  <1>11. StackPages(span', stackpool', stackcache, {}, stk, old)
    BY <1>1, <1>3, <1>8, <1>10 DEF StackPages
  <1>12. StackInv'
    BY <1>0, <1>1, <1>9, <1>11 DEF StackInv
  <1>13. \A w \in Cell : mem'[w] = "user" =>
          \/ \E h \in G : w \in stk'[h] \cup old'[h]
          \/ mem[w] = "user" /\ \A h \in G : w \notin stk[h] \cup old[h]
    BY <1>1
  <1> QED
    BY <1>1, <1>2, <1>5, <1>12, <1>13, StackActionKeeps

-----------------------------------------------------------------------------
(* The steps of the collector and of allocation *)

\* Stacks stay where they are as long as their pages do.
LEMMA StacksStay ==
  ASSUME IInv, UNCHANGED stackVars,
         \A p \in Page : span[p].state = "stack" => span'[p].state = "stack"
  PROVE  StackInv'
  <1>1. UNCHANGED <<stackpool, stackcache, stackLarge, gstat, home, stk, old>>
    BY DEF stackVars
  <1>2. TypeOK /\ StackInv
    BY DEF IInv
  <1>3. /\ \A w \in stackpool : w[1] \in Page
        /\ \A pp \in Proc : \A w \in stackcache[pp] : w[1] \in Page
        /\ \A g \in G : \A w \in stk[g] \cup old[g] : w[1] \in Page
        /\ stackLarge \subseteq Page
    BY <1>2, Types, CellFacts
  <1>4. StackPages(span', stackpool, stackcache, stackLarge, stk, old)
    BY <1>2, <1>3 DEF StackInv, StackPages
  <1> QED
    BY <1>1, <1>2, <1>4 DEF StackInv

\* A step that changes no memory, no page and no allocation bits: it may mark,
\* cache or begin to sweep.
MarkStep ==
  /\ span' \in [Page -> SpanType]
  /\ \A p \in Page :
       /\ span'[p].state = span[p].state /\ span'[p].needzero = span[p].needzero
       /\ span'[p].freeindex = span[p].freeindex
       /\ span'[p].freeIndexForScan = span[p].freeIndexForScan
       /\ span'[p].allocBits = span[p].allocBits
  /\ UNCHANGED <<mem, zeroedBase, owned, stackVars>>

\* Such a step leaves the memory as it should be.
LEMMA MarkStepKeeps ==
  ASSUME IInv, MarkStep,
         cache' \in [Proc -> Page \cup {Nil}], flushed' \in [Proc -> BOOLEAN],
         gcphase' \in {"off", "mark"}, cycles' \in 0..MaxGC, tail' \in BOOLEAN,
         live' \cup fin' \cup finq' \subseteq owned
  PROVE  /\ TypeOK' /\ StackInv' /\ ZeroInv' /\ OwnInv' /\ FreedIsClean'
         /\ KeepsBytes
  <1>0. TypeOK
    BY DEF IInv
  <1>1. /\ UNCHANGED <<mem, zeroedBase, owned, stackpool, stackcache, stackLarge,
                       gstat, home, stk, old>>
        /\ \A p \in Page :
             /\ span'[p].state = span[p].state /\ span'[p].needzero = span[p].needzero
             /\ span'[p].freeindex = span[p].freeindex
             /\ span'[p].freeIndexForScan = span[p].freeIndexForScan
             /\ span'[p].allocBits = span[p].allocBits
    BY DEF MarkStep, stackVars
  <1>2. TypeOK'
    <2>1. /\ span' \in [Page -> SpanType]
          /\ mem' \in [Cell -> {"zero", "link", "user"}]
          /\ zeroedBase' \in 0..NPages
          /\ owned' \subseteq Cell /\ live' \subseteq Cell
          /\ fin' \subseteq Cell /\ finq' \subseteq Cell
          /\ stackpool' \subseteq Cell /\ stackLarge' \subseteq Page
          /\ stackcache' \in [Proc -> SUBSET Cell]
          /\ gstat' \in [G -> {"none", "new", "run", "dead"}]
          /\ home' \in [G -> Proc \cup {Nil}]
          /\ stk' \in [G -> SUBSET Cell] /\ old' \in [G -> SUBSET Cell]
      BY <1>0, <1>1, Types DEF MarkStep
    <2> QED
      BY <2>1 DEF TypeOK, SpanType
  <1>3. StackInv'
    BY <1>1, StacksStay DEF MarkStep
  <1>4. ZeroInv'
    BY <1>1 DEF IInv, ZeroInv, Allocated
  <1>5. \A o \in owned : o[1] \in Page
    BY <1>0, Types, CellFacts
  <1>6. OwnInv'
    BY <1>1, <1>5 DEF IInv, OwnInv, Allocated
  <1>7. FreedIsClean'
    <2>1. \A o \in owned : ObjWords(o)' = ObjWords(o)
      BY <1>1, <1>5 DEF ObjWords
    <2> QED
      BY <1>1, <2>1 DEF IInv, FreedIsClean
  <1>8. KeepsBytes
    BY <1>1 DEF KeepsBytes
  <1> QED
    BY <1>2, <1>3, <1>4, <1>6, <1>7, <1>8

\* The steps of a program with the objects it has.
LEMMA ObjectStep ==
  ASSUME IInv, UNCHANGED <<heapVars, owned, gcVars, stackVars>>,
         live' \cup fin' \cup finq' \subseteq owned,
         live' \cup finq' \subseteq live \cup finq,
         \A o \in fin' : o \in fin \/ span[o[1]].gen # "sweeping"
  PROVE  IInv' /\ KeepsBytes
  <1>1. UNCHANGED <<span, mem, zeroedBase, cache, flushed, owned, gcphase, tail,
                    cycles, stackVars>>
    BY DEF heapVars, gcVars
  <1>2. MarkStep
    BY <1>1, Types DEF IInv, MarkStep
  <1>3. /\ cache' \in [Proc -> Page \cup {Nil}] /\ flushed' \in [Proc -> BOOLEAN]
        /\ gcphase' \in {"off", "mark"} /\ cycles' \in 0..MaxGC /\ tail' \in BOOLEAN
    BY <1>1, Types DEF IInv
  <1>4. /\ TypeOK' /\ StackInv' /\ ZeroInv' /\ OwnInv' /\ FreedIsClean'
        /\ KeepsBytes
    BY <1>2, <1>3, MarkStepKeeps
  <1>5. BitInv' /\ CacheInv'
    BY <1>1 DEF IInv, BitInv, CacheInv
  <1>6. MarkInv'
    BY <1>1 DEF IInv, MarkInv, OlderThanCycle
  <1> QED
    BY <1>4, <1>5, <1>6 DEF IInv

\* An object the program loses stays allocated.
LEMMA DropStep ==
  ASSUME IInv, NEW o \in Cell, Drop(o)
  PROVE  IInv' /\ KeepsBytes
  BY ObjectStep DEF Drop, IInv, OwnInv

\* A finalizer is set on an object that no sweep is deciding about.
LEMMA SetFinalizerStep ==
  ASSUME IInv, NEW o \in Cell, SetFinalizer(o)
  PROVE  IInv' /\ KeepsBytes
  BY ObjectStep DEF SetFinalizer, IInv, OwnInv

\* An object of the finalizer queue becomes the program's again.
LEMMA RunFinalizerStep ==
  ASSUME IInv, NEW o \in Cell, RunFinalizer(o)
  PROVE  IInv' /\ KeepsBytes
  BY ObjectStep DEF RunFinalizer, IInv, OwnInv

\* Marking starts when every span is swept and every mcache flushed.
LEMMA GcStartStep ==
  ASSUME IInv, gcStart
  PROVE  IInv' /\ KeepsBytes
  <1>1. /\ UNCHANGED <<span, mem, zeroedBase, cache, flushed, owned, live, fin, finq,
                       tail, stackVars>>
        /\ gcphase' = "mark" /\ cycles' = cycles + 1 /\ cycles < MaxGC
        /\ \A p \in Page : span[p].gen \notin {"unswept", "sweeping", "stale"}
        /\ \A pp \in Proc : flushed[pp]
    BY DEF gcStart, heapVars, objVars
  <1>2. TypeOK
    BY DEF IInv
  <1>3. MarkStep
    BY <1>1, <1>2, Types DEF MarkStep
  <1>4. /\ cache' \in [Proc -> Page \cup {Nil}] /\ flushed' \in [Proc -> BOOLEAN]
        /\ gcphase' \in {"off", "mark"} /\ cycles' \in 0..MaxGC /\ tail' \in BOOLEAN
        /\ \A p \in Page : span[p].gen \in {"swept", "cached"}
    BY <1>1, <1>2, Types, SanitizeAssumption DEF SpanType
  <1>5. live' \cup fin' \cup finq' \subseteq owned
    BY <1>1 DEF IInv, OwnInv
  <1>6. /\ TypeOK' /\ StackInv' /\ ZeroInv' /\ OwnInv' /\ FreedIsClean'
        /\ KeepsBytes
    BY <1>3, <1>4, <1>5, MarkStepKeeps
  <1>7. BitInv' /\ CacheInv'
    BY <1>1 DEF IInv, BitInv, CacheInv
  <1>8. MarkInv'
    BY <1>1, <1>4 DEF IInv, MarkInv, OlderThanCycle
  <1> QED
    BY <1>6, <1>7, <1>8 DEF IInv

\* After mark termination all that is reachable is marked, in spans that are
\* unswept, or stale in a P's cache.
LEMMA GcMarkTerminationStep ==
  ASSUME IInv, gcMarkTermination
  PROVE  IInv' /\ KeepsBytes
  <1>0. TypeOK /\ OwnInv /\ BitInv /\ MarkInv /\ CacheInv
    BY DEF IInv
  <1>1. /\ UNCHANGED <<mem, zeroedBase, cache, cycles, owned, live, fin, finq, stackVars>>
        /\ gcphase = "mark" /\ gcphase' = "off" /\ tail' = TRUE
        /\ flushed' = [pp \in Proc |-> FALSE]
    BY DEF gcMarkTermination, objVars
  <1> DEFINE New(p) == {i \in Slot : <<p, i>> \in Reachable /\ OlderThanCycle(span[p], i)}
  <1>2. span' = [p \in Page |->
          IF p \notin InUse THEN span[p]
          ELSE [span[p] EXCEPT
                  !.gcmarkBits = @ \cup New(p),
                  !.gen = IF @ = "cached" THEN "stale" ELSE "unswept"]]
    BY DEF gcMarkTermination
  <1>3. \A p \in Page : New(p) \subseteq Slot
    OBVIOUS
  <1>new. \A p \in Page, i \in Slot :
            i \in New(p) <=> <<p, i>> \in Reachable /\ OlderThanCycle(span[p], i)
    OBVIOUS
  <1> HIDE DEF New
  <1>4. \A p \in Page :
          IF p \notin InUse THEN span'[p] = span[p]
          ELSE /\ span'[p] \in SpanType
               /\ span'[p].state = span[p].state /\ span'[p].needzero = span[p].needzero
               /\ span'[p].freeindex = span[p].freeindex
               /\ span'[p].freeIndexForScan = span[p].freeIndexForScan
               /\ span'[p].allocBits = span[p].allocBits
               /\ span'[p].preserve = span[p].preserve
               /\ span'[p].gcmarkBits = span[p].gcmarkBits \cup New(p)
               /\ span'[p].gen = IF span[p].gen = "cached" THEN "stale" ELSE "unswept"
    <2> TAKE p \in Page
    <2>1. span[p] \in SpanType /\ New(p) \subseteq Slot
      BY <1>0, <1>3, Types
    <2> DEFINE gn == IF span[p].gen = "cached" THEN "stale" ELSE "unswept"
               b == span[p].gcmarkBits \cup New(p)
    <2>2. /\ gn \in {"unswept", "sweeping", "swept", "cached", "stale"}
          /\ b \in SUBSET Slot
      BY <2>1 DEF SpanType
    <2>3. p \in InUse => span'[p] = [span[p] EXCEPT !.gcmarkBits = b, !.gen = gn]
      BY <1>2
    <2> HIDE DEF gn, b
    <2>4. LET u == [span[p] EXCEPT !.gcmarkBits = b, !.gen = gn]
          IN  /\ u \in SpanType
              /\ u.state = span[p].state /\ u.needzero = span[p].needzero
              /\ u.freeindex = span[p].freeindex
              /\ u.freeIndexForScan = span[p].freeIndexForScan
              /\ u.allocBits = span[p].allocBits
              /\ u.preserve = span[p].preserve
              /\ u.gcmarkBits = b
              /\ u.gen = gn
      BY <2>1, <2>2 DEF SpanType
    <2>5. p \in InUse =>
            /\ span'[p] \in SpanType
            /\ span'[p].state = span[p].state /\ span'[p].needzero = span[p].needzero
            /\ span'[p].freeindex = span[p].freeindex
            /\ span'[p].freeIndexForScan = span[p].freeIndexForScan
            /\ span'[p].allocBits = span[p].allocBits
            /\ span'[p].preserve = span[p].preserve
            /\ span'[p].gcmarkBits = span[p].gcmarkBits \cup New(p)
            /\ span'[p].gen = gn
      BY <2>3, <2>4 DEF b
    <2> QED
      BY <1>2, <2>1, <2>5 DEF gn
  <1>5. MarkStep
    BY <1>0, <1>1, <1>2, <1>4, Types DEF MarkStep
  <1>6. /\ cache' \in [Proc -> Page \cup {Nil}] /\ flushed' \in [Proc -> BOOLEAN]
        /\ gcphase' \in {"off", "mark"} /\ cycles' \in 0..MaxGC /\ tail' \in BOOLEAN
        /\ live' \cup fin' \cup finq' \subseteq owned
    BY <1>0, <1>1, Types DEF OwnInv
  <1>7. /\ TypeOK' /\ StackInv' /\ ZeroInv' /\ OwnInv' /\ FreedIsClean'
        /\ KeepsBytes
    BY <1>5, <1>6, MarkStepKeeps
  <1>8. \A o \in owned : o[1] \in InUse /\ o[1] \in Page /\ o[2] \in Slot
                         /\ o = <<o[1], o[2]>> /\ o \in Cell
    BY <1>0, Types, CellFacts DEF OwnInv, InUse
  <1>9. BitInv'
    <2>1. \A p \in Page : span[p].state = "large" => New(p) \subseteq {0}
      <3>1. \A p \in Page, i \in Slot : i \in New(p) => <<p, i>> \in owned
        BY <1>0, <1>new DEF OwnInv, Reachable
      <3>2. \A p \in Page, i \in Slot :
              i \in New(p) /\ span[p].state = "large" => i = 0
        <4> SUFFICES ASSUME NEW p \in Page, NEW i \in Slot, i \in New(p),
                            span[p].state = "large"
                     PROVE  i = 0
          OBVIOUS
        <4> DEFINE o == <<p, i>>
        <4>1. o \in owned /\ o[1] = p /\ o[2] = i
          BY <3>1, CellFacts
        <4> HIDE DEF o
        <4> QED
          BY <1>0, <4>1 DEF OwnInv
      <3> QED
        BY <1>3, <3>2
    <2> QED
      BY <1>0, <1>4, <2>1 DEF BitInv
  <1>10. MarkInv'
    <2>1. \A o \in live \cup finq : o[2] \in span'[o[1]].gcmarkBits
      <3> TAKE o \in live \cup finq
      <3>1. /\ o \in owned /\ <<o[1], o[2]>> \in Reachable
            /\ o[1] \in InUse /\ o[1] \in Page /\ o[2] \in Slot
        BY <1>0, <1>8 DEF OwnInv, Reachable
      <3>2. o[2] \in span[o[1]].gcmarkBits \/ OlderThanCycle(span[o[1]], o[2])
        BY <1>0 DEF MarkInv
      <3> QED
        BY <1>4, <1>new, <3>1, <3>2
    <2>2. \A o \in fin : span'[o[1]].gen # "sweeping"
      BY <1>0, <1>4, <1>8 DEF OwnInv
    <2> QED
      BY <1>1, <2>1, <2>2 DEF MarkInv
  <1>11. CacheInv'
    <2>1. \A p \in Page : span[p].gen \in {"swept", "cached"} /\ span[p].preserve = Nil
      BY <1>0, <1>1 DEF MarkInv, CacheInv
    <2>2. \A pp \in Proc : flushed[pp] /\ ~flushed'[pp]
      BY <1>0, <1>1 DEF MarkInv
    <2>3. \A p \in Page : span[p].state = "small" /\ span[p].gen = "cached" =>
            span'[p].state = "small" /\ span'[p].gen = "stale"
      BY <1>4 DEF InUse
    <2>4. \A p \in Page : span'[p].preserve = Nil
      BY <1>4, <2>1
    <2> QED
      BY <1>0, <1>1, <2>2, <2>3, <2>4, Types DEF CacheInv
  <1> QED
    BY <1>7, <1>9, <1>10, <1>11 DEF IInv

\* Two spans that differ in their generation, preserve and marks at most.
SameBits(s, t) ==
  /\ s.state = t.state /\ s.needzero = t.needzero
  /\ s.freeindex = t.freeindex /\ s.freeIndexForScan = t.freeIndexForScan
  /\ s.allocBits = t.allocBits

\* refill gives the P's full span back: nothing but its generation changes.
LEMMA GivenBack ==
  ASSUME IInv, NEW pp \in Proc
  PROVE  /\ Uncached(pp) \in [Page -> SpanType]
         /\ \A q \in Page : q # cache[pp] => Uncached(pp)[q] = span[q]
         /\ \A q \in Page : /\ SameBits(Uncached(pp)[q], span[q])
                            /\ Uncached(pp)[q].gcmarkBits = span[q].gcmarkBits
                            /\ Uncached(pp)[q].preserve = span[q].preserve
         /\ cache[pp] # Nil => Uncached(pp)[cache[pp]].gen = "swept"
  <1>1. span \in [Page -> SpanType] /\ cache[pp] \in Page \cup {Nil}
    BY Types DEF IInv
  <1>2. CASE cache[pp] = Nil
    BY <1>1, <1>2 DEF Uncached, SameBits
  <1>3. CASE cache[pp] # Nil
    <2>1. /\ cache[pp] \in Page /\ span[cache[pp]] \in SpanType
          /\ Uncached(pp) = [span EXCEPT ![cache[pp]].gen = "swept"]
      BY <1>1, <1>3 DEF Uncached
    <2>2. LET u == [span[cache[pp]] EXCEPT !.gen = "swept"]
          IN  /\ u \in SpanType /\ SameBits(u, span[cache[pp]]) /\ u.gen = "swept"
              /\ u.gcmarkBits = span[cache[pp]].gcmarkBits
              /\ u.preserve = span[cache[pp]].preserve
      BY <2>1 DEF SpanType, SameBits
    <2>3. /\ Uncached(pp) \in [Page -> SpanType]
          /\ Uncached(pp)[cache[pp]] = [span[cache[pp]] EXCEPT !.gen = "swept"]
          /\ \A q \in Page : q # cache[pp] => Uncached(pp)[q] = span[q]
      BY <1>1, <2>1, <2>2
    <2> QED
      BY <1>1, <1>3, <2>1, <2>2, <2>3 DEF SameBits
  <1> QED
    BY <1>2, <1>3

\* The sweep of a span begins: what was marked is, and so are the objects it
\* queues for their finalizers.
LEMMA SweepBegun ==
  ASSUME IInv, NEW spans \in [Page -> SpanType], NEW p \in Page,
         NEW pr \in Proc \cup {Nil}, spans[p] = span[p],
         SweepBegin(spans, p, pr)
  PROVE  /\ span' \in [Page -> SpanType]
         /\ \A q \in Page : q # p => span'[q] = spans[q]
         /\ SameBits(span'[p], span[p])
         /\ span'[p].gen = "sweeping" /\ span'[p].preserve = pr
         /\ span[p].gcmarkBits \subseteq span'[p].gcmarkBits
         /\ span[p].state = "large" => span'[p].gcmarkBits \subseteq {0}
         /\ fin' \subseteq fin /\ finq' \subseteq finq \cup fin
         /\ \A o \in fin' : o[1] = p => o[2] \in span'[p].gcmarkBits
         /\ \A o \in finq' : o \in finq \/ (o[1] = p /\ o[2] \in span'[p].gcmarkBits)
  <1> DEFINE R == Revived(p)
             B == {o[2] : o \in R}
             u == [span[p] EXCEPT !.gen = "sweeping", !.preserve = pr,
                                  !.gcmarkBits = @ \cup B]
  <1>0. TypeOK /\ OwnInv /\ BitInv
    BY DEF IInv
  <1>1. /\ R \subseteq fin
        /\ \A o \in fin : o \in R <=> o[1] = p /\ o[2] \notin span[p].gcmarkBits
    BY DEF Revived
  <1>2. \A o \in fin : o \in Cell /\ o[1] \in Page /\ o[2] \in Slot /\ o \in owned
    BY <1>0, Types, CellFacts DEF OwnInv
  <1>3. B \subseteq Slot
    BY <1>1, <1>2
  <1>4. span[p].state = "large" => B \subseteq {0}
    BY <1>0, <1>1, <1>2 DEF OwnInv
  <1>5. \A o \in R : o[2] \in B
    OBVIOUS
  <1>6. fin' = fin \ R /\ finq' = finq \cup R
    BY DEF SweepBegin
  <1>7. span' = [spans EXCEPT ![p].gen = "sweeping", ![p].preserve = pr,
                              ![p].gcmarkBits = @ \cup B]
    BY DEF SweepBegin
  <1> HIDE DEF R, B
  <1>8. span[p] \in SpanType
    BY <1>0, Types
  <1>9. /\ u \in SpanType /\ SameBits(u, span[p]) /\ u.gen = "sweeping"
        /\ u.preserve = pr /\ u.gcmarkBits = span[p].gcmarkBits \cup B
    BY <1>3, <1>8 DEF SpanType, SameBits
  <1>10. span'[p] = u /\ \A q \in Page : q # p => span'[q] = spans[q]
    BY <1>7, <1>8
  <1>11. span' \in [Page -> SpanType]
    BY <1>7, <1>9, <1>10
  <1> HIDE DEF u
  <1>12. span[p].state = "large" => span'[p].gcmarkBits \subseteq {0}
    BY <1>0, <1>4, <1>9, <1>10 DEF BitInv
  <1>13. \A o \in fin' : o[1] = p => o[2] \in span'[p].gcmarkBits
    BY <1>1, <1>6, <1>9, <1>10
  <1>14. \A o \in finq' : o \in finq \/ (o[1] = p /\ o[2] \in span'[p].gcmarkBits)
    BY <1>1, <1>5, <1>6, <1>9, <1>10
  <1> QED
    BY <1>1, <1>6, <1>9, <1>10, <1>11, <1>12, <1>13, <1>14

\* A sweep that begins with all the other spans as they were, but for the
\* generation of one that a P gives back.
LEMMA SweepBeginKeeps ==
  ASSUME IInv, NEW spans \in [Page -> SpanType], NEW p \in Page,
         NEW pr \in Proc \cup {Nil}, spans[p] = span[p],
         SweepBegin(spans, p, pr), span[p].gen \in {"unswept", "stale"},
         \A q \in Page : /\ SameBits(spans[q], span[q])
                         /\ spans[q].gcmarkBits = span[q].gcmarkBits
                         /\ spans[q].gen = span[q].gen
                              \/ (span[q].gen = "cached" /\ spans[q].gen = "swept"),
         cache' \in [Proc -> Page \cup {Nil}], CacheInv',
         UNCHANGED <<mem, zeroedBase, flushed, owned, live, gcVars, stackVars>>
  PROVE  IInv' /\ KeepsBytes
  <1>0. TypeOK /\ OwnInv /\ BitInv /\ MarkInv
    BY DEF IInv
  <1>1. /\ span' \in [Page -> SpanType]
        /\ \A q \in Page : q # p => span'[q] = spans[q]
        /\ SameBits(span'[p], span[p])
        /\ span'[p].gen = "sweeping"
        /\ span[p].gcmarkBits \subseteq span'[p].gcmarkBits
        /\ span[p].state = "large" => span'[p].gcmarkBits \subseteq {0}
        /\ fin' \subseteq fin /\ finq' \subseteq finq \cup fin
        /\ \A o \in fin' : o[1] = p => o[2] \in span'[p].gcmarkBits
        /\ \A o \in finq' : o \in finq \/ (o[1] = p /\ o[2] \in span'[p].gcmarkBits)
    BY SweepBegun
  <1>2. MarkStep
    BY <1>1 DEF MarkStep, SameBits
  <1>3. /\ flushed' \in [Proc -> BOOLEAN] /\ gcphase' = gcphase
        /\ gcphase' \in {"off", "mark"} /\ cycles' \in 0..MaxGC /\ tail' \in BOOLEAN
        /\ live' \cup fin' \cup finq' \subseteq owned /\ live' = live
    BY <1>0, <1>1, Types DEF OwnInv, gcVars
  <1>4. /\ TypeOK' /\ StackInv' /\ ZeroInv' /\ OwnInv' /\ FreedIsClean'
        /\ KeepsBytes
    BY <1>2, <1>3, MarkStepKeeps
  <1>5. BitInv'
    BY <1>0, <1>1 DEF BitInv, SameBits
  <1>6. MarkInv'
    <2>1. gcphase = "off"
      BY <1>0, Types DEF MarkInv
    <2>2. \A o \in owned : o[1] \in Page
      BY <1>0, Types, CellFacts
    <2>3. \A o \in live \cup finq :
            \/ o[2] \in span'[o[1]].gcmarkBits
            \/ /\ span'[o[1]].gen \in {"swept", "cached"}
               /\ OlderThanCycle(span'[o[1]], o[2])
      <3> TAKE o \in live \cup finq
      <3>1. o[1] \in Page /\ (\/ o[2] \in span[o[1]].gcmarkBits
                              \/ /\ span[o[1]].gen \in {"swept", "cached"}
                                 /\ OlderThanCycle(span[o[1]], o[2]))
        BY <1>0, <2>2 DEF OwnInv, MarkInv
      <3>2. CASE o[1] = p
        BY <1>1, <3>1, <3>2
      <3>3. CASE o[1] # p
        BY <1>1, <3>1, <3>3 DEF SameBits, OlderThanCycle
      <3> QED
        BY <3>2, <3>3
    <2>4. \A o \in fin' : span'[o[1]].gen = "sweeping" => o[2] \in span'[o[1]].gcmarkBits
      <3> TAKE o \in fin'
      <3>1. o \in fin /\ o[1] \in Page
        BY <1>0, <1>1, <2>2 DEF OwnInv
      <3>2. CASE o[1] = p
        BY <1>1, <3>2
      <3>3. CASE o[1] # p
        BY <1>0, <1>1, <3>1, <3>3 DEF MarkInv
      <3> QED
        BY <3>2, <3>3
    <2>5. \A o \in live' \cup finq' :
            o \in live \cup finq \/ o[2] \in span'[o[1]].gcmarkBits
      BY <1>1, <1>3
    <2> QED
      BY <1>3, <2>1, <2>3, <2>4, <2>5 DEF MarkInv
  <1> QED
    BY <1>4, <1>5, <1>6 DEF IInv

\* A sweeper takes an unswept span, which no P has cached.
LEMMA SweepStep ==
  ASSUME IInv, NEW p \in Page, Sweep(p)
  PROVE  IInv' /\ KeepsBytes
  <1>0. TypeOK /\ CacheInv
    BY DEF IInv
  <1>1. /\ span[p].gen = "unswept" /\ SweepBegin(span, p, Nil)
        /\ UNCHANGED <<mem, zeroedBase, cache, flushed, owned, live, gcVars, stackVars>>
    BY DEF Sweep
  <1>2. span \in [Page -> SpanType] /\ cache \in [Proc -> Page \cup {Nil}]
    BY <1>0, Types
  <1>3. /\ \A q \in Page : q # p => span'[q] = span[q]
        /\ span'[p].gen = "sweeping" /\ span'[p].preserve = Nil
    BY <1>1, <1>2, SweepBegun
  <1>4. CacheInv'
    <2>1. \A pp \in Proc : cache[pp] # Nil => span'[cache[pp]] = span[cache[pp]]
      BY <1>0, <1>1, <1>2, <1>3 DEF CacheInv
    <2> QED
      BY <1>0, <1>1, <1>3, <2>1 DEF CacheInv
  <1>5. \A q \in Page : SameBits(span[q], span[q])
    BY DEF SameBits
  <1> QED
    BY <1>1, <1>2, <1>4, <1>5, SweepBeginKeeps

\* cacheSpan gives the full span back and takes an unswept one to sweep.
LEMMA RefillFromUnsweptStep ==
  ASSUME IInv, NEW pp \in Proc, NEW p \in Page, RefillFromUnswept(pp, p)
  PROVE  IInv' /\ KeepsBytes
  <1>0. TypeOK /\ CacheInv
    BY DEF IInv
  <1>1. /\ CanRefill(pp) /\ span[p].gen = "unswept"
        /\ SweepBegin(Uncached(pp), p, pp)
        /\ cache' = [cache EXCEPT ![pp] = Nil]
        /\ UNCHANGED <<mem, zeroedBase, flushed, owned, live, gcVars, stackVars>>
    BY DEF RefillFromUnswept
  <1>2. /\ Uncached(pp) \in [Page -> SpanType]
        /\ \A q \in Page : q # cache[pp] => Uncached(pp)[q] = span[q]
        /\ \A q \in Page : /\ SameBits(Uncached(pp)[q], span[q])
                           /\ Uncached(pp)[q].gcmarkBits = span[q].gcmarkBits
                           /\ Uncached(pp)[q].preserve = span[q].preserve
        /\ cache[pp] # Nil => Uncached(pp)[cache[pp]].gen = "swept"
    BY GivenBack
  <1>3. flushed[pp] /\ cache \in [Proc -> Page \cup {Nil}]
    BY <1>0, <1>1, Types DEF CanRefill
  <1>4. p # cache[pp] /\ (cache[pp] # Nil => span[cache[pp]].gen = "cached")
    <2>1. CASE cache[pp] = Nil
      BY <2>1, SlotFacts
    <2>2. CASE cache[pp] # Nil
      BY <1>0, <1>1, <1>3, <2>2 DEF CacheInv
    <2> QED
      BY <2>1, <2>2
  <1>5. \A q \in Page : /\ SameBits(Uncached(pp)[q], span[q])
                        /\ Uncached(pp)[q].gcmarkBits = span[q].gcmarkBits
                        /\ Uncached(pp)[q].gen = span[q].gen
                             \/ (span[q].gen = "cached" /\ Uncached(pp)[q].gen = "swept")
    BY <1>2, <1>4, SlotFacts
  <1>6. Uncached(pp)[p] = span[p]
    BY <1>2, <1>4
  <1>7. /\ \A q \in Page : q # p => span'[q] = Uncached(pp)[q]
        /\ span'[p].gen = "sweeping" /\ span'[p].preserve = pp
    BY <1>1, <1>2, <1>6, SweepBegun
  <1>8. /\ cache' \in [Proc -> Page \cup {Nil}] /\ cache'[pp] = Nil
        /\ \A qq \in Proc : qq # pp => cache'[qq] = cache[qq]
    BY <1>1, <1>3
  <1>9. CacheInv'
    <2>1. \A qq \in Proc : cache'[qq] # Nil =>
            /\ cache'[qq] = cache[qq] /\ span'[cache[qq]] = span[cache[qq]]
      BY <1>0, <1>1, <1>2, <1>3, <1>7, <1>8 DEF CacheInv
    <2>2. \A q \in Page : span'[q].preserve # Nil =>
            span'[q].gen = "sweeping" /\ flushed[span'[q].preserve]
      <3>1. \A q \in Page : q # p /\ span'[q].preserve # Nil =>
              q # cache[pp] /\ span'[q] = span[q]
        BY <1>0, <1>2, <1>4, <1>7, SlotFacts DEF CacheInv
      <3> QED
        BY <1>0, <1>3, <1>7, <3>1 DEF CacheInv
    <2> QED
      BY <1>0, <1>1, <2>1, <2>2 DEF CacheInv
  <1> QED
    BY <1>1, <1>2, <1>5, <1>6, <1>8, <1>9, SweepBeginKeeps

\* refill gives the full span back and caches a swept one.
LEMMA RefillFromSweptStep ==
  ASSUME IInv, NEW pp \in Proc, NEW p \in Page, RefillFromSwept(pp, p)
  PROVE  IInv' /\ KeepsBytes
  <1>0. TypeOK /\ OwnInv /\ BitInv /\ MarkInv /\ CacheInv
    BY DEF IInv
  <1>1. /\ CanRefill(pp) /\ p # cache[pp]
        /\ span[p].state = "small" /\ span[p].gen = "swept"
        /\ span' = [Uncached(pp) EXCEPT ![p].gen = "cached"]
        /\ cache' = [cache EXCEPT ![pp] = p]
        /\ UNCHANGED <<mem, zeroedBase, flushed, owned, live, fin, finq, gcphase,
                       cycles, tail, stackVars>>
    BY DEF RefillFromSwept, objVars, gcVars
  <1>2. /\ Uncached(pp) \in [Page -> SpanType]
        /\ \A q \in Page : q # cache[pp] => Uncached(pp)[q] = span[q]
        /\ \A q \in Page : /\ SameBits(Uncached(pp)[q], span[q])
                           /\ Uncached(pp)[q].gcmarkBits = span[q].gcmarkBits
                           /\ Uncached(pp)[q].preserve = span[q].preserve
        /\ cache[pp] # Nil => Uncached(pp)[cache[pp]].gen = "swept"
    BY GivenBack
  <1>3. flushed[pp] /\ cache \in [Proc -> Page \cup {Nil}] /\ span[p] \in SpanType
    BY <1>0, <1>1, Types DEF CanRefill
  <1>4. LET u == [span[p] EXCEPT !.gen = "cached"]
        IN  /\ u \in SpanType /\ SameBits(u, span[p]) /\ u.gen = "cached"
            /\ u.gcmarkBits = span[p].gcmarkBits /\ u.preserve = span[p].preserve
    BY <1>3 DEF SpanType, SameBits
  <1>5. /\ span' \in [Page -> SpanType]
        /\ span'[p] = [span[p] EXCEPT !.gen = "cached"]
        /\ \A q \in Page : q # p => span'[q] = Uncached(pp)[q]
    BY <1>1, <1>2, <1>4
  <1>6. \A q \in Page : /\ SameBits(span'[q], span[q])
                        /\ span'[q].gcmarkBits = span[q].gcmarkBits
                        /\ span'[q].preserve = span[q].preserve
    <2>1. /\ SameBits(span'[p], span[p])
          /\ span'[p].gcmarkBits = span[p].gcmarkBits
          /\ span'[p].preserve = span[p].preserve
      BY <1>4, <1>5, Zenon
    <2>2. \A q \in Page : q # p => span'[q] = Uncached(pp)[q]
      BY <1>5
    <2> QED
      BY <1>2, <2>1, <2>2, Zenon
  <1>7. \A q \in Page : span'[q].gen = span[q].gen
                        \/ {span[q].gen, span'[q].gen} \subseteq {"swept", "cached"}
    BY <1>0, <1>1, <1>2, <1>3, <1>4, <1>5, SlotFacts DEF CacheInv
  <1>8. /\ cache' \in [Proc -> Page \cup {Nil}] /\ cache'[pp] = p
        /\ \A qq \in Proc : qq # pp => cache'[qq] = cache[qq]
    BY <1>1, <1>3
  <1>9. MarkStep
    BY <1>1, <1>5, <1>6 DEF MarkStep, SameBits
  <1>10. /\ flushed' \in [Proc -> BOOLEAN]
         /\ gcphase' \in {"off", "mark"} /\ cycles' \in 0..MaxGC /\ tail' \in BOOLEAN
         /\ live' \cup fin' \cup finq' \subseteq owned
         /\ \A o \in owned : o[1] \in Page
    BY <1>0, <1>1, Types, CellFacts DEF OwnInv
  <1>11. /\ TypeOK' /\ StackInv' /\ ZeroInv' /\ OwnInv' /\ FreedIsClean'
         /\ KeepsBytes
    BY <1>8, <1>9, <1>10, MarkStepKeeps
  <1>12. BitInv'
    BY <1>0, <1>6 DEF BitInv, SameBits
  <1>13. MarkInv'
    <2>1. \A o \in live \cup fin \cup finq : o[1] \in Page
      BY <1>0, <1>10 DEF OwnInv
    <2>2. gcphase = "mark" => \A q \in Page : span'[q].gen \in {"swept", "cached"}
      BY <1>0, <1>7 DEF MarkInv
    <2>3. \A o \in fin : span'[o[1]].gen = "sweeping" => o[2] \in span'[o[1]].gcmarkBits
      BY <1>0, <1>6, <1>7, <2>1 DEF MarkInv
    <2>4. \A o \in live \cup finq :
            \/ o[2] \in span'[o[1]].gcmarkBits
            \/ /\ span'[o[1]].gen \in {"swept", "cached"}
               /\ OlderThanCycle(span'[o[1]], o[2])
      BY <1>0, <1>6, <1>7, <2>1 DEF MarkInv, SameBits, OlderThanCycle
    <2> QED
      BY <1>0, <1>1, <2>2, <2>3, <2>4 DEF MarkInv
  <1>14. CacheInv'
    <2>1. \A qq \in Proc : qq # pp /\ cache[qq] # Nil =>
            /\ cache[qq] # p /\ span'[cache[qq]] = span[cache[qq]]
      BY <1>0, <1>1, <1>2, <1>3, <1>5 DEF CacheInv
    <2>2. span'[p].state = "small" /\ span'[p].gen = "cached"
      BY <1>1, <1>4, <1>5 DEF SameBits
    <2>3. \A q \in Page : span'[q].preserve # Nil =>
            span'[q].gen = "sweeping" /\ flushed[span'[q].preserve]
      BY <1>0, <1>6, <1>7 DEF CacheInv
    <2> QED
      BY <1>0, <1>1, <1>3, <1>8, <2>1, <2>2, <2>3 DEF CacheInv
  <1> QED
    BY <1>11, <1>12, <1>13, <1>14 DEF IInv

\* prepareForSweep flushes a P: its stacks go to the pool, its span is swept.
LEMMA PrepareForSweepStep ==
  ASSUME IInv, NEW pp \in Proc, prepareForSweep(pp)
  PROVE  IInv' /\ KeepsBytes
  <1> DEFINE p == cache[pp]
             E == Emptied(stackcache[pp])
             spans == Released(span, E)
             sc == [stackcache EXCEPT ![pp] = {}]
  <1>0. TypeOK /\ StackInv /\ ZeroInv /\ OwnInv /\ BitInv /\ MarkInv /\ CacheInv
        /\ FreedIsClean
    BY DEF IInv
  <1>1. /\ ~flushed[pp] /\ stackpoolfree(stackcache[pp])
        /\ stackcache' = sc
        /\ cache' = [cache EXCEPT ![pp] = Nil]
        /\ flushed' = [flushed EXCEPT ![pp] = TRUE]
        /\ UNCHANGED <<mem, zeroedBase, owned, live, gcphase, tail, cycles,
                       stackLarge, gstat, home, stk, old>>
    BY DEF prepareForSweep, gcVars
  <1>2. \/ p = Nil /\ span' = spans /\ UNCHANGED <<fin, finq>>
        \/ p # Nil /\ SweepBegin(spans, p, Nil)
    BY DEF prepareForSweep
  <1>3. /\ span \in [Page -> SpanType] /\ stackcache \in [Proc -> SUBSET Cell]
        /\ cache \in [Proc -> Page \cup {Nil}] /\ flushed \in [Proc -> BOOLEAN]
        /\ stk \in [G -> SUBSET Cell] /\ old \in [G -> SUBSET Cell]
        /\ stackpool \subseteq Cell /\ stackLarge \subseteq Page
        /\ \A o \in owned : o \in Cell /\ o[1] \in Page
        /\ live \cup fin \cup finq \subseteq owned
        /\ Nil \notin Page
    BY <1>0, Types, CellFacts, SlotFacts DEF OwnInv
  <1>4. /\ StackPlaces(stackpool', sc, stackLarge, stk, old)
        /\ StackPages(spans, stackpool', sc, stackLarge, stk, old)
        /\ stackpool' \subseteq Cell /\ E \subseteq Page
        /\ \A q \in E : span[q].state = "stack"
        /\ sc \in [Proc -> SUBSET Cell]
    <2>1. /\ sc \in [Proc -> SUBSET Cell] /\ sc[pp] = {}
          /\ \A qq \in Proc : qq # pp => sc[qq] = stackcache[qq]
          /\ stackcache[pp] \in SUBSET Cell
      BY <1>3
    <2> HIDE DEF sc, E, spans
    <2>2. /\ StackPlaces(stackpool, stackcache, stackLarge, stk, old)
          /\ StackPages(span, stackpool, stackcache, stackLarge, stk, old)
      BY <1>0 DEF StackInv
    <2>3. /\ StackPlaces(stackpool, sc, stackLarge, stk, old)
          /\ StackPages(span, stackpool, sc, stackLarge, stk, old)
      BY <2>1, <2>2 DEF StackPlaces, StackPages
    <2>4. \A w \in stackcache[pp] :
            /\ span[w[1]].state = "stack"
            /\ w[1] \notin stackLarge
            /\ \A qq \in Proc : w \notin sc[qq]
            /\ \A g \in G : w \notin stk[g] /\ w \notin old[g]
      BY <2>1, <2>2 DEF StackPlaces, StackPages
    <2>5. spans = Released(span, Emptied(stackcache[pp])) /\ E = Emptied(stackcache[pp])
      BY DEF spans, E
    <2> QED
      BY <1>0, <1>1, <1>3, <2>1, <2>3, <2>4, <2>5, PoolFree
  <1>5. /\ spans \in [Page -> SpanType]
        /\ \A q \in Page : spans[q] = IF q \in E THEN FreeSpan ELSE span[q]
    BY <1>3, FreshSpans DEF Released
  <1>6. p # Nil => /\ p \in Page /\ p \notin E /\ spans[p] = span[p]
                   /\ span[p].state = "small" /\ span[p].gen = "stale"
    BY <1>0, <1>1, <1>3, <1>4, <1>5 DEF CacheInv
  <1> HIDE DEF E, spans, sc, p
  <1>7. /\ span' \in [Page -> SpanType]
        /\ \A q \in E : span'[q] = FreeSpan
        /\ \A q \in Page \ E : /\ SameBits(span'[q], span[q])
                               /\ span[q].gcmarkBits \subseteq span'[q].gcmarkBits
        /\ \A q \in Page \ E : \/ span'[q] = span[q]
                               \/ /\ q = p /\ span'[q].gen = "sweeping"
                                  /\ span'[q].preserve = Nil
        /\ fin' \subseteq fin /\ finq' \subseteq finq \cup fin
        /\ \A o \in fin' : span'[o[1]].gen = "sweeping" =>
             o[2] \in span'[o[1]].gcmarkBits
        /\ \A o \in finq' : o \in finq \/ o[2] \in span'[o[1]].gcmarkBits
        /\ \A q \in Page \ E : span[q].state = "large" =>
             span'[q].gcmarkBits \subseteq {0}
    <2>0. \A o \in fin : o[1] \in Page /\ o[1] \notin E
      BY <1>0, <1>3, <1>4 DEF OwnInv
    <2>1. CASE p = Nil /\ span' = spans /\ UNCHANGED <<fin, finq>>
      <3>1. \A q \in Page \ E : span'[q] = span[q]
        BY <1>5, <2>1
      <3>2. \A o \in fin : span'[o[1]] = span[o[1]]
        BY <2>0, <3>1
      <3>3. \A q \in Page \ E : SameBits(span'[q], span[q])
        BY <3>1 DEF SameBits
      <3> QED
        BY <1>0, <1>4, <1>5, <2>1, <3>1, <3>2, <3>3 DEF BitInv, MarkInv
    <2>2. CASE p # Nil /\ SweepBegin(spans, p, Nil)
      <3>1. /\ span' \in [Page -> SpanType]
            /\ \A q \in Page : q # p => span'[q] = spans[q]
            /\ SameBits(span'[p], span[p])
            /\ span'[p].gen = "sweeping" /\ span'[p].preserve = Nil
            /\ span[p].gcmarkBits \subseteq span'[p].gcmarkBits
            /\ span[p].state = "large" => span'[p].gcmarkBits \subseteq {0}
            /\ fin' \subseteq fin /\ finq' \subseteq finq \cup fin
            /\ \A o \in fin' : o[1] = p => o[2] \in span'[p].gcmarkBits
            /\ \A o \in finq' : o \in finq \/ (o[1] = p /\ o[2] \in span'[p].gcmarkBits)
        BY <1>5, <1>6, <2>2, SweepBegun
      <3>2. \A q \in Page \ E : q # p => span'[q] = span[q]
        BY <1>5, <3>1
      <3>3. \A q \in Page \ E : SameBits(span'[q], span[q])
        BY <3>1, <3>2 DEF SameBits
      <3>4. \A o \in fin' : span'[o[1]].gen = "sweeping" =>
              o[2] \in span'[o[1]].gcmarkBits
        BY <1>0, <2>0, <3>1, <3>2 DEF MarkInv
      <3>5. \A q \in E : span'[q] = FreeSpan
        BY <1>4, <1>5, <1>6, <2>2, <3>1
      <3> QED
        BY <1>0, <1>6, <2>2, <3>1, <3>2, <3>3, <3>4, <3>5 DEF BitInv
    <2> QED
      BY <1>2, <2>1, <2>2
  <1>8. \A o \in owned : o[1] \in Page \ E
    BY <1>0, <1>3, <1>4 DEF OwnInv
  <1>9. /\ cache' \in [Proc -> Page \cup {Nil}] /\ cache'[pp] = Nil
        /\ \A qq \in Proc : qq # pp => cache'[qq] = cache[qq] /\ flushed'[qq] = flushed[qq]
        /\ flushed' \in [Proc -> BOOLEAN] /\ flushed'[pp]
    BY <1>1, <1>3
  <1>10. TypeOK'
    <2>1. /\ mem' \in [Cell -> {"zero", "link", "user"}]
          /\ zeroedBase' \in 0..NPages
          /\ gcphase' \in {"off", "mark"} /\ cycles' \in 0..MaxGC /\ tail' \in BOOLEAN
          /\ owned' \subseteq Cell /\ live' \subseteq Cell
          /\ fin' \subseteq Cell /\ finq' \subseteq Cell
          /\ stackpool' \subseteq Cell /\ stackLarge' \subseteq Page
          /\ stackcache' \in [Proc -> SUBSET Cell]
          /\ gstat' \in [G -> {"none", "new", "run", "dead"}]
          /\ home' \in [G -> Proc \cup {Nil}]
          /\ stk' \in [G -> SUBSET Cell] /\ old' \in [G -> SUBSET Cell]
      BY <1>0, <1>1, <1>4, <1>7, Types
    <2> QED
      BY <1>7, <1>9, <2>1 DEF TypeOK, SpanType
  <1>11. StackInv'
    <2>1. \A q \in Page : spans[q].state = "stack" => span'[q].state = "stack"
      BY <1>5, <1>7, FreshSpans DEF SameBits
    <2>2. /\ \A w \in stackpool' : w[1] \in Page
          /\ \A qq \in Proc : \A w \in sc[qq] : w[1] \in Page
          /\ \A g \in G : \A w \in stk[g] \cup old[g] : w[1] \in Page
      BY <1>3, <1>4, CellFacts
    <2>3. StackPages(span', stackpool', sc, stackLarge, stk, old)
      BY <1>3, <1>4, <2>1, <2>2 DEF StackPages
    <2> QED
      BY <1>0, <1>1, <1>4, <2>3 DEF StackInv
  <1>12. ZeroInv'
    <2>1. \A q \in Page : q \in E \/ SameBits(span'[q], span[q])
      BY <1>7
    <2>2. \A q \in E : span'[q].state = "free" /\ ~(q > zeroedBase)
      BY <1>0, <1>4, <1>7, FreshSpans DEF ZeroInv
    <2> QED
      BY <1>0, <1>1, <2>1, <2>2 DEF ZeroInv, SameBits, Allocated
  <1>13. OwnInv'
    BY <1>0, <1>1, <1>3, <1>7, <1>8 DEF OwnInv, SameBits, Allocated
  <1>14. BitInv'
    BY <1>0, <1>7, FreshSpans DEF BitInv, SameBits
  <1>15. MarkInv'
    <2>1. gcphase = "off"
      BY <1>0, <1>1, Types DEF MarkInv
    <2>2. \A o \in live \cup finq :
            \/ o[2] \in span'[o[1]].gcmarkBits
            \/ /\ span'[o[1]].gen \in {"swept", "cached"}
               /\ OlderThanCycle(span'[o[1]], o[2])
      <3> TAKE o \in live \cup finq
      <3>1. o[1] \in Page \ E /\ (\/ o[2] \in span[o[1]].gcmarkBits
                                  \/ /\ span[o[1]].gen \in {"swept", "cached"}
                                     /\ OlderThanCycle(span[o[1]], o[2]))
        BY <1>0, <1>3, <1>8 DEF MarkInv
      <3>2. p # Nil => span[p].gen = "stale"
        BY <1>6
      <3> QED
        BY <1>3, <1>7, <3>1, <3>2
    <2> QED
      BY <1>1, <1>7, <2>1, <2>2 DEF MarkInv
  <1>16. CacheInv'
    <2>1. \A qq \in Proc : cache'[qq] # Nil =>
            /\ qq # pp /\ cache'[qq] = cache[qq] /\ span'[cache[qq]] = span[cache[qq]]
            /\ flushed'[qq] = flushed[qq]
      <3>1. \A qq \in Proc : qq # pp /\ cache[qq] # Nil =>
              cache[qq] \in Page /\ cache[qq] \notin E /\ cache[qq] # p
        BY <1>0, <1>3, <1>4 DEF CacheInv, p
      <3> QED
        BY <1>7, <1>9, <3>1
    <2>2. \A q \in Page : span'[q].preserve # Nil => span'[q] = span[q]
      BY <1>7, FreshSpans
    <2>3. \A qq \in Proc : flushed[qq] => flushed'[qq]
      BY <1>9
    <2>4. \A q \in Page : span'[q].preserve \in Proc \cup {Nil}
      BY <1>7 DEF SpanType
    <2> QED
      BY <1>0, <2>1, <2>2, <2>3, <2>4 DEF CacheInv
  <1>17. FreedIsClean'
    <2>1. \A o \in owned : ObjWords(o)' = ObjWords(o)
      BY <1>7, <1>8 DEF ObjWords, SameBits
    <2> QED
      BY <1>0, <1>1, <2>1 DEF FreedIsClean
  <1>18. KeepsBytes
    BY <1>1 DEF KeepsBytes
  <1> QED
    BY <1>10, <1>11, <1>12, <1>13, <1>14, <1>15, <1>16, <1>17, <1>18 DEF IInv

\* Nothing is on a page that is free.
LEMMA FreePageFacts ==
  ASSUME IInv, NEW p \in Page, FreePage(p)
  PROVE  /\ \A o \in owned : o \in Cell /\ o[1] \in Page /\ o[1] # p /\ o[2] \in Slot
         /\ \A pp \in Proc : cache[pp] # p
         /\ span[p].state \notin {"small", "large", "stack"}
         /\ Watermark(p) \in 0..NPages /\ Watermark(p) \in Nat /\ p <= Watermark(p)
         /\ \A q \in Page : q > Watermark(p) => q > zeroedBase /\ q # p
  <1>0. TypeOK /\ OwnInv /\ CacheInv
    BY DEF IInv
  <1>1. span[p].state \notin {"small", "large", "stack"}
    BY DEF FreePage
  <1>2. \A o \in owned : o \in Cell /\ o[1] \in Page /\ o[1] # p /\ o[2] \in Slot
    BY <1>0, <1>1, Types, CellFacts DEF OwnInv
  <1>3. \A pp \in Proc : cache[pp] # p
    BY <1>0, <1>1, Types, SlotFacts DEF CacheInv
  <1>4. /\ Watermark(p) \in 0..NPages /\ Watermark(p) \in Nat /\ p <= Watermark(p)
        /\ \A q \in Page : q > Watermark(p) => q > zeroedBase /\ q # p
    BY <1>0, Types, SlotFacts, SanitizeAssumption DEF Watermark
  <1> QED
    BY <1>1, <1>2, <1>3, <1>4

\* refill gives the full span back and caches a new one.
LEMMA RefillFromHeapStep ==
  ASSUME IInv, NEW pp \in Proc, NEW p \in Page, RefillFromHeap(pp, p)
  PROVE  IInv' /\ KeepsBytes
  <1>0. TypeOK /\ StackInv /\ ZeroInv /\ OwnInv /\ BitInv /\ MarkInv /\ CacheInv
        /\ FreedIsClean
    BY DEF IInv
  <1> DEFINE u == [initSpan(p, "small") EXCEPT !.gen = "cached"]
  <1>1. /\ CanRefill(pp) /\ FreePage(p)
        /\ span' = [Uncached(pp) EXCEPT ![p] = u]
        /\ zeroedBase' = Watermark(p)
        /\ cache' = [cache EXCEPT ![pp] = p]
        /\ UNCHANGED <<mem, flushed, owned, live, fin, finq, gcphase, cycles, tail,
                       stackpool, stackcache, stackLarge, gstat, home, stk, old>>
    BY DEF RefillFromHeap, objVars, gcVars, stackVars
  <1>2. /\ Uncached(pp) \in [Page -> SpanType]
        /\ \A q \in Page : q # cache[pp] => Uncached(pp)[q] = span[q]
        /\ \A q \in Page : /\ SameBits(Uncached(pp)[q], span[q])
                           /\ Uncached(pp)[q].gcmarkBits = span[q].gcmarkBits
                           /\ Uncached(pp)[q].preserve = span[q].preserve
        /\ cache[pp] # Nil => Uncached(pp)[cache[pp]].gen = "swept"
    BY GivenBack
  <1>3. /\ flushed[pp] /\ cache \in [Proc -> Page \cup {Nil}]
        /\ span \in [Page -> SpanType] /\ live \cup fin \cup finq \subseteq owned
    BY <1>0, <1>1, Types DEF CanRefill, OwnInv
  <1>4. /\ u \in SpanType /\ u.state = "small" /\ u.gen = "cached"
        /\ u.preserve = Nil /\ u.freeindex = 0 /\ u.freeIndexForScan = 0
        /\ u.allocBits = {} /\ u.gcmarkBits = {}
        /\ ~u.needzero => p > zeroedBase
             \/ (span[p].state = "scavenged" /\ ~NeedZeroAfterSysUnused)
    <2>1. /\ initSpan(p, "small") \in SpanType
          /\ initSpan(p, "small").state = "small"
          /\ initSpan(p, "small").preserve = Nil
          /\ initSpan(p, "small").freeindex = 0
          /\ initSpan(p, "small").freeIndexForScan = 0
          /\ initSpan(p, "small").allocBits = {}
          /\ initSpan(p, "small").gcmarkBits = {}
          /\ initSpan(p, "small").needzero <=>
               /\ allocNeedsZero(p)
               /\ span[p].state # "scavenged" \/ NeedZeroAfterSysUnused
      BY FreshSpans
    <2> DEFINE v == initSpan(p, "small")
    <2>2. ~v.needzero => p > zeroedBase
             \/ (span[p].state = "scavenged" /\ ~NeedZeroAfterSysUnused)
      BY <1>0, <2>1, Types, SlotFacts DEF allocNeedsZero
    <2> HIDE DEF v
    <2>3. /\ u = [v EXCEPT !.gen = "cached"] /\ v \in SpanType
          /\ v.state = "small" /\ v.preserve = Nil /\ v.freeindex = 0
          /\ v.freeIndexForScan = 0 /\ v.allocBits = {} /\ v.gcmarkBits = {}
      BY <2>1 DEF v
    <2> HIDE DEF u
    <2>4. /\ u \in SpanType /\ u.state = v.state /\ u.gen = "cached"
          /\ u.preserve = v.preserve /\ u.freeindex = v.freeindex
          /\ u.freeIndexForScan = v.freeIndexForScan
          /\ u.allocBits = v.allocBits /\ u.gcmarkBits = v.gcmarkBits
          /\ u.needzero = v.needzero
      BY <2>3 DEF SpanType
    <2> QED
      BY <2>2, <2>3, <2>4
  <1> HIDE DEF u
  <1>5. /\ span' \in [Page -> SpanType] /\ span'[p] = u
        /\ \A q \in Page : q # p => span'[q] = Uncached(pp)[q]
    BY <1>1, <1>2, <1>4
  <1>6. \A q \in Page : q # p => /\ SameBits(span'[q], span[q])
                                 /\ span'[q].gcmarkBits = span[q].gcmarkBits
                                 /\ span'[q].preserve = span[q].preserve
    BY <1>2, <1>5
  <1>7. \A q \in Page : q # p =>
          \/ span'[q].gen = span[q].gen
          \/ span[q].gen = "cached" /\ span'[q].gen = "swept"
    <2>1. cache[pp] # Nil => span[cache[pp]].gen = "cached"
      BY <1>0, <1>3 DEF CacheInv
    <2> QED
      BY <1>2, <1>5, <2>1, SlotFacts
  <1>8. /\ cache' \in [Proc -> Page \cup {Nil}] /\ cache'[pp] = p
        /\ \A qq \in Proc : qq # pp => cache'[qq] = cache[qq]
    BY <1>1, <1>3
  <1>9. /\ \A o \in owned : o \in Cell /\ o[1] \in Page /\ o[1] # p
        /\ \A qq \in Proc : cache[qq] # p
        /\ span[p].state \notin {"small", "large", "stack"}
        /\ zeroedBase' \in 0..NPages /\ p <= zeroedBase'
        /\ \A q \in Page : q > zeroedBase' => q > zeroedBase /\ q # p
    BY <1>1, FreePageFacts
  <1>10. TypeOK'
    <2>1. /\ mem' \in [Cell -> {"zero", "link", "user"}]
          /\ flushed' \in [Proc -> BOOLEAN]
          /\ gcphase' \in {"off", "mark"} /\ cycles' \in 0..MaxGC /\ tail' \in BOOLEAN
          /\ owned' \subseteq Cell /\ live' \subseteq Cell
          /\ fin' \subseteq Cell /\ finq' \subseteq Cell
          /\ stackpool' \subseteq Cell /\ stackLarge' \subseteq Page
          /\ stackcache' \in [Proc -> SUBSET Cell]
          /\ gstat' \in [G -> {"none", "new", "run", "dead"}]
          /\ home' \in [G -> Proc \cup {Nil}]
          /\ stk' \in [G -> SUBSET Cell] /\ old' \in [G -> SUBSET Cell]
      BY <1>0, <1>1, Types
    <2> QED
      BY <1>5, <1>8, <1>9, <2>1 DEF TypeOK, SpanType
  <1>11. StackInv'
    BY <1>1, <1>6, <1>9, StacksStay DEF SameBits, stackVars
  <1>12. ZeroInv'
    <2>1. ~u.needzero => \A i \in Slot : mem[<<p, i>>] = "zero"
      <3>1. \A i \in Slot : <<p, i>> \in Words(p)
        BY CellFacts
      <3> QED
        BY <1>0, <1>4, <3>1 DEF ZeroInv
    <2>2. \A q \in Page : q # p =>
            /\ q > zeroedBase' => span'[q].state = "scavenged"
            /\ q > zeroedBase' \/ (span'[q].state = "scavenged" /\ ~NeedZeroAfterSysUnused) =>
                 \A w \in Words(q) : mem'[w] = "zero"
            /\ span'[q].state = "small" /\ ~span'[q].needzero =>
                 \A i \in Slot : ~Allocated(span'[q], i) => mem'[<<q, i>>] = "zero"
      BY <1>0, <1>1, <1>6, <1>9 DEF ZeroInv, SameBits, Allocated
    <2>3. ~(p > zeroedBase') /\ span'[p].state # "scavenged"
      BY <1>4, <1>5, <1>9, SlotFacts
    <2> QED
      BY <1>1, <1>5, <2>1, <2>2, <2>3 DEF ZeroInv
  <1>13. OwnInv'
    BY <1>0, <1>1, <1>6, <1>9 DEF OwnInv, SameBits, Allocated
  <1>14. BitInv'
    BY <1>0, <1>4, <1>5, <1>6 DEF BitInv, SameBits
  <1>15. MarkInv'
    <2>1. \A o \in live \cup fin \cup finq : o[1] \in Page /\ o[1] # p
      BY <1>3, <1>9
    <2>2. gcphase = "mark" => \A q \in Page : span'[q].gen \in {"swept", "cached"}
      BY <1>0, <1>4, <1>5, <1>7 DEF MarkInv
    <2>3. \A o \in fin : span'[o[1]].gen = "sweeping" => o[2] \in span'[o[1]].gcmarkBits
      BY <1>0, <1>6, <1>7, <2>1 DEF MarkInv
    <2>4. \A o \in live \cup finq :
            \/ o[2] \in span'[o[1]].gcmarkBits
            \/ /\ span'[o[1]].gen \in {"swept", "cached"}
               /\ OlderThanCycle(span'[o[1]], o[2])
      BY <1>0, <1>6, <1>7, <2>1 DEF MarkInv, SameBits, OlderThanCycle
    <2> QED
      BY <1>0, <1>1, <2>2, <2>3, <2>4 DEF MarkInv
  <1>16. CacheInv'
    <2>1. \A qq \in Proc : qq # pp /\ cache[qq] # Nil =>
            /\ cache[qq] # p /\ span'[cache[qq]] = span[cache[qq]]
      BY <1>0, <1>2, <1>3, <1>5, <1>9 DEF CacheInv
    <2>2. span'[p].state = "small" /\ span'[p].gen = "cached" /\ span'[p].preserve = Nil
      BY <1>4, <1>5
    <2>3. \A q \in Page : span'[q].preserve # Nil =>
            span'[q].gen = "sweeping" /\ flushed[span'[q].preserve]
      BY <1>0, <1>6, <1>7, <2>2 DEF CacheInv
    <2> QED
      BY <1>0, <1>1, <1>3, <1>8, <2>1, <2>2, <2>3 DEF CacheInv
  <1>17. FreedIsClean'
    <2>1. \A o \in owned : ObjWords(o)' = ObjWords(o)
      BY <1>6, <1>9 DEF ObjWords, SameBits
    <2> QED
      BY <1>0, <1>1, <2>1 DEF FreedIsClean
  <1>18. KeepsBytes
    BY <1>1 DEF KeepsBytes
  <1> QED
    BY <1>10, <1>11, <1>12, <1>13, <1>14, <1>15, <1>16, <1>17, <1>18 DEF IInv

\* A free page has nothing to lose to the scavenger.
LEMMA ScavengeStep ==
  ASSUME IInv, NEW p \in Page, Scavenge(p)
  PROVE  IInv' /\ KeepsBytes
  <1>0. TypeOK /\ StackInv /\ ZeroInv /\ OwnInv /\ BitInv /\ MarkInv /\ CacheInv
        /\ FreedIsClean
    BY DEF IInv
  <1>1. /\ span[p].state = "free"
        /\ span' = [span EXCEPT ![p].state = "scavenged"]
        /\ UNCHANGED <<zeroedBase, cache, flushed, owned, live, fin, finq, gcphase,
                       cycles, tail, stackpool, stackcache, stackLarge, gstat, home,
                       stk, old>>
        /\ mem' = memclr(mem, Words(p)) \/ (NeedZeroAfterSysUnused /\ mem' = mem)
    BY DEF Scavenge, objVars, gcVars, stackVars
  <1>2. span \in [Page -> SpanType] /\ mem \in [Cell -> {"zero", "link", "user"}]
    BY <1>0, Types
  <1>3. /\ span' \in [Page -> SpanType] /\ span'[p].state = "scavenged"
        /\ span'[p].gen = span[p].gen /\ span'[p].preserve = span[p].preserve
        /\ span'[p].freeindex = span[p].freeindex
        /\ span'[p].freeIndexForScan = span[p].freeIndexForScan
        /\ \A q \in Page : q # p => span'[q] = span[q]
    <2>1. span[p] \in SpanType
      BY <1>2
    <2>2. LET u == [span[p] EXCEPT !.state = "scavenged"]
          IN  /\ u \in SpanType /\ u.state = "scavenged"
              /\ u.gen = span[p].gen /\ u.preserve = span[p].preserve
              /\ u.freeindex = span[p].freeindex
              /\ u.freeIndexForScan = span[p].freeIndexForScan
      BY <2>1 DEF SpanType
    <2> QED
      BY <1>1, <1>2, <2>2
  <1>4. /\ mem' \in [Cell -> {"zero", "link", "user"}]
        /\ \A w \in Cell : w[1] # p => mem'[w] = mem[w]
        /\ \A w \in Cell : mem'[w] = "user" => mem[w] = "user"
        /\ ~NeedZeroAfterSysUnused => \A w \in Words(p) : mem'[w] = "zero"
        /\ \A w \in Cell : mem[w] = "zero" => mem'[w] = "zero"
    BY <1>1, <1>2, CellFacts DEF memclr, Set
  <1>5. \A o \in owned : o \in Cell /\ o[1] \in Page /\ o[1] # p
    BY <1>1, FreePageFacts DEF FreePage
  <1>6. \A pp \in Proc : cache[pp] # p
    BY <1>1, FreePageFacts DEF FreePage
  <1>7. TypeOK'
    <2>1. /\ zeroedBase' \in 0..NPages /\ cache' \in [Proc -> Page \cup {Nil}]
          /\ flushed' \in [Proc -> BOOLEAN]
          /\ gcphase' \in {"off", "mark"} /\ cycles' \in 0..MaxGC /\ tail' \in BOOLEAN
          /\ owned' \subseteq Cell /\ live' \subseteq Cell
          /\ fin' \subseteq Cell /\ finq' \subseteq Cell
          /\ stackpool' \subseteq Cell /\ stackLarge' \subseteq Page
          /\ stackcache' \in [Proc -> SUBSET Cell]
          /\ gstat' \in [G -> {"none", "new", "run", "dead"}]
          /\ home' \in [G -> Proc \cup {Nil}]
          /\ stk' \in [G -> SUBSET Cell] /\ old' \in [G -> SUBSET Cell]
      BY <1>0, <1>1, Types
    <2> QED
      BY <1>3, <1>4, <2>1 DEF TypeOK, SpanType
  <1>8. StackInv'
    BY <1>1, <1>3, StacksStay DEF stackVars
  <1>9. ZeroInv'
    <2>1. \A q \in Page : \A w \in Words(q) : w \in Cell /\ w[1] = q
      BY CellFacts
    <2>2. \A q \in Page, i \in Slot : <<q, i>> \in Cell
      BY CellFacts
    <2>3. \A q \in Page : q > zeroedBase => q # p
      BY <1>0, <1>1 DEF ZeroInv
    <2>4. \A q \in Page : q > zeroedBase => span'[q].state = "scavenged"
      BY <1>0, <1>3 DEF ZeroInv
    <2>5. \A q \in Page :
            q > zeroedBase \/ (span'[q].state = "scavenged" /\ ~NeedZeroAfterSysUnused) =>
              \A w \in Words(q) : mem'[w] = "zero"
      BY <1>0, <1>3, <1>4, <2>1, <2>3 DEF ZeroInv
    <2>6. \A q \in Page : span'[q].state = "small" /\ ~span'[q].needzero =>
            \A i \in Slot : ~Allocated(span'[q], i) => mem'[<<q, i>>] = "zero"
      BY <1>0, <1>3, <1>4, <2>2 DEF ZeroInv
    <2> QED
      BY <1>1, <2>4, <2>5, <2>6 DEF ZeroInv
  <1>10. OwnInv'
    BY <1>0, <1>1, <1>3, <1>5 DEF OwnInv, Allocated
  <1>11. BitInv'
    BY <1>0, <1>3 DEF BitInv
  <1>12. MarkInv'
    BY <1>0, <1>1, <1>3, <1>5 DEF MarkInv, OwnInv, OlderThanCycle
  <1>13. CacheInv'
    <2>1. \A pp \in Proc : cache[pp] # Nil => span'[cache[pp]] = span[cache[pp]]
      BY <1>0, <1>3, <1>6, Types
    <2> QED
      BY <1>0, <1>1, <1>3, <2>1 DEF CacheInv
  <1>14. FreedIsClean'
    <2>1. \A o \in owned : ObjWords(o)' = ObjWords(o)
      BY <1>3, <1>5 DEF ObjWords
    <2> QED
      BY <1>0, <1>1, <1>4, <2>1 DEF FreedIsClean
  <1>15. KeepsBytes
    <2>1. \A o \in Reachable : \A w \in ObjWords(o) : w \in Cell /\ w[1] # p
      BY <1>0, <1>5, CellFacts DEF OwnInv, Reachable, ObjWords
    <2> QED
      BY <1>4, <2>1 DEF KeepsBytes
  <1> QED
    BY <1>7, <1>8, <1>9, <1>10, <1>11, <1>12, <1>13, <1>14, <1>15 DEF IInv

\* What handing out slot i makes of a span: only the indices move, past i, and
\* the collector will either find the object marked or older than its cycle.
LEMMA TakenFacts ==
  ASSUME NEW s \in SpanType, NEW i \in Slot, s.freeindex <= i,
         s.freeIndexForScan <= s.freeindex
  PROVE  LET t == Taken(s, i)
         IN  /\ t \in SpanType /\ t.state = s.state /\ t.gen = s.gen
             /\ t.needzero = s.needzero /\ t.allocBits = s.allocBits
             /\ t.preserve = s.preserve /\ t.freeindex = i + 1
             /\ t.freeIndexForScan <= i + 1
             /\ s.freeIndexForScan <= t.freeIndexForScan
             /\ s.gcmarkBits \subseteq t.gcmarkBits
             /\ t.gcmarkBits \subseteq s.gcmarkBits \cup {i}
             /\ i \in t.gcmarkBits \/ i < t.freeIndexForScan
  <1> DEFINE u == [s EXCEPT !.freeindex = i + 1]
  <1>1. i \in Nat /\ i + 1 \in 0..NElems /\ i < i + 1
    BY SlotFacts
  <1>2. /\ s.freeindex \in Nat /\ s.freeIndexForScan \in Nat
        /\ s.freeIndexForScan <= i + 1 /\ s.freeIndexForScan <= s.freeIndexForScan
    <2>1. s.freeindex \in 0..NElems /\ s.freeIndexForScan \in 0..NElems
      BY DEF SpanType
    <2> QED
      BY <1>1, <2>1, SanitizeAssumption
  <1>3. /\ u \in SpanType /\ u.state = s.state /\ u.gen = s.gen
        /\ u.needzero = s.needzero /\ u.allocBits = s.allocBits
        /\ u.preserve = s.preserve /\ u.freeindex = i + 1
        /\ u.freeIndexForScan = s.freeIndexForScan /\ u.gcmarkBits = s.gcmarkBits
    BY <1>1 DEF SpanType
  <1>4. Taken(s, i) = IF gcphase = "mark" THEN gcmarknewobject(u, i)
                      ELSE [u EXCEPT !.freeIndexForScan = i + 1]
    BY DEF Taken
  <1> HIDE DEF u
  <1>5. LET t == gcmarknewobject(u, i)
        IN  /\ t \in SpanType /\ t.state = u.state /\ t.gen = u.gen
            /\ t.needzero = u.needzero /\ t.allocBits = u.allocBits
            /\ t.preserve = u.preserve /\ t.freeindex = u.freeindex
            /\ t.freeIndexForScan = u.freeIndexForScan
            /\ t.gcmarkBits = u.gcmarkBits \cup {i}
    BY <1>3 DEF SpanType, gcmarknewobject
  <1>6. LET t == [u EXCEPT !.freeIndexForScan = i + 1]
        IN  /\ t \in SpanType /\ t.state = u.state /\ t.gen = u.gen
            /\ t.needzero = u.needzero /\ t.allocBits = u.allocBits
            /\ t.preserve = u.preserve /\ t.freeindex = u.freeindex
            /\ t.freeIndexForScan = i + 1
            /\ t.gcmarkBits = u.gcmarkBits
    BY <1>1, <1>3 DEF SpanType
  <1> DEFINE t == Taken(s, i)
  <1> HIDE DEF t
  <1>7. CASE gcphase = "mark"
    <2>1. t = gcmarknewobject(u, i)
      BY <1>4, <1>7 DEF t
    <2>2. /\ t \in SpanType /\ t.state = s.state /\ t.gen = s.gen
          /\ t.needzero = s.needzero /\ t.allocBits = s.allocBits
          /\ t.preserve = s.preserve /\ t.freeindex = i + 1
          /\ t.freeIndexForScan = s.freeIndexForScan
          /\ t.gcmarkBits = s.gcmarkBits \cup {i}
      BY <1>3, <1>5, <2>1
    <2> QED
      BY <1>2, <2>2 DEF t
  <1>8. CASE gcphase # "mark"
    <2>1. t = [u EXCEPT !.freeIndexForScan = i + 1]
      BY <1>4, <1>8 DEF t
    <2>2. /\ t \in SpanType /\ t.state = s.state /\ t.gen = s.gen
          /\ t.needzero = s.needzero /\ t.allocBits = s.allocBits
          /\ t.preserve = s.preserve /\ t.freeindex = i + 1
          /\ t.freeIndexForScan = i + 1
          /\ t.gcmarkBits = s.gcmarkBits
      BY <1>3, <1>6, <2>1
    <2>3. t.freeIndexForScan <= i + 1
      BY <1>1, <2>2
    <2> QED
      BY <1>1, <1>2, <2>2, <2>3 DEF t
  <1> QED
    BY <1>7, <1>8

\* malloc hands out slot i of the page p: of the span the P has cached, or of a
\* span it has just made for a large object.
LEMMA Born ==
  ASSUME IInv, NEW p \in Page, NEW i \in Slot, NEW s \in SpanType,
         \/ s.state = "small" /\ s = span[p] /\ p <= zeroedBase
         \/ s.state = "large" /\ FreePage(p) /\ s.preserve = Nil /\ i = 0,
         s.gen \in {"swept", "cached"}, s.freeindex <= i,
         s.freeIndexForScan <= s.freeindex,
         s.state = "large" => s.allocBits = {} /\ s.gcmarkBits = {},
         span' = [span EXCEPT ![p] = Taken(s, i)],
         mem' = Set(mem, IF s.state = "large" THEN Words(p) ELSE {<<p, i>>}, "user"),
         zeroedBase' \in 0..NPages, zeroedBase <= zeroedBase', p <= zeroedBase',
         owned' = owned \cup {<<p, i>>}, live' = live \cup {<<p, i>>},
         UNCHANGED <<cache, flushed, fin, finq, gcVars, stackVars>>
  PROVE  IInv' /\ KeepsBytes
  <1> DEFINE o == <<p, i>>
             t == Taken(s, i)
             W == IF s.state = "large" THEN Words(p) ELSE {o}
  <1>0. TypeOK /\ StackInv /\ ZeroInv /\ OwnInv /\ BitInv /\ MarkInv /\ CacheInv
        /\ FreedIsClean
    BY DEF IInv
  <1>1. /\ UNCHANGED <<cache, flushed, fin, finq, gcphase, cycles, tail, stackpool,
                       stackcache, stackLarge, gstat, home, stk, old>>
        /\ owned' = owned \cup {o} /\ live' = live \cup {o}
    BY DEF gcVars, stackVars
  <1>2. /\ o \in Cell /\ o[1] = p /\ o[2] = i
        /\ W \subseteq Cell /\ \A w \in W : w[1] = p
        /\ mem' = Set(mem, W, "user")
    BY CellFacts
  <1>3. /\ t \in SpanType /\ t.state = s.state /\ t.gen = s.gen
        /\ t.needzero = s.needzero /\ t.allocBits = s.allocBits
        /\ t.preserve = s.preserve /\ t.freeindex = i + 1
        /\ t.freeIndexForScan <= i + 1
        /\ s.freeIndexForScan <= t.freeIndexForScan
        /\ s.gcmarkBits \subseteq t.gcmarkBits
        /\ t.gcmarkBits \subseteq s.gcmarkBits \cup {i}
        /\ i \in t.gcmarkBits \/ i < t.freeIndexForScan
    BY TakenFacts
  <1> HIDE DEF t, W
  <1>4. /\ span \in [Page -> SpanType] /\ mem \in [Cell -> {"zero", "link", "user"}]
        /\ cache \in [Proc -> Page \cup {Nil}]
        /\ owned \subseteq Cell /\ live \subseteq Cell
        /\ zeroedBase \in 0..NPages
    BY <1>0, Types
  <1>5. /\ span' \in [Page -> SpanType] /\ span'[p] = t
        /\ \A q \in Page : q # p => span'[q] = span[q]
    BY <1>3, <1>4 DEF t
  <1>6. /\ mem' \in [Cell -> {"zero", "link", "user"}]
        /\ \A w \in Cell : w \in W => mem'[w] = "user"
        /\ \A w \in Cell : w \notin W => mem'[w] = mem[w]
    BY <1>2, <1>4 DEF Set
  <1>7. /\ s.state = "small" => s = span[p]
        /\ s.state = "large" => FreePage(p) /\ s.preserve = Nil /\ i = 0
        /\ s.state \in {"small", "large"} /\ t.state \in {"small", "large"}
    BY <1>3
  <1>8. \A x \in owned : x \in Cell /\ x[1] \in Page /\ x[2] \in Slot
                         /\ (x[1] = p => s.state = "small")
    <2>1. \A x \in owned : x \in Cell /\ x[1] \in Page /\ x[2] \in Slot
      BY <1>4, CellFacts
    <2>2. s.state = "large" => \A x \in owned : x[1] # p
      BY <1>7, FreePageFacts
    <2> QED
      BY <1>7, <2>1, <2>2
  <1>9. span[p].state \notin {"scavenged", "stack"} \/ s.state = "large"
    BY <1>7
  <1>10. i \in Nat /\ s.freeindex \in Nat /\ s.freeIndexForScan \in Nat
         /\ t.freeIndexForScan \in Nat /\ \A j \in Slot : j \in Nat
    <2>1. /\ s.freeindex \in 0..NElems /\ s.freeIndexForScan \in 0..NElems
          /\ t.freeIndexForScan \in 0..NElems
      BY <1>3 DEF SpanType
    <2> QED
      BY <2>1, SlotFacts, SanitizeAssumption
  <1>11. TypeOK'
    <2>1. /\ flushed' \in [Proc -> BOOLEAN] /\ cache' \in [Proc -> Page \cup {Nil}]
          /\ gcphase' \in {"off", "mark"} /\ cycles' \in 0..MaxGC /\ tail' \in BOOLEAN
          /\ fin' \subseteq Cell /\ finq' \subseteq Cell
          /\ stackpool' \subseteq Cell /\ stackLarge' \subseteq Page
          /\ stackcache' \in [Proc -> SUBSET Cell]
          /\ gstat' \in [G -> {"none", "new", "run", "dead"}]
          /\ home' \in [G -> Proc \cup {Nil}]
          /\ stk' \in [G -> SUBSET Cell] /\ old' \in [G -> SUBSET Cell]
      BY <1>0, <1>1, Types
    <2>2. owned' \subseteq Cell /\ live' \subseteq Cell
      BY <1>1, <1>2, <1>4
    <2>3. {owned', live', fin', finq'} \subseteq SUBSET Cell
      BY <2>1, <2>2
    <2> QED
      BY <1>5, <1>6, <2>1, <2>3, Zenon DEF TypeOK, SpanType
  <1>12. StackInv'
    <2>1. span[p].state # "stack"
      BY <1>7 DEF FreePage
    <2> QED
      BY <1>5, <2>1, StacksStay
  <1> HIDE DEF o
  <1>13. ZeroInv'
    <2>1. \A q \in Page : q > zeroedBase' => q > zeroedBase /\ q # p
      BY <1>4, SlotFacts, SanitizeAssumption
    <2>2. \A q \in Page : q # p => \A w \in Words(q) : mem'[w] = mem[w]
      <3>1. \A w \in Cell : w[1] # p => mem'[w] = mem[w]
        BY <1>2, <1>6
      <3>2. \A q \in Page : \A w \in Words(q) : w \in Cell /\ w[1] = q
        BY CellFacts
      <3> QED
        BY <3>1, <3>2
    <2>3. \A q \in Page : \A j \in Slot : <<q, j>> \in Words(q)
      BY CellFacts
    <2>4. ASSUME NEW q \in Page, q # p
          PROVE  /\ q > zeroedBase' => span'[q].state = "scavenged"
                 /\ \/ q > zeroedBase'
                    \/ span'[q].state = "scavenged" /\ ~NeedZeroAfterSysUnused
                    => \A w \in Words(q) : mem'[w] = "zero"
                 /\ span'[q].state = "small" /\ ~span'[q].needzero =>
                      \A j \in Slot : ~Allocated(span'[q], j) => mem'[<<q, j>>] = "zero"
      <3>1. span'[q] = span[q] /\ (q > zeroedBase' => q > zeroedBase)
        BY <1>5, <2>1, <2>4
      <3>2. /\ q > zeroedBase => span[q].state = "scavenged"
            /\ \/ q > zeroedBase
               \/ span[q].state = "scavenged" /\ ~NeedZeroAfterSysUnused
               => \A w \in Words(q) : mem[w] = "zero"
            /\ span[q].state = "small" /\ ~span[q].needzero =>
                 \A j \in Slot : ~Allocated(span[q], j) => mem[<<q, j>>] = "zero"
        BY <1>0, Zenon DEF ZeroInv
      <3>3. \A w \in Words(q) : mem'[w] = mem[w]
        BY <2>2, <2>4
      <3>4. \A j \in Slot : mem'[<<q, j>>] = mem[<<q, j>>]
        BY <2>3, <3>3
      <3> QED
        BY <3>1, <3>2, <3>3, <3>4, Zenon
    <2>5. ASSUME s.state = "small", ~s.needzero, NEW j \in Slot, ~Allocated(t, j)
          PROVE  mem'[<<p, j>>] = "zero"
      <3>1. ~Allocated(s, j) /\ j # i
        <4>1. j \notin t.allocBits /\ ~(j < i + 1) /\ j \in Nat
          BY <1>3, <1>10, <2>5 DEF Allocated
        <4>2. ~(j < s.freeindex) /\ j # i
          BY <1>10, <4>1
        <4> QED
          BY <1>3, <4>1, <4>2 DEF Allocated
      <3>2. mem[<<p, j>>] = "zero"
        BY <1>0, <1>7, <2>5, <3>1 DEF ZeroInv
      <3>3. <<p, j>> \notin W /\ <<p, j>> \in Cell
        BY <2>5, <3>1, CellFacts DEF o, W
      <3> QED
        BY <1>6, <3>2, <3>3
    <2>6. span'[p].state # "scavenged" /\ ~(p > zeroedBase')
      BY <1>5, <1>7, <2>1
    <2> QED
      <3>1. span'[p].state = s.state /\ span'[p].needzero = s.needzero /\ span'[p] = t
        BY <1>3, <1>5
      <3>2. ASSUME NEW q \in Page
            PROVE  /\ q > zeroedBase' => span'[q].state = "scavenged"
                   /\ \/ q > zeroedBase'
                      \/ span'[q].state = "scavenged" /\ ~NeedZeroAfterSysUnused
                      => \A w \in Words(q) : mem'[w] = "zero"
                   /\ span'[q].state = "small" /\ ~span'[q].needzero =>
                        \A j \in Slot : ~Allocated(span'[q], j) => mem'[<<q, j>>] = "zero"
        <4>1. CASE q # p
          BY <2>4, <4>1, Zenon
        <4>2. CASE q = p
          BY <2>5, <2>6, <3>1, <4>2, Zenon
        <4> QED
          BY <4>1, <4>2
      <3> QED
        BY <3>2, Zenon DEF ZeroInv
  <1>14. OwnInv'
    <2>1. /\ t.state = "large" => i = 0
          /\ Allocated(t, i)
      BY <1>3, <1>7, <1>10 DEF Allocated
    <2>2. ASSUME NEW x \in owned
          PROVE  /\ span'[x[1]].state \in {"small", "large"}
                 /\ span'[x[1]].state = "large" => x[2] = 0
                 /\ Allocated(span'[x[1]], x[2])
      <3>1. CASE x[1] # p
        BY <1>0, <1>5, <1>8, <3>1 DEF OwnInv
      <3>2. CASE x[1] = p
        <4>1. s = span[p] /\ s.state = "small" /\ Allocated(s, x[2]) /\ x[2] \in Nat
          BY <1>0, <1>7, <1>8, <1>10, <3>2 DEF OwnInv
        <4>2. Allocated(t, x[2])
          BY <1>3, <1>10, <4>1 DEF Allocated
        <4> QED
          BY <1>3, <1>5, <3>2, <4>1, <4>2
      <3> QED
        BY <3>1, <3>2
    <2>3. live' \cup fin' \cup finq' \subseteq owned'
      BY <1>0, <1>1 DEF OwnInv
    <2> QED
      BY <1>1, <1>2, <1>5, <1>7, <2>1, <2>2, <2>3 DEF OwnInv
  <1>15. BitInv'
    <2>1. t.state = "large" => t.freeindex <= 1 /\ t.allocBits \subseteq {0}
                               /\ t.gcmarkBits \subseteq {0}
      BY <1>3, <1>7, <1>10
    <2> QED
      BY <1>0, <1>3, <1>5, <2>1 DEF BitInv
  <1>16. MarkInv'
    <2>1. gcphase = "mark" => \A q \in Page : span'[q].gen \in {"swept", "cached"}
      BY <1>0, <1>3, <1>5 DEF MarkInv
    <2>2. \A x \in live \cup fin \cup finq : x \in owned
      BY <1>0 DEF OwnInv
    <2>3. \A x \in fin : span'[x[1]].gen = "sweeping" => x[2] \in span'[x[1]].gcmarkBits
      BY <1>0, <1>3, <1>5, <1>8, <2>2 DEF MarkInv
    <2>4. ASSUME NEW x \in live \cup finq
          PROVE  \/ x[2] \in span'[x[1]].gcmarkBits
                 \/ /\ span'[x[1]].gen \in {"swept", "cached"}
                    /\ OlderThanCycle(span'[x[1]], x[2])
      <3>1. CASE x[1] # p
        BY <1>0, <1>5, <1>8, <2>2, <3>1 DEF MarkInv
      <3>2. CASE x[1] = p
        <4>1. s = span[p] /\ x[2] \in Nat
          BY <1>7, <1>8, <1>10, <2>2, <3>2
        <4>2. x[2] \in s.gcmarkBits \/ OlderThanCycle(s, x[2])
          BY <1>0, <3>2, <4>1 DEF MarkInv
        <4>3. OlderThanCycle(s, x[2]) => OlderThanCycle(t, x[2])
          BY <1>3, <1>10, <4>1 DEF OlderThanCycle
        <4> QED
          BY <1>3, <1>5, <3>2, <4>2, <4>3
      <3> QED
        BY <3>1, <3>2
    <2>5. \/ o[2] \in span'[o[1]].gcmarkBits
          \/ /\ span'[o[1]].gen \in {"swept", "cached"}
             /\ OlderThanCycle(span'[o[1]], o[2])
      BY <1>2, <1>3, <1>5 DEF OlderThanCycle
    <2>6. \A x \in live' \cup finq' : x = o \/ x \in live \cup finq
      BY <1>1
    <2>7. \A x \in live' \cup finq' :
            \/ x[2] \in span'[x[1]].gcmarkBits
            \/ /\ span'[x[1]].gen \in {"swept", "cached"}
               /\ OlderThanCycle(span'[x[1]], x[2])
      BY <2>4, <2>5, <2>6
    <2> QED
      BY <1>0, <1>1, <2>1, <2>3, <2>7 DEF MarkInv
  <1>17. CacheInv'
    <2>1. \A qq \in Proc : cache[qq] # Nil =>
            /\ span'[cache[qq]].state = span[cache[qq]].state
            /\ span'[cache[qq]].gen = span[cache[qq]].gen
      <3>1. s.state = "large" => \A qq \in Proc : cache[qq] # p
        BY <1>7, FreePageFacts
      <3> QED
        BY <1>3, <1>4, <1>5, <1>7, <3>1
    <2>2. \A q \in Page : span'[q].preserve # Nil =>
            span'[q].preserve = span[q].preserve /\ span'[q].gen = span[q].gen
      BY <1>3, <1>5, <1>7
    <2> QED
      BY <1>0, <1>1, <2>1, <2>2 DEF CacheInv
  <1>18. FreedIsClean'
    <2>1. \A x \in owned : ObjWords(x)' = ObjWords(x)
      BY <1>3, <1>5, <1>7, <1>8 DEF ObjWords
    <2>2. W = ObjWords(o)'
      BY <1>2, <1>3, <1>5 DEF ObjWords, W
    <2>3. ASSUME NEW w \in Cell, mem'[w] = "user"
          PROVE  \/ \E x \in owned' : w \in ObjWords(x)'
                 \/ \E g \in G : w \in stk'[g] \cup old'[g]
      <3>1. CASE w \in W
        BY <1>1, <2>2, <3>1
      <3>2. CASE w \notin W
        <4>1. mem[w] = "user"
          BY <1>6, <2>3, <3>2
        <4>2. \/ \E x \in owned : w \in ObjWords(x)
              \/ \E g \in G : w \in stk[g] \cup old[g]
          BY <1>0, <4>1 DEF FreedIsClean
        <4> QED
          BY <1>1, <2>1, <4>2
      <3> QED
        BY <3>1, <3>2
    <2> QED
      BY <2>3 DEF FreedIsClean
  <1>19. KeepsBytes
    <2>1. \A x \in Reachable : \A w \in ObjWords(x) : w \in Cell
      BY <1>0, <1>8, CellFacts DEF OwnInv, Reachable, ObjWords
    <2> QED
      BY <1>6, <2>1 DEF KeepsBytes
  <1> QED
    BY <1>11, <1>12, <1>13, <1>14, <1>15, <1>16, <1>17, <1>18, <1>19 DEF IInv

\* mallocgcLarge keeps IInv and what is reachable.
LEMMA MallocLargeStep ==
  ASSUME IInv, NEW pp \in Proc, NEW p \in Page, mallocgcLarge(pp, p)
  PROVE  IInv' /\ KeepsBytes
  <1> DEFINE s == initSpan(p, "large")
  <1>1. /\ FreePage(p) /\ span' = [span EXCEPT ![p] = Taken(s, 0)]
        /\ mem' = Set(mem, Words(p), "user")
        /\ zeroedBase' = Watermark(p)
        /\ owned' = owned \cup {<<p, 0>>} /\ live' = live \cup {<<p, 0>>}
        /\ UNCHANGED <<cache, flushed, fin, finq, gcVars, stackVars>>
    BY DEF mallocgcLarge
  <1>2. /\ s \in SpanType /\ s.state = "large" /\ s.gen = "swept" /\ s.preserve = Nil
        /\ s.freeindex = 0 /\ s.freeIndexForScan = 0
        /\ s.allocBits = {} /\ s.gcmarkBits = {}
    BY FreshSpans
  <1> HIDE DEF s
  <1>3. /\ zeroedBase' \in 0..NPages /\ p <= zeroedBase' /\ zeroedBase <= zeroedBase'
    <2>1. zeroedBase <= Watermark(p)
      BY Types, SlotFacts, SanitizeAssumption DEF IInv, Watermark
    <2> QED
      BY <1>1, <2>1, FreePageFacts
  <1>4. 0 \in Slot /\ s.freeindex <= 0 /\ s.freeIndexForScan <= s.freeindex
    BY <1>2, SlotFacts
  <1> QED
    BY <1>1, <1>2, <1>3, <1>4, Born

\* mallocgcSmall keeps IInv and what is reachable.
LEMMA MallocSmallStep ==
  ASSUME IInv, NEW pp \in Proc, mallocgcSmall(pp)
  PROVE  IInv' /\ KeepsBytes
  <1> DEFINE p == cache[pp]
             s == span[p]
             i == Min(NextFree(s))
  <1>1. /\ flushed[pp] /\ p # Nil /\ NextFree(s) # {}
        /\ span' = [span EXCEPT ![p] = Taken(s, i)]
        /\ mem' = Set(mem, {<<p, i>>}, "user")
        /\ owned' = owned \cup {<<p, i>>} /\ live' = live \cup {<<p, i>>}
        /\ UNCHANGED <<zeroedBase, cache, flushed, fin, finq, gcVars, stackVars>>
    BY DEF mallocgcSmall
  <1>2. NextFree(s) \subseteq Slot
    BY DEF NextFree
  <1>3. i \in NextFree(s)
    BY <1>1, <1>2, MinFree
  <1>4. p \in Page /\ s \in SpanType /\ zeroedBase \in 0..NPages
    BY <1>1, Types DEF IInv
  <1>5. s.state = "small" /\ s.gen = "cached" /\ s.freeIndexForScan <= s.freeindex
    BY <1>1, <1>4 DEF IInv, CacheInv, BitInv
  <1>6. ~(p > zeroedBase)
    BY <1>4, <1>5 DEF IInv, ZeroInv
  <1>7. p <= zeroedBase /\ zeroedBase <= zeroedBase
    BY <1>4, <1>6, SlotFacts, SanitizeAssumption
  <1>8. i \in Slot /\ s.freeindex <= i
    <2>1. s.freeindex \in Nat
      BY <1>4, SanitizeAssumption DEF SpanType
    <2> QED
      BY <1>3, <2>1, SlotFacts DEF NextFree
  <1>9. zeroedBase' = zeroedBase
    BY <1>1
  <1> HIDE DEF i, p
  <1>10. s = span[p] /\ s.state # "large"
    BY <1>5
  <1> HIDE DEF s
  <1> QED
    BY <1>1, <1>4, <1>5, <1>7, <1>8, <1>9, <1>10, Born

\* The bits a sweep leaves: what was marked is allocated, and needzero says
\* whether anything was freed, ever.
LEMMA SweptFacts ==
  ASSUME NEW s \in SpanType, NEW v,
         v \in {SweptSpan(s), [SweptSpan(s) EXCEPT !.gen = "cached"]}
  PROVE  /\ v \in SpanType /\ v.state = s.state /\ v.gen \in {"swept", "cached"}
         /\ v.preserve = Nil /\ v.freeindex = 0 /\ v.freeIndexForScan = 0
         /\ v.allocBits = s.gcmarkBits /\ v.gcmarkBits = {}
         /\ ~v.needzero => ~s.needzero /\ \A i \in Slot : ~SweepFrees(s, i)
         /\ v = [SweptSpan(s) EXCEPT !.gen = "cached"] => v.gen = "cached"
  <1> DEFINE n == s.needzero \/ \E i \in Slot : SweepFrees(s, i)
             t == [s EXCEPT !.gen = "swept", !.preserve = Nil, !.freeindex = 0,
                            !.freeIndexForScan = 0, !.allocBits = s.gcmarkBits,
                            !.gcmarkBits = {}, !.needzero = n]
  <1>1. SweptSpan(s) = t
    BY DEF SweptSpan
  <1>2. n \in BOOLEAN /\ (~n => ~s.needzero /\ \A i \in Slot : ~SweepFrees(s, i))
    BY DEF SpanType
  <1> HIDE DEF n
  <1>3. /\ t \in SpanType /\ t.state = s.state /\ t.gen = "swept" /\ t.preserve = Nil
        /\ t.freeindex = 0 /\ t.freeIndexForScan = 0
        /\ t.allocBits = s.gcmarkBits /\ t.gcmarkBits = {} /\ t.needzero = n
    <2>1. 0 \in 0..NElems /\ Nil \in Proc \cup {Nil} /\ {} \in SUBSET Slot
      BY SanitizeAssumption
    <2>2. s.gcmarkBits \in SUBSET Slot
      BY DEF SpanType
    <2>3. t \in SpanType
      BY <1>2, <2>1, <2>2 DEF SpanType
    <2>4. /\ t.state = s.state /\ t.gen = "swept" /\ t.preserve = Nil
          /\ t.freeindex = 0 /\ t.freeIndexForScan = 0
      BY <1>2, <2>1, <2>2 DEF SpanType
    <2>5. t.allocBits = s.gcmarkBits /\ t.gcmarkBits = {} /\ t.needzero = n
      BY <1>2, <2>1, <2>2 DEF SpanType
    <2> QED
      BY <2>3, <2>4, <2>5
  <1> HIDE DEF t
  <1>4. LET c == [t EXCEPT !.gen = "cached"]
        IN  /\ c \in SpanType /\ c.state = t.state /\ c.gen = "cached"
            /\ c.preserve = t.preserve /\ c.freeindex = t.freeindex
            /\ c.freeIndexForScan = t.freeIndexForScan
            /\ c.allocBits = t.allocBits /\ c.gcmarkBits = t.gcmarkBits
            /\ c.needzero = t.needzero
    BY <1>3 DEF SpanType
  <1>5. CASE v = t
    <2>1. /\ v \in SpanType /\ v.state = s.state /\ v.gen \in {"swept", "cached"}
          /\ v.preserve = Nil /\ v.freeindex = 0 /\ v.freeIndexForScan = 0
          /\ v.allocBits = s.gcmarkBits /\ v.gcmarkBits = {} /\ v.needzero = n
      BY <1>3, <1>5
    <2>2. v = [SweptSpan(s) EXCEPT !.gen = "cached"] => v.gen = "cached"
      BY <1>1, <1>4
    <2> QED
      BY <1>2, <2>1, <2>2
  <1>6. CASE v = [t EXCEPT !.gen = "cached"]
    <2>1. /\ v \in SpanType /\ v.state = s.state /\ v.gen = "cached"
          /\ v.preserve = Nil /\ v.freeindex = 0 /\ v.freeIndexForScan = 0
          /\ v.allocBits = s.gcmarkBits /\ v.gcmarkBits = {} /\ v.needzero = n
      BY <1>3, <1>4, <1>6
    <2> QED
      BY <1>2, <2>1
  <1> QED
    BY <1>1, <1>5, <1>6

\* The words of the objects that the sweep of p frees, and the words it clears.
FreedWords(p) ==
  UNION {ObjWords(<<p, i>>) : i \in {j \in Slot : SweepFrees(span[p], j)}}

ClearedWords(p) ==
  IF span[p].state = "large" /\ SweepFrees(span[p], 0) THEN Words(p) ELSE FreedWords(p)

\* What a sweep clears: exactly the words of the objects it frees, and what the
\* program or the finalizer queue can reach is not among them.
LEMMA ClearedFacts ==
  ASSUME IInv, NEW p \in Page, span[p].gen = "sweeping",
         span[p].state \in {"small", "large"}, NEW kept,
         kept = {o \in owned : o[1] = p => o[2] \in span[p].gcmarkBits}
  PROVE  /\ FreedWords(p) \subseteq Words(p) /\ ClearedWords(p) \subseteq Words(p)
         /\ live \cup fin \cup finq \subseteq kept
         /\ \A o \in owned : o \in kept \/ ObjWords(o) \subseteq ClearedWords(p)
         /\ \A o \in kept : ObjWords(o) \cap ClearedWords(p) = {}
         /\ span[p].state = "large" /\ SweepFrees(span[p], 0) => \A o \in kept : o[1] # p
  <1> DEFINE s == span[p]
             C == UNION {ObjWords(<<p, i>>) : i \in {j \in Slot : SweepFrees(s, j)}}
             D == IF s.state = "large" /\ SweepFrees(s, 0) THEN Words(p) ELSE C
  <1>0. TypeOK /\ OwnInv /\ BitInv /\ MarkInv
    BY DEF IInv
  <1>1. /\ \A o \in owned : o \in Cell /\ o[1] \in Page /\ o[2] \in Slot /\ o = <<o[1], o[2]>>
        /\ live \cup fin \cup finq \subseteq owned /\ s \in SpanType
    BY <1>0, Types, CellFacts DEF OwnInv
  <1>2. live \cup fin \cup finq \subseteq kept
    BY <1>0, <1>1 DEF MarkInv
  <1>3. \A i \in Slot : /\ s.state = "large" => ObjWords(<<p, i>>) = Words(p)
                        /\ s.state # "large" => ObjWords(<<p, i>>) = {<<p, i>>}
    BY CellFacts DEF ObjWords
  <1>4. C \subseteq Words(p)
    <2>1. \A i \in Slot : <<p, i>> \in Words(p)
      BY CellFacts
    <2>2. \A i \in Slot : ObjWords(<<p, i>>) \subseteq Words(p)
      BY <1>3, <2>1
    <2> QED
      BY <2>2
  <1>5. \A o \in owned : o[1] = p /\ o[2] \notin s.gcmarkBits => SweepFrees(s, o[2])
    BY <1>0 DEF OwnInv, SweepFrees
  <1>6. \A o \in owned : o \in kept \/ ObjWords(o) \subseteq C
    <2>1. ASSUME NEW o \in owned, o \notin kept
          PROVE  ObjWords(o) \subseteq C
      <3>1. o[1] = p /\ o[2] \notin s.gcmarkBits
        BY <2>1
      <3>2. o[2] \in {j \in Slot : SweepFrees(s, j)} /\ o = <<p, o[2]>>
        BY <1>1, <1>5, <2>1, <3>1
      <3> QED
        BY <3>2
    <2> QED
      BY <2>1
  <1>7. \A o \in owned : s.state = "large" /\ o[1] = p => o[2] = 0
    BY <1>0 DEF OwnInv
  <1>8. s.state = "large" => \A j \in Slot : SweepFrees(s, j) => j = 0
    <2>1. s.state = "large" => s.freeindex <= 1 /\ s.allocBits \subseteq {0}
      BY <1>0 DEF BitInv
    <2>2. s.freeindex \in Nat
      BY <1>1, SanitizeAssumption DEF SpanType
    <2> QED
      BY <2>1, <2>2, SlotFacts DEF SweepFrees, Allocated
  <1>9. s.state = "large" /\ SweepFrees(s, 0) => \A o \in kept : o[1] # p
    BY <1>7 DEF SweepFrees
  <1>10. ASSUME NEW o \in kept, NEW w \in ObjWords(o), w \in D
         PROVE  FALSE
    <2>1. o \in owned /\ (o[1] = p => o[2] \in s.gcmarkBits)
      BY <1>10
    <2>2. o[1] \in Page /\ o \in Cell /\ o = <<o[1], o[2]>> /\ o[2] \in Slot
      BY <1>1, <2>1
    <2>3. D \subseteq Words(p)
      BY <1>4
    <2>4. w[1] = o[1]
      BY <1>10, <2>2, CellFacts DEF ObjWords
    <2>5. o[1] = p
      BY <1>10, <2>3, <2>4, CellFacts
    <2>6. CASE s.state = "large"
      <3>1. ~SweepFrees(s, 0)
        BY <1>9, <1>10, <2>5, <2>6
      <3>2. \A j \in Slot : ~SweepFrees(s, j)
        BY <1>8, <2>6, <3>1
      <3> QED
        BY <1>10, <3>1, <3>2
    <2>7. CASE s.state # "large"
      <3>1. w = o
        BY <1>10, <2>5, <2>7 DEF ObjWords
      <3>2. PICK j \in Slot : SweepFrees(s, j) /\ w \in ObjWords(<<p, j>>)
        BY <1>10, <2>7
      <3>3. w = <<p, j>>
        BY <1>3, <2>7, <3>2
      <3>4. j = o[2]
        BY <2>2, <3>1, <3>3
      <3> QED
        BY <2>1, <2>5, <3>2, <3>4 DEF SweepFrees
    <2> QED
      BY <2>6, <2>7
  <1>11. D \subseteq Words(p) /\ C \subseteq D
    BY <1>4
  <1>12. \A o \in kept : ObjWords(o) \cap D = {}
    BY <1>10
  <1> QED
    BY <1>2, <1>4, <1>6, <1>9, <1>11, <1>12 DEF FreedWords, ClearedWords

\* The end of a sweep keeps IInv and what is reachable: what it frees is
\* cleared, what it keeps is what was marked.
LEMMA SweepEndStep ==
  ASSUME IInv, NEW p \in Page, SweepEnd(p)
  PROVE  IInv' /\ KeepsBytes
  <1> DEFINE s == span[p]
             v == span'[p]
             C == FreedWords(p)
             D == ClearedWords(p)
  <1>0. TypeOK /\ StackInv /\ ZeroInv /\ OwnInv /\ BitInv /\ MarkInv /\ CacheInv
        /\ FreedIsClean
    BY DEF IInv
  <1>1. /\ s.gen = "sweeping" /\ s.state \in {"small", "large"}
        /\ owned' = {o \in owned : o[1] = p => o[2] \in s.gcmarkBits}
        /\ UNCHANGED <<zeroedBase, flushed, live, fin, finq, gcphase, cycles, tail,
                       stackpool, stackcache, stackLarge, gstat, home, stk, old>>
    BY DEF SweepEnd, gcVars, stackVars
  <1>2. /\ span \in [Page -> SpanType] /\ mem \in [Cell -> {"zero", "link", "user"}]
        /\ cache \in [Proc -> Page \cup {Nil}] /\ s \in SpanType
        /\ owned \subseteq Cell /\ zeroedBase \in 0..NPages
    BY <1>0, Types
  <1>3. /\ C \subseteq Words(p) /\ D \subseteq Words(p)
        /\ live \cup fin \cup finq \subseteq owned'
        /\ \A o \in owned : o \in owned' \/ ObjWords(o) \subseteq D
        /\ \A o \in owned' : ObjWords(o) \cap D = {}
        /\ s.state = "large" /\ SweepFrees(s, 0) => \A o \in owned' : o[1] # p
    BY <1>1, ClearedFacts
  <1>4. mem' = [w \in Cell |-> IF w \in D THEN "zero" ELSE mem[w]]
    <2>1. SweepCleared(p) = [w \in Cell |-> IF w \in C THEN "zero" ELSE mem[w]]
      BY DEF SweepCleared, memclr, Set, FreedWords
    <2>2. CASE s.state = "large" /\ SweepFrees(s, 0)
      <3>1. mem' = memclr(SweepCleared(p), Words(p))
        BY <1>1, <2>2 DEF SweepEnd, janosSanitizeLargeSpan
      <3>2. mem' = [w \in Cell |-> IF w \in Words(p) THEN "zero"
                                   ELSE IF w \in C THEN "zero" ELSE mem[w]]
        BY <2>1, <3>1 DEF memclr, Set
      <3>3. D = Words(p)
        BY <2>2 DEF ClearedWords
      <3> QED
        BY <1>3, <3>2, <3>3
    <2>3. CASE ~(s.state = "large" /\ SweepFrees(s, 0))
      <3>1. mem' = SweepCleared(p)
        BY <1>1, <2>3 DEF SweepEnd
      <3>2. D = C
        BY <2>3 DEF ClearedWords
      <3> QED
        BY <2>1, <3>1, <3>2
    <2> QED
      BY <2>2, <2>3
  <1>5. \/ /\ span' = [span EXCEPT ![p] = FreeSpan] /\ cache' = cache
           /\ \A o \in owned' : o[1] # p
        \/ span' = [span EXCEPT ![p] = SweptSpan(s)] /\ cache' = cache
        \/ /\ span' = [span EXCEPT ![p] = [SweptSpan(s) EXCEPT !.gen = "cached"]]
           /\ s.state = "small" /\ s.preserve # Nil
           /\ cache' = [cache EXCEPT ![s.preserve] = p]
    <2>1. CASE s.state = "large" /\ SweepFrees(s, 0)
      BY <1>1, <1>3, <2>1 DEF SweepEnd
    <2>2. CASE s.state = "small" /\ s.preserve = Nil /\ s.gcmarkBits = {}
      BY <1>1, <2>2 DEF SweepEnd
    <2>3. CASE \/ s.state = "large" /\ ~SweepFrees(s, 0)
               \/ s.state = "small" /\ s.preserve = Nil /\ s.gcmarkBits # {}
               \/ s.state = "small" /\ s.preserve # Nil
      BY <1>1, <2>3 DEF SweepEnd
    <2> QED
      BY <1>1, <2>1, <2>2, <2>3
  <1> HIDE DEF C, D
  <1>6. /\ mem' \in [Cell -> {"zero", "link", "user"}]
        /\ \A w \in Cell : w \in D => mem'[w] = "zero"
        /\ \A w \in Cell : w \notin D => mem'[w] = mem[w]
        /\ \A w \in Cell : mem[w] = "zero" => mem'[w] = "zero"
        /\ \A w \in Cell : mem'[w] = "user" => w \notin D /\ mem[w] = "user"
    <2>1. /\ mem' \in [Cell -> {"zero", "link", "user"}]
          /\ \A w \in Cell : mem'[w] = IF w \in D THEN "zero" ELSE mem[w]
      BY <1>2, <1>4
    <2> QED
      BY <2>1
  <1>7. \A q \in Page : q # p => span'[q] = span[q]
    BY <1>2, <1>5
  <1>8. \/ v = FreeSpan /\ \A o \in owned' : o[1] # p
        \/ v \in {SweptSpan(s), [SweptSpan(s) EXCEPT !.gen = "cached"]}
    BY <1>2, <1>5
  <1>9. /\ v = FreeSpan => /\ v \in SpanType /\ v.state = "free" /\ v.gen = "swept"
                           /\ v.preserve = Nil /\ v.freeindex = 0 /\ v.freeIndexForScan = 0
        /\ v \in {SweptSpan(s), [SweptSpan(s) EXCEPT !.gen = "cached"]} =>
             /\ v \in SpanType /\ v.state = s.state /\ v.gen \in {"swept", "cached"}
             /\ v.preserve = Nil /\ v.freeindex = 0 /\ v.freeIndexForScan = 0
             /\ v.allocBits = s.gcmarkBits /\ v.gcmarkBits = {}
             /\ ~v.needzero => ~s.needzero /\ \A i \in Slot : ~SweepFrees(s, i)
             /\ v = [SweptSpan(s) EXCEPT !.gen = "cached"] => v.gen = "cached"
    BY <1>2, FreshSpans, SweptFacts
  <1>10. /\ v \in SpanType /\ v.state \in {"free", "small", "large"}
         /\ v.gen \in {"swept", "cached"}
         /\ v.preserve = Nil /\ v.freeindex = 0 /\ v.freeIndexForScan = 0
         /\ \/ v.state = "free" /\ \A o \in owned' : o[1] # p
            \/ /\ v.state = s.state
               /\ v.allocBits = s.gcmarkBits /\ v.gcmarkBits = {}
               /\ ~v.needzero => ~s.needzero /\ \A i \in Slot : ~SweepFrees(s, i)
    BY <1>1, <1>8, <1>9
  <1>11. \/ cache' = cache
         \/ /\ s.state = "small" /\ s.preserve # Nil /\ v.state = "small"
            /\ v.gen = "cached" /\ cache' = [cache EXCEPT ![s.preserve] = p]
    BY <1>2, <1>5, <1>9
  <1>12. span' \in [Page -> SpanType]
    BY <1>2, <1>5, <1>10
  <1> HIDE DEF v
  <1>13. \A o \in owned : o \in Cell /\ o[1] \in Page /\ o[2] \in Slot
    BY <1>2, CellFacts
  <1>14. owned' \subseteq owned /\ \A o \in owned' : o[1] = p => o[2] \in s.gcmarkBits
    BY <1>1
  <1>15. \A o \in owned' : span'[o[1]].state = span[o[1]].state
    BY <1>7, <1>10, <1>13, <1>14 DEF v
  <1>16. \A pp \in Proc : cache[pp] # p
    BY <1>0, <1>1, SlotFacts DEF CacheInv
  <1>17. /\ cache' \in [Proc -> Page \cup {Nil}]
         /\ \A pp \in Proc : cache'[pp] # cache[pp] =>
              cache'[pp] = p /\ pp = s.preserve /\ s.preserve # Nil
              /\ v.state = "small" /\ v.gen = "cached"
    BY <1>2, <1>11 DEF SpanType
  <1>18. TypeOK'
    <2>1. /\ flushed' \in [Proc -> BOOLEAN] /\ zeroedBase' \in 0..NPages
          /\ gcphase' \in {"off", "mark"} /\ cycles' \in 0..MaxGC /\ tail' \in BOOLEAN
          /\ live' \subseteq Cell /\ fin' \subseteq Cell /\ finq' \subseteq Cell
          /\ stackpool' \subseteq Cell /\ stackLarge' \subseteq Page
          /\ stackcache' \in [Proc -> SUBSET Cell]
          /\ gstat' \in [G -> {"none", "new", "run", "dead"}]
          /\ home' \in [G -> Proc \cup {Nil}]
          /\ stk' \in [G -> SUBSET Cell] /\ old' \in [G -> SUBSET Cell]
      BY <1>0, <1>1, Types
    <2>2. {owned', live', fin', finq'} \subseteq SUBSET Cell
      BY <1>13, <1>14, <2>1
    <2> QED
      BY <1>6, <1>12, <1>17, <2>1, <2>2, Zenon DEF TypeOK, SpanType
  <1>19. StackInv'
    <2>1. UNCHANGED stackVars
      BY <1>1 DEF stackVars
    <2> QED
      BY <1>1, <1>7, <2>1, StacksStay
  <1>20. ZeroInv'
    <2>1. \A q \in Page : \A w \in Words(q) : w \in Cell /\ w[1] = q
      BY CellFacts
    <2>2. \A q \in Page, j \in Slot : <<q, j>> \in Cell
      BY CellFacts
    <2>3. ~(p > zeroedBase)
      BY <1>0, <1>1 DEF ZeroInv
    <2>4. \A q \in Page : q > zeroedBase => span'[q].state = "scavenged"
      BY <1>0, <1>7, <2>3 DEF ZeroInv
    <2>5. \A q \in Page :
            q > zeroedBase \/ (span'[q].state = "scavenged" /\ ~NeedZeroAfterSysUnused) =>
              \A w \in Words(q) : mem'[w] = "zero"
      BY <1>0, <1>6, <1>7, <1>10, <2>1, <2>3 DEF ZeroInv, v
    <2>6. ASSUME v.state = "small", ~v.needzero, NEW j \in Slot, ~Allocated(v, j)
          PROVE  mem'[<<p, j>>] = "zero"
      <3>1. /\ s.state = "small" /\ ~s.needzero /\ j \notin s.gcmarkBits
            /\ ~SweepFrees(s, j)
        BY <1>10, <2>6 DEF Allocated
      <3>2. ~Allocated(s, j)
        BY <3>1 DEF SweepFrees
      <3>3. mem[<<p, j>>] = "zero"
        BY <1>0, <3>1, <3>2 DEF ZeroInv
      <3> QED
        BY <1>6, <2>2, <3>3
    <2>7. \A q \in Page : q # p /\ span'[q].state = "small" /\ ~span'[q].needzero =>
            \A i \in Slot : ~Allocated(span'[q], i) => mem'[<<q, i>>] = "zero"
      BY <1>0, <1>6, <1>7, <2>2 DEF ZeroInv
    <2>8. \A q \in Page : span'[q].state = "small" /\ ~span'[q].needzero =>
            \A i \in Slot : ~Allocated(span'[q], i) => mem'[<<q, i>>] = "zero"
      BY <2>6, <2>7, Zenon DEF v
    <2> QED
      BY <1>1, <2>4, <2>5, <2>8, Zenon DEF ZeroInv
  <1>21. OwnInv'
    <2>1. ASSUME NEW o \in owned'
          PROVE  /\ span'[o[1]].state \in {"small", "large"}
                 /\ span'[o[1]].state = "large" => o[2] = 0
                 /\ Allocated(span'[o[1]], o[2])
      <3>1. o \in owned /\ o[1] \in Page
        BY <1>13, <1>14
      <3>2. /\ span[o[1]].state \in {"small", "large"}
            /\ span[o[1]].state = "large" => o[2] = 0
            /\ Allocated(span[o[1]], o[2])
        BY <1>0, <3>1 DEF OwnInv
      <3>3. CASE o[1] # p
        BY <1>7, <3>1, <3>2, <3>3
      <3>4. CASE o[1] = p
        <4>1. o[2] \in v.allocBits
          BY <1>10, <1>14, <3>4
        <4>2. Allocated(span'[o[1]], o[2])
          BY <3>4, <4>1 DEF Allocated, v
        <4> QED
          BY <1>15, <3>2, <4>2
      <3> QED
        BY <3>3, <3>4
    <2>2. live' \cup fin' \cup finq' \subseteq owned'
      BY <1>1, <1>3
    <2> QED
      BY <2>1, <2>2 DEF OwnInv
  <1>22. BitInv'
    <2>1. v.state = "large" => v.allocBits \subseteq {0} /\ v.gcmarkBits \subseteq {0}
      BY <1>0, <1>10 DEF BitInv
    <2>2. ASSUME NEW q \in Page
          PROVE  /\ span'[q].freeIndexForScan <= span'[q].freeindex
                 /\ span'[q].state = "large" =>
                      /\ span'[q].freeindex <= 1
                      /\ span'[q].allocBits \subseteq {0}
                      /\ span'[q].gcmarkBits \subseteq {0}
      <3>1. CASE q = p
        BY <1>10, <2>1, <3>1 DEF v
      <3>2. CASE q # p
        BY <1>0, <1>7, <3>2 DEF BitInv
      <3> QED
        BY <3>1, <3>2
    <2> QED
      BY <2>2 DEF BitInv
  <1>23. MarkInv'
    <2>1. gcphase # "mark"
      BY <1>0, <1>1 DEF MarkInv
    <2>2. \A o \in live \cup fin \cup finq : o \in owned' /\ o \in owned /\ o[1] \in Page
      BY <1>3, <1>13, <1>14
    <2>3. \A o \in fin : span'[o[1]].gen = "sweeping" => o[2] \in span'[o[1]].gcmarkBits
      BY <1>0, <1>7, <1>10, <2>2 DEF MarkInv, v
    <2>4. ASSUME NEW o \in live \cup finq
          PROVE  \/ o[2] \in span'[o[1]].gcmarkBits
                 \/ /\ span'[o[1]].gen \in {"swept", "cached"}
                    /\ OlderThanCycle(span'[o[1]], o[2])
      <3>1. CASE o[1] # p
        BY <1>0, <1>7, <2>2, <3>1 DEF MarkInv
      <3>2. CASE o[1] = p
        <4>1. o[2] \in v.allocBits
          BY <1>10, <1>14, <2>2, <3>2
        <4> QED
          BY <1>10, <3>2, <4>1 DEF OlderThanCycle, v
      <3> QED
        BY <3>1, <3>2
    <2> QED
      BY <1>1, <2>1, <2>3, <2>4 DEF MarkInv
  <1>24. CacheInv'
    <2>1. s.preserve # Nil => s.preserve \in Proc /\ flushed[s.preserve]
      BY <1>0, <1>2 DEF CacheInv, SpanType
    <2>2. \A pp \in Proc : cache[pp] # Nil =>
            /\ span'[cache[pp]] = span[cache[pp]] /\ cache[pp] # p
      BY <1>2, <1>7, <1>16
    <2>3. \A pp \in Proc : cache'[pp] # Nil =>
            /\ span'[cache'[pp]].state = "small"
            /\ span'[cache'[pp]].gen = IF flushed[pp] THEN "cached" ELSE "stale"
      BY <1>0, <1>17, <2>1, <2>2 DEF CacheInv, v
    <2>4. \A pp, qq \in Proc : cache'[pp] # Nil /\ cache'[pp] = cache'[qq] => pp = qq
      BY <1>0, <1>16, <1>17 DEF CacheInv
    <2>5. \A q \in Page : span'[q].preserve # Nil =>
            span'[q].gen = "sweeping" /\ flushed[span'[q].preserve]
      BY <1>0, <1>7, <1>10 DEF CacheInv, v
    <2> QED
      BY <1>1, <2>3, <2>4, <2>5 DEF CacheInv
  <1>25. \A o \in owned' : ObjWords(o)' = ObjWords(o)
    BY <1>15 DEF ObjWords
  <1>26. FreedIsClean'
    <2>1. ASSUME NEW w \in Cell, mem'[w] = "user"
          PROVE  \/ \E o \in owned' : w \in ObjWords(o)'
                 \/ \E g \in G : w \in stk'[g] \cup old'[g]
      <3>1. w \notin D /\ mem[w] = "user"
        BY <1>6, <2>1
      <3>2. \/ \E o \in owned : w \in ObjWords(o)
            \/ \E g \in G : w \in stk[g] \cup old[g]
        BY <1>0, <3>1 DEF FreedIsClean
      <3>3. CASE \E o \in owned : w \in ObjWords(o)
        <4>1. PICK o \in owned : w \in ObjWords(o)
          BY <3>3
        <4>2. o \in owned'
          BY <1>3, <3>1, <4>1
        <4> QED
          BY <1>25, <4>1, <4>2
      <3>4. CASE \E g \in G : w \in stk[g] \cup old[g]
        BY <1>1, <3>4
      <3> QED
        BY <3>2, <3>3, <3>4
    <2> QED
      BY <2>1 DEF FreedIsClean
  <1>27. KeepsBytes
    <2>1. ASSUME NEW o \in Reachable, NEW w \in ObjWords(o)
          PROVE  mem'[w] = mem[w]
      <3>1. o \in owned' /\ o \in owned
        BY <1>3, <1>14, <2>1 DEF Reachable
      <3>2. w \in Cell
        BY <1>13, <2>1, <3>1, CellFacts DEF ObjWords
      <3>3. w \notin D
        BY <1>3, <2>1, <3>1
      <3> QED
        BY <1>6, <3>2, <3>3
    <2> QED
      BY <2>1 DEF KeepsBytes
  <1> QED
    BY <1>18, <1>19, <1>20, <1>21, <1>22, <1>23, <1>24, <1>26, <1>27 DEF IInv

-----------------------------------------------------------------------------
(* The theorems *)

\* The invariant holds at the start: no page has been handed out.
LEMMA InitInv ==
  ASSUME Init
  PROVE  IInv
  <1> DEFINE s == [FreeSpan EXCEPT !.state = "scavenged"]
  <1>1. /\ s \in SpanType /\ s.state = "scavenged" /\ s.gen = "swept"
        /\ s.preserve = Nil /\ s.freeindex = 0 /\ s.freeIndexForScan = 0
    <2>1. /\ FreeSpan \in SpanType /\ FreeSpan.gen = "swept"
          /\ FreeSpan.preserve = Nil /\ FreeSpan.freeindex = 0
          /\ FreeSpan.freeIndexForScan = 0
      BY FreshSpans
    <2> QED
      BY <2>1 DEF SpanType
  <1>2. /\ span = [p \in Page |-> s] /\ mem = [w \in Cell |-> "zero"]
        /\ zeroedBase = 0
        /\ cache = [pp \in Proc |-> Nil] /\ flushed = [pp \in Proc |-> TRUE]
        /\ gcphase = "off" /\ tail = FALSE /\ cycles = 0
        /\ owned = {} /\ live = {} /\ fin = {} /\ finq = {}
        /\ stackpool = {} /\ stackcache = [pp \in Proc |-> {}] /\ stackLarge = {}
        /\ gstat = [g \in G |-> "none"] /\ home = [g \in G |-> Nil]
        /\ stk = [g \in G |-> {}] /\ old = [g \in G |-> {}]
    BY DEF Init
  <1> HIDE DEF s
  <1>3. \A p \in Page : span[p] = s
    BY <1>2
  <1>4. TypeOK
    <2>1. /\ span \in [Page -> SpanType]
          /\ mem \in [Cell -> {"zero", "link", "user"}]
          /\ cache \in [Proc -> Page \cup {Nil}] /\ flushed \in [Proc -> BOOLEAN]
          /\ gcphase \in {"off", "mark"} /\ tail \in BOOLEAN
          /\ stackcache \in [Proc -> SUBSET Cell]
      BY <1>1, <1>2
    <2>2. zeroedBase \in 0..NPages /\ cycles \in 0..MaxGC
      BY <1>2, SanitizeAssumption
    <2>3. /\ gstat \in [G -> {"none", "new", "run", "dead"}]
          /\ home \in [G -> Proc \cup {Nil}]
          /\ stk \in [G -> SUBSET Cell] /\ old \in [G -> SUBSET Cell]
      BY <1>2
    <2> QED
      BY <1>2, <2>1, <2>2, <2>3, Types
  <1>5. StackInv
    BY <1>2 DEF StackInv, StackPlaces, StackPages, Shape
  <1>6. ZeroInv
    <2>1. \A p \in Page : \A w \in Words(p) : w \in Cell
      BY CellFacts
    <2> QED
      BY <1>1, <1>2, <1>3, <2>1 DEF ZeroInv
  <1>7. OwnInv
    BY <1>2 DEF OwnInv
  <1>8. BitInv
    BY <1>1, <1>3 DEF BitInv
  <1>9. MarkInv
    BY <1>2 DEF MarkInv
  <1>10. CacheInv
    BY <1>1, <1>2, <1>3 DEF CacheInv
  <1>11. FreedIsClean
    BY <1>2 DEF FreedIsClean
  <1> QED
    BY <1>4, <1>5, <1>6, <1>7, <1>8, <1>9, <1>10, <1>11 DEF IInv

\* Every step of a mutator keeps the invariant and the bytes of what stays
\* reachable.
LEMMA MutatorStep ==
  ASSUME IInv, Mutator
  PROVE  IInv' /\ KeepsBytes
  <1>1. ASSUME NEW pp \in Proc, NEW p \in Page, RefillFromSwept(pp, p)
        PROVE  IInv' /\ KeepsBytes
    BY <1>1, RefillFromSweptStep
  <1>2. ASSUME NEW pp \in Proc, NEW p \in Page, RefillFromHeap(pp, p)
        PROVE  IInv' /\ KeepsBytes
    BY <1>2, RefillFromHeapStep
  <1>3. ASSUME NEW pp \in Proc, NEW p \in Page, RefillFromUnswept(pp, p)
        PROVE  IInv' /\ KeepsBytes
    BY <1>3, RefillFromUnsweptStep
  <1>4. ASSUME NEW pp \in Proc, NEW p \in Page, mallocgcLarge(pp, p)
        PROVE  IInv' /\ KeepsBytes
    BY <1>4, MallocLargeStep
  <1>5. ASSUME NEW pp \in Proc, mallocgcSmall(pp)
        PROVE  IInv' /\ KeepsBytes
    BY <1>5, MallocSmallStep
  <1>6. ASSUME NEW o \in Cell, Drop(o) \/ SetFinalizer(o) \/ RunFinalizer(o)
        PROVE  IInv' /\ KeepsBytes
    BY <1>6, DropStep, SetFinalizerStep, RunFinalizerStep
  <1> QED
    BY <1>1, <1>2, <1>3, <1>4, <1>5, <1>6, Zenon DEF Mutator

\* Every step of the collector, and of the scavenger, does.
LEMMA CollectorStep ==
  ASSUME IInv, Collector
  PROVE  IInv' /\ KeepsBytes
  <1>1. CASE gcStart
    BY <1>1, GcStartStep
  <1>2. CASE gcMarkTermination
    BY <1>2, GcMarkTerminationStep
  <1>3. ASSUME NEW pp \in Proc, NEW g \in G, FreeGStack(pp, g)
        PROVE  IInv' /\ KeepsBytes
    BY <1>3, FreeGStackStep
  <1>4. CASE freeStackSpans
    BY <1>4, FreeStackSpansStep
  <1>5. ASSUME NEW pp \in Proc, prepareForSweep(pp)
        PROVE  IInv' /\ KeepsBytes
    BY <1>5, PrepareForSweepStep
  <1>6. ASSUME NEW p \in Page, Sweep(p) \/ SweepEnd(p) \/ Scavenge(p)
        PROVE  IInv' /\ KeepsBytes
    BY <1>6, SweepStep, SweepEndStep, ScavengeStep
  <1> QED
    BY <1>1, <1>2, <1>3, <1>4, <1>5, <1>6, Zenon DEF Collector

\* Every step of a goroutine's stack does.
LEMMA GoroutinesStep ==
  ASSUME IInv, Goroutines
  PROVE  IInv' /\ KeepsBytes
  <1>1. PICK g \in G :
          \/ RunFrames(g)
          \/ \E p \in Page : GrowStack(g, p)
          \/ \E pp \in Proc : newproc1(pp, g) \/ Goexit(pp, g)
          \/ \E pp \in Proc \cup {Nil} : ShrinkStack(pp, g) \/ CopyDone(pp, g)
    BY Zenon DEF Goroutines
  <1>2. CASE RunFrames(g)
    BY <1>2, RunFramesStep
  <1>3. ASSUME NEW p \in Page, GrowStack(g, p)
        PROVE  IInv' /\ KeepsBytes
    BY <1>3, GrowStackStep
  <1>4. ASSUME NEW pp \in Proc, newproc1(pp, g) \/ Goexit(pp, g)
        PROVE  IInv' /\ KeepsBytes
    BY <1>4, NewprocStep, GoexitStep
  <1>5. ASSUME NEW pp \in Proc \cup {Nil}, ShrinkStack(pp, g) \/ CopyDone(pp, g)
        PROVE  IInv' /\ KeepsBytes
    BY <1>5, ShrinkStackStep, CopyDoneStep
  <1> QED
    BY <1>1, <1>2, <1>3, <1>4, <1>5, Zenon

\* A step that changes nothing does.
LEMMA StutterStep ==
  ASSUME IInv, UNCHANGED vars
  PROVE  IInv' /\ KeepsBytes
  <1>1. /\ UNCHANGED <<heapVars, owned, gcVars, stackVars>>
        /\ UNCHANGED <<live, fin, finq>>
    BY DEF vars, objVars
  <1>2. OwnInv
    BY DEF IInv
  <1> QED
    BY <1>1, <1>2, ObjectStep DEF OwnInv

\* Every step keeps the invariant and the bytes of what stays reachable.
LEMMA NextInv ==
  ASSUME IInv, [Next]_vars
  PROVE  IInv' /\ KeepsBytes
  BY MutatorStep, CollectorStep, GoroutinesStep, StutterStep DEF Next

\* In every behaviour of the runtime the invariant holds, whatever the number
\* of pages, words, Ps, goroutines, collections and objects.
THEOREM Invariance == Spec => []IInv
  <1>1. Init => IInv
    BY InitInv
  <1>2. IInv /\ [Next]_vars => IInv'
    BY NextInv
  <1> QED
    BY <1>1, <1>2, PTL DEF Spec

\* Every variable keeps its type.
THEOREM TypeCorrect == Spec => []TypeOK
  <1>1. IInv => TypeOK
    BY DEF IInv
  <1> QED
    BY <1>1, Invariance, PTL

\* What a program wrote is gone from memory once the memory is free: the sweep
\* (mgcsweep.go) and stackfree (stack.go) clear all that they free before
\* anybody can be given it, on whichever thread and in whatever order spans are
\* marked, swept, cached, flushed, scavenged and handed out again.
THEOREM Clean == Spec => []FreedIsClean
  <1>1. IInv => FreedIsClean
    BY DEF IInv
  <1> QED
    BY <1>1, Invariance, PTL

\* needzero tells the truth: where allocNeedsZero and the sweep say that memory
\* need not be cleared by malloc, it reads as zero.
THEOREM NeedzeroTrue == Spec => []NeedzeroIsHonest
  <1>1. IInv => NeedzeroIsHonest
    <2>1. SUFFICES ASSUME IInv, NEW p \in Page
                   PROVE  /\ FreePage(p) /\ ~initSpan(p, "small").needzero =>
                               \A w \in Words(p) : mem[w] = "zero"
                          /\ span[p].state = "small" /\ ~span[p].needzero =>
                               \A i \in Slot : ~Allocated(span[p], i) =>
                                 mem[<<p, i>>] = "zero"
      BY DEF NeedzeroIsHonest
    <2>2. ZeroInv
      BY <2>1 DEF IInv
    <2>3. initSpan(p, "small").needzero <=>
            /\ allocNeedsZero(p)
            /\ span[p].state # "scavenged" \/ NeedZeroAfterSysUnused
      BY FreshSpans
    <2>4. ~allocNeedsZero(p) => p > zeroedBase
      BY <2>1, Types, SlotFacts, SanitizeAssumption DEF IInv, allocNeedsZero
    <2> QED
      BY <2>2, <2>3, <2>4 DEF ZeroInv
  <1> QED
    BY <1>1, Invariance, PTL

\* No step of the runtime, sweeping least of all, takes its bytes from an
\* object that the program or the finalizer queue can reach before and after
\* the step.
THEOREM BytesKept == Spec => ReachableKeepsBytes
  <1>1. IInv /\ [Next]_vars => [KeepsBytes]_vars
    BY NextInv
  <1>2. KeepsBytes <=> \A o \in Cell : o \in Reachable /\ o \in Reachable' =>
          \A w \in ObjWords(o) : mem[w] = "user" => mem'[w] = "user"
    BY DEF KeepsBytes
  <1> QED
    BY <1>1, <1>2, Invariance, PTL DEF Spec, ReachableKeepsBytes

=============================================================================
