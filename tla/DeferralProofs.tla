--------------------------- MODULE DeferralProofs ---------------------------
(***************************************************************************)
(* Proofs about genesis deferral, for any number of sparks, exiting        *)
(* goroutines and cleanups: a cleanup is invoked at most once and latest   *)
(* first, and whatever was registered before a drain's last look is over   *)
(* when the process or the spark's goroutine ends.                         *)
(***************************************************************************)
EXTENDS Deferral, TLAPS

\* A list of cleanups of r in the order of their registration, all among the
\* first n and none invoked, by what h says of homes and v of invocations.
Waiting(s, r, n, h, v) ==
  /\ \A i, j \in DOMAIN s : i < j => s[i] < s[j]
  /\ \A i \in DOMAIN s : s[i] <= n /\ h[s[i]] = r /\ v[s[i]] = 0

\* What is registered is in the order of registration, what was taken before
\* what was not; what runs or has background work was invoked.
QueueInv ==
  \A r \in Registry :
    /\ Waiting(funcs[r], r, count, home, invoked)
    /\ Waiting(batch[r], r, count, home, invoked)
    /\ \A i \in DOMAIN batch[r], j \in DOMAIN funcs[r] : batch[r][i] # funcs[r][j]
    /\ cur[r] # None => home[cur[r]] = r /\ invoked[cur[r]] = 1
    /\ \A c \in wg[r] : home[c] = r /\ invoked[c] = 1

\* Registered cleanups have a registry, and one that was not invoked is still in
\* a list of it, unless a Goexit dropped it.
PlaceInv ==
  \A c \in Cleanup :
    /\ count < c => home[c] = None /\ invoked[c] = 0
    /\ \A r \in Registry : home[c] = r /\ invoked[c] = 0 /\ drain[r] # "gone" =>
         \/ \E i \in DOMAIN funcs[r] : funcs[r][i] = c
         \/ \E i \in DOMAIN batch[r] : batch[r][i] = c

\* Only runDeferred has a batch, runs a cleanup or has a WaitGroup that is not
\* at zero; what is registered after the last look is too late.
DrainInv ==
  \A r \in Registry :
    /\ drain[r] # "run" => batch[r] = <<>> /\ cur[r] = None
    /\ drain[r] \notin {"run", "gone"} => wg[r] = {}
    /\ drain[r] = "over" => \A i \in DOMAIN funcs[r] : funcs[r][i] \in tooLate

\* The holder of exithook.locked is the one that runs the hooks, the process
\* drain runs under it, and whoever is done with the hooks finds it ended.
ExitInv ==
  /\ \A e \in Exiter : exiter[e] \in {"hooks", "draining"} <=> locked = e
  /\ hooks <=> drain[Proc] = "idle"
  /\ drain[Proc] \in {"take", "run"} => \E e \in Exiter : exiter[e] = "draining"
  /\ proc = "exited" \/ (\E e \in Exiter : exiter[e] = "exit") =>
       drain[Proc] \in {"over", "gone"}

IInv ==
  /\ TypeOK
  /\ QueueInv
  /\ PlaceInv
  /\ DrainInv
  /\ ExitInv

-----------------------------------------------------------------------------
(* What the operations share *)

listVars == <<funcs, batch, count, home, invoked>>

\* A step that leaves the lists alone; a cleanup may have ended or have left
\* background work behind.
LEMMA ListsSame ==
  ASSUME IInv, UNCHANGED listVars,
         \A r \in Registry :
           /\ cur'[r] = cur[r] \/ cur'[r] = None
           /\ \A c \in wg'[r] : c \in wg[r] \/ (c = cur[r] /\ c # None)
           /\ drain[r] = "gone" => drain'[r] = "gone"
  PROVE  QueueInv' /\ PlaceInv'
  <1>1. UNCHANGED <<funcs, batch, count, home, invoked>>
    BY DEF listVars
  <1>2. QueueInv'
    BY <1>1 DEF IInv, QueueInv, Waiting
  <1>3. PlaceInv'
    BY <1>1 DEF IInv, PlaceInv
  <1> QED
    BY <1>2, <1>3

\* What runDeferred has left when it has taken the last of a batch.
LEMMA LastTaken ==
  ASSUME NEW s \in Seq(Cleanup), s # <<>>
  PROVE  LET t == SubSeq(s, 1, Len(s) - 1) \o SubSeq(s, Len(s) + 1, Len(s)) IN
         /\ Len(s) \in Nat \ {0} /\ s[Len(s)] \in Cleanup
         /\ t \in Seq(Cleanup) /\ DOMAIN t = 1..(Len(s) - 1)
         /\ \A i \in 1..(Len(s) - 1) : t[i] = s[i]
  <1>1. Len(s) \in Nat \ {0} /\ DOMAIN s = 1..Len(s)
    OBVIOUS
  <1>2. s[Len(s)] \in Cleanup
    BY <1>1
  <1>3. /\ SubSeq(s, 1, Len(s) - 1) \in Seq(Cleanup)
        /\ Len(SubSeq(s, 1, Len(s) - 1)) = Len(s) - 1
        /\ \A i \in 1..(Len(s) - 1) : SubSeq(s, 1, Len(s) - 1)[i] = s[i]
    BY <1>1
  <1>4. SubSeq(s, Len(s) + 1, Len(s)) = <<>>
    BY <1>1
  <1>5. \A t \in Seq(Cleanup) : t \o <<>> = t /\ DOMAIN t = 1..Len(t)
    OBVIOUS
  <1> QED
    BY <1>1, <1>2, <1>3, <1>4, <1>5

\* An index up to n + 1 is one up to n or n + 1 itself.
LEMMA UpToNext == \A n \in Nat : \A j \in 1..(n + 1) : j \in 1..n \/ j = n + 1
  OBVIOUS

\* One more cleanup is registered: what waited, waits; the list it is appended
\* to has it last.
LEMMA WaitingMore ==
  ASSUME NEW s \in Seq(Cleanup), NEW q, NEW n \in Nat, n + 1 \in Cleanup,
         NEW h \in [Cleanup -> Registry \cup {None}], NEW v,
         q \in Registry, NEW r \in Registry, h[n + 1] = None, v[n + 1] = 0,
         Waiting(s, q, n, h, v)
  PROVE  LET g == [h EXCEPT ![n + 1] = r] IN
         /\ Waiting(s, q, n + 1, g, v)
         /\ q = r => Waiting(Append(s, n + 1), r, n + 1, g, v)
  <1> DEFINE g == [h EXCEPT ![n + 1] = r]
             t == Append(s, n + 1)
  <1>1. \A i \in DOMAIN s : /\ s[i] \in Cleanup /\ s[i] \in Nat
                            /\ s[i] <= n /\ h[s[i]] = q /\ v[s[i]] = 0
    <2>1. \A c \in Cleanup : c \in Nat
      BY DeferralAssumption DEF Cleanup
    <2>2. \A i \in DOMAIN s : s[i] \in Cleanup
      OBVIOUS
    <2> QED
      BY <2>1, <2>2 DEF Waiting
  <1>2. g[n + 1] = r /\ \A c \in Cleanup : c # n + 1 => g[c] = h[c]
    OBVIOUS
  <1>3. \A i \in DOMAIN s : s[i] # n + 1 /\ s[i] < n + 1
    BY <1>1
  <1>4. /\ DOMAIN t = 1..(Len(s) + 1) /\ DOMAIN s = 1..Len(s) /\ Len(s) \in Nat
        /\ t[Len(s) + 1] = n + 1 /\ \A i \in DOMAIN s : t[i] = s[i]
    OBVIOUS
  <1>5. \A i, j \in DOMAIN s : i < j => s[i] < s[j]
    BY DEF Waiting
  <1> HIDE DEF g, t
  <1>6. Waiting(s, q, n + 1, g, v)
    BY <1>1, <1>2, <1>3, <1>5 DEF Waiting
  <1>7. ASSUME q = r PROVE Waiting(t, r, n + 1, g, v)
    <2>1. \A i \in DOMAIN t : i \in DOMAIN s \/ i = Len(s) + 1
      BY <1>4
    <2>2. \A i \in DOMAIN t : t[i] <= n + 1 /\ g[t[i]] = r /\ v[t[i]] = 0
      BY <1>1, <1>2, <1>3, <1>4, <1>7, <2>1
    <2>3. ASSUME NEW i \in DOMAIN t, NEW j \in DOMAIN t, i < j PROVE t[i] < t[j]
      <3>1. i \in DOMAIN s
        BY <1>4, <2>3
      <3> QED
        BY <1>3, <1>4, <1>5, <2>1, <2>3, <3>1
    <2> QED
      BY <2>2, <2>3 DEF Waiting
  <1> QED
    BY <1>6, <1>7 DEF g, t

-----------------------------------------------------------------------------
(* One lemma per operation *)

\* Registered keeps IInv.
LEMMA RegisteredStep ==
  ASSUME IInv, NEW r \in Registry, Registered(r)
  PROVE  IInv'
  <1> USE DeferralAssumption
      DEF IInv, Registry, drainVars, exitVars, regVars, Up, Registered, Cleanup
  <1> DEFINE n == count + 1
             t == Append(funcs[r], n)
  <1>new. /\ n \in Cleanup /\ n \in Nat /\ count < n /\ count' = n
          /\ home[n] = None /\ invoked[n] = 0
    BY DEF TypeOK, PlaceInv
  <1>home. /\ home' = [home EXCEPT ![n] = r] /\ home'[n] = r
           /\ \A c \in Cleanup : c # n => home'[c] = home[c]
    BY <1>new DEF TypeOK
  <1>list. /\ funcs[r] \in Seq(Cleanup) /\ Len(funcs[r]) \in Nat
           /\ DOMAIN funcs[r] = 1..Len(funcs[r])
           /\ t \in Seq(Cleanup) /\ DOMAIN t = 1..(Len(funcs[r]) + 1)
           /\ t[Len(funcs[r]) + 1] = n
           /\ \A i \in 1..Len(funcs[r]) : t[i] = funcs[r][i]
    BY <1>new DEF TypeOK
  <1>funcs. /\ funcs' = [funcs EXCEPT ![r] = t] /\ funcs'[r] = t
            /\ \A q \in Registry : q # r => funcs'[q] = funcs[q]
    BY <1>new DEF TypeOK
  <1>rest. /\ UNCHANGED <<proc, drain, batch, cur, wg, panics, invoked>>
           /\ UNCHANGED <<exiter, locked, hooks>>
           /\ tooLate' = IF drain[r] \in {"over", "gone"}
                         THEN tooLate \cup {n} ELSE tooLate
    BY <1>new
  <1> HIDE DEF Registered, t, n
  <1>type. TypeOK'
    BY <1>new, <1>home, <1>list, <1>funcs, <1>rest DEF TypeOK, Registered
  <1>queue. QueueInv'
    <2>1. ASSUME NEW q \in Registry
          PROVE  /\ Waiting(funcs'[q], q, count', home', invoked')
                 /\ Waiting(batch'[q], q, count', home', invoked')
      <3>1. batch[q] \in Seq(Cleanup) /\ funcs[q] \in Seq(Cleanup)
        BY DEF TypeOK
      <3>2. /\ Waiting(batch[q], q, count, home, invoked)
            /\ Waiting(funcs[q], q, count, home, invoked)
        BY DEF QueueInv
      <3>3. count \in Nat /\ home \in [Cleanup -> Registry \cup {None}]
        BY DEF TypeOK
      <3> HIDE DEF IInv, Registry, Cleanup
      <3>4. /\ count + 1 \in Cleanup /\ home[count + 1] = None
            /\ invoked[count + 1] = 0
        BY <1>new DEF n
      <3>5. home' = [home EXCEPT ![count + 1] = r]
        BY <1>home DEF n
      <3>6. Waiting(batch[q], q, n, home', invoked)
        BY <3>1, <3>2, <3>3, <3>4, <3>5, WaitingMore, Zenon DEF n
      <3>7. /\ Waiting(funcs[q], q, n, home', invoked)
            /\ q = r => Waiting(t, r, n, home', invoked)
        BY <3>1, <3>2, <3>3, <3>4, <3>5, WaitingMore, Zenon DEF n, t
      <3> QED
        BY <1>new, <1>funcs, <1>rest, <3>6, <3>7
    <2>2. ASSUME NEW q \in Registry
          PROVE  \A i \in DOMAIN batch'[q], j \in DOMAIN funcs'[q] :
                   batch'[q][i] # funcs'[q][j]
      <3>1. CASE q # r
        BY <1>funcs, <1>rest, <3>1 DEF QueueInv
      <3>2. CASE q = r
        <4>1. \A i \in DOMAIN batch[r] : batch[r][i] <= count /\ batch[r][i] \in Nat
          BY DEF QueueInv, Waiting, TypeOK
        <4>2. count \in Nat /\ n = count + 1
          BY DEF n, TypeOK
        <4>3. \A i \in DOMAIN batch[r] : batch[r][i] # n
          BY <4>1, <4>2
        <4>4. \A j \in DOMAIN t : \/ t[j] = n
                                  \/ j \in DOMAIN funcs[r] /\ t[j] = funcs[r][j]
          <5>1. \A j \in DOMAIN t : j \in 1..Len(funcs[r]) \/ j = Len(funcs[r]) + 1
            BY <1>list, UpToNext, Zenon
          <5> QED
            BY <1>list, <5>1
        <4> QED
          BY <1>funcs, <1>rest, <3>2, <4>3, <4>4 DEF QueueInv
      <3> QED
        BY <3>1, <3>2
    <2>3. ASSUME NEW q \in Registry, NEW c \in Cleanup, home[c] = q
          PROVE  home'[c] = q
      BY <1>new, <1>home, <2>3
    <2>4. ASSUME NEW q \in Registry
          PROVE  /\ cur'[q] # None => home'[cur'[q]] = q /\ invoked'[cur'[q]] = 1
                 /\ \A c \in wg'[q] : home'[c] = q /\ invoked'[c] = 1
      BY <1>rest, <2>3 DEF QueueInv, TypeOK
    <2> QED
      BY <2>1, <2>2, <2>4 DEF QueueInv
  <1>place. PlaceInv'
    <2>1. ASSUME NEW c \in Cleanup, count' < c
          PROVE  home'[c] = None /\ invoked'[c] = 0
      <3>1. count < c /\ c # n
        BY <1>new, <2>1 DEF TypeOK
      <3> QED
        BY <1>home, <1>rest, <3>1 DEF PlaceInv
    <2>2. ASSUME NEW c \in Cleanup, NEW q \in Registry,
                 home'[c] = q, invoked'[c] = 0, drain'[q] # "gone"
          PROVE  \/ \E i \in DOMAIN funcs'[q] : funcs'[q][i] = c
                 \/ \E i \in DOMAIN batch'[q] : batch'[q][i] = c
      <3>1. CASE c = n
        <4>1. q = r /\ Len(funcs[r]) + 1 \in DOMAIN t
          BY <1>home, <1>list, <2>2, <3>1
        <4> QED
          BY <1>list, <1>funcs, <3>1, <4>1
      <3>2. CASE c # n
        <4>1. home[c] = q /\ invoked[c] = 0 /\ drain[q] # "gone"
          BY <1>home, <1>rest, <2>2, <3>2
        <4>2. \/ \E i \in DOMAIN funcs[q] : funcs[q][i] = c
              \/ \E i \in DOMAIN batch[q] : batch[q][i] = c
          BY <4>1 DEF PlaceInv
        <4>3. \A i \in DOMAIN funcs[q] : i \in DOMAIN funcs'[q] /\ funcs'[q][i] = funcs[q][i]
          <5>1. \A i \in DOMAIN funcs[r] : i \in DOMAIN t
            BY <1>list
          <5> QED
            BY <1>list, <1>funcs, <5>1
        <4> QED
          BY <1>rest, <4>2, <4>3
      <3> QED
        BY <3>1, <3>2
    <2> QED
      BY <2>1, <2>2 DEF PlaceInv
  <1>drain. DrainInv'
    <2>1. ASSUME NEW q \in Registry, drain'[q] = "over"
          PROVE  \A i \in DOMAIN funcs'[q] : funcs'[q][i] \in tooLate'
      <3>1. CASE q # r
        BY <1>funcs, <1>rest, <2>1, <3>1 DEF DrainInv
      <3>2. CASE q = r
        <4>1. \A j \in DOMAIN t : \/ t[j] = n
                                  \/ j \in DOMAIN funcs[r] /\ t[j] = funcs[r][j]
          <5>1. \A j \in DOMAIN t : j \in 1..Len(funcs[r]) \/ j = Len(funcs[r]) + 1
            BY <1>list, UpToNext, Zenon
          <5> QED
            BY <1>list, <5>1
        <4> QED
          BY <1>funcs, <1>rest, <2>1, <3>2, <4>1 DEF DrainInv
      <3> QED
        BY <3>1, <3>2
    <2> QED
      BY <1>rest, <2>1 DEF DrainInv
  <1>exit. ExitInv'
    BY <1>rest DEF ExitInv
  <1> QED
    BY <1>type, <1>queue, <1>place, <1>drain, <1>exit

\* Take keeps IInv.
LEMMA TakeStep ==
  ASSUME IInv, NEW r \in Registry, Take(r)
  PROVE  IInv'
  <1> USE DeferralAssumption
      DEF IInv, Registry, drainVars, exitVars, regVars, Up, Step, Take, ListTaken
  <1>effect. /\ drain[r] = "take"
             /\ funcs' = [funcs EXCEPT ![r] = <<>>]
             /\ batch' = [batch EXCEPT ![r] = funcs[r]]
             /\ \/ drain' = [drain EXCEPT ![r] = "run"]
                \/ drain' = [drain EXCEPT ![r] = "over"] /\ funcs[r] = <<>>
             /\ UNCHANGED <<proc, cur, wg, exiter, locked, hooks>>
             /\ UNCHANGED <<count, home, tooLate, invoked>>
    OBVIOUS
  <1>r. /\ funcs'[r] = <<>> /\ batch'[r] = funcs[r]
        /\ batch[r] = <<>> /\ cur[r] = None /\ wg[r] = {}
        /\ \A q \in Registry : q # r => /\ funcs'[q] = funcs[q] /\ batch'[q] = batch[q]
                                        /\ drain'[q] = drain[q]
    BY DEF TypeOK, DrainInv
  <1> HIDE DEF Take
  <1>type. TypeOK'
    BY DEF TypeOK, DrainStage, Take
  <1>queue. QueueInv'
    <2>1. ASSUME NEW q \in Registry
          PROVE  /\ Waiting(funcs'[q], q, count, home, invoked)
                 /\ Waiting(batch'[q], q, count, home, invoked)
                 /\ \A i \in DOMAIN batch'[q], j \in DOMAIN funcs'[q] :
                      batch'[q][i] # funcs'[q][j]
      <3>1. CASE q = r
        <4>1. Waiting(<<>>, r, count, home, invoked) /\ DOMAIN <<>> = {}
          BY DEF Waiting
        <4> QED
          BY <1>r, <3>1, <4>1 DEF QueueInv
      <3>2. CASE q # r
        BY <1>r, <3>2 DEF QueueInv
      <3> QED
        BY <3>1, <3>2
    <2> QED
      BY <1>effect, <2>1 DEF QueueInv
  <1>place. PlaceInv'
    <2>1. \A q \in Registry : drain'[q] # "gone" => drain[q] # "gone"
      BY <1>effect DEF TypeOK
    <2>2. ASSUME NEW c \in Cleanup, NEW q \in Registry,
                 \/ \E i \in DOMAIN funcs[q] : funcs[q][i] = c
                 \/ \E i \in DOMAIN batch[q] : batch[q][i] = c
          PROVE  \/ \E i \in DOMAIN funcs'[q] : funcs'[q][i] = c
                 \/ \E i \in DOMAIN batch'[q] : batch'[q][i] = c
      <3>1. DOMAIN <<>> = {}
        OBVIOUS
      <3> QED
        BY <1>r, <2>2, <3>1
    <2> QED
      BY <1>effect, <2>1, <2>2 DEF PlaceInv
  <1>drain. DrainInv'
    <2>1. DOMAIN <<>> = {}
      OBVIOUS
    <2>2. drain'[r] \in {"over", "run"} /\ (drain'[r] = "over" => funcs[r] = <<>>)
      BY <1>effect DEF TypeOK
    <2> QED
      BY <1>effect, <1>r, <2>1, <2>2 DEF DrainInv
  <1>exit. ExitInv'
    BY <1>effect DEF ExitInv, TypeOK
  <1> QED
    BY <1>type, <1>queue, <1>place, <1>drain, <1>exit

\* Invoke keeps IInv.
LEMMA InvokeStep ==
  ASSUME IInv, NEW r \in Registry, Invoke(r)
  PROVE  IInv'
  <1> USE DeferralAssumption
      DEF IInv, Registry, drainVars, exitVars, regVars, Up, Invoke, NewestFirst
  <1> DEFINE b == batch[r]
             k == Len(b)
             c == b[k]
             t == SubSeq(b, 1, k - 1) \o SubSeq(b, k + 1, k)
  <1>seq. /\ b \in Seq(Cleanup) /\ b # <<>> /\ DOMAIN b = 1..k
          /\ k \in Nat \ {0} /\ c \in Cleanup
          /\ t \in Seq(Cleanup) /\ DOMAIN t = 1..(k - 1)
          /\ \A i \in 1..(k - 1) : t[i] = b[i]
    <2>1. b \in Seq(Cleanup) /\ b # <<>>
      BY DEF TypeOK
    <2>2. DOMAIN b = 1..k
      BY <2>1
    <2> QED
      BY <2>1, <2>2, LastTaken, Zenon
  <1>effect. /\ drain[r] = "run" /\ cur[r] = None
             /\ cur' = [cur EXCEPT ![r] = c]
             /\ batch' = [batch EXCEPT ![r] = t]
             /\ invoked' = [invoked EXCEPT ![c] = invoked[c] + 1]
             /\ UNCHANGED <<proc, funcs, drain, wg, panics, exiter, locked, hooks>>
             /\ UNCHANGED <<count, home, tooLate>>
    BY DEF TypeOK
  <1> HIDE DEF Invoke, c, t
  <1>c. invoked[c] = 0 /\ home[c] = r
    <2>1. k \in DOMAIN b
      BY <1>seq
    <2> QED
      BY <2>1 DEF QueueInv, Waiting, c
  <1>r. /\ cur'[r] = c /\ batch'[r] = t /\ invoked'[c] = 1
        /\ \A q \in Registry : q # r => cur'[q] = cur[q] /\ batch'[q] = batch[q]
        /\ \A d \in Cleanup : d # c => invoked'[d] = invoked[d]
    BY <1>seq, <1>effect, <1>c DEF TypeOK
  <1>type. TypeOK'
    <2>1. invoked' \in [Cleanup -> 0..1]
      BY <1>seq, <1>effect, <1>c DEF TypeOK
    <2>2. cur' \in [Registry -> Cleanup \cup {None}] /\ batch' \in [Registry -> Seq(Cleanup)]
      BY <1>seq, <1>effect DEF TypeOK
    <2> QED
      BY <1>effect, <2>1, <2>2 DEF TypeOK
  <1>queue. QueueInv'
    <2>1. \A i \in DOMAIN t : i \in DOMAIN b /\ t[i] = b[i] /\ i < k /\ i \in Nat
      BY <1>seq
    <2>2. ASSUME NEW q \in Registry, NEW l \in Seq(Cleanup),
                 Waiting(l, q, count, home, invoked),
                 \A i \in DOMAIN l : l[i] # c
          PROVE  Waiting(l, q, count, home, invoked')
      <3>1. \A i \in DOMAIN l : l[i] \in Cleanup
        OBVIOUS
      <3> QED
        BY <1>r, <2>2, <3>1 DEF Waiting
    <2>3. Waiting(b, r, count, home, invoked)
      BY DEF QueueInv
    <2>4. \A i \in DOMAIN t : t[i] < c /\ t[i] \in Nat /\ c \in Nat
      <3>1. k \in DOMAIN b /\ \A d \in Cleanup : d \in Nat
        BY <1>seq DEF Cleanup
      <3>2. \A i \in DOMAIN t : t[i] \in Cleanup
        BY <1>seq
      <3> QED
        BY <1>seq, <2>1, <2>3, <3>1, <3>2 DEF Waiting, c
    <2>5. Waiting(t, r, count, home, invoked')
      <3>1. Waiting(t, r, count, home, invoked)
        BY <2>1, <2>3 DEF Waiting
      <3>2. \A i \in DOMAIN t : t[i] # c
        BY <2>4
      <3> QED
        BY <1>seq, <2>2, <3>1, <3>2
    <2>6. ASSUME NEW q \in Registry
          PROVE  /\ Waiting(funcs'[q], q, count, home, invoked')
                 /\ Waiting(batch'[q], q, count, home, invoked')
      <3>1. funcs[q] \in Seq(Cleanup) /\ batch[q] \in Seq(Cleanup)
        BY DEF TypeOK
      <3>2. /\ Waiting(funcs[q], q, count, home, invoked)
            /\ Waiting(batch[q], q, count, home, invoked)
        BY DEF QueueInv
      <3>3. \A i \in DOMAIN funcs[q] : funcs[q][i] # c
        <4>1. CASE q = r
          <5>1. k \in DOMAIN batch[r]
            BY <1>seq
          <5> QED
            BY <4>1, <5>1 DEF QueueInv, c
        <4>2. CASE q # r
          BY <1>c, <3>2, <4>2 DEF Waiting
        <4> QED
          BY <4>1, <4>2
      <3>4. q # r => \A i \in DOMAIN batch[q] : batch[q][i] # c
        BY <1>c, <3>2 DEF Waiting
      <3>5. Waiting(funcs[q], q, count, home, invoked')
        BY <2>2, <3>1, <3>2, <3>3
      <3>6. CASE q = r
        BY <1>r, <1>effect, <2>5, <3>5, <3>6
      <3>7. CASE q # r
        <4>1. Waiting(batch[q], q, count, home, invoked')
          BY <2>2, <3>1, <3>2, <3>4, <3>7
        <4> QED
          BY <1>r, <1>effect, <3>5, <3>7, <4>1
      <3> QED
        BY <3>6, <3>7
    <2>7. ASSUME NEW q \in Registry
          PROVE  \A i \in DOMAIN batch'[q], j \in DOMAIN funcs'[q] :
                   batch'[q][i] # funcs'[q][j]
      BY <1>effect, <1>r, <2>1 DEF QueueInv
    <2>8. ASSUME NEW q \in Registry
          PROVE  /\ cur'[q] # None => home[cur'[q]] = q /\ invoked'[cur'[q]] = 1
                 /\ \A d \in wg[q] : home[d] = q /\ invoked'[d] = 1
      <3>1. \A d \in Cleanup : invoked[d] = 1 => invoked'[d] = 1
        BY <1>r
      <3>2. \A d \in wg[q] : home[d] = q /\ invoked[d] = 1 /\ d \in Cleanup
        BY DEF QueueInv, TypeOK
      <3>3. cur[q] # None => /\ home[cur[q]] = q /\ invoked[cur[q]] = 1
                             /\ cur[q] \in Cleanup
        BY DEF QueueInv, TypeOK
      <3> QED
        BY <1>r, <1>c, <3>1, <3>2, <3>3
    <2>9. funcs' = funcs /\ wg' = wg /\ count' = count /\ home' = home
      BY <1>effect
    <2> QED
      <3> HIDE DEF IInv, Registry
      <3> QED
        BY <2>6, <2>7, <2>8, <2>9 DEF QueueInv
  <1>place. PlaceInv'
    <2>1. ASSUME NEW d \in Cleanup, count < d PROVE home[d] = None /\ invoked'[d] = 0
      BY <1>c, <1>r, <2>1 DEF PlaceInv
    <2>2. ASSUME NEW d \in Cleanup, NEW q \in Registry,
                 home[d] = q, invoked'[d] = 0, drain[q] # "gone"
          PROVE  \/ \E i \in DOMAIN funcs[q] : funcs[q][i] = d
                 \/ \E i \in DOMAIN batch'[q] : batch'[q][i] = d
      <3>1. d # c /\ invoked[d] = 0
        BY <1>r, <2>2
      <3>2. \/ \E i \in DOMAIN funcs[q] : funcs[q][i] = d
            \/ \E i \in DOMAIN batch[q] : batch[q][i] = d
        BY <2>2, <3>1 DEF PlaceInv
      <3>3. \A i \in DOMAIN b : i \in DOMAIN t \/ b[i] = c
        BY <1>seq DEF c
      <3>4. CASE q = r
        BY <1>seq, <1>r, <3>1, <3>2, <3>3, <3>4
      <3>5. CASE q # r
        BY <1>r, <3>2, <3>5
      <3> QED
        BY <3>4, <3>5
    <2> QED
      BY <1>effect, <2>1, <2>2 DEF PlaceInv
  <1>drain. DrainInv'
    BY <1>effect, <1>r DEF DrainInv
  <1>exit. ExitInv'
    BY <1>effect DEF ExitInv
  <1> QED
    BY <1>type, <1>queue, <1>place, <1>drain, <1>exit

\* Background keeps IInv.
LEMMA BackgroundStep ==
  ASSUME IInv, NEW r \in Registry, Background(r)
  PROVE  IInv'
  <1> USE DeferralAssumption
      DEF IInv, Registry, drainVars, exitVars, regVars, Up, Background
  <1>type. TypeOK'
    BY DEF TypeOK, DrainStage
  <1>lists. QueueInv' /\ PlaceInv'
    BY ListsSame DEF listVars, TypeOK
  <1>drain. DrainInv'
    BY DEF DrainInv, TypeOK
  <1>exit. ExitInv'
    BY DEF ExitInv, TypeOK
  <1> QED
    BY <1>type, <1>lists, <1>drain, <1>exit

\* BackgroundDone keeps IInv.
LEMMA BackgroundDoneStep ==
  ASSUME IInv, NEW r \in Registry, NEW c \in Cleanup, BackgroundDone(r, c)
  PROVE  IInv'
  <1> USE DeferralAssumption
      DEF IInv, Registry, drainVars, exitVars, regVars, Up, BackgroundDone
  <1>type. TypeOK'
    BY DEF TypeOK, DrainStage
  <1>lists. QueueInv' /\ PlaceInv'
    BY ListsSame DEF listVars, TypeOK
  <1>drain. DrainInv'
    BY DEF DrainInv, TypeOK
  <1>exit. ExitInv'
    BY DEF ExitInv, TypeOK
  <1> QED
    BY <1>type, <1>lists, <1>drain, <1>exit

\* Return keeps IInv.
LEMMA ReturnStep ==
  ASSUME IInv, NEW r \in Registry, Return(r)
  PROVE  IInv'
  <1> USE DeferralAssumption
      DEF IInv, Registry, drainVars, exitVars, regVars, Up, Return
  <1>type. TypeOK'
    BY DEF TypeOK, DrainStage
  <1>lists. QueueInv' /\ PlaceInv'
    BY ListsSame DEF listVars, TypeOK
  <1>drain. DrainInv'
    BY DEF DrainInv, TypeOK
  <1>exit. ExitInv'
    BY DEF ExitInv, TypeOK
  <1> QED
    BY <1>type, <1>lists, <1>drain, <1>exit

\* Wait keeps IInv.
LEMMA WaitStep ==
  ASSUME IInv, NEW r \in Registry, Wait(r)
  PROVE  IInv'
  <1> USE DeferralAssumption
      DEF IInv, Registry, drainVars, exitVars, regVars, Up, Step, Wait, GroupDrained
  <1>type. TypeOK'
    BY DEF TypeOK, DrainStage
  <1>lists. QueueInv' /\ PlaceInv'
    BY ListsSame DEF listVars, TypeOK
  <1>drain. DrainInv'
    BY DEF DrainInv, TypeOK
  <1>exit. ExitInv'
    BY DEF ExitInv, TypeOK
  <1> QED
    BY <1>type, <1>lists, <1>drain, <1>exit

\* SparkEnds keeps IInv.
LEMMA SparkEndsStep ==
  ASSUME IInv, NEW s \in Spark, NEW panicking \in BOOLEAN, SparkEnds(s, panicking)
  PROVE  IInv'
  <1> USE DeferralAssumption
      DEF IInv, Registry, drainVars, exitVars, regVars, Up, Step, SparkEnds
  <1>type. TypeOK'
    BY DEF TypeOK, DrainStage
  <1>lists. QueueInv' /\ PlaceInv'
    BY ListsSame DEF listVars, TypeOK
  <1>drain. DrainInv'
    BY DEF DrainInv, TypeOK
  <1>exit. ExitInv'
    BY DEF ExitInv, TypeOK
  <1> QED
    BY <1>type, <1>lists, <1>drain, <1>exit

\* SparkCrashes keeps IInv.
LEMMA SparkCrashesStep ==
  ASSUME IInv, NEW s \in Spark, SparkCrashes(s)
  PROVE  IInv'
  <1> USE DeferralAssumption
      DEF IInv, Registry, drainVars, exitVars, regVars, Up, SparkCrashes
  <1>type. TypeOK'
    BY DEF TypeOK, DrainStage
  <1>lists. QueueInv' /\ PlaceInv'
    BY ListsSame DEF listVars, TypeOK
  <1>drain. DrainInv'
    BY DEF DrainInv, TypeOK
  <1>exit. ExitInv'
    BY DEF ExitInv, TypeOK
  <1> QED
    BY <1>type, <1>lists, <1>drain, <1>exit

\* Exit keeps IInv.
LEMMA ExitStep ==
  ASSUME IInv, NEW e \in Exiter, Exit(e)
  PROVE  IInv'
  <1> USE DeferralAssumption
      DEF IInv, Registry, drainVars, exitVars, regVars, Up, At, Exit
  <1>type. TypeOK'
    BY DEF TypeOK, DrainStage
  <1>lists. QueueInv' /\ PlaceInv'
    BY ListsSame DEF listVars, TypeOK
  <1>drain. DrainInv'
    BY DEF DrainInv, TypeOK
  <1>exit. ExitInv'
    BY DEF ExitInv, TypeOK
  <1> QED
    BY <1>type, <1>lists, <1>drain, <1>exit

\* RunLock keeps IInv.
LEMMA RunLockStep ==
  ASSUME IInv, NEW e \in Exiter, RunLock(e)
  PROVE  IInv'
  <1> USE DeferralAssumption
      DEF IInv, Registry, drainVars, exitVars, regVars, Up, At, RunLock, HookLockFree
  <1>type. TypeOK'
    BY DEF TypeOK, DrainStage
  <1>lists. QueueInv' /\ PlaceInv'
    BY ListsSame DEF listVars, TypeOK
  <1>drain. DrainInv'
    BY DEF DrainInv, TypeOK
  <1>exit. ExitInv'
    BY DEF ExitInv, TypeOK
  <1> QED
    BY <1>type, <1>lists, <1>drain, <1>exit

\* RunHook keeps IInv.
LEMMA RunHookStep ==
  ASSUME IInv, NEW e \in Exiter, RunHook(e)
  PROVE  IInv'
  <1> USE DeferralAssumption
      DEF IInv, Registry, drainVars, exitVars, regVars, Up, At, Step, RunHook
  <1>type. TypeOK'
    BY DEF TypeOK, DrainStage
  <1>lists. QueueInv' /\ PlaceInv'
    BY ListsSame DEF listVars, TypeOK
  <1>drain. DrainInv'
    BY DEF DrainInv, TypeOK
  <1>exit. ExitInv'
    BY DEF ExitInv, TypeOK
  <1> QED
    BY <1>type, <1>lists, <1>drain, <1>exit

\* RunUnlock keeps IInv.
LEMMA RunUnlockStep ==
  ASSUME IInv, NEW e \in Exiter, RunUnlock(e)
  PROVE  IInv'
  <1> USE DeferralAssumption
      DEF IInv, Registry, drainVars, exitVars, regVars, Up, At, RunUnlock
  <1>type. TypeOK'
    BY DEF TypeOK, DrainStage
  <1>lists. QueueInv' /\ PlaceInv'
    BY ListsSame DEF listVars, TypeOK
  <1>drain. DrainInv'
    BY DEF DrainInv, TypeOK
  <1>exit. ExitInv'
    <2>1. /\ locked = e /\ locked' = None /\ exiter' = [exiter EXCEPT ![e] = "exit"]
          /\ UNCHANGED <<proc, hooks, drain>>
      BY DEF ExitInv
    <2>2. ~hooks /\ drain[Proc] \notin {"idle", "take", "run"}
      BY DEF ExitInv
    <2>3. drain[Proc] \in {"over", "gone"}
      BY <2>2 DEF TypeOK, DrainStage
    <2> HIDE DEF RunUnlock
    <2> QED
      BY <2>1, <2>2, <2>3 DEF ExitInv, TypeOK
  <1> QED
    BY <1>type, <1>lists, <1>drain, <1>exit

\* ExitProcess keeps IInv.
LEMMA ExitProcessStep ==
  ASSUME IInv, NEW e \in Exiter, ExitProcess(e)
  PROVE  IInv'
  <1> USE DeferralAssumption
      DEF IInv, Registry, drainVars, exitVars, regVars, Up, ExitProcess
  <1>type. TypeOK'
    BY DEF TypeOK, DrainStage
  <1>lists. QueueInv' /\ PlaceInv'
    BY ListsSame DEF listVars, TypeOK
  <1>drain. DrainInv'
    BY DEF DrainInv, TypeOK
  <1>exit. ExitInv'
    BY DEF ExitInv, TypeOK
  <1> QED
    BY <1>type, <1>lists, <1>drain, <1>exit

\* CleanupExits keeps IInv.
LEMMA CleanupExitsStep ==
  ASSUME IInv, CleanupExits
  PROVE  IInv'
  <1> USE DeferralAssumption
      DEF IInv, Registry, drainVars, exitVars, regVars, Up, CleanupExits
  <1>type. TypeOK'
    BY DEF TypeOK, DrainStage
  <1>lists. QueueInv' /\ PlaceInv'
    BY ListsSame DEF listVars, TypeOK
  <1>drain. DrainInv'
    BY DEF DrainInv, TypeOK
  <1>exit. ExitInv'
    BY DEF ExitInv, TypeOK
  <1> QED
    BY <1>type, <1>lists, <1>drain, <1>exit

\* CleanupGoexits keeps IInv.
LEMMA CleanupGoexitsStep ==
  ASSUME IInv, NEW r \in Registry, CleanupGoexits(r)
  PROVE  IInv'
  <1> USE DeferralAssumption
      DEF IInv, Registry, drainVars, exitVars, regVars, Up, Step, CleanupGoexits, LockLetGo
  <1>exits. \/ /\ r = Proc /\ locked \in Exiter /\ exiter[locked] = "draining"
               /\ exiter' = [exiter EXCEPT ![locked] = "gone"] /\ locked' = None
            \/ r # Proc /\ UNCHANGED <<exiter, locked>>
    BY DEF ExitInv
  <1>effect. /\ cur' = [cur EXCEPT ![r] = None]
             /\ batch' = [batch EXCEPT ![r] = <<>>]
             /\ drain[r] = "run" /\ drain' = [drain EXCEPT ![r] = "gone"]
             /\ UNCHANGED <<funcs, wg, count, home, tooLate, invoked>>
    OBVIOUS
  <1>r. /\ cur'[r] = None /\ batch'[r] = <<>> /\ drain'[r] = "gone"
        /\ DOMAIN <<>> = {}
        /\ \A q \in Registry : q # r => /\ cur'[q] = cur[q] /\ batch'[q] = batch[q]
                                        /\ drain'[q] = drain[q]
    BY <1>effect DEF TypeOK
  <1>type. TypeOK'
    <2>1. /\ exiter' \in [Exiter -> {"out", "spin", "hooks", "draining", "exit", "gone"}]
          /\ locked' \in Exiter \cup {None}
      <3> HIDE DEF CleanupGoexits
      <3> QED
        BY <1>exits DEF TypeOK
    <2>2. /\ cur' \in [Registry -> Cleanup \cup {None}]
          /\ batch' \in [Registry -> Seq(Cleanup)] /\ drain' \in [Registry -> DrainStage]
      BY <1>effect DEF TypeOK, DrainStage
    <2>3. UNCHANGED <<proc, funcs, wg, panics, hooks, count, home, tooLate, invoked>>
      OBVIOUS
    <2> HIDE DEF CleanupGoexits
    <2> QED
      BY <2>1, <2>2, <2>3 DEF TypeOK
  <1>queue. QueueInv'
    <2> HIDE DEF CleanupGoexits
    <2> QED
      BY <1>effect, <1>r DEF QueueInv, Waiting
  <1>place. PlaceInv'
    <2> HIDE DEF CleanupGoexits
    <2> QED
      BY <1>effect, <1>r DEF PlaceInv
  <1>drain. DrainInv'
    BY DEF DrainInv, TypeOK
  <1>exit. ExitInv'
    <2>1. UNCHANGED <<proc, hooks>>
      OBVIOUS
    <2> HIDE DEF CleanupGoexits
    <2>2. CASE r # Proc
      BY <1>exits, <1>r, <2>1, <2>2 DEF ExitInv
    <2>3. CASE r = Proc
      <3>1. /\ \A e \in Exiter : exiter'[e] = IF e = locked THEN "gone" ELSE exiter[e]
            /\ locked \in Exiter /\ locked' = None /\ drain'[Proc] = "gone"
        BY <1>exits, <1>r, <2>3 DEF TypeOK
      <3> QED
        BY <1>effect, <2>1, <2>3, <3>1 DEF ExitInv
    <2> QED
      BY <2>2, <2>3
  <1> QED
    BY <1>type, <1>queue, <1>place, <1>drain, <1>exit

-----------------------------------------------------------------------------
(* The theorems *)

\* The initial state satisfies IInv.
LEMMA InitIInv == Init => IInv
  <1> SUFFICES ASSUME Init PROVE IInv
    OBVIOUS
  <1> USE DeferralAssumption DEF Init
  <1>1. DOMAIN <<>> = {}
    OBVIOUS
  <1>2. TypeOK
    BY DEF TypeOK, Registry, DrainStage
  <1>3. QueueInv
    BY <1>1 DEF QueueInv, Waiting, Registry
  <1>4. PlaceInv
    BY DEF PlaceInv, Registry
  <1>5. DrainInv /\ ExitInv
    BY DEF DrainInv, ExitInv, Registry
  <1> QED
    BY <1>2, <1>3, <1>4, <1>5 DEF IInv

\* Every step keeps IInv.
LEMMA NextIInv == IInv /\ [Next]_vars => IInv'
  <1> SUFFICES ASSUME IInv, [Next]_vars PROVE IInv'
    OBVIOUS
  <1>1. Proc \in Registry /\ \A s \in Spark : s \in Registry
    BY DEF Registry
  <1>2. ASSUME NEW r \in Registry, Drain(r) PROVE IInv'
    BY <1>2, TakeStep, InvokeStep, ReturnStep, WaitStep DEF Drain
  <1>3. ASSUME NEW e \in Exiter, Run(e) PROVE IInv'
    BY <1>3, RunLockStep, RunHookStep, RunUnlockStep, ExitProcessStep DEF Run
  <1>4. CASE UNCHANGED vars
    BY <1>4 DEF vars, IInv, TypeOK, QueueInv, Waiting, PlaceInv, DrainInv, ExitInv
  <1>5. ASSUME Defer \/ \E s \in Spark : DeferSelf(s) PROVE IInv'
    BY <1>1, <1>5, RegisteredStep DEF Defer, DeferSelf
  <1>6. CASE CleanupExits
    BY <1>6, CleanupExitsStep
  <1> QED
    BY <1>2, <1>3, <1>4, <1>5, <1>6, BackgroundStep, BackgroundDoneStep,
       SparkEndsStep, SparkCrashesStep, ExitStep, CleanupGoexitsStep DEF Next

\* The inductive invariant holds throughout.
THEOREM Invariance == Spec => []IInv
  BY InitIInv, NextIInv, PTL DEF Spec

\* Every variable keeps its type: whatever goroutines drain, register and exit,
\* no cleanup is invoked twice.
THEOREM TypeCorrect == Spec => []TypeOK
  BY Invariance, PTL DEF IInv

\* A drain that ended has finished whatever was registered before its last look
\* at the list.
LEMMA OverIsFinished ==
  ASSUME IInv, NEW r \in Registry, drain[r] = "over",
         NEW c \in Cleanup, home[c] = r, c \notin tooLate
  PROVE  Finished(c)
  <1>1. batch[r] = <<>> /\ cur[r] = None /\ wg[r] = {} /\ DOMAIN <<>> = {}
    BY DEF IInv, DrainInv
  <1>2. \A i \in DOMAIN funcs[r] : funcs[r][i] # c
    BY DEF IInv, DrainInv
  <1>3. invoked[c] # 0
    BY <1>1, <1>2 DEF IInv, PlaceInv
  <1>4. invoked[c] = 1
    BY <1>3 DEF IInv, TypeOK
  <1>5. None \notin Cleanup
    BY DeferralAssumption DEF Cleanup
  <1>6. \A q \in Registry : c \notin wg[q] /\ cur[q] # c
    BY <1>1, <1>5 DEF IInv, QueueInv
  <1> QED
    BY <1>4, <1>6 DEF Finished

\* When the process exits, however many goroutines wanted it to, the cleanups
\* registered up to the process drain's last look are over, except for those a
\* Goexit in a cleanup dropped.
THEOREM ProcessCleanedUp == Spec => []CleanedUpAtExit
  <1>1. ASSUME IInv PROVE CleanedUpAtExit
    <2>1. Proc \in Registry
      BY DEF Registry
    <2>2. proc = "exited" /\ drain[Proc] # "gone" => drain[Proc] = "over"
      BY <1>1 DEF IInv, ExitInv
    <2> QED
      BY <1>1, <2>1, <2>2, OverIsFinished DEF CleanedUpAtExit
  <1> QED
    BY <1>1, Invariance, PTL

\* The same for a spark, at the end of its drain.
THEOREM SparkCleanedUp == Spec => []CleanedUpAtSparkExit
  <1>1. ASSUME IInv PROVE CleanedUpAtSparkExit
    <2>1. \A s \in Spark : s \in Registry
      BY DEF Registry
    <2> QED
      BY <1>1, <2>1, OverIsFinished DEF CleanedUpAtSparkExit
  <1> QED
    BY <1>1, Invariance, PTL

\* runDeferred invokes what was registered last first: no cleanup that is left
\* in the batch is younger than the one it starts.
THEOREM NewestRunsFirst == Spec => LastRegisteredFirst
  <1>1. ASSUME IInv, [Next]_vars, NEW r \in Registry, cur[r] = None, cur'[r] # None
        PROVE  \A c \in Range(batch'[r]) : c < cur'[r]
    <2> USE <1>1 DEF drainVars, exitVars, regVars
    <2>typ. cur \in [Registry -> Cleanup \cup {None}]
      BY DEF IInv, TypeOK
    <2>1. ASSUME NEW q \in Registry, Take(q) \/ Return(q) \/ Wait(q)
          PROVE  FALSE
      BY <2>typ, <2>1 DEF Take, Return, Wait
    <2>2. ASSUME UNCHANGED cur PROVE FALSE
      BY <2>2
    <2>3. ASSUME NEW q \in Registry, CleanupGoexits(q) PROVE FALSE
      BY <2>typ, <2>3 DEF CleanupGoexits
    <2>4. ASSUME \/ Defer \/ CleanupExits
                 \/ \E s \in Spark : DeferSelf(s) \/ SparkCrashes(s)
                 \/ \E s \in Spark, panicking \in BOOLEAN : SparkEnds(s, panicking)
                 \/ \E q \in Registry : Background(q)
                 \/ \E q \in Registry, c \in Cleanup : BackgroundDone(q, c)
                 \/ \E e \in Exiter : Exit(e) \/ Run(e)
          PROVE  FALSE
      BY <2>2, <2>4
         DEF Defer, DeferSelf, Registered, CleanupExits, SparkCrashes, SparkEnds,
             Background, BackgroundDone, Exit, Run, RunLock, RunHook, RunUnlock,
             ExitProcess
    <2>5. ASSUME UNCHANGED vars PROVE FALSE
      BY <2>2, <2>5 DEF vars
    <2>6. PICK q \in Registry : Invoke(q)
      BY <2>1, <2>3, <2>4, <2>5 DEF Next, Drain
    <2> DEFINE b == batch[r]
               k == Len(b)
               t == SubSeq(b, 1, k - 1) \o SubSeq(b, k + 1, k)
    <2>7. q = r
      BY <2>typ, <2>6 DEF Invoke
    <2>8. cur'[r] = b[k] /\ batch'[r] = t /\ b # <<>> /\ b \in Seq(Cleanup)
      BY <2>6, <2>7 DEF Invoke, NewestFirst, IInv, TypeOK
    <2>9. /\ k \in Nat \ {0} /\ DOMAIN t = 1..(k - 1)
          /\ \A i \in 1..(k - 1) : t[i] = b[i]
      BY <2>8, LastTaken, Zenon
    <2>10. \A i \in 1..(k - 1) : b[i] < b[k]
      <3>1. DOMAIN b = 1..k
        BY <2>8
      <3>2. \A i, j \in DOMAIN b : i < j => b[i] < b[j]
        BY DEF IInv, QueueInv, Waiting
      <3> QED
        BY <2>9, <3>1, <3>2
    <2> HIDE DEF t, k, b
    <2> QED
      BY <2>8, <2>9, <2>10 DEF Range
  <1>2. ASSUME IInv, [Next]_vars
        PROVE  \A r \in Registry : cur[r] = None /\ cur'[r] # None =>
                 \A c \in Range(batch'[r]) : c < cur'[r]
    BY <1>1, <1>2
  <1> QED
    BY <1>2, Invariance, PTL DEF Spec, LastRegisteredFirst
=============================================================================
