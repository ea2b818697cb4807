---------------------------- MODULE WriteOnceSelf ----------------------------
(***************************************************************************)
(* What package genesis promises of a Self ("Atomic-on-open"): user code   *)
(* sees either no Self or a complete one. An identity's Self is published  *)
(* in one step and never changes afterwards, its trait types are unique,   *)
(* and a spark's Self starts with the Self of the identity that sparked it.*)
(***************************************************************************)
EXTENDS Naturals, Sequences

CONSTANTS
  Id,       \* identities
  Main,     \* the main identity
  Type      \* trait types

VARIABLES
  published,  \* identities whose Self can be observed
  self,       \* [Id -> the traits of the Self, <<>> until it is published]
  parent      \* [Id -> the identity that sparked it, Main for Main]

wvars == <<published, self, parent>>

Unique(s) == \A i, j \in DOMAIN s : s[i].typ = s[j].typ => i = j

Extends(s, t) == Len(t) <= Len(s) /\ \A i \in 1..Len(t) : s[i] = t[i]

\* What a step may make of the Self of d.
Complete(d) ==
  /\ Unique(self'[d])
  /\ d # Main => parent[d] \in published /\ Extends(self'[d], self[parent[d]])

Init ==
  /\ published = {}
  /\ self = [d \in Id |-> <<>>]
  /\ parent = [d \in Id |-> Main]

Publish(d) ==
  /\ d \notin published
  /\ published' = published \cup {d}
  /\ \A e \in Id \ {d} : self'[e] = self[e]
  /\ Complete(d)
  /\ UNCHANGED parent

\* Only an identity that has its Self can spark, and what it sparked stays so.
Adopt(d, c) ==
  /\ d \in published
  /\ c \notin published
  /\ parent' = [parent EXCEPT ![c] = d]
  /\ UNCHANGED <<published, self>>

Next ==
  \/ \E d \in Id : Publish(d)
  \/ \E d, c \in Id : Adopt(d, c)

Spec == Init /\ [][Next]_wvars
=============================================================================
