---------------------------- MODULE HardwareKey ----------------------------
(***************************************************************************)
(* What internal/hwkey promises its callers, whatever hardware is behind   *)
(* it: a Provider mints keys and a Key signs and agrees, each call taking  *)
(* effect at one moment between its call and its return, or not at all.    *)
(* An answer is by the key that was asked.  A call on a key that is closed *)
(* already is turned away; Close does not disturb a call that was let in.  *)
(***************************************************************************)
EXTENDS Naturals

CONSTANTS Proc, Key, None, Err, Done

VARIABLES
  minted,   \* keys that GenerateKey made
  closed,   \* keys whose Close was called
  session,  \* Provider.Close has not ended the hardware session
  call,     \* [Proc -> the call it is in]
  res       \* [Proc -> what the call will return, once that is settled]

vars == <<minted, closed, session, call, res>>

NoCall == [op |-> "none", key |-> 0, accepted |-> FALSE]

Init ==
  /\ minted = {} /\ closed = {}
  /\ session = TRUE
  /\ call = [p \in Proc |-> NoCall]
  /\ res = [p \in Proc |-> None]

Settle(p, r) == res[p] = None /\ res' = [res EXCEPT ![p] = r]

\* Provider.GenerateKey, Provider.Close, Key.Sign or Key.ECDH is called.
Invoke(p) ==
  /\ call[p] = NoCall
  /\ \/ \E o \in {"generate", "close"} :
          call' = [call EXCEPT ![p].op = o]
     \/ \E k \in minted :
          call' = [call EXCEPT ![p].op = "use", ![p].key = k]
  /\ UNCHANGED <<minted, closed, session, res>>

\* Sign and ECDH let in whoever calls an open key.
Accept(p) ==
  /\ call[p].op = "use" /\ ~call[p].accepted /\ res[p] = None
  /\ call[p].key \notin closed
  /\ call' = [call EXCEPT ![p].accepted = TRUE]
  /\ UNCHANGED <<minted, closed, session, res>>

Mint(p) ==
  /\ call[p].op = "generate"
  /\ session
  /\ \E k \in Key \ minted : Settle(p, k) /\ minted' = minted \cup {k}
  /\ UNCHANGED <<closed, session, call>>

Answer(p) ==
  /\ call[p].op = "use" /\ call[p].accepted
  /\ session
  /\ Settle(p, call[p].key)
  /\ UNCHANGED <<minted, closed, session, call>>

EndSession(p) ==
  /\ call[p].op = "close"
  /\ \E r \in {Done, Err} : Settle(p, r)
  /\ session' = FALSE
  /\ UNCHANGED <<minted, closed, call>>

\* No answer: an error, or a panic.
Fail(p) ==
  /\ call[p].op \in {"generate", "use"}
  /\ Settle(p, Err)
  /\ UNCHANGED <<minted, closed, session, call>>

Return(p) ==
  /\ res[p] # None
  /\ call' = [call EXCEPT ![p] = NoCall]
  /\ res' = [res EXCEPT ![p] = None]
  /\ UNCHANGED <<minted, closed, session>>

CloseKey(k) ==
  /\ k \in minted
  /\ closed' = closed \cup {k}
  /\ UNCHANGED <<minted, session, call, res>>

Next ==
  \/ \E p \in Proc : \/ Invoke(p) \/ Accept(p) \/ Mint(p) \/ Answer(p)
                     \/ EndSession(p) \/ Fail(p) \/ Return(p)
  \/ \E k \in Key : CloseKey(k)

Spec == Init /\ [][Next]_vars
=============================================================================
