------------------------- MODULE InstallTokenProofs -------------------------
(***************************************************************************)
(* For any number of callers and any times that satisfy TimesAssumption:   *)
(* the installation tokens that InstallTokens hands out outlive their use, *)
(* one fetch runs at a time and only if it is needed, and renewals are     *)
(* spaced.                                                                 *)
(***************************************************************************)
EXTENDS InstallTokens, TLAPS

Inv == TypeOK /\ TokenInv

\* TimesAssumption, time by time.
LEMMA Times ==
  /\ Life \in Nat /\ Margin \in Nat /\ Timeout \in Nat /\ MaxTime \in Nat
  /\ Timeout <= Margin
  /\ Margin + Timeout < Life
BY TimesAssumption

\* Nobody calls, and no token is cached.
LEMMA InitInv == Init => Inv
BY NobodyAssumption, Times
   DEF Init, Inv, TypeOK, TokenInv, CallInv, Idle, Call, Leading

\* Types and the flight's bookkeeping.
LEMMA TypeStep == TypeOK /\ [Next]_vars => TypeOK'
<1> SUFFICES ASSUME TypeOK, [Next]_vars PROVE TypeOK'
  OBVIOUS
<1> USE NobodyAssumption, Times DEF TypeOK, Call, Idle, Leading
<1>1. CASE Tick
  BY <1>1 DEF Tick
<1>2. CASE Restart
  BY <1>2 DEF Restart
<1>3. ASSUME NEW c \in Caller, Proceed(c) PROVE TypeOK'
  <2>a. now + Timeout \in Nat /\ now + Life \in Nat
    BY Times
  <2>1. CASE Do(c)
    BY <1>3, <2>1 DEF Do, Proceed
  <2>2. CASE Recheck(c)
    <3>1. call' \in [Caller -> Call]
      BY <2>2, <2>a DEF Recheck
    <3> QED
      BY <1>3, <2>2, <3>1 DEF Recheck, Proceed
  <2>3. CASE Issue(c)
    <3>1. call' \in [Caller -> Call]
      BY <2>3, <2>a DEF Issue
    <3> QED
      BY <1>3, <2>3, <3>1 DEF Issue, Proceed
  <2>4. CASE StoreToken(c)
    BY <1>3, <2>4 DEF StoreToken, Proceed
  <2>5. CASE Share(c)
    BY <1>3, <2>5 DEF Share, Waiters, Proceed
  <2>6. CASE FetchFails(c)
    BY <1>3, <2>6 DEF FetchFails, Waiters, Proceed
  <2>7. CASE UseToken(c)
    <3>1. call' \in [Caller -> Call]
      BY <2>7, <2>a DEF UseToken
    <3> QED
      BY <1>3, <2>7, <3>1 DEF UseToken, Proceed
  <2>8. CASE Done(c)
    BY <1>3, <2>8 DEF Done, Proceed
  <2> QED
    BY <1>3, <2>1, <2>2, <2>3, <2>4, <2>5, <2>6, <2>7, <2>8 DEF Proceed
<1>4. ASSUME NEW c \in Caller, Lookup(c), UNCHANGED now PROVE TypeOK'
  BY <1>4 DEF Lookup
<1>5. CASE UNCHANGED vars
  BY <1>5 DEF vars
<1> QED
  BY <1>1, <1>2, <1>3, <1>4, <1>5 DEF Next

\* The times of fetches, tokens and calls.
LEMMA InvStep == Inv /\ [Next]_vars => Inv'
<1> SUFFICES ASSUME TypeOK, TokenInv, [Next]_vars PROVE TokenInv'
  BY TypeStep DEF Inv
<1> USE NobodyAssumption, Times
    DEF TypeOK, TokenInv, CallInv, Call, Idle, Leading, Usable
<1>1. CASE Tick
  BY <1>1 DEF Tick
<1>2. CASE Restart
  BY <1>2 DEF Restart
<1>3. ASSUME NEW c \in Caller, Proceed(c) PROVE TokenInv'
  <2>1. CASE Do(c)
    BY <1>3, <2>1 DEF Do, Proceed
  <2>2. CASE Recheck(c)
    BY <1>3, <2>2 DEF Recheck, Proceed
  <2>3. CASE Issue(c)
    BY <1>3, <2>3 DEF Issue, Proceed
  <2>4. CASE StoreToken(c)
    BY <1>3, <2>4 DEF StoreToken, Proceed
  <2>5. CASE Share(c)
    BY <1>3, <2>5 DEF Share, Waiters, Proceed
  <2>6. CASE FetchFails(c)
    BY <1>3, <2>6 DEF FetchFails, Waiters, Proceed
  <2>7. CASE UseToken(c)
    BY <1>3, <2>7 DEF UseToken, Proceed
  <2>8. CASE Done(c)
    BY <1>3, <2>8 DEF Done, Proceed
  <2> QED
    BY <1>3, <2>1, <2>2, <2>3, <2>4, <2>5, <2>6, <2>7, <2>8 DEF Proceed
<1>4. ASSUME NEW c \in Caller, Lookup(c), UNCHANGED now PROVE TokenInv'
  BY <1>4 DEF Lookup
<1>5. CASE UNCHANGED vars
  BY <1>5 DEF vars
<1> QED
  BY <1>1, <1>2, <1>3, <1>4, <1>5 DEF Next

\* Types, the flight's bookkeeping, and the times of fetches, tokens and calls
\* (getInstallationToken).
THEOREM TokensCorrect == Spec => [](TypeOK /\ TokenInv)
<1>1. Inv /\ [Next]_vars => Inv'
  BY InvStep
<1> QED
  BY InitInv, <1>1, PTL DEF Spec, Inv

\* A token is valid from its handing out to the end of the call that uses it.
THEOREM TokensLastLongEnough == Spec => []TokenOutlivesItsUse
<1>1. TypeOK /\ TokenInv => TokenOutlivesItsUse
  BY Times
     DEF TypeOK, Call, TokenInv, CallInv, TokenOutlivesItsUse, Usable
<1> QED
  BY TokensCorrect, <1>1, PTL

\* One fetch at a time, and none while the cache holds a usable token.
THEOREM FetchesAreNeeded == Spec => []OneFetchAndOnlyIfNeeded
<1>1. TypeOK /\ TokenInv => OneFetchAndOnlyIfNeeded
  BY Times
     DEF TypeOK, Call, TokenInv, CallInv, OneFetchAndOnlyIfNeeded, Usable, Leading
<1> QED
  BY TokensCorrect, <1>1, PTL

\* Between restarts, tokens stored one after the other are issued at least
\* Life - Margin apart.
THEOREM RefreshesSpaced == Spec => RefreshesAreSpaced
<1> DEFINE Spaced == cached # 0 /\ cached' \notin {0, cached}
                       => cached' - cached >= Life - Margin
<1>1. TypeOK /\ TokenInv /\ [Next]_vars => [Spaced]_vars
  <2> SUFFICES ASSUME TypeOK, TokenInv, Next, cached' \notin {0, cached}
               PROVE  cached' - cached >= Life - Margin
    OBVIOUS
  <2>1. PICK c \in Caller : StoreToken(c)
    BY DEF Next, Tick, Restart, Proceed, Lookup, Do, Recheck, Issue, Share,
           FetchFails, UseToken, Done
  <2>2. CallInv(c)
    BY DEF TokenInv
  <2> QED
    BY <2>1, <2>2, Times DEF CallInv, StoreToken, TypeOK, Call
<1> QED
  BY TokensCorrect, <1>1, PTL DEF Spec, RefreshesAreSpaced

=============================================================================
