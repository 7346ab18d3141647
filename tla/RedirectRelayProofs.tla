------------------------- MODULE RedirectRelayProofs -------------------------
(***************************************************************************)
(* Proofs about RedirectRelay, for any sets of flows, states and           *)
(* goroutines and any bounds.                                              *)
(***************************************************************************)
EXTENDS RedirectRelay, TLAPS

(* A flow that has not begun has no state and its browser no page.         *)
Begun(f) == kind[f] # "new"

BegunInv == \A f \in Flows :
                /\ Begun(f) => state[f] \in States
                /\ ~Begun(f) => state[f] = None /\ reached[f] = {}

(* What is saved under a state is the redirect_uri of a flow that chose it.*)
StoreInv == \A s \in States : store[s] # None =>
                \E g \in Flows : Begun(g) /\ state[g] = s /\ store[s] = Redirect(g)

(* Only flows that have begun are served or relayed, and home.             *)
ServingInv == \A h \in Handlers : serving[h] # None => Begun(serving[h])

RelayedInv ==
    \A f \in Flows, d \in Flows \cup {Self} :
        <<f, d>> \in relayed =>
            /\ Begun(f)
            /\ \E g \in Flows : Begun(g) /\ state[g] = state[f] /\ d = Redirect(g)

(* The states of test logins belong to test logins, and to them only.      *)
DiagInv ==
    /\ \A s \in diag : \E f \in Flows : IsTest(f) /\ state[f] = s
    /\ \A f \in Flows : state[f] \in diag => IsTest(f)

IInv == /\ TypeOK /\ BegunInv /\ StoreInv /\ ServingInv /\ RelayedInv
        /\ DiagInv /\ CompletedOnce /\ EntryUsedOnce

-----------------------------------------------------------------------------

(* Nothing is saved and nobody is served at the beginning.                 *)
LEMMA InitIInv == Init => IInv
<1> SUFFICES ASSUME Init PROVE IInv
  OBVIOUS
<1>1. TypeOK
  BY BoundsAssumption DEF Init, TypeOK, Pages
<1>2. BegunInv /\ StoreInv /\ ServingInv
  BY DEF Init, BegunInv, StoreInv, ServingInv, Begun
<1>3. RelayedInv /\ DiagInv /\ CompletedOnce
  BY NoStateAssumption DEF Init, RelayedInv, DiagInv, CompletedOnce
<1>4. EntryUsedOnce
  BY DEF Init, EntryUsedOnce
<1> QED
  BY <1>1, <1>2, <1>3, <1>4 DEF IInv

(* A page load counts within its bound, and the browser had begun.         *)
LEMMA LoadType ==
    ASSUME TypeOK, BegunInv, NEW f \in Flows, NEW p \in Pages, Load(f, p)
    PROVE  /\ loads' \in [Flows -> [Pages -> 0..MaxLoads]]
           /\ Begun(f)
           /\ state[f] \in States
<1>1. loads[f][p] + 1 \in 0..MaxLoads
  BY BoundsAssumption DEF TypeOK, Load
<1>2. loads' = [loads EXCEPT ![f] = [loads[f] EXCEPT ![p] = loads[f][p] + 1]]
  BY DEF TypeOK, Load
<1>3. loads' \in [Flows -> [Pages -> 0..MaxLoads]]
  BY <1>1, <1>2 DEF TypeOK
<1> QED
  BY <1>3 DEF BegunInv, Load

(* Sending a browser to a page keeps it a set of pages.                    *)
LEMMA SendToType ==
    ASSUME TypeOK, NEW f \in Flows, NEW p \in Pages, SendTo(f, p)
    PROVE  /\ reached' \in [Flows -> SUBSET Pages]
           /\ \A g \in Flows \ {f} : reached'[g] = reached[g]
BY DEF TypeOK, SendTo

(* Flows that have begun keep their kind and their state.                  *)
FlowsKept ==
    \A f \in Flows : Begun(f) => kind'[f] = kind[f] /\ state'[f] = state[f]

(* Such a step keeps what is said of entries, callbacks and relays.        *)
LEMMA HomesKept ==
    ASSUME IInv, FlowsKept, UNCHANGED <<store, serving, relayed>>
    PROVE  StoreInv' /\ ServingInv' /\ RelayedInv'
<1>1. ASSUME NEW g \in Flows, Begun(g)
      PROVE  Begun(g)' /\ state'[g] = state[g] /\ Redirect(g)' = Redirect(g)
  BY <1>1 DEF FlowsKept, Begun, Redirect, IsTest
<1>2. StoreInv'
  BY <1>1 DEF IInv, StoreInv
<1>3. ServingInv'
  BY <1>1 DEF IInv, ServingInv, TypeOK
<1>4. RelayedInv'
  <2> SUFFICES ASSUME NEW f \in Flows, NEW d \in Flows \cup {Self}, <<f, d>> \in relayed'
               PROVE  /\ Begun(f)'
                      /\ \E g \in Flows : Begun(g)' /\ state'[g] = state'[f]
                                             /\ d = Redirect(g)'
    BY DEF RelayedInv
  <2>1. /\ Begun(f)
        /\ \E g \in Flows : Begun(g) /\ state[g] = state[f] /\ d = Redirect(g)
    BY DEF IInv, RelayedInv
  <2> QED
    BY <1>1, <2>1
<1> QED
  BY <1>2, <1>3, <1>4

(* Each action keeps the inductive invariant: one lemma for each.          *)

LEMMA ClientBeginsStep ==
    ASSUME IInv, NEW f \in Flows, NEW s \in States, ClientBegins(f, s)
    PROVE  IInv'
<1> USE DEF ClientBegins
<1>1. TypeOK'
  BY SendToType DEF IInv, TypeOK, Pages
<1>2. FlowsKept
  BY DEF FlowsKept, Begun, IInv, TypeOK
<1>3. StoreInv' /\ ServingInv' /\ RelayedInv'
  BY <1>2, HomesKept
<1>4. BegunInv'
  <2>1. \A g \in Flows \ {f} : /\ Begun(g)' <=> Begun(g)
                               /\ state'[g] = state[g]
                               /\ reached'[g] = reached[g]
    BY SendToType DEF IInv, TypeOK, Begun, Pages
  <2>2. Begun(f)' /\ state'[f] = s
    BY DEF IInv, TypeOK, Begun
  <2> QED
    BY <2>1, <2>2 DEF IInv, BegunInv
<1>5. s \notin diag
  BY DEF IInv, DiagInv
<1>6. DiagInv'
  <2>1. \A g \in Flows \ {f} : state'[g] = state[g] /\ (IsTest(g)' <=> IsTest(g))
    BY DEF IInv, TypeOK, IsTest
  <2>2. ~IsTest(f)
    BY DEF IsTest
  <2> QED
    BY <1>5, <2>1, <2>2 DEF IInv, TypeOK, DiagInv
<1>7. CompletedOnce'
  BY DEF IInv, TypeOK, CompletedOnce, IsTest
<1>8. EntryUsedOnce'
  BY DEF IInv, EntryUsedOnce
<1> QED
  BY <1>1, <1>3, <1>4, <1>6, <1>7, <1>8 DEF IInv

LEMMA TestLoginStep ==
    ASSUME IInv, NEW f \in Flows, NEW s \in States, NEW viaProxy \in BOOLEAN,
           TestLogin(f, s, viaProxy)
    PROVE  IInv'
<1> USE DEF TestLogin
<1> DEFINE page == IF viaProxy THEN "authorize" ELSE "cognito"
<1>1. page \in Pages /\ SendTo(f, page)
  BY DEF Pages
<1> HIDE DEF page
<1>2. reached' \in [Flows -> SUBSET Pages] /\ \A g \in Flows \ {f} : reached'[g] = reached[g]
  BY <1>1, SendToType DEF IInv
<1>3. TypeOK'
  BY <1>2 DEF IInv, TypeOK
<1>4. FlowsKept
  BY DEF FlowsKept, Begun, IInv, TypeOK
<1>5. StoreInv' /\ ServingInv' /\ RelayedInv'
  BY <1>4, HomesKept
<1>6. BegunInv'
  <2>1. \A g \in Flows \ {f} : (Begun(g)' <=> Begun(g)) /\ state'[g] = state[g]
    BY DEF IInv, TypeOK, Begun
  <2>2. Begun(f)' /\ state'[f] = s
    BY DEF IInv, TypeOK, Begun
  <2> QED
    BY <1>2, <2>1, <2>2 DEF IInv, BegunInv
<1>7. /\ IsTest(f)' /\ state'[f] = s
      /\ \A g \in Flows \ {f} : state'[g] = state[g] /\ (IsTest(g)' <=> IsTest(g))
  BY DEF IInv, TypeOK, IsTest
<1>8. DiagInv'
  <2>1. ASSUME NEW t \in diag' PROVE \E g \in Flows : IsTest(g)' /\ state'[g] = t
    <3>1. CASE t = s
      BY <1>7, <3>1
    <3>2. CASE t \in diag
      <4>1. PICK g \in Flows : IsTest(g) /\ state[g] = t
        BY <3>2 DEF IInv, DiagInv
      <4>2. g # f
        BY <4>1 DEF IsTest
      <4> QED
        BY <1>7, <4>1, <4>2
    <3> QED
      BY <2>1, <3>1, <3>2
  <2>2. ASSUME NEW g \in Flows, state'[g] \in diag' PROVE IsTest(g)'
    BY <1>7, <2>2 DEF IInv, DiagInv
  <2> QED
    BY <2>1, <2>2 DEF DiagInv
<1>9. CompletedOnce'
  <2>1. f \notin completed
    BY DEF IInv, CompletedOnce, IsTest
  <2> QED
    BY <1>7, <2>1 DEF IInv, TypeOK, CompletedOnce
<1>10. EntryUsedOnce'
  BY DEF IInv, EntryUsedOnce
<1> QED
  BY <1>3, <1>5, <1>6, <1>8, <1>9, <1>10 DEF IInv

LEMMA AuthorizeStep ==
    ASSUME IInv, NEW f \in Flows, Authorize(f)
    PROVE  IInv'
<1> USE DEF Authorize
<1>1. /\ loads' \in [Flows -> [Pages -> 0..MaxLoads]]
      /\ Begun(f) /\ state[f] \in States
  BY LoadType DEF IInv, Pages
<1>2. /\ reached' \in [Flows -> SUBSET Pages]
      /\ \A g \in Flows \ {f} : reached'[g] = reached[g]
  BY SendToType DEF IInv, Pages
<1>3. Redirect(f) \in Flows \cup {Self}
  BY DEF Redirect
<1>4. TypeOK'
  BY <1>1, <1>2, <1>3 DEF IInv, TypeOK
<1>5. BegunInv'
  BY <1>1, <1>2 DEF IInv, BegunInv, Begun
<1>6. StoreInv'
  <2> SUFFICES ASSUME NEW s \in States, store'[s] # None
               PROVE  \E g \in Flows : Begun(g) /\ state[g] = s /\ store'[s] = Redirect(g)
    BY DEF StoreInv, Begun, Redirect, IsTest
  <2>1. CASE s = state[f]
    BY <1>1, <2>1 DEF IInv, TypeOK
  <2>2. CASE s # state[f]
    BY <2>2 DEF IInv, TypeOK, StoreInv
  <2> QED
    BY <2>1, <2>2
<1>7. ServingInv' /\ RelayedInv'
  BY DEF IInv, ServingInv, RelayedInv, Begun, Redirect, IsTest
<1>8. DiagInv' /\ CompletedOnce'
  BY DEF IInv, DiagInv, CompletedOnce, IsTest
<1>9. EntryUsedOnce'
  <2> SUFFICES ASSUME NEW s \in States
               PROVE  relays[s] + (IF store'[s] = None THEN 0 ELSE 1) <= saves'[s]
    BY DEF EntryUsedOnce
  <2>1. /\ relays[s] \in Nat /\ saves[s] \in Nat
        /\ relays[s] + (IF store[s] = None THEN 0 ELSE 1) <= saves[s]
    BY DEF IInv, TypeOK, EntryUsedOnce
  <2>2. CASE s = state[f]
    <3>1. saves'[s] = saves[s] + 1
      BY <2>2 DEF IInv, TypeOK
    <3> QED
      BY <2>1, <3>1
  <2>3. CASE s # state[f]
    <3>1. saves'[s] = saves[s] /\ store'[s] = store[s]
      BY <2>3 DEF IInv, TypeOK
    <3> QED
      BY <2>1, <3>1
  <2> QED
    BY <2>2, <2>3
<1> QED
  BY <1>4, <1>5, <1>6, <1>7, <1>8, <1>9 DEF IInv

LEMMA CognitoLoginStep ==
    ASSUME IInv, NEW f \in Flows, CognitoLogin(f)
    PROVE  IInv'
<1> USE DEF CognitoLogin
<1>1. loads' \in [Flows -> [Pages -> 0..MaxLoads]] /\ Begun(f)
  BY LoadType DEF IInv, Pages
<1>2. /\ reached' \in [Flows -> SUBSET Pages]
      /\ \A g \in Flows \ {f} : reached'[g] = reached[g]
  BY SendToType DEF IInv, Pages
<1>3. TypeOK'
  BY <1>1, <1>2 DEF IInv, TypeOK
<1>4. BegunInv'
  BY <1>1, <1>2 DEF IInv, BegunInv, Begun
<1>5. StoreInv' /\ ServingInv' /\ RelayedInv'
  BY DEF IInv, StoreInv, ServingInv, RelayedInv, Begun, Redirect, IsTest
<1>6. DiagInv' /\ CompletedOnce'
  BY DEF IInv, DiagInv, CompletedOnce, IsTest
<1>7. EntryUsedOnce'
  BY DEF IInv, EntryUsedOnce
<1> QED
  BY <1>3, <1>4, <1>5, <1>6, <1>7 DEF IInv

LEMMA TryCallbackStep ==
    ASSUME IInv, NEW h \in Handlers, NEW f \in Flows, TryCallback(h, f)
    PROVE  IInv'
<1> USE DEF TryCallback
<1>1. loads' \in [Flows -> [Pages -> 0..MaxLoads]] /\ Begun(f)
  BY LoadType DEF IInv, Pages
<1>2. TypeOK'
  BY <1>1 DEF IInv, TypeOK
<1>3. BegunInv'
  BY DEF IInv, BegunInv, Begun
<1>4. StoreInv' /\ RelayedInv'
  BY DEF IInv, StoreInv, RelayedInv, Begun, Redirect, IsTest
<1>5. ServingInv'
  BY <1>1 DEF IInv, TypeOK, ServingInv, Begun
<1>6. DiagInv'
  BY DEF IInv, DiagInv, IsTest
<1>7. CompletedOnce'
  BY DEF IInv, TypeOK, DiagInv, CompletedOnce, IsTest
<1>8. EntryUsedOnce'
  BY DEF IInv, EntryUsedOnce
<1> QED
  BY <1>2, <1>3, <1>4, <1>5, <1>6, <1>7, <1>8 DEF IInv

LEMMA RelayStep ==
    ASSUME IInv, NEW h \in Handlers, Relay(h)
    PROVE  IInv'
<1> DEFINE f == serving[h]
           redirect == store[state[f]]
<1>1. f \in Flows /\ Begun(f) /\ state[f] \in States
  BY DEF IInv, TypeOK, ServingInv, BegunInv, Relay
<1>2. PICK g \in Flows : Begun(g) /\ state[g] = state[f] /\ redirect = Redirect(g)
  BY <1>1 DEF IInv, StoreInv, Relay
<1>3. /\ redirect # None
      /\ redirect \in Flows \cup {Self}
      /\ store' = [store EXCEPT ![state[f]] = None]
      /\ relayed' = relayed \cup {<<f, redirect>>}
      /\ relays' = [relays EXCEPT ![state[f]] = @ + 1]
      /\ serving' = [serving EXCEPT ![h] = None]
      /\ UNCHANGED <<kind, state, loads, diag, saves, completed, restarts>>
      /\ (IF redirect = Self THEN SendTo(f, "callback") ELSE UNCHANGED reached)
  BY <1>1, <1>2 DEF Relay, Redirect
<1> HIDE DEF f, redirect
<1>4. /\ reached' \in [Flows -> SUBSET Pages]
      /\ \A e \in Flows \ {f} : reached'[e] = reached[e]
  <2>1. CASE SendTo(f, "callback")
    BY <1>1, <2>1, SendToType DEF IInv, Pages
  <2>2. CASE UNCHANGED reached
    BY <2>2 DEF IInv, TypeOK
  <2> QED
    BY <1>3, <2>1, <2>2
<1>5. TypeOK'
  BY <1>1, <1>3, <1>4 DEF IInv, TypeOK
<1>6. BegunInv'
  BY <1>1, <1>3, <1>4 DEF IInv, BegunInv, Begun
<1>7. StoreInv'
  BY <1>1, <1>3 DEF IInv, TypeOK, StoreInv, Begun, Redirect, IsTest
<1>8. ServingInv'
  BY <1>3 DEF IInv, TypeOK, ServingInv, Begun
<1>9. RelayedInv'
  <2> SUFFICES ASSUME NEW e \in Flows, NEW d \in Flows \cup {Self}, <<e, d>> \in relayed'
               PROVE  /\ Begun(e)
                      /\ \E i \in Flows : Begun(i) /\ state[i] = state[e] /\ d = Redirect(i)
    BY <1>3 DEF RelayedInv, Begun, Redirect, IsTest
  <2>1. CASE <<e, d>> \in relayed
    BY <2>1 DEF IInv, RelayedInv
  <2>2. CASE e = f /\ d = redirect
    BY <1>1, <1>2, <2>2 DEF redirect
  <2> QED
    BY <1>3, <2>1, <2>2
<1>10. DiagInv' /\ CompletedOnce'
  BY <1>3 DEF IInv, DiagInv, CompletedOnce, IsTest
<1>11. EntryUsedOnce'
  <2> SUFFICES ASSUME NEW s \in States
               PROVE  relays'[s] + (IF store'[s] = None THEN 0 ELSE 1) <= saves[s]
    BY <1>3 DEF EntryUsedOnce
  <2>1. /\ relays[s] \in Nat /\ saves[s] \in Nat
        /\ relays[s] + (IF store[s] = None THEN 0 ELSE 1) <= saves[s]
    BY DEF IInv, TypeOK, EntryUsedOnce
  <2>2. CASE s = state[f]
    <3>1. relays'[s] = relays[s] + 1 /\ store'[s] = None /\ store[s] # None
      BY <1>3, <2>2 DEF IInv, TypeOK, redirect
    <3> QED
      BY <2>1, <3>1
  <2>3. CASE s # state[f]
    <3>1. relays'[s] = relays[s] /\ store'[s] = store[s]
      BY <1>3, <2>3 DEF IInv, TypeOK
    <3> QED
      BY <2>1, <3>1
  <2> QED
    BY <2>2, <2>3
<1> QED
  BY <1>5, <1>6, <1>7, <1>8, <1>9, <1>10, <1>11 DEF IInv

LEMMA UnknownStateStep ==
    ASSUME IInv, NEW h \in Handlers, UnknownState(h)
    PROVE  IInv'
<1> USE DEF UnknownState
<1>1. TypeOK' /\ ServingInv'
  BY DEF IInv, TypeOK, ServingInv, Begun
<1>2. BegunInv' /\ StoreInv' /\ RelayedInv'
  BY DEF IInv, BegunInv, StoreInv, RelayedInv, Begun, Redirect, IsTest
<1>3. DiagInv' /\ CompletedOnce' /\ EntryUsedOnce'
  BY DEF IInv, DiagInv, CompletedOnce, EntryUsedOnce, IsTest
<1> QED
  BY <1>1, <1>2, <1>3 DEF IInv

LEMMA RestartStep ==
    ASSUME IInv, Restart
    PROVE  IInv'
<1> USE DEF Restart
<1>1. restarts' \in 0..MaxRestarts
  BY BoundsAssumption DEF IInv, TypeOK
<1>2. TypeOK' /\ ServingInv' /\ StoreInv'
  BY <1>1 DEF IInv, TypeOK, ServingInv, StoreInv
<1>3. BegunInv' /\ RelayedInv'
  BY DEF IInv, BegunInv, RelayedInv, Begun, Redirect, IsTest
<1>4. DiagInv' /\ CompletedOnce'
  BY DEF IInv, DiagInv, CompletedOnce, IsTest
<1>5. EntryUsedOnce'
  <2> SUFFICES ASSUME NEW s \in States PROVE relays[s] + 0 <= saves[s]
    BY DEF EntryUsedOnce
  <2>1. /\ relays[s] \in Nat /\ saves[s] \in Nat
        /\ relays[s] + (IF store[s] = None THEN 0 ELSE 1) <= saves[s]
    BY DEF IInv, TypeOK, EntryUsedOnce
  <2> QED
    BY <2>1
<1> QED
  BY <1>2, <1>3, <1>4, <1>5 DEF IInv

LEMMA NextStep == IInv /\ [Next]_vars => IInv'
<1> SUFFICES ASSUME IInv, [Next]_vars PROVE IInv'
  OBVIOUS
<1>1. CASE \E f \in Flows, s \in States : ClientBegins(f, s)
  BY <1>1, ClientBeginsStep
<1>2. CASE \E f \in Flows, s \in States, viaProxy \in BOOLEAN : TestLogin(f, s, viaProxy)
  BY <1>2, TestLoginStep
<1>3. CASE \E f \in Flows : Authorize(f)
  BY <1>3, AuthorizeStep
<1>4. CASE \E f \in Flows : CognitoLogin(f)
  BY <1>4, CognitoLoginStep
<1>5. CASE \E f \in Flows, h \in Handlers : TryCallback(h, f)
  BY <1>5, TryCallbackStep
<1>6. CASE \E h \in Handlers : Relay(h)
  BY <1>6, RelayStep
<1>7. CASE \E h \in Handlers : UnknownState(h)
  BY <1>7, UnknownStateStep
<1>8. CASE Restart
  BY <1>8, RestartStep
<1>9. CASE UNCHANGED vars
  BY <1>9 DEF vars, IInv, TypeOK, BegunInv, StoreInv, ServingInv, RelayedInv,
              DiagInv, CompletedOnce, EntryUsedOnce, Begun, Redirect, IsTest
<1> QED
  BY <1>1, <1>2, <1>3, <1>4, <1>5, <1>6, <1>7, <1>8, <1>9 DEF Next

-----------------------------------------------------------------------------

(* The inductive invariant holds in every reachable state.                 *)
THEOREM Inductive == Spec => []IInv
  BY InitIInv, NextStep, PTL DEF Spec

(* The variables keep their types: no flow is served, stored or relayed    *)
(* that is not one.                                                        *)
THEOREM TypeCorrect == Spec => []TypeOK
<1>1. IInv => TypeOK
  BY DEF IInv
<1> QED
  BY <1>1, Inductive, PTL

(* However pages are reloaded, callbacks overlap and the process restarts, *)
(* a callback goes to a redirect_uri saved for its state, and a test       *)
(* login's never to a client with another state (relay.go:59-69).          *)
THEOREM Home == Spec => []RelayedHome
<1>1. IInv => RelayedHome
  BY DEF IInv, RelayedInv, RelayedHome
<1> QED
  BY <1>1, Inductive, PTL

(* A saved redirect_uri is taken at most once (relay.go:32-40).            *)
THEOREM UsedOnce == Spec => []EntryUsedOnce
<1>1. IInv => EntryUsedOnce
  BY DEF IInv
<1> QED
  BY <1>1, Inductive, PTL

(* A completed callback was a test login's, and its verifier is gone       *)
(* (diag.go:59-67).                                                        *)
THEOREM Completion == Spec => []CompletedOnce
<1>1. IInv => CompletedOnce
  BY DEF IInv
<1> QED
  BY <1>1, Inductive, PTL

=============================================================================
