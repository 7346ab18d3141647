-------------------------- MODULE OAuthLoginProofs --------------------------
(***************************************************************************)
(* Proofs about OAuthLogin, for any flows, handlers and bounds: in one     *)
(* process the two parts of a login each behave as their modules say, and  *)
(* the second attempt of a test login replays its first.                   *)
(***************************************************************************)
EXTENDS OAuthLogin, TLAPS

(* A step of the login is a step of the relay, or leaves it alone.         *)
LEMMA RelayStep == [Next]_vars => [Relay!Next]_(Relay!vars)
<1> SUFFICES ASSUME [Next]_vars PROVE [Relay!Next]_(Relay!vars)
  OBVIOUS
<1>1. CASE UNCHANGED vars
  BY <1>1 DEF vars, relayVars, Relay!vars
<1>2. ASSUME NEW f \in Flows, Browse(f)
      PROVE  Relay!Next
  <2>1. \/ Relay!ClientBegins(f, f)
        \/ \E viaProxy \in BOOLEAN : Relay!TestLogin(f, f, viaProxy)
        \/ Relay!Authorize(f) \/ Relay!CognitoLogin(f)
    BY <1>2 DEF Browse
  <2> QED
    BY <2>1 DEF Relay!Next
<1>3. ASSUME NEW h \in Handlers, NEW f \in Flows, Callback(h, f)
      PROVE  Relay!Next
  BY <1>3 DEF Callback, Relay!Next
<1>4. ASSUME NEW h \in Handlers, PassOn(h)
      PROVE  Relay!Next
  BY <1>4 DEF PassOn, Relay!Next
<1>5. CASE \/ \E f \in Flows : ClientRedeems(f) \/ Post(f) \/ PostReturns(f) \/ PostFails(f)
           \/ \E r \in Requests : Serve(r)
  <2>1. UNCHANGED <<relayVars, restarts>>
    BY <1>5 DEF ClientRedeems, Post, PostReturns, PostFails, Serve
  <2> QED
    BY <2>1 DEF relayVars, Relay!vars
<1>6. CASE Restart
  BY <1>6 DEF Restart, Relay!Next
<1> QED
  BY <1>1, <1>2, <1>3, <1>4, <1>5, <1>6 DEF Next

(* It is a step of the token proxy, or leaves that alone.                  *)
LEMMA TokenStep == [Next]_vars => [Token!Next]_(Token!vars)
<1> SUFFICES ASSUME [Next]_vars PROVE [Token!Next]_(Token!vars)
  OBVIOUS
<1> USE DEF tokenVars, Token!vars
<1>1. CASE UNCHANGED vars
  BY <1>1 DEF vars
<1>2. ASSUME NEW f \in Flows, Browse(f) \/ PostReturns(f)
      PROVE  UNCHANGED Token!vars
  BY <1>2 DEF Browse, PostReturns
<1>3. ASSUME NEW h \in Handlers, PassOn(h) \/ \E f \in Flows : Callback(h, f)
      PROVE  UNCHANGED Token!vars
  BY <1>3 DEF PassOn, Callback
<1>4. ASSUME NEW r \in Requests, NEW f \in Flows, Token!Arrive(r, f)
      PROVE  Token!Next
  BY <1>4 DEF Token!Next
<1>5. ASSUME NEW r \in Requests, Token!Disconnect(r)
      PROVE  Token!Next
  BY <1>5 DEF Token!Next
<1>6. ASSUME NEW f \in Flows, ClientRedeems(f) \/ Post(f)
      PROVE  Token!Next
  <2>1. PICK r \in Requests : Token!Arrive(r, f)
    BY <1>6 DEF ClientRedeems, Post, Requests
  <2> QED
    BY <2>1, <1>4
<1>7. ASSUME NEW f \in Flows, PostFails(f)
      PROVE  [Token!Next]_(Token!vars)
  <2>1. <<f, attempt[f]>> \in Requests
    BY <1>7 DEF PostFails, Requests
  <2>2. CASE UNCHANGED tokenVars
    BY <1>7, <2>2 DEF PostFails
  <2>3. CASE Token!Disconnect(<<f, attempt[f]>>)
    BY <2>1, <2>3, <1>5
  <2> QED
    BY <1>7, <2>2, <2>3 DEF PostFails
<1>8. ASSUME NEW r \in Requests, Serve(r)
      PROVE  Token!Next
  BY <1>8 DEF Serve, Token!Next
<1>9. CASE Restart
  BY <1>9 DEF Restart, Token!Next
<1> QED
  BY <1>1, <1>2, <1>3, <1>6, <1>7, <1>8, <1>9 DEF Next

(* Putting the handlers of a login in one process takes nothing from what  *)
(* RedirectRelay says of /authorize and /callback ...                      *)
THEOREM RelayInside == Spec => Relay!Spec
<1>1. Init => Relay!Init
  BY DEF Init
<1> QED
  BY <1>1, RelayStep, PTL DEF Spec, Relay!Spec

(* ... nor from what TokenProxy says of /token (main.go:71-73).            *)
THEOREM TokenInside == Spec => Token!Spec
<1>1. Init => Token!Init
  BY DEF Init
<1> QED
  BY <1>1, TokenStep, PTL DEF Spec, Token!Spec

-----------------------------------------------------------------------------
(* A code comes home when a client is given it, or a test page completes;  *)
(* only then is it redeemed.                                               *)
Came(f) == IF f \in Tests THEN f \in completed ELSE <<f, f>> \in relayed

(* The variables spoken of below are functions.                            *)
Shapes ==
    /\ kind = [f \in Flows |-> kind[f]]
    /\ state = [f \in Flows |-> state[f]]
    /\ reached = [f \in Flows |-> reached[f]]
    /\ store = [f \in Flows |-> store[f]]
    /\ attempt = [f \in Flows |-> attempt[f]]
    /\ serving \in [Handlers -> Flows \cup {None}]
    /\ pc = [r \in Requests |-> pc[r]]
    /\ code = [r \in Requests |-> code[r]]
    /\ answer = [r \in Requests |-> answer[r]]
    /\ cache = [f \in Flows |-> cache[f]]

(* A flow keeps to its own state, and whether a test login began it shows  *)
(* in all that is kept for it.                                             *)
FlowInv(f) ==
    /\ state[f] \in {f, None}
    /\ reached[f] # {} => state[f] = f /\ kind[f] \in {"client", "test", "direct"}
    /\ kind[f] = "client" => f \notin Tests
    /\ kind[f] \in {"test", "direct"} => f \in Tests
    /\ store[f] \in {f, Self, None}
    /\ store[f] = f => f \notin Tests
    /\ <<f, f>> \in relayed => f \notin Tests
    /\ attempt[f] \in {1, 2} => f \in Tests /\ f \in completed

RelayInv == diag \subseteq Tests /\ \A f \in Flows : FlowInv(f)

(* The browser whose callback is served had been sent there.               *)
ServingInv ==
    \A h \in Handlers : serving[h] # None => reached[serving[h]] # {}

(* A request carries the code of its own flow, which has come home; what   *)
(* is cached under a code came from a request with that code.              *)
TokenInv ==
    /\ \A r \in Requests :
          /\ pc[r] # "idle" => code[r] = r[1] /\ Came(r[1])
          /\ answer[r] # Token!NoResponse => answer[r].from[1] = r[1] /\ Came(r[1])
    /\ \A f \in Flows : cache[f] # Token!NoResponse => cache[f].from[1] = f

HomeInv == Shapes /\ RelayInv /\ ServingInv /\ TokenInv

(* It holds of the initial states.                                         *)
LEMMA InitHomeInv == Init => HomeInv
<1> SUFFICES ASSUME Init PROVE HomeInv
  OBVIOUS
<1> USE DEF Init, Relay!Init, Token!Init
<1>1. Shapes
  BY DEF Shapes
<1>2. RelayInv
  BY NamesAssumption DEF RelayInv, FlowInv
<1>3. ServingInv
  BY DEF ServingInv
<1>4. TokenInv
  BY DEF TokenInv
<1> QED
  BY <1>1, <1>2, <1>3, <1>4 DEF HomeInv

(* What has come home stays.                                               *)
LEMMA CameStays ==
    ASSUME [Next]_vars, NEW f \in Flows, Came(f)
    PROVE  Came(f)'
<1>1. completed \subseteq completed' /\ relayed \subseteq relayed'
  <2>1. CASE UNCHANGED <<completed, relayed>>
    BY <2>1
  <2>2. ASSUME NEW h \in Handlers, NEW g \in Flows, Callback(h, g)
        PROVE  completed \subseteq completed' /\ relayed \subseteq relayed'
    BY <2>2 DEF Callback, Relay!TryCallback
  <2>3. ASSUME NEW h \in Handlers, PassOn(h)
        PROVE  completed \subseteq completed' /\ relayed \subseteq relayed'
    BY <2>3 DEF PassOn, Relay!Relay, Relay!UnknownState
  <2>4. ASSUME NEW g \in Flows, Browse(g)
        PROVE  UNCHANGED <<completed, relayed>>
    BY <2>4 DEF Browse, Relay!ClientBegins, Relay!TestLogin, Relay!Authorize,
                Relay!CognitoLogin
  <2>5. CASE \E g \in Flows : ClientRedeems(g) \/ Post(g) \/ PostReturns(g) \/ PostFails(g)
    BY <2>1, <2>5 DEF ClientRedeems, Post, PostReturns, PostFails, relayVars
  <2>6. CASE \E r \in Requests : Serve(r)
    BY <2>1, <2>6 DEF Serve, relayVars
  <2>7. CASE Restart
    BY <2>1, <2>7 DEF Restart, Relay!Restart
  <2>8. CASE UNCHANGED vars
    BY <2>1, <2>8 DEF vars, relayVars
  <2> QED
    BY <2>1, <2>2, <2>3, <2>4, <2>5, <2>6, <2>7, <2>8 DEF Next
<1> QED
  BY <1>1 DEF Came

(* The relay keeps flows apart.                                            *)
LEMMA RelayInvStep ==
    ASSUME HomeInv, [Next]_vars
    PROVE  RelayInv'
<1> USE DEF HomeInv, RelayInv, Shapes
<1>1. CASE UNCHANGED <<relayVars, attempt>>
  BY <1>1 DEF relayVars, FlowInv
<1>2. ASSUME NEW f \in Flows, f \notin Tests, Relay!ClientBegins(f, f),
             UNCHANGED attempt
      PROVE  RelayInv'
  <2>1. FlowInv(f)'
    BY <1>2 DEF FlowInv, Relay!ClientBegins, Relay!SendTo
  <2>2. ASSUME NEW g \in Flows \ {f} PROVE FlowInv(g)'
    BY <1>2 DEF FlowInv, Relay!ClientBegins, Relay!SendTo
  <2> QED
    BY <1>2, <2>1, <2>2 DEF Relay!ClientBegins
<1>3. ASSUME NEW f \in Tests, NEW viaProxy \in BOOLEAN,
             Relay!TestLogin(f, f, viaProxy), UNCHANGED attempt
      PROVE  RelayInv'
  <2>1. FlowInv(f)'
    BY <1>3, TestsAssumption DEF FlowInv, Relay!TestLogin, Relay!SendTo
  <2>2. ASSUME NEW g \in Flows \ {f} PROVE FlowInv(g)'
    BY <1>3, TestsAssumption DEF FlowInv, Relay!TestLogin, Relay!SendTo
  <2> QED
    BY <1>3, <2>1, <2>2 DEF Relay!TestLogin
<1>4. ASSUME NEW f \in Flows, Relay!Authorize(f), UNCHANGED attempt
      PROVE  RelayInv'
  <2>1. reached[f] # {} /\ FlowInv(f)
    BY <1>4 DEF Relay!Authorize, Relay!Load
  <2>2. store'[f] = (IF f \in Tests THEN Self ELSE f)
    BY <1>4, <2>1 DEF FlowInv, Relay!Authorize, Relay!Redirect, Relay!IsTest
  <2>3. FlowInv(f)'
    BY <1>4, <2>1, <2>2, NamesAssumption
       DEF FlowInv, Relay!Authorize, Relay!SendTo
  <2>4. ASSUME NEW g \in Flows \ {f} PROVE FlowInv(g)'
    BY <1>4, <2>1 DEF FlowInv, Relay!Authorize, Relay!SendTo
  <2> QED
    BY <1>4, <2>3, <2>4 DEF Relay!Authorize
<1>5. ASSUME NEW f \in Flows, Relay!CognitoLogin(f), UNCHANGED attempt
      PROVE  RelayInv'
  <2>1. reached[f] # {}
    BY <1>5 DEF Relay!CognitoLogin, Relay!Load
  <2>2. ASSUME NEW g \in Flows PROVE FlowInv(g)'
    BY <1>5, <2>1 DEF FlowInv, Relay!CognitoLogin, Relay!SendTo
  <2> QED
    BY <1>5, <2>2 DEF Relay!CognitoLogin
<1>6. ASSUME NEW f \in Flows, Browse(f)
      PROVE  RelayInv'
  BY <1>2, <1>3, <1>4, <1>5, <1>6 DEF Browse
<1>7. ASSUME NEW h \in Handlers, NEW f \in Flows, Callback(h, f)
      PROVE  RelayInv'
  <2>1. diag' \subseteq Tests /\ UNCHANGED <<kind, state, reached, store, relayed>>
    BY <1>7 DEF Callback, Relay!TryCallback
  <2>2. CASE state[f] \in diag /\ completed' = completed \cup {f}
    <3>1. f \in Tests
      BY <2>2, NamesAssumption, TestsAssumption DEF FlowInv
    <3>2. ASSUME NEW g \in Flows PROVE FlowInv(g)'
      BY <1>7, <2>1, <2>2, <3>1 DEF Callback, FlowInv
    <3> QED
      BY <2>1, <3>2
  <2>3. CASE UNCHANGED completed
    <3>1. UNCHANGED attempt
      BY <1>7, <2>3 DEF Callback
    <3> QED
      BY <2>1, <2>3, <3>1 DEF FlowInv
  <2> QED
    BY <1>7, <2>2, <2>3 DEF Callback, Relay!TryCallback
<1>8. ASSUME NEW h \in Handlers, PassOn(h)
      PROVE  RelayInv'
  <2>1. CASE Relay!UnknownState(h)
    BY <1>8, <2>1 DEF PassOn, Relay!UnknownState, FlowInv
  <2>2. CASE Relay!Relay(h)
    <3>1. PICK f \in Flows : f = serving[h] /\ reached[f] # {} /\ FlowInv(f)
      BY <2>2 DEF ServingInv, Relay!Relay
    <3>2. PICK redirect \in {f, Self} :
             /\ redirect = f => f \notin Tests
             /\ store' = [store EXCEPT ![f] = None]
             /\ relayed' = relayed \cup {<<f, redirect>>}
             /\ \/ reached' = [reached EXCEPT ![f] = @ \cup {"callback"}]
                \/ UNCHANGED reached
             /\ UNCHANGED <<kind, state, diag, completed, attempt>>
      BY <1>8, <2>2, <3>1 DEF FlowInv, PassOn, Relay!Relay, Relay!SendTo
    <3>3. FlowInv(f)'
      BY <3>1, <3>2, NamesAssumption DEF FlowInv
    <3>4. ASSUME NEW g \in Flows \ {f} PROVE FlowInv(g)'
      BY <3>2 DEF FlowInv
    <3> QED
      BY <3>2, <3>3, <3>4
  <2> QED
    BY <1>8, <2>1, <2>2 DEF PassOn
<1>9. ASSUME NEW f \in Flows, PostReturns(f) \/ PostFails(f)
      PROVE  RelayInv'
  <2>1. UNCHANGED relayVars /\ attempt' = [attempt EXCEPT ![f] = @ + 1]
        /\ attempt[f] \in {1, 2}
    BY <1>9 DEF PostReturns, PostFails
  <2> QED
    BY <2>1 DEF FlowInv, relayVars
<1>10. CASE Restart
  BY <1>10, NamesAssumption DEF Restart, Relay!Restart, FlowInv
<1>11. CASE \/ \E f \in Flows : ClientRedeems(f) \/ Post(f)
            \/ \E r \in Requests : Serve(r)
  BY <1>1, <1>11 DEF ClientRedeems, Post, Serve
<1> QED
  BY <1>1, <1>6, <1>7, <1>8, <1>9, <1>10, <1>11 DEF Next, vars

(* A callback is only served for a browser that was sent to it.            *)
LEMMA ServingInvStep ==
    ASSUME HomeInv, [Next]_vars
    PROVE  ServingInv'
<1> USE DEF HomeInv, ServingInv, Shapes
<1>1. CASE UNCHANGED relayVars
  BY <1>1 DEF relayVars
<1>2. ASSUME NEW f \in Flows, Browse(f)
      PROVE  ServingInv'
  <2>1. UNCHANGED serving /\ \A g \in Flows : reached[g] \subseteq reached'[g]
    BY <1>2 DEF Browse, Relay!ClientBegins, Relay!TestLogin, Relay!Authorize,
                Relay!CognitoLogin, Relay!SendTo
  <2> QED
    BY <2>1
<1>3. ASSUME NEW h \in Handlers, NEW f \in Flows, Callback(h, f)
      PROVE  ServingInv'
  <2>1. /\ reached[f] # {} /\ UNCHANGED reached
        /\ serving' \in {serving, [serving EXCEPT ![h] = f]}
    BY <1>3 DEF Callback, Relay!TryCallback, Relay!Load
  <2> QED
    BY <2>1
<1>4. ASSUME NEW h \in Handlers, PassOn(h)
      PROVE  ServingInv'
  <2>1. /\ \A g \in Flows : reached[g] \subseteq reached'[g]
        /\ serving' = [serving EXCEPT ![h] = None]
    <3>1. CASE Relay!UnknownState(h)
      BY <3>1 DEF Relay!UnknownState
    <3>2. CASE Relay!Relay(h)
      <4>1. \/ reached' = [reached EXCEPT ![serving[h]] = @ \cup {"callback"}]
            \/ UNCHANGED reached
        BY <3>2 DEF Relay!Relay, Relay!SendTo
      <4>2. serving' = [serving EXCEPT ![h] = None]
        BY <3>2 DEF Relay!Relay
      <4> QED
        BY <4>1, <4>2
    <3> QED
      BY <1>4, <3>1, <3>2 DEF PassOn
  <2> QED
    BY <2>1
<1>5. CASE Restart
  BY <1>5 DEF Restart, Relay!Restart
<1>6. CASE \/ \E f \in Flows : ClientRedeems(f) \/ Post(f) \/ PostReturns(f) \/ PostFails(f)
           \/ \E r \in Requests : Serve(r)
  BY <1>1, <1>6 DEF ClientRedeems, Post, PostReturns, PostFails, Serve
<1> QED
  BY <1>1, <1>2, <1>3, <1>4, <1>5, <1>6 DEF Next, vars

(* A step that answers r, or nobody, and caches nothing, or what r got.    *)
Serves(r) ==
    /\ pc[r] # "idle"
    /\ \A s \in Requests \ {r} : pc'[s] = pc[s] /\ answer'[s] = answer[s]
    /\ UNCHANGED code
    /\ \/ answer'[r] = answer[r]
       \/ answer'[r].from = r
       \/ answer'[r] = cache[code[r]] /\ cache[code[r]] # Token!NoResponse
    /\ \A f \in Flows : \/ cache'[f] = cache[f]
                        \/ f = code[r] /\ cache'[f].from = r

(* That is what the handler of /token does at every step of its own.       *)
LEMMA HandlerServes ==
    ASSUME HomeInv, NEW r \in Requests, Token!Handler(r)
    PROVE  Serves(r)
<1> USE DEF HomeInv, Shapes, Serves, Token!Finish
<1>1. ASSUME NEW status, NEW whole \in BOOLEAN
      PROVE  Token!Respond(status, r, whole).from = r
  BY DEF Token!Respond
<1>2. CASE Token!Lock(r) \/ Token!Forward(r) \/ Token!ReplyBegins(r)
  BY <1>2 DEF Token!Lock, Token!Forward, Token!ReplyBegins
<1>3. CASE Token!Replay(r)
  BY <1>3 DEF Token!Replay, Token!Cached
<1>4. CASE Token!ForwardCancelled(r) \/ Token!ExchangeFails(r)
  BY <1>4 DEF Token!ForwardCancelled, Token!ExchangeFails, Token!Respond
<1>5. ASSUME NEW whole \in BOOLEAN, Token!ReplyEnds(r, whole)
      PROVE  Serves(r)
  BY <1>1, <1>5 DEF Token!ReplyEnds
<1> QED
  BY <1>2, <1>3, <1>4, <1>5 DEF Token!Handler

(* What it answers or caches belongs to the flow of r.                     *)
LEMMA ServesHome ==
    ASSUME HomeInv, NEW r \in Requests, Serves(r),
           \A f \in Flows : Came(f) => Came(f)'
    PROVE  TokenInv'
<1>1. code[r] = r[1] /\ r[1] \in Flows /\ Came(r[1])
  BY DEF HomeInv, TokenInv, Serves, Requests
<1>2. \A f \in Flows : cache'[f] # Token!NoResponse => cache'[f].from[1] = f
  BY <1>1 DEF HomeInv, TokenInv, Serves
<1>3. answer'[r] # Token!NoResponse => answer'[r].from[1] = r[1]
  BY <1>1 DEF HomeInv, TokenInv, Serves
<1>4. \A s \in Requests : s[1] \in Flows
  BY DEF Requests
<1> QED
  BY <1>1, <1>2, <1>3, <1>4 DEF HomeInv, TokenInv, Serves

(* A request arrives with the code of its flow once that has come home.    *)
LEMMA ArrivesHome ==
    ASSUME HomeInv, NEW r \in Requests, NEW f \in Flows, Token!Arrive(r, f),
           r[1] = f, Came(f), \A g \in Flows : Came(g) => Came(g)'
    PROVE  TokenInv'
<1>1. ASSUME NEW s \in Requests \ {r}
      PROVE  pc'[s] = pc[s] /\ code'[s] = code[s]
  BY DEF HomeInv, Shapes, Token!Arrive
<1>2. code'[r] = f
  BY DEF HomeInv, Shapes, Token!Arrive
<1>3. \A s \in Requests : s[1] \in Flows
  BY DEF Requests
<1> QED
  BY <1>1, <1>2, <1>3 DEF HomeInv, TokenInv, Token!Arrive

(* Every step keeps what is said of requests and of the cache ...          *)
LEMMA TokenInvStep ==
    ASSUME HomeInv, [Next]_vars
    PROVE  TokenInv'
<1>1. \A f \in Flows : Came(f) => Came(f)'
  BY CameStays
<1>2. \A r \in Requests : r[1] \in Flows
  BY DEF Requests
<1>3. CASE UNCHANGED <<pc, code, answer, cache>>
  BY <1>1, <1>2, <1>3 DEF HomeInv, TokenInv
<1>4. CASE UNCHANGED tokenVars
  BY <1>3, <1>4 DEF tokenVars
<1>5. ASSUME NEW f \in Flows, ClientRedeems(f) \/ Post(f)
      PROVE  TokenInv'
  <2>1. PICK i \in {1, 2} : Token!Arrive(<<f, i>>, f)
    BY <1>5 DEF ClientRedeems, Post
  <2>2. Came(f)
    BY <1>5 DEF HomeInv, RelayInv, FlowInv, Came, ClientRedeems, Post
  <2> QED
    BY <1>1, <2>1, <2>2, ArrivesHome DEF Requests
<1>6. ASSUME NEW f \in Flows, Browse(f) \/ PostReturns(f) \/ PostFails(f)
      PROVE  TokenInv'
  BY <1>3, <1>4, <1>6 DEF Browse, PostReturns, PostFails, Token!Disconnect
<1>7. ASSUME NEW h \in Handlers, PassOn(h) \/ \E f \in Flows : Callback(h, f)
      PROVE  TokenInv'
  BY <1>4, <1>7 DEF PassOn, Callback
<1>8. ASSUME NEW r \in Requests, Serve(r)
      PROVE  TokenInv'
  <2>1. CASE Token!Handler(r)
    BY <1>1, <2>1, HandlerServes, ServesHome
  <2>2. CASE Token!Cognito(r) \/ Token!Disconnect(r)
    BY <1>3, <2>2 DEF Token!Cognito, Token!CognitoGrants, Token!CognitoRefuses,
                      Token!Disconnect
  <2> QED
    BY <1>8, <2>1, <2>2 DEF Serve
<1>9. CASE Restart
  <2>1. \A r \in Requests : pc'[r] # "idle" => pc[r] # "idle"
    BY <1>9 DEF Restart, Token!Restart, Token!Holding
  <2>2. \A f \in Flows : cache'[f] = Token!NoResponse
    BY <1>9 DEF Restart, Token!Restart
  <2>3. UNCHANGED <<code, answer>>
    BY <1>9 DEF Restart, Token!Restart
  <2> QED
    BY <1>1, <1>2, <2>1, <2>2, <2>3 DEF HomeInv, TokenInv
<1> QED
  BY <1>4, <1>5, <1>6, <1>7, <1>8, <1>9 DEF Next, vars

(* ... and the functions functions.                                        *)
LEMMA ShapesStep ==
    ASSUME Shapes, [Next]_vars
    PROVE  Shapes'
<1> USE DEF Shapes
<1>1. CASE UNCHANGED vars
  BY <1>1 DEF vars, relayVars, tokenVars
<1>2. CASE Restart
  BY <1>2 DEF Restart, Relay!Restart, Token!Restart
<1>3. ASSUME NEW f \in Flows, Browse(f)
      PROVE  Shapes'
  BY <1>3 DEF Browse, tokenVars, Relay!ClientBegins, Relay!TestLogin,
              Relay!Authorize, Relay!CognitoLogin, Relay!SendTo
<1>4. ASSUME NEW h \in Handlers, NEW f \in Flows, Callback(h, f)
      PROVE  Shapes'
  BY <1>4 DEF Callback, Relay!TryCallback, tokenVars
<1>5. ASSUME NEW h \in Handlers, PassOn(h)
      PROVE  Shapes'
  <2>1. CASE Relay!UnknownState(h)
    BY <1>5, <2>1 DEF PassOn, Relay!UnknownState, tokenVars
  <2>2. CASE Relay!Relay(h)
    <3>1. reached' = [f \in Flows |-> reached'[f]]
      BY <2>2 DEF Relay!Relay, Relay!SendTo
    <3>2. /\ store' = [f \in Flows |-> store'[f]]
          /\ serving' \in [Handlers -> Flows \cup {None}]
          /\ UNCHANGED <<kind, state>>
      BY <2>2 DEF Relay!Relay
    <3> QED
      BY <1>5, <3>1, <3>2 DEF PassOn, tokenVars
  <2> QED
    BY <1>5, <2>1, <2>2 DEF PassOn
<1>6. ASSUME NEW f \in Flows, NEW r \in Requests, Token!Arrive(r, f),
             UNCHANGED <<relayVars, attempt>>
      PROVE  Shapes'
  BY <1>6 DEF Token!Arrive, relayVars
<1>7. ASSUME NEW f \in Flows, ClientRedeems(f) \/ Post(f)
      PROVE  Shapes'
  BY <1>6, <1>7 DEF ClientRedeems, Post, Requests
<1>8. ASSUME NEW f \in Flows, PostReturns(f) \/ PostFails(f)
      PROVE  Shapes'
  BY <1>8 DEF PostReturns, PostFails, Token!Disconnect, relayVars, tokenVars
<1>9. ASSUME NEW r \in Requests, Serve(r)
      PROVE  Shapes'
  <2>1. UNCHANGED <<kind, state, reached, store, attempt, serving>>
    BY <1>9 DEF Serve, relayVars
  <2>2. CASE Token!Cognito(r) \/ Token!Disconnect(r)
    BY <2>1, <2>2 DEF Token!Cognito, Token!CognitoGrants, Token!CognitoRefuses,
                      Token!Disconnect
  <2>3. CASE Token!Handler(r)
    BY <2>1, <2>3 DEF Token!Handler, Token!Lock, Token!Replay, Token!Forward,
                      Token!ForwardCancelled, Token!ExchangeFails,
                      Token!ReplyBegins, Token!ReplyEnds, Token!Finish
  <2> QED
    BY <1>9, <2>2, <2>3 DEF Serve
<1> QED
  BY <1>1, <1>2, <1>3, <1>4, <1>5, <1>7, <1>8, <1>9 DEF Next

(* And keeps holding.                                                     *)
LEMMA HomeInvStep == HomeInv /\ [Next]_vars => HomeInv'
BY ShapesStep, RelayInvStep, ServingInvStep, TokenInvStep DEF HomeInv

-----------------------------------------------------------------------------
(* The second attempt of a test login replays the first.                   *)

Replied == {"ok", "invalid_grant", "error"}

(* What the token proxy keeps to itself: a request is with Cognito only    *)
(* from Forward on, what is answered and cached is what Cognito replied,   *)
(* and a code is refused as spent only after it was granted.               *)
WireInv(r) ==
    /\ pc[r] \in {"idle", "waiting", "locked"} => wire[r] = "none"
    /\ pc[r] = "reading" => wire[r] \in Replied
    /\ wire[r] = "invalid_grant" => code[r] \in spent

AnswerInv(r) ==
    /\ pc[r] # "answered" => answer[r] = Token!NoResponse
    /\ pc[r] = "answered" =>
          \/ answer[r].status \in {"ok", "bad_gateway"}
          \/ answer[r].status = wire[r] /\ wire[r] \in Replied
          \/ answer[r].status = "bad_request" /\ wire[r] = "none"

ProxyInv ==
    /\ Token!TypeOK
    /\ \A r \in Requests : WireInv(r) /\ AnswerInv(r)
    /\ \A f \in Flows : cache[f] # Token!NoResponse => cache[f].status = "ok"
    /\ \A f \in spent : \E r \in Requests : code[r] = f /\ wire[r] = "ok"

(* The handler of a test login gets to its second attempt when it is done  *)
(* with the first, for good: a login is completed once.                    *)
TurnInv(f) ==
    /\ attempt[f] # 0 \/ pc[<<f, 2>>] # "idle" => f \in completed
    /\ attempt[f] = 1 => pc[<<f, 2>>] = "idle"
    /\ attempt[f] \in {2, 3} \/ pc[<<f, 2>>] # "idle" =>
          <<f, 1>> \in gone \/ pc[<<f, 1>>] \in {"idle", "answered"}

(* Tokens the first attempt was given are kept for the second, and found.  *)
KeptInv(f) ==
    <<f, 1>> \notin gone /\ answer[<<f, 1>>].status = "ok" =>
        /\ \/ attempt[f] \in {1, 2}
           \/ pc[<<f, 2>>] \in {"waiting"} \cup Token!Holding
           => /\ cache[f] = answer[<<f, 1>>]
              /\ pc[<<f, 2>>] \notin {"exchanging", "reading"}
        /\ pc[<<f, 2>>] = "answered" => answer[<<f, 2>>] = answer[<<f, 1>>]

AttemptInv ==
    /\ attempt \in [Flows -> 0..3]
    /\ \A f \in Tests : TurnInv(f) /\ KeptInv(f)

LoginInv ==
    /\ HomeInv
    /\ Relay!TypeOK
    /\ ProxyInv
    /\ AttemptInv

(* Nothing is sent, cached or redeemed at the beginning.                   *)
LEMMA InitLoginInv == Init => ProxyInv /\ AttemptInv
<1> SUFFICES ASSUME Init PROVE ProxyInv /\ AttemptInv
  OBVIOUS
<1> USE DEF Init, Token!Init
<1>1. Token!TypeOK
  BY BoundsAssumption DEF Token!TypeOK
<1>2. \A r \in Requests : WireInv(r) /\ AnswerInv(r)
  BY DEF WireInv, AnswerInv
<1>3. ProxyInv
  BY <1>1, <1>2 DEF ProxyInv
<1>4. AttemptInv
  BY TestsAssumption DEF AttemptInv, TurnInv, KeptInv, Token!NoResponse, Requests
<1> QED
  BY <1>3, <1>4

(* A response written has the status it was written with.                  *)
LEMMA RespondType ==
    ASSUME NEW status \in Token!Statuses, NEW r \in Requests, NEW whole \in BOOLEAN
    PROVE  /\ Token!Respond(status, r, whole) \in Token!Response
           /\ Token!Respond(status, r, whole).status = status
BY DEF Token!Respond, Token!Response

(* A step that leaves every other request alone and has r in order keeps   *)
(* the proxy in order, if it takes back no grant and caches only successes.*)
LEMMA ProxyStep ==
    ASSUME ProxyInv, NEW r \in Requests, Token!TypeOK',
           \A s \in Requests \ {r} :
               /\ pc'[s] = pc[s] /\ code'[s] = code[s]
               /\ wire'[s] = wire[s] /\ answer'[s] = answer[s],
           WireInv(r)', AnswerInv(r)',
           wire[r] = "ok" => wire'[r] = "ok" /\ code'[r] = code[r],
           spent \subseteq spent',
           \A f \in spent' \ spent : code'[r] = f /\ wire'[r] = "ok",
           \A f \in Flows : cache'[f] # cache[f] => cache'[f].status = "ok"
    PROVE  ProxyInv'
<1>1. ASSUME NEW s \in Requests
      PROVE  WireInv(s)' /\ AnswerInv(s)'
  <2>1. CASE s = r
    BY <2>1
  <2>2. CASE s # r
    BY <2>2 DEF ProxyInv, WireInv, AnswerInv
  <2> QED
    BY <2>1, <2>2
<1>2. \A f \in Flows : cache'[f] # Token!NoResponse => cache'[f].status = "ok"
  BY DEF ProxyInv
<1>3. ASSUME NEW f \in spent'
      PROVE  \E s \in Requests : code'[s] = f /\ wire'[s] = "ok"
  <2>1. CASE f \in spent
    <3>1. PICK s \in Requests : code[s] = f /\ wire[s] = "ok"
      BY <2>1 DEF ProxyInv
    <3>2. code'[s] = f /\ wire'[s] = "ok"
      BY <3>1
    <3> QED
      BY <3>2
  <2>2. CASE f \notin spent
    BY <2>2
  <2> QED
    BY <2>1, <2>2
<1> QED
  BY <1>1, <1>2, <1>3 DEF ProxyInv

(* So does every step of a handler of /token ...                           *)
LEMMA HandlerStep ==
    ASSUME ProxyInv, NEW r \in Requests, Token!Handler(r)
    PROVE  ProxyInv'
<1> USE DEF ProxyInv, Token!Holding, Token!Final
<1>0. WireInv(r) /\ AnswerInv(r)
  OBVIOUS
<1>1. CASE Token!Lock(r)
  <2>1. Token!TypeOK'
    BY <1>1 DEF Token!Lock, Token!TypeOK
  <2>2. WireInv(r)' /\ AnswerInv(r)'
    BY <1>0, <1>1 DEF Token!Lock, Token!TypeOK, WireInv, AnswerInv
  <2> QED
    BY <1>1, <2>1, <2>2, ProxyStep DEF Token!Lock, Token!TypeOK
<1>2. CASE Token!Forward(r)
  <2>1. Token!TypeOK'
    BY <1>2 DEF Token!Forward, Token!TypeOK
  <2>2. WireInv(r)' /\ AnswerInv(r)'
    BY <1>0, <1>2 DEF Token!Forward, Token!TypeOK, WireInv, AnswerInv
  <2>3. wire[r] = "none"
    BY <1>0, <1>2 DEF Token!Forward, WireInv
  <2> QED
    BY <1>2, <2>1, <2>2, <2>3, ProxyStep DEF Token!Forward, Token!TypeOK
<1>3. CASE Token!ReplyBegins(r)
  <2>1. Token!TypeOK'
    BY <1>3 DEF Token!ReplyBegins, Token!TypeOK
  <2>2. WireInv(r)' /\ AnswerInv(r)'
    BY <1>0, <1>3 DEF Token!ReplyBegins, Token!TypeOK, WireInv, AnswerInv, Replied
  <2> QED
    BY <1>3, <2>1, <2>2, ProxyStep DEF Token!ReplyBegins, Token!TypeOK
<1>4. ASSUME NEW response \in Token!Response \cup {Token!NoResponse},
             pc[r] \in {"locked", "exchanging", "reading"},
             Token!Finish(r, response),
             \/ response.status \in {"ok", "bad_gateway"}
             \/ response.status = wire[r] /\ wire[r] \in Replied,
             \A f \in Flows : cache'[f] # cache[f] => cache'[f].status = "ok",
             cache' \in [Flows -> Token!Response \cup {Token!NoResponse}],
             UNCHANGED <<code, gone, wire, spent, restarts>>
      PROVE  ProxyInv'
  <2>1. Token!TypeOK'
    BY <1>4 DEF Token!Finish, Token!TypeOK
  <2>2. WireInv(r)' /\ AnswerInv(r)'
    BY <1>0, <1>4 DEF Token!Finish, Token!TypeOK, WireInv, AnswerInv
  <2> QED
    BY <1>4, <2>1, <2>2, ProxyStep DEF Token!Finish, Token!TypeOK
<1>5. CASE Token!Replay(r)
  <2>1. code[r] \in Flows /\ cache[code[r]].status = "ok"
    BY <1>5 DEF Token!Replay, Token!Cached
  <2>2. /\ cache[code[r]] \in Token!Response \cup {Token!NoResponse}
        /\ cache \in [Flows -> Token!Response \cup {Token!NoResponse}]
    BY <2>1 DEF Token!TypeOK
  <2> QED
    BY <1>4, <1>5, <2>1, <2>2 DEF Token!Replay
<1>6. CASE Token!ForwardCancelled(r) \/ Token!ExchangeFails(r)
  <2>1. PICK response : response = Token!Respond("bad_gateway", r, TRUE)
    OBVIOUS
  <2>2. response \in Token!Response /\ response.status = "bad_gateway"
    BY <2>1, RespondType DEF Token!Statuses
  <2>3. cache \in [Flows -> Token!Response \cup {Token!NoResponse}]
    BY DEF Token!TypeOK
  <2> QED
    BY <1>4, <1>6, <2>1, <2>2, <2>3 DEF Token!ForwardCancelled, Token!ExchangeFails
<1>7. ASSUME NEW whole \in BOOLEAN, Token!ReplyEnds(r, whole)
      PROVE  ProxyInv'
  <2>1. PICK response : response = Token!Respond(wire[r], r, whole)
    OBVIOUS
  <2>2. /\ wire[r] \in Replied
        /\ response \in Token!Response /\ response.status = wire[r]
    BY <1>0, <1>7, <2>1, RespondType DEF Token!ReplyEnds, WireInv, Replied, Token!Statuses
  <2>3. /\ pc[r] = "reading" /\ Token!Finish(r, response)
        /\ cache' = IF code[r] \in Flows /\ wire[r] = "ok"
                    THEN [cache EXCEPT ![code[r]] = response] ELSE cache
        /\ UNCHANGED <<code, gone, wire, spent, restarts>>
    BY <1>7, <2>1 DEF Token!ReplyEnds
  <2>4. /\ cache' \in [Flows -> Token!Response \cup {Token!NoResponse}]
        /\ \A f \in Flows : cache'[f] # cache[f] => cache'[f].status = "ok"
    BY <2>2, <2>3 DEF Token!TypeOK
  <2> QED
    BY <1>4, <2>2, <2>3, <2>4
<1> QED
  BY <1>1, <1>2, <1>3, <1>5, <1>6, <1>7 DEF Token!Handler

(* ... and every other step.                                               *)
LEMMA ProxyInvStep ==
    ASSUME ProxyInv, [Next]_vars
    PROVE  ProxyInv'
<1> USE DEF ProxyInv, Token!Holding, Token!Final
<1>1. CASE UNCHANGED Token!vars
  BY <1>1 DEF Token!vars, Token!TypeOK, WireInv, AnswerInv
<1>2. ASSUME NEW r \in Requests, NEW c \in Flows \cup {NoCode}, Token!Arrive(r, c)
      PROVE  ProxyInv'
  <2>1. Token!TypeOK'
    BY <1>2 DEF Token!Arrive, Token!TypeOK
  <2>2. wire[r] = "none"
    BY <1>2 DEF Token!Arrive, WireInv
  <2>3. WireInv(r)' /\ AnswerInv(r)'
    BY <1>2, <2>2 DEF Token!Arrive, Token!TypeOK, WireInv, AnswerInv
  <2> QED
    BY <1>2, <2>1, <2>2, <2>3, ProxyStep DEF Token!Arrive, Token!TypeOK
<1>3. ASSUME NEW r \in Requests, Token!BodyUnreadable(r)
      PROVE  ProxyInv'
  <2>1. PICK response : response = Token!Respond("bad_request", r, TRUE)
    OBVIOUS
  <2>2. response \in Token!Response /\ response.status = "bad_request"
    BY <2>1, RespondType DEF Token!Statuses
  <2>3. Token!TypeOK'
    BY <1>3, <2>1, <2>2 DEF Token!BodyUnreadable, Token!TypeOK
  <2>4. pc'[r] = "answered" /\ answer'[r] = response /\ wire'[r] = "none"
    BY <1>3, <2>1 DEF Token!BodyUnreadable, Token!TypeOK, WireInv
  <2>5. WireInv(r)' /\ AnswerInv(r)'
    BY <2>2, <2>4 DEF WireInv, AnswerInv
  <2> QED
    BY <1>3, <2>3, <2>5, ProxyStep DEF Token!BodyUnreadable, Token!TypeOK
<1>4. ASSUME NEW r \in Requests, Token!CognitoGrants(r)
      PROVE  ProxyInv'
  <2>1. Token!TypeOK'
    BY <1>4 DEF Token!CognitoGrants, Token!TypeOK
  <2>2. WireInv(r)' /\ AnswerInv(r)'
    BY <1>4 DEF Token!CognitoGrants, Token!TypeOK, WireInv, AnswerInv, Replied
  <2> QED
    BY <1>4, <2>1, <2>2, ProxyStep DEF Token!CognitoGrants, Token!TypeOK
<1>5. ASSUME NEW r \in Requests, Token!CognitoRefuses(r)
      PROVE  ProxyInv'
  <2>1. Token!TypeOK'
    BY <1>5 DEF Token!CognitoRefuses, Token!TypeOK
  <2>2. WireInv(r)' /\ AnswerInv(r)'
    BY <1>5 DEF Token!CognitoRefuses, Token!TypeOK, WireInv, AnswerInv, Replied
  <2> QED
    BY <1>5, <2>1, <2>2, ProxyStep DEF Token!CognitoRefuses, Token!TypeOK
<1>6. ASSUME NEW r \in Requests, Token!Disconnect(r)
      PROVE  ProxyInv'
  BY <1>6 DEF Token!Disconnect, Token!TypeOK, WireInv, AnswerInv
<1>7. CASE Token!Restart
  <2>1. Token!TypeOK'
    BY <1>7, BoundsAssumption DEF Token!Restart, Token!TypeOK
  <2>2. ASSUME NEW r \in Requests PROVE WireInv(r)' /\ AnswerInv(r)'
    BY <1>7 DEF Token!Restart, Token!TypeOK, WireInv, AnswerInv
  <2> QED
    BY <1>7, <2>1, <2>2 DEF Token!Restart
<1> QED
  BY <1>1, <1>2, <1>3, <1>4, <1>5, <1>6, <1>7, TokenStep, HandlerStep
     DEF Token!Next, Token!Cognito, Token!Idle

(* The page of a test login is completed once, and only then is its code   *)
(* redeemed; nobody else redeems it.                                       *)
LEMMA TestFacts ==
    ASSUME HomeInv, ProxyInv, AttemptInv, NEW f \in Tests
    PROVE  /\ f \in Flows /\ <<f, 1>> \in Requests /\ <<f, 2>> \in Requests
           /\ <<f, f>> \notin relayed
           /\ f \notin completed =>
                 /\ pc[<<f, 1>>] = "idle" /\ pc[<<f, 2>>] = "idle"
                 /\ answer[<<f, 1>>] = Token!NoResponse
                 /\ attempt[f] = 0
<1>1. f \in Flows /\ <<f, 1>> \in Requests /\ <<f, 2>> \in Requests
  BY TestsAssumption DEF Requests
<1>2. <<f, f>> \notin relayed
  BY <1>1 DEF HomeInv, RelayInv, FlowInv
<1>3. pc[<<f, 1>>] # "idle" => f \in completed
  BY <1>1 DEF HomeInv, TokenInv, Came
<1>4. AnswerInv(<<f, 1>>)
  BY <1>1 DEF ProxyInv
<1> QED
  BY <1>1, <1>2, <1>3, <1>4 DEF AttemptInv, TurnInv, AnswerInv

(* A step that leaves the requests of a test login alone, and its turn.    *)
LEMMA AttemptKept ==
    ASSUME AttemptInv, NEW f \in Tests,
           UNCHANGED <<pc[<<f, 1>>], pc[<<f, 2>>], answer[<<f, 1>>], answer[<<f, 2>>]>>,
           attempt'[f] = attempt[f],
           answer[<<f, 1>>].status = "ok" => cache'[f] = cache[f],
           completed \subseteq completed', gone \subseteq gone'
    PROVE  TurnInv(f)' /\ KeptInv(f)'
BY DEF AttemptInv, TurnInv, KeptInv, Token!Holding

(* A handler answers with tokens that are cached when it is done.          *)
LEMMA TokensAreCached ==
    ASSUME HomeInv, ProxyInv, NEW r \in Requests, Token!Handler(r)
    PROVE  /\ pc[r] \in {"waiting"} \cup Token!Holding
           /\ answer[r] = Token!NoResponse
           /\ answer'[r].status = "ok" => cache'[r[1]] = answer'[r]
<1> USE DEF Token!Finish, Token!Holding
<1>1. pc[r] \in {"waiting"} \cup Token!Holding
  BY DEF Token!Handler, Token!Lock, Token!Replay, Token!Forward, Token!ForwardCancelled,
         Token!ExchangeFails, Token!ReplyBegins, Token!ReplyEnds
<1>2. answer[r] = Token!NoResponse /\ code[r] = r[1] /\ r[1] \in Flows
  BY <1>1 DEF ProxyInv, AnswerInv, HomeInv, TokenInv, Requests
<1>3. r \in DOMAIN answer /\ r[1] \in DOMAIN cache
  BY <1>2 DEF ProxyInv, Token!TypeOK
<1>4. CASE Token!Lock(r) \/ Token!Forward(r) \/ Token!ReplyBegins(r)
  BY <1>1, <1>2, <1>4 DEF Token!Lock, Token!Forward, Token!ReplyBegins, Token!NoResponse
<1>5. CASE Token!Replay(r)
  BY <1>1, <1>2, <1>3, <1>5 DEF Token!Replay
<1>6. CASE Token!ForwardCancelled(r) \/ Token!ExchangeFails(r)
  BY <1>1, <1>2, <1>3, <1>6 DEF Token!ForwardCancelled, Token!ExchangeFails, Token!Respond
<1>7. ASSUME NEW whole \in BOOLEAN, Token!ReplyEnds(r, whole)
      PROVE  answer'[r].status = "ok" => cache'[r[1]] = answer'[r]
  BY <1>1, <1>2, <1>3, <1>7 DEF Token!ReplyEnds, Token!Respond
<1> QED
  BY <1>1, <1>2, <1>4, <1>5, <1>6, <1>7 DEF Token!Handler

(* A handler that finds a response cached can only wait or replay it.      *)
LEMMA CachedIsReplayed ==
    ASSUME HomeInv, ProxyInv, NEW r \in Requests, Token!Handler(r),
           cache[r[1]] # Token!NoResponse, pc[r] \notin {"exchanging", "reading"}
    PROVE  /\ UNCHANGED cache
           /\ \/ pc'[r] = "locked"
              \/ pc'[r] = "answered" /\ answer'[r] = cache[r[1]]
<1>1. pc[r] # "idle"
  BY TokensAreCached DEF Token!Holding
<1>2. Token!Cached(r) /\ code[r] = r[1]
  BY <1>1 DEF Token!Cached, HomeInv, TokenInv, Requests
<1>3. Token!Lock(r) \/ Token!Replay(r)
  BY <1>2 DEF Token!Handler, Token!Forward, Token!ForwardCancelled,
              Token!ExchangeFails, Token!ReplyBegins, Token!ReplyEnds
<1> QED
  BY <1>2, <1>3 DEF Token!Lock, Token!Replay, Token!Finish, ProxyInv, Token!TypeOK

(* So the handler of /token keeps the turns and the tokens.                *)
LEMMA AttemptServed ==
    ASSUME HomeInv, ProxyInv, AttemptInv, NEW r \in Requests, Token!Handler(r),
           UNCHANGED <<relayVars, attempt>>, NEW f \in Tests
    PROVE  TurnInv(f)' /\ KeptInv(f)'
<1>1. f \in Flows /\ <<f, 1>> \in Requests /\ <<f, 2>> \in Requests
  BY TestFacts
<1>2. TurnInv(f) /\ KeptInv(f)
  BY DEF AttemptInv
<1>3. Serves(r)
  BY HandlerServes
<1>4. UNCHANGED <<completed, attempt>>
  BY DEF relayVars
<1>5. UNCHANGED gone
  BY DEF Token!Handler, Token!Lock, Token!Replay, Token!Forward, Token!ForwardCancelled,
         Token!ExchangeFails, Token!ReplyBegins, Token!ReplyEnds
<1>6. CASE r = <<f, 1>>
  <2>1. /\ pc[r] \notin {"idle", "answered"}
        /\ answer'[r].status = "ok" => cache'[f] = answer'[r]
    BY <1>6, TokensAreCached DEF Token!Holding
  <2>2. pc'[<<f, 2>>] = pc[<<f, 2>>]
    BY <1>1, <1>3, <1>6 DEF Serves
  <2>3. attempt[f] \in {2, 3} \/ pc[<<f, 2>>] # "idle" => r \in gone
    BY <1>2, <1>6, <2>1 DEF TurnInv
  <2>4. TurnInv(f)'
    BY <1>2, <1>4, <1>5, <1>6, <2>2, <2>3 DEF TurnInv
  <2>5. KeptInv(f)'
    BY <1>4, <1>5, <1>6, <2>1, <2>2, <2>3 DEF KeptInv, Token!Holding
  <2> QED
    BY <2>4, <2>5
<1>7. CASE r = <<f, 2>>
  <2>1. pc[r] \in {"waiting"} \cup Token!Holding
    BY TokensAreCached
  <2>2. pc'[<<f, 1>>] = pc[<<f, 1>>] /\ answer'[<<f, 1>>] = answer[<<f, 1>>]
    BY <1>1, <1>3, <1>7 DEF Serves
  <2>3. TurnInv(f)'
    BY <1>2, <1>4, <1>5, <1>7, <2>1, <2>2 DEF TurnInv, Token!Holding
  <2>4. CASE <<f, 1>> \notin gone /\ answer[<<f, 1>>].status = "ok"
    <3>1. cache[f] = answer[<<f, 1>>] /\ pc[r] \notin {"exchanging", "reading"}
      BY <1>2, <1>7, <2>1, <2>4 DEF KeptInv
    <3>2. cache[f] # Token!NoResponse
      BY <2>4, <3>1 DEF Token!NoResponse
    <3>3. /\ UNCHANGED cache
          /\ \/ pc'[r] = "locked"
             \/ pc'[r] = "answered" /\ answer'[r] = cache[f]
      BY <1>7, <3>1, <3>2, CachedIsReplayed
    <3> QED
      BY <1>7, <2>2, <2>3, <3>1, <3>3 DEF KeptInv
  <2> QED
    BY <1>5, <2>2, <2>3, <2>4 DEF KeptInv
<1>8. CASE r \notin {<<f, 1>>, <<f, 2>>}
  <2>1. r[1] # f
    BY <1>8 DEF Requests
  <2>2. cache'[f] = cache[f]
    BY <1>1, <1>3, <2>1 DEF Serves, HomeInv, TokenInv
  <2>3. UNCHANGED <<pc[<<f, 1>>], pc[<<f, 2>>], answer[<<f, 1>>], answer[<<f, 2>>]>>
    BY <1>1, <1>3, <1>8 DEF Serves
  <2> QED
    BY <1>4, <1>5, <2>2, <2>3, AttemptKept
<1> QED
  BY <1>6, <1>7, <1>8

(* The handler of a test login takes its turns one after the other, and    *)
(* no other step lets it go back.                                          *)
LEMMA AttemptInvStep ==
    ASSUME HomeInv, ProxyInv, AttemptInv, [Next]_vars
    PROVE  AttemptInv'
<1>0. attempt \in [Flows -> 0..3]
  BY DEF AttemptInv
<1>1. attempt' \in [Flows -> 0..3]
  <2>1. CASE UNCHANGED attempt
    BY <1>0, <2>1
  <2>2. ASSUME NEW h \in Handlers, NEW f \in Flows, Callback(h, f)
        PROVE  attempt' \in [Flows -> 0..3]
    BY <1>0, <2>2 DEF Callback
  <2>3. ASSUME NEW f \in Flows, PostReturns(f) \/ PostFails(f)
        PROVE  attempt' \in [Flows -> 0..3]
    BY <1>0, <2>3 DEF PostReturns, PostFails
  <2>4. CASE Restart
    BY <2>4 DEF Restart
  <2> QED
    BY <2>1, <2>2, <2>3, <2>4
       DEF Next, Browse, PassOn, ClientRedeems, Post, Serve, vars
<1> SUFFICES ASSUME NEW f \in Tests
             PROVE  TurnInv(f)' /\ KeptInv(f)'
  BY <1>1 DEF AttemptInv
<1>2. /\ f \in Flows /\ <<f, 1>> \in Requests /\ <<f, 2>> \in Requests
      /\ <<f, f>> \notin relayed
      /\ TurnInv(f) /\ KeptInv(f)
  BY TestFacts DEF AttemptInv
<1>3. CASE UNCHANGED <<tokenVars, attempt, completed>>
  BY <1>3, AttemptKept DEF tokenVars
<1>4. ASSUME NEW g \in Flows, Browse(g)
      PROVE  TurnInv(f)' /\ KeptInv(f)'
  BY <1>3, <1>4 DEF Browse, Relay!ClientBegins, Relay!TestLogin, Relay!Authorize,
                    Relay!CognitoLogin
<1>5. ASSUME NEW h \in Handlers, PassOn(h)
      PROVE  TurnInv(f)' /\ KeptInv(f)'
  BY <1>3, <1>5 DEF PassOn, Relay!Relay, Relay!UnknownState
<1>6. ASSUME NEW h \in Handlers, NEW g \in Flows, Callback(h, g)
      PROVE  TurnInv(f)' /\ KeptInv(f)'
  <2>1. /\ UNCHANGED tokenVars /\ completed \subseteq completed'
        /\ completed' \subseteq completed \cup {g}
    BY <1>6 DEF Callback, Relay!TryCallback
  <2>2. CASE f \in completed' \ completed
    <3>1. f \notin completed /\ f \in completed' /\ f = g
      BY <2>1, <2>2
    <3>2. attempt'[f] \in {1, 3}
      BY <1>0, <1>2, <1>6, <2>2, <3>1 DEF Callback
    <3>3. /\ pc[<<f, 1>>] = "idle" /\ pc[<<f, 2>>] = "idle"
          /\ answer[<<f, 1>>] = Token!NoResponse
      BY <3>1, TestFacts
    <3> QED
      BY <2>1, <3>1, <3>2, <3>3 DEF TurnInv, KeptInv, tokenVars, Token!NoResponse
  <2>3. CASE f \notin completed' \ completed
    <3>1. attempt'[f] = attempt[f]
      BY <1>0, <1>2, <1>6, <2>3 DEF Callback
    <3> QED
      BY <2>1, <3>1, AttemptKept DEF tokenVars
  <2> QED
    BY <2>2, <2>3
<1>7. ASSUME NEW g \in Flows, ClientRedeems(g)
      PROVE  TurnInv(f)' /\ KeptInv(f)'
  <2>1. g # f /\ Token!Arrive(<<g, 1>>, g) /\ UNCHANGED <<relayVars, attempt>>
    BY <1>2, <1>7 DEF ClientRedeems
  <2>2. UNCHANGED <<pc[<<f, 1>>], pc[<<f, 2>>], cache, answer, gone, completed>>
    BY <1>2, <2>1 DEF Token!Arrive, relayVars, ProxyInv, Token!TypeOK
  <2> QED
    BY <2>1, <2>2, AttemptKept
<1>8. ASSUME NEW g \in Flows, Post(g)
      PROVE  TurnInv(f)' /\ KeptInv(f)'
  <2>1. PICK i \in {1, 2} : /\ i = attempt[g] /\ pc[<<g, i>>] = "idle"
                            /\ pc' = [pc EXCEPT ![<<g, i>>] = "waiting"]
                            /\ UNCHANGED <<cache, answer, gone, completed, attempt>>
    BY <1>8 DEF Post, Token!Arrive, relayVars
  <2>2. pc = [r \in Requests |-> pc[r]]
    BY DEF HomeInv, Shapes
  <2>3. CASE g # f
    <3>1. UNCHANGED <<pc[<<f, 1>>], pc[<<f, 2>>]>>
      BY <1>2, <2>1, <2>2, <2>3
    <3> QED
      BY <2>1, <3>1, AttemptKept
  <2>4. CASE g = f /\ i = 1
    <3>1. pc'[<<f, 1>>] = "waiting" /\ pc'[<<f, 2>>] = pc[<<f, 2>>]
      BY <1>2, <2>1, <2>2, <2>4
    <3>2. answer[<<f, 1>>] = Token!NoResponse
      BY <1>2, <2>1, <2>4 DEF ProxyInv, AnswerInv
    <3> QED
      BY <1>2, <2>1, <2>4, <3>1, <3>2 DEF TurnInv, KeptInv, Token!NoResponse
  <2>5. CASE g = f /\ i = 2
    <3>1. pc'[<<f, 2>>] = "waiting" /\ pc'[<<f, 1>>] = pc[<<f, 1>>]
      BY <1>2, <2>1, <2>2, <2>5
    <3> QED
      BY <1>2, <2>1, <2>5, <3>1 DEF TurnInv, KeptInv
  <2> QED
    BY <2>1, <2>3, <2>4, <2>5
<1>9. ASSUME NEW g \in Flows, PostReturns(g) \/ PostFails(g)
      PROVE  TurnInv(f)' /\ KeptInv(f)'
  <2>1. /\ attempt[g] \in {1, 2} /\ attempt' = [attempt EXCEPT ![g] = @ + 1]
        /\ UNCHANGED <<completed, pc, cache, answer>>
        /\ gone \subseteq gone'
        /\ \/ pc[<<g, attempt[g]>>] \in {"idle", "answered"}
           \/ <<g, attempt[g]>> \in gone'
    BY <1>9 DEF PostReturns, PostFails, Token!Disconnect, relayVars, tokenVars
  <2>2. CASE g # f
    <3>1. attempt'[f] = attempt[f]
      BY <1>0, <1>2, <2>1, <2>2
    <3> QED
      BY <2>1, <3>1, AttemptKept
  <2>3. CASE g = f /\ attempt[f] = 1
    <3>1. attempt'[f] = 2
      BY <1>0, <1>2, <2>1, <2>3
    <3> QED
      BY <1>2, <2>1, <2>3, <3>1 DEF TurnInv, KeptInv
  <2>4. CASE g = f /\ attempt[f] = 2
    <3>1. attempt'[f] = 3
      BY <1>0, <1>2, <2>1, <2>4
    <3> QED
      BY <1>2, <2>1, <2>4, <3>1 DEF TurnInv, KeptInv
  <2> QED
    BY <2>1, <2>2, <2>3, <2>4
<1>10. ASSUME NEW r \in Requests, Serve(r)
       PROVE  TurnInv(f)' /\ KeptInv(f)'
  <2>1. CASE Token!Handler(r)
    BY <1>10, <2>1, AttemptServed DEF Serve
  <2>2. CASE Token!Cognito(r) \/ Token!Disconnect(r)
    <3>1. UNCHANGED <<pc, cache, answer, completed, attempt>> /\ gone \subseteq gone'
      BY <1>10, <2>2 DEF Serve, Token!Cognito, Token!CognitoGrants, Token!CognitoRefuses,
                         Token!Disconnect, relayVars
    <3> QED
      BY <3>1, AttemptKept
  <2> QED
    BY <1>10, <2>1, <2>2 DEF Serve
<1>11. CASE Restart
  <2>1. UNCHANGED <<completed, gone, answer>>
    BY <1>11 DEF Restart, Relay!Restart, Token!Restart
  <2>2. attempt'[f] \in {0, 3} /\ (attempt'[f] = 3 => attempt[f] = 3)
    BY <1>2, <1>11 DEF Restart
  <2>3. \A i \in {1, 2} :
          /\ pc'[<<f, i>>] \notin {"waiting"} \cup Token!Holding
          /\ pc'[<<f, i>>] # pc[<<f, i>>] =>
                pc[<<f, i>>] \notin {"idle", "answered"} /\ pc'[<<f, i>>] = "dropped"
    BY <1>2, <1>11 DEF Restart, Token!Restart, Token!Holding
  <2> QED
    BY <1>2, <2>1, <2>2, <2>3 DEF TurnInv, KeptInv
<1>12. CASE UNCHANGED vars
  BY <1>3, <1>12 DEF vars, relayVars
<1> QED
  BY <1>4, <1>5, <1>6, <1>7, <1>8, <1>9, <1>10, <1>11, <1>12 DEF Next

(* The relay keeps its types: browsers are sent to pages, and what is      *)
(* saved and relayed are redirects.                                        *)
LEMMA RelayTypeStep ==
    ASSUME HomeInv, Relay!TypeOK, [Next]_vars
    PROVE  Relay!TypeOK'
<1> USE DEF Relay!TypeOK, Relay!Pages
<1>1. ASSUME NEW f \in Flows, NEW p \in Relay!Pages, Relay!Load(f, p)
      PROVE  loads' \in [Flows -> [Relay!Pages -> 0..MaxLoads]]
  <2>1. loads[f][p] + 1 \in 0..MaxLoads
    BY <1>1, BoundsAssumption DEF Relay!Load
  <2>2. loads' = [loads EXCEPT ![f] = [loads[f] EXCEPT ![p] = loads[f][p] + 1]]
    BY <1>1 DEF Relay!Load
  <2> QED
    BY <2>1, <2>2
<1>2. ASSUME NEW f \in Flows, NEW p \in Relay!Pages, Relay!SendTo(f, p)
      PROVE  reached' \in [Flows -> SUBSET Relay!Pages]
  BY <1>2 DEF Relay!SendTo
<1>3. ASSUME NEW f \in Flows, reached[f] # {}
      PROVE  state[f] = f
  BY <1>3 DEF HomeInv, RelayInv, FlowInv
<1>4. CASE UNCHANGED Relay!vars
  BY <1>4 DEF Relay!vars
<1>5. ASSUME NEW f \in Flows, NEW s \in Flows, Relay!ClientBegins(f, s)
      PROVE  Relay!TypeOK'
  BY <1>2, <1>5 DEF Relay!ClientBegins
<1>6. ASSUME NEW f \in Flows, NEW s \in Flows, NEW viaProxy \in BOOLEAN,
             Relay!TestLogin(f, s, viaProxy)
      PROVE  Relay!TypeOK'
  <2>1. reached' \in [Flows -> SUBSET Relay!Pages]
    BY <1>2, <1>6 DEF Relay!TestLogin
  <2> QED
    BY <1>6, <2>1 DEF Relay!TestLogin
<1>7. ASSUME NEW f \in Flows, Relay!Authorize(f)
      PROVE  Relay!TypeOK'
  <2>1. state[f] = f
    BY <1>3, <1>7 DEF Relay!Authorize, Relay!Load
  <2>2. /\ reached' \in [Flows -> SUBSET Relay!Pages]
        /\ loads' \in [Flows -> [Relay!Pages -> 0..MaxLoads]]
    BY <1>1, <1>2, <1>7 DEF Relay!Authorize
  <2>3. PICK redirect \in Flows \cup {Self} : redirect = Relay!Redirect(f)
    BY DEF Relay!Redirect
  <2>4. /\ store' = [store EXCEPT ![f] = redirect]
        /\ saves' = [saves EXCEPT ![f] = @ + 1]
        /\ UNCHANGED <<kind, state, diag, serving, relayed, relays, completed, restarts>>
    BY <1>7, <2>1, <2>3 DEF Relay!Authorize
  <2> QED
    BY <2>2, <2>4
<1>8. ASSUME NEW f \in Flows, Relay!CognitoLogin(f)
      PROVE  Relay!TypeOK'
  BY <1>1, <1>2, <1>8 DEF Relay!CognitoLogin
<1>9. ASSUME NEW h \in Handlers, NEW f \in Flows, Relay!TryCallback(h, f)
      PROVE  Relay!TypeOK'
  <2>1. loads' \in [Flows -> [Relay!Pages -> 0..MaxLoads]]
    BY <1>1, <1>9 DEF Relay!TryCallback
  <2> QED
    BY <1>9, <2>1 DEF Relay!TryCallback
<1>10. ASSUME NEW h \in Handlers, Relay!Relay(h)
       PROVE  Relay!TypeOK'
  <2>1. PICK f \in Flows : f = serving[h] /\ state[f] = f
    BY <1>3, <1>10 DEF Relay!Relay, HomeInv, ServingInv
  <2>2. PICK redirect \in Flows \cup {Self} : redirect = store[f]
    BY <1>10, <2>1 DEF Relay!Relay
  <2>3. reached' \in [Flows -> SUBSET Relay!Pages]
    BY <1>2, <1>10, <2>1 DEF Relay!Relay
  <2>4. /\ store' = [store EXCEPT ![f] = None]
        /\ relayed' = relayed \cup {<<f, redirect>>}
        /\ relays' = [relays EXCEPT ![f] = @ + 1]
        /\ serving' = [serving EXCEPT ![h] = None]
        /\ UNCHANGED <<kind, state, loads, diag, saves, completed, restarts>>
    BY <1>10, <2>1, <2>2 DEF Relay!Relay
  <2> QED
    BY <2>3, <2>4
<1>11. ASSUME NEW h \in Handlers, Relay!UnknownState(h)
       PROVE  Relay!TypeOK'
  BY <1>11 DEF Relay!UnknownState
<1>12. CASE Relay!Restart
  BY <1>12, BoundsAssumption DEF Relay!Restart
<1> QED
  BY <1>4, <1>5, <1>6, <1>7, <1>8, <1>9, <1>10, <1>11, <1>12, RelayStep DEF Relay!Next

(* The inductive invariant holds in every reachable state.                 *)
THEOREM Inductive == Spec => []LoginInv
<1>1. Init => LoginInv
  <2>1. ASSUME Init PROVE Relay!TypeOK
    BY <2>1, BoundsAssumption DEF Init, Relay!Init, Relay!TypeOK, Relay!Pages
  <2> QED
    BY <2>1, InitHomeInv, InitLoginInv DEF LoginInv
<1>2. LoginInv /\ [Next]_vars => LoginInv'
  BY HomeInvStep, RelayTypeStep, ProxyInvStep, AttemptInvStep DEF LoginInv
<1> QED
  BY <1>1, <1>2, PTL DEF Spec

(* What the handlers of a login keep, in memory and on the wire, is of its *)
(* type, in one process as in two.                                         *)
THEOREM TypeCorrect == Spec => []TypeOK
<1>1. LoginInv => TypeOK
  BY DEF LoginInv, ProxyInv, AttemptInv, TypeOK
<1> QED
  BY <1>1, Inductive, PTL

(* Of two attempts of a test login the second is given what the first was, *)
(* unless that broke off (diag.go:121-124, token.go:63-110).               *)
THEOREM Replays == Spec => []SecondAttemptReplays
<1>1. LoginInv => SecondAttemptReplays
  <2> SUFFICES ASSUME HomeInv, ProxyInv, AttemptInv,
                      NEW f \in Tests, pc[<<f, 2>>] = "answered",
                      <<f, 1>> \notin gone
               PROVE  /\ answer[<<f, 1>>].status = "ok" =>
                            answer[<<f, 2>>] = answer[<<f, 1>>]
                      /\ answer[<<f, 2>>].status = "invalid_grant" =>
                            answer[<<f, 1>>].status = "bad_gateway"
    BY TestsAssumption DEF LoginInv, SecondAttemptReplays
  <2>1. f \in Flows /\ <<f, 1>> \in Requests /\ <<f, 2>> \in Requests
    BY TestFacts
  <2>2. answer[<<f, 1>>].status = "ok" => answer[<<f, 2>>] = answer[<<f, 1>>]
    BY DEF AttemptInv, KeptInv
  <2>3. ASSUME answer[<<f, 2>>].status = "invalid_grant"
        PROVE  answer[<<f, 1>>].status = "bad_gateway"
    <3>1. wire[<<f, 2>>] = "invalid_grant" /\ code[<<f, 2>>] \in spent
      BY <2>1, <2>3 DEF ProxyInv, WireInv, AnswerInv
    <3>2. PICK r \in Requests : code[r] = code[<<f, 2>>] /\ wire[r] = "ok"
      BY <3>1 DEF ProxyInv
    <3>3. pc[r] # "idle"
      BY <3>2 DEF ProxyInv, WireInv
    <3>4. r[1] = f
      BY <2>1, <3>2, <3>3 DEF HomeInv, TokenInv
    <3>5. r = <<f, 1>>
      BY <3>1, <3>2, <3>4 DEF Requests
    <3>6. pc[r] = "answered"
      BY <3>3, <3>5 DEF AttemptInv, TurnInv
    <3> QED
      BY <2>2, <2>3, <3>2, <3>5, <3>6 DEF ProxyInv, AnswerInv
  <2> QED
    BY <2>2, <2>3
<1> QED
  BY <1>1, Inductive, PTL

=============================================================================
