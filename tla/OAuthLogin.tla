------------------------------ MODULE OAuthLogin ------------------------------
(***************************************************************************)
(* The whole login: RedirectRelay and TokenProxy in one process, as        *)
(* cmd/reisearch-http/main.go puts them together.  The code of a login is  *)
(* relayed to its client, which redeems it at /token; or the /callback     *)
(* handler of a test login redeems it itself, twice, with requests to the  *)
(* same process, while its browser waits for the page (TryCallback,        *)
(* internal/oauth/diag.go).                                                *)
(*                                                                         *)
(* The state and the code of a login are named by its flow, and so are the *)
(* two requests that redeem the code.  Clients are taken to draw states of *)
(* their own; RedirectRelay checks what happens if they do not.            *)
(***************************************************************************)
EXTENDS Naturals

CONSTANTS
    Flows, Handlers, Self, None, MaxLoads, MaxRestarts,   \* as in RedirectRelay
    NoCode,                                               \* as in TokenProxy
    Tests           \* the flows that begin at /testlogin, not at a client

ASSUME TestsAssumption == Tests \subseteq Flows
ASSUME NamesAssumption == Self \notin Flows /\ None \notin Flows \cup {Self}
ASSUME BoundsAssumption == MaxLoads \in Nat \ {0} /\ MaxRestarts \in Nat

VARIABLES
    kind, state, reached, loads, store, diag, serving, relayed, saves, relays, completed,
    pc, code, gone, mu, cache, answer, wire, spent,
    restarts,
    attempt     \* the redemption each test login's handler is at: 1 or 2; 3
                \* when its page is complete, 0 if it has none

relayVars == <<kind, state, reached, loads, store, diag, serving, relayed,
               saves, relays, completed>>
tokenVars == <<pc, code, gone, mu, cache, answer, wire, spent>>
vars == <<relayVars, tokenVars, restarts, attempt>>

Requests == Flows \X {1, 2}

ASSUME ProxyAssumption == NoCode \notin Flows /\ None \notin Requests

Relay == INSTANCE RedirectRelay WITH States <- Flows
Token == INSTANCE TokenProxy WITH Codes <- Flows

TypeOK ==
    /\ Relay!TypeOK
    /\ Token!TypeOK
    /\ attempt \in [Flows -> 0..3]

Init ==
    /\ Relay!Init
    /\ Token!Init
    /\ attempt = [f \in Flows |-> 0]

-----------------------------------------------------------------------------

(* A page or a callback that has nothing to do with tokens.                *)
Browse(f) ==
    /\ \/ f \notin Tests /\ Relay!ClientBegins(f, f)
       \/ f \in Tests /\ \E viaProxy \in BOOLEAN : Relay!TestLogin(f, f, viaProxy)
       \/ Relay!Authorize(f)
       \/ Relay!CognitoLogin(f)
    /\ UNCHANGED <<tokenVars, attempt, restarts>>

(* /callback: a test login's handler goes on to redeem the code, unless    *)
(* Cognito reports an error in its place.                                  *)
Callback(h, f) ==
    /\ Relay!TryCallback(h, f)
    /\ \/ /\ f \in completed' \ completed
          /\ \E next \in {1, 3} : attempt' = [attempt EXCEPT ![f] = next]
       \/ /\ f \notin completed' \ completed
          /\ UNCHANGED attempt
    /\ UNCHANGED <<tokenVars, restarts>>

PassOn(h) ==
    /\ Relay!Relay(h) \/ Relay!UnknownState(h)
    /\ UNCHANGED <<tokenVars, attempt, restarts>>

(* A client that was given its code redeems it.                            *)
ClientRedeems(f) ==
    /\ <<f, f>> \in relayed
    /\ Token!Arrive(<<f, 1>>, f)
    /\ UNCHANGED <<relayVars, attempt, restarts>>

(* Faulty variant: both requests are posted at once.                       *)
PostWithoutWaiting(f) ==
    /\ attempt[f] \in {1, 2}
    /\ Token!Arrive(<<f, attempt[f]>>, f)
    /\ attempt' = [attempt EXCEPT ![f] = @ + 1]
    /\ UNCHANGED <<relayVars, restarts>>

(* http.Post, through our own /token.                                      *)
Post(f) ==
    /\ attempt[f] \in {1, 2}
    /\ Token!Arrive(<<f, attempt[f]>>, f)
    /\ UNCHANGED <<relayVars, attempt, restarts>>

(* It returns the response.                                                *)
PostReturns(f) ==
    /\ attempt[f] \in {1, 2}
    /\ pc[<<f, attempt[f]>>] = "answered"
    /\ attempt' = [attempt EXCEPT ![f] = @ + 1]
    /\ UNCHANGED <<relayVars, tokenVars, restarts>>

(* It returns an error, before or after /token was reached.                *)
PostFails(f) ==
    /\ attempt[f] \in {1, 2}
    /\ \/ pc[<<f, attempt[f]>>] = "idle" /\ UNCHANGED tokenVars
       \/ Token!Disconnect(<<f, attempt[f]>>)
    /\ attempt' = [attempt EXCEPT ![f] = @ + 1]
    /\ UNCHANGED <<relayVars, restarts>>

(* A step of the handler of /token, of Cognito or of an impatient client.  *)
Serve(r) ==
    /\ \/ Token!Handler(r)
       \/ Token!Cognito(r)
       \/ r[1] \notin Tests /\ Token!Disconnect(r)
    /\ UNCHANGED <<relayVars, attempt, restarts>>

(* One process: what it keeps and what it serves is lost together.         *)
Restart ==
    /\ Relay!Restart
    /\ Token!Restart
    /\ attempt' = [f \in Flows |-> IF attempt[f] = 3 THEN 3 ELSE 0]

Next ==
    \/ \E f \in Flows : Browse(f) \/ ClientRedeems(f) \/ Post(f) \/ PostReturns(f) \/ PostFails(f)
    \/ \E h \in Handlers, f \in Flows : Callback(h, f)
    \/ \E h \in Handlers : PassOn(h)
    \/ \E r \in Requests : Serve(r)
    \/ Restart

Spec == Init /\ [][Next]_vars

(* Fairness: as in the two modules; a client redeems the code it is given  *)
(* and the handler of a test login goes on.                                *)
Follows(f) ==
    \/ loads[f]["authorize"] = 0 /\ Relay!Authorize(f) /\ Browse(f)
    \/ loads[f]["cognito"] = 0 /\ Relay!CognitoLogin(f) /\ Browse(f)
    \/ loads[f]["callback"] = 0 /\ \E h \in Handlers : Callback(h, f)

FairSpec ==
    /\ Spec
    /\ \A f \in Flows : /\ WF_vars(Follows(f))
                        /\ WF_vars(ClientRedeems(f))
                        /\ WF_vars(Post(f))
                        /\ WF_vars(PostReturns(f))
    /\ \A h \in Handlers : WF_vars(PassOn(h))
    /\ \A r \in Requests : /\ WF_vars(Token!Lock(r) /\ Serve(r))
                           /\ WF_vars(Token!Progress(r) /\ Serve(r))
                           /\ WF_vars(Token!Cognito(r) /\ Serve(r))

-----------------------------------------------------------------------------
(* Properties *)

(* "attempt #2 should replay attempt #1 rather than fail with              *)
(* invalid_grant" (diag.go:121-124): it does, whoever else is being        *)
(* served, unless attempt #1 broke off without a response of Cognito.      *)
SecondAttemptReplays ==
    \A f \in Flows :
        LET first == answer[<<f, 1>>] second == answer[<<f, 2>>] IN
        f \in Tests /\ pc[<<f, 2>>] = "answered" =>
            /\ first.status = "ok" => second = first \/ <<f, 1>> \in gone
            /\ second.status = "invalid_grant" => <<f, 1>> \in gone \/ first.status = "bad_gateway"

(* Again and again nobody waits for the mutex of /token or holds it: the   *)
(* waiting ends, for whoever still waits and whoever left, if Cognito      *)
(* answers (token.go:63).                                                  *)
EveryRequestEnds ==
    []<>(\A r \in Requests : pc[r] \in {"idle"} \cup Token!Final)

(* A login ends, unless the process restarts: its client has an answer     *)
(* from /token, or its test page is complete.  The handler of a test login *)
(* waits for requests to its own process, which wait for one mutex.        *)
LoginEnds ==
    \A f \in Flows :
        kind[f] # "new" ~>
            \/ restarts > 0
            \/ IF f \in Tests THEN attempt[f] = 3
               ELSE pc[<<f, 1>>] \in {"answered", "dropped"}

=============================================================================
