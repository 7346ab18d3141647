--------------------------- MODULE RedirectRelay ---------------------------
(***************************************************************************)
(* The way of a login through the server: /testlogin, /authorize and       *)
(* /callback of internal/oauth/{diag,authorize,relay}.go.                  *)
(*                                                                         *)
(* A flow is one login round trip, begun by an MCP client or by a          *)
(* developer at /testlogin.  Its browser is sent from page to page and may *)
(* load again any page it has reached; every load is a request of its own, *)
(* served by its own goroutine.  Two maps, each under its own mutex, hold  *)
(* what the callback needs: RedirectStore.m (state -> redirect_uri of the  *)
(* client) and DiagFlows.flows (the states of test logins).  A callback    *)
(* looks at the second, then, in another critical section, at the first.   *)
(*                                                                         *)
(* A flow of a client stands for its own redirect_uri.  The code and the   *)
(* other query parameters travel with the flow and are not modelled.       *)
(***************************************************************************)
EXTENDS Naturals

CONSTANTS
    Flows,        \* login round trips
    States,       \* values of the `state` parameter
    Handlers,     \* goroutines serving /callback
    Self,         \* resource + "/callback", the redirect_uri of a test login
    None,         \* absent
    MaxLoads,     \* bound on the loads of each page by each flow
    MaxRestarts   \* bound on the restarts of the process

ASSUME SelfAssumption == Self \notin Flows /\ None \notin Flows \cup {Self}
ASSUME NoStateAssumption == None \notin States
ASSUME BoundsAssumption == MaxLoads \in Nat \ {0} /\ MaxRestarts \in Nat

VARIABLES
    kind,       \* "new", or who began the flow: "client", "test", "direct"
    state,      \* the state parameter of each flow
    reached,    \* pages the browser of each flow has been sent to
    loads,      \* how often it loaded each page
    store,      \* RedirectStore.m
    diag,       \* the keys of DiagFlows.flows
    serving,    \* flow whose callback each handler took past TryCallback
    relayed,    \* <<flow, redirect>> pairs the relay answered
    saves,      \* number of saves of each state
    relays,     \* number of relays of each state
    completed,  \* test logins completed on the callback page
    restarts

vars == <<kind, state, reached, loads, store, diag, serving, relayed, saves,
          relays, completed, restarts>>

Pages == {"authorize", "cognito", "callback"}

TypeOK ==
    /\ kind \in [Flows -> {"new", "client", "test", "direct"}]
    /\ state \in [Flows -> States \cup {None}]
    /\ reached \in [Flows -> SUBSET Pages]
    /\ loads \in [Flows -> [Pages -> 0..MaxLoads]]
    /\ store \in [States -> Flows \cup {Self, None}]
    /\ diag \in SUBSET States
    /\ serving \in [Handlers -> Flows \cup {None}]
    /\ relayed \in SUBSET (Flows \X (Flows \cup {Self}))
    /\ saves \in [States -> Nat]
    /\ relays \in [States -> Nat]
    /\ completed \in SUBSET Flows
    /\ restarts \in 0..MaxRestarts

Init ==
    /\ kind = [f \in Flows |-> "new"]
    /\ state = [f \in Flows |-> None]
    /\ reached = [f \in Flows |-> {}]
    /\ loads = [f \in Flows |-> [p \in Pages |-> 0]]
    /\ store = [s \in States |-> None]
    /\ diag = {}
    /\ serving = [h \in Handlers |-> None]
    /\ relayed = {}
    /\ saves = [s \in States |-> 0]
    /\ relays = [s \in States |-> 0]
    /\ completed = {}
    /\ restarts = 0

-----------------------------------------------------------------------------

IsTest(f) == kind[f] \in {"test", "direct"}

(* What the browser carries to /authorize as redirect_uri.                 *)
Redirect(f) == IF IsTest(f) THEN Self ELSE f

(* The browser of f loads page p, which it has been sent to.               *)
Load(f, p) ==
    /\ p \in reached[f]
    /\ loads[f][p] < MaxLoads
    /\ loads' = [loads EXCEPT ![f][p] = @ + 1]

SendTo(f, p) == reached' = [reached EXCEPT ![f] = @ \cup {p}]

(* A client sends the user to /authorize with a state it chose.  The code  *)
(* does not ask that it is new; it is only never a random state of ours.   *)
ClientBegins(f, s) ==
    /\ kind[f] = "new"
    /\ \A g \in Flows : state[g] = s => ~IsTest(g)
    /\ kind' = [kind EXCEPT ![f] = "client"]
    /\ state' = [state EXCEPT ![f] = s]
    /\ SendTo(f, "authorize")
    /\ UNCHANGED <<loads, store, diag, serving, relayed, saves, relays,
                   completed, restarts>>

(* /testlogin draws a random state and sends the browser to our own        *)
(* /authorize, or, with viaproxy=0, directly to Cognito.                   *)
TestLogin(f, s, viaProxy) ==
    /\ kind[f] = "new"
    /\ \A g \in Flows : state[g] # s
    /\ kind' = [kind EXCEPT ![f] = IF viaProxy THEN "test" ELSE "direct"]
    /\ state' = [state EXCEPT ![f] = s]
    /\ diag' = diag \cup {s}
    /\ SendTo(f, IF viaProxy THEN "authorize" ELSE "cognito")
    /\ UNCHANGED <<loads, store, serving, relayed, saves, relays, completed,
                   restarts>>

(* Faulty variant: one slot for all states.                                *)
AuthorizeOneSlot(f) ==
    /\ Load(f, "authorize")
    /\ store' = [s \in States |-> Redirect(f)]
    /\ saves' = [saves EXCEPT ![state[f]] = @ + 1]
    /\ SendTo(f, "cognito")
    /\ UNCHANGED <<kind, state, diag, serving, relayed, relays, completed,
                   restarts>>

Authorize(f) ==
    /\ Load(f, "authorize")
    /\ store' = [store EXCEPT ![state[f]] = Redirect(f)]
    /\ saves' = [saves EXCEPT ![state[f]] = @ + 1]
    /\ SendTo(f, "cognito")
    /\ UNCHANGED <<kind, state, diag, serving, relayed, relays, completed,
                   restarts>>

(* The user logs in, or refuses: Cognito redirects to our /callback.       *)
CognitoLogin(f) ==
    /\ Load(f, "cognito")
    /\ SendTo(f, "callback")
    /\ UNCHANGED <<kind, state, store, diag, serving, relayed, saves, relays,
                   completed, restarts>>

(* Faulty variants: the flow is looked up without removing it; every       *)
(* callback is taken for a test login's.                                   *)
TryCallbackKeeps(h, f) ==
    /\ serving[h] = None
    /\ Load(f, "callback")
    /\ completed' = IF state[f] \in diag THEN completed \cup {f} ELSE completed
    /\ serving' = IF state[f] \in diag THEN serving ELSE [serving EXCEPT ![h] = f]
    /\ UNCHANGED <<kind, state, reached, store, diag, relayed, saves, relays,
                   restarts>>

TryCallbackSwallows(h, f) ==
    /\ serving[h] = None
    /\ Load(f, "callback")
    /\ diag' = diag \ {state[f]}
    /\ UNCHANGED <<kind, state, reached, store, serving, relayed, saves, relays,
                   completed, restarts>>

(* /callback, first half: TryCallback takes the state out of the test      *)
(* logins and completes the flow; any other state goes on to the relay.    *)
TryCallback(h, f) ==
    /\ serving[h] = None
    /\ Load(f, "callback")
    /\ \/ /\ state[f] \in diag
          /\ diag' = diag \ {state[f]}
          /\ completed' = completed \cup {f}
          /\ UNCHANGED serving
       \/ /\ state[f] \notin diag
          /\ serving' = [serving EXCEPT ![h] = f]
          /\ UNCHANGED <<diag, completed>>
    /\ UNCHANGED <<kind, state, reached, store, relayed, saves, relays,
                   restarts>>

(* Faulty variants: the entry is read and not deleted; a missing entry is  *)
(* relayed to the empty redirect.                                          *)
RelayKeepsEntry(h) ==
    LET f == serving[h]
        redirect == store[state[f]]
    IN  /\ f # None
        /\ redirect # None
        /\ relayed' = relayed \cup {<<f, redirect>>}
        /\ relays' = [relays EXCEPT ![state[f]] = @ + 1]
        /\ serving' = [serving EXCEPT ![h] = None]
        /\ UNCHANGED <<kind, state, reached, loads, store, diag, saves,
                       completed, restarts>>

RelayUnchecked(h) ==
    LET f == serving[h] IN
        /\ f # None
        /\ relayed' = relayed \cup {<<f, store[state[f]]>>}
        /\ relays' = [relays EXCEPT ![state[f]] = @ + 1]
        /\ serving' = [serving EXCEPT ![h] = None]
        /\ UNCHANGED <<kind, state, reached, loads, store, diag, saves,
                       completed, restarts>>

(* Second half: take the redirect of the state and send the browser there. *)
(* Our own /callback, if it was a test login's.                            *)
Relay(h) ==
    LET f == serving[h]
        redirect == store[state[f]]
    IN  /\ f # None
        /\ redirect # None
        /\ store' = [store EXCEPT ![state[f]] = None]
        /\ relayed' = relayed \cup {<<f, redirect>>}
        /\ relays' = [relays EXCEPT ![state[f]] = @ + 1]
        /\ IF redirect = Self THEN SendTo(f, "callback") ELSE UNCHANGED reached
        /\ serving' = [serving EXCEPT ![h] = None]
        /\ UNCHANGED <<kind, state, loads, diag, saves, completed, restarts>>

(* 400 "unknown or expired state".                                         *)
UnknownState(h) ==
    /\ serving[h] # None
    /\ store[state[serving[h]]] = None
    /\ serving' = [serving EXCEPT ![h] = None]
    /\ UNCHANGED <<kind, state, reached, loads, store, diag, relayed, saves,
                   relays, completed, restarts>>

(* Both maps live in memory; requests being served are lost.               *)
Restart ==
    /\ restarts < MaxRestarts
    /\ restarts' = restarts + 1
    /\ store' = [s \in States |-> None]
    /\ diag' = {}
    /\ serving' = [h \in Handlers |-> None]
    /\ UNCHANGED <<kind, state, reached, loads, relayed, saves, relays,
                   completed>>

Next ==
    \/ \E f \in Flows :
          \/ \E s \in States :
                \/ ClientBegins(f, s)
                \/ \E viaProxy \in BOOLEAN : TestLogin(f, s, viaProxy)
          \/ Authorize(f)
          \/ CognitoLogin(f)
          \/ \E h \in Handlers : TryCallback(h, f)
    \/ \E h \in Handlers : Relay(h) \/ UnknownState(h)
    \/ Restart

Spec == Init /\ [][Next]_vars

(* A browser follows a redirect to a page it has not loaded yet, Cognito   *)
(* lets its user log in, and a goroutine that serves a callback goes on.   *)
Follows(f) ==
    \/ loads[f]["authorize"] = 0 /\ Authorize(f)
    \/ loads[f]["cognito"] = 0 /\ CognitoLogin(f)
    \/ loads[f]["callback"] = 0 /\ \E h \in Handlers : TryCallback(h, f)

FairSpec ==
    /\ Spec
    /\ \A f \in Flows : WF_vars(Follows(f))
    /\ \A h \in Handlers : WF_vars(Relay(h) \/ UnknownState(h))

-----------------------------------------------------------------------------
(* Properties *)

(* A callback is relayed to a redirect_uri that was saved for its state:   *)
(* the flow's own as long as no other flow chose the same state, and never *)
(* a client's for a test login, whatever is reloaded, interleaved or lost. *)
RelayedHome ==
    \A f \in Flows, d \in Flows \cup {Self} :
        <<f, d>> \in relayed =>
            \E g \in Flows : state[g] = state[f] /\ d = Redirect(g)

(* No entry is used twice: a state is relayed at most as often as it was   *)
(* saved, even by callbacks that are served at the same time (the single   *)
(* critical section of take, relay.go:32-40).                              *)
EntryUsedOnce ==
    \A s \in States :
        relays[s] + (IF store[s] = None THEN 0 ELSE 1) <= saves[s]

(* A completed login was begun at /testlogin and its verifier is gone, so  *)
(* that no second callback completes it again (diag.go:59-67).             *)
CompletedOnce ==
    \A f \in completed : IsTest(f) /\ state[f] \notin diag

(* A client whose user logs in gets its callback, unless the process       *)
(* restarted meanwhile or another flow used the same state.                *)
LoginReachesClient ==
    \A f \in Flows :
        kind[f] = "client" ~>
            \/ <<f, f>> \in relayed
            \/ restarts > 0
            \/ \E g \in Flows \ {f} : state[g] = state[f]

=============================================================================
