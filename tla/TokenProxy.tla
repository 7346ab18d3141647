----------------------------- MODULE TokenProxy -----------------------------
(***************************************************************************)
(* The token proxy of internal/oauth/token.go: POST /token forwards a      *)
(* grant to Cognito and caches the first 200 response of each              *)
(* authorization code, so that a client that redeems its single-use code   *)
(* twice is answered twice.                                                *)
(*                                                                         *)
(* Every request runs in its own goroutine.  After it has read its form it *)
(* takes the one mutex of the handler and keeps it until it has answered,  *)
(* across the whole exchange with Cognito.  The exchange runs under the    *)
(* context of the client's connection, has no timeout of its own, and      *)
(* reads the body of the reply without looking at the error.               *)
(*                                                                         *)
(* What is forwarded is abstracted to "the grant of r": the removal of     *)
(* `resource`, the pinned redirect_uri and the injected client secret do   *)
(* not depend on the state below.                                          *)
(***************************************************************************)
EXTENDS Naturals, TokenResponse

CONSTANTS
    Codes,        \* authorization codes Cognito has issued
    NoCode,       \* the `code` of a grant without one, e.g. refresh_token
    None,         \* no handler holds the mutex; no response yet
    MaxRestarts   \* bound on the restarts of the process

ASSUME NoCodeAssumption == NoCode \notin Codes
ASSUME NoneAssumption == None \notin Requests
ASSUME RestartsAssumption == MaxRestarts \in Nat

VARIABLES
    pc,        \* where the handler of each request is
    code,      \* form.Get("code") of each request that arrived
    gone,      \* requests whose client closed its connection
    mu,        \* the mutex: the request that holds it, or None
    cache,     \* first 200 response of each code
    answer,    \* what the handler wrote
    wire,      \* the exchange of each request, as Cognito sees it
    spent,     \* codes Cognito has redeemed
    restarts   \* number of restarts so far

vars == <<pc, code, gone, mu, cache, answer, wire, spent, restarts>>

-----------------------------------------------------------------------------

Holding == {"locked", "exchanging", "reading"}
Final == {"answered", "dropped"}

TypeOK ==
    /\ pc \in [Requests -> {"idle", "waiting"} \cup Holding \cup Final]
    /\ code \in [Requests -> Codes \cup {NoCode}]
    /\ gone \in SUBSET Requests
    /\ mu \in Requests \cup {None}
    /\ cache \in [Codes -> Response \cup {NoResponse}]
    /\ answer \in [Requests -> Response \cup {NoResponse}]
    /\ wire \in [Requests -> {"none", "sent", "ok", "invalid_grant", "error"}]
    /\ spent \in SUBSET Codes
    /\ restarts \in 0..MaxRestarts

Init ==
    /\ pc = [r \in Requests |-> "idle"]
    /\ code = [r \in Requests |-> NoCode]
    /\ gone = {}
    /\ mu = None
    /\ cache = [c \in Codes |-> NoResponse]
    /\ answer = [r \in Requests |-> NoResponse]
    /\ wire = [r \in Requests |-> "none"]
    /\ spent = {}
    /\ restarts = 0

-----------------------------------------------------------------------------

Cached(r) == code[r] \in Codes /\ cache[code[r]] # NoResponse

(* Writing the response ends the handler, and the deferred Unlock runs.    *)
Finish(r, response) ==
    /\ pc' = [pc EXCEPT ![r] = "answered"]
    /\ answer' = [answer EXCEPT ![r] = response]
    /\ mu' = None

(* The form has been read; the handler is now at mu.Lock().                *)
Arrive(r, c) ==
    /\ pc[r] = "idle"
    /\ pc' = [pc EXCEPT ![r] = "waiting"]
    /\ code' = [code EXCEPT ![r] = c]
    /\ UNCHANGED <<gone, mu, cache, answer, wire, spent, restarts>>

(* The connection broke while the form was read: 400 before the mutex.     *)
BodyUnreadable(r) ==
    /\ pc[r] = "idle"
    /\ pc' = [pc EXCEPT ![r] = "answered"]
    /\ answer' = [answer EXCEPT ![r] = Respond("bad_request", r, TRUE)]
    /\ UNCHANGED <<code, gone, mu, cache, wire, spent, restarts>>

(* Faulty variant: no mutual exclusion.                                    *)
LockUnguarded(r) ==
    /\ pc[r] = "waiting"
    /\ mu' = r
    /\ pc' = [pc EXCEPT ![r] = "locked"]
    /\ UNCHANGED <<code, gone, cache, answer, wire, spent, restarts>>

Lock(r) ==
    /\ pc[r] = "waiting"
    /\ mu = None
    /\ mu' = r
    /\ pc' = [pc EXCEPT ![r] = "locked"]
    /\ UNCHANGED <<code, gone, cache, answer, wire, spent, restarts>>

(* Faulty variant: the cache is not looked up by the request's own code.   *)
ReplayOfAnyCode(r) ==
    /\ pc[r] = "locked"
    /\ \E c \in Codes : cache[c] # NoResponse /\ Finish(r, cache[c])
    /\ UNCHANGED <<code, gone, cache, wire, spent, restarts>>

Replay(r) ==
    /\ pc[r] = "locked"
    /\ Cached(r)
    /\ Finish(r, cache[code[r]])
    /\ UNCHANGED <<code, gone, cache, wire, spent, restarts>>

Forward(r) ==
    /\ pc[r] = "locked"
    /\ ~Cached(r)
    /\ pc' = [pc EXCEPT ![r] = "exchanging"]
    /\ wire' = [wire EXCEPT ![r] = "sent"]
    /\ UNCHANGED <<code, gone, mu, cache, answer, spent, restarts>>

(* The client left while its handler waited: the context is cancelled and  *)
(* Do returns before it sends anything.                                    *)
ForwardCancelled(r) ==
    /\ pc[r] = "locked"
    /\ ~Cached(r)
    /\ r \in gone
    /\ Finish(r, Respond("bad_gateway", r, TRUE))
    /\ UNCHANGED <<code, gone, cache, wire, spent, restarts>>

(* Faulty variant: the error path returns without unlocking.               *)
ExchangeFailsLocked(r) ==
    /\ pc[r] = "exchanging"
    /\ pc' = [pc EXCEPT ![r] = "answered"]
    /\ answer' = [answer EXCEPT ![r] = Respond("bad_gateway", r, TRUE)]
    /\ UNCHANGED <<code, gone, mu, cache, wire, spent, restarts>>

(* Do returns an error: the transport failed or the client went away.      *)
(* Whether Cognito got the grant is not known; it may still get it.        *)
ExchangeFails(r) ==
    /\ pc[r] = "exchanging"
    /\ Finish(r, Respond("bad_gateway", r, TRUE))
    /\ UNCHANGED <<code, gone, cache, wire, spent, restarts>>

(* Faulty variant: the error of Do is ignored and its response used.       *)
ReplyBeginsUnchecked(r) ==
    /\ pc[r] = "exchanging"
    /\ pc' = [pc EXCEPT ![r] = "reading"]
    /\ UNCHANGED <<code, gone, mu, cache, answer, wire, spent, restarts>>

(* Do returns Cognito's status and headers; the body is still to be read.  *)
ReplyBegins(r) ==
    /\ pc[r] = "exchanging"
    /\ wire[r] \in {"ok", "invalid_grant", "error"}
    /\ pc' = [pc EXCEPT ![r] = "reading"]
    /\ UNCHANGED <<code, gone, mu, cache, answer, wire, spent, restarts>>

(* Faulty variants: every reply is cached, whatever its status; the cached *)
(* body is read again after it was written, and is empty.                  *)
ReplyEndsCachingAll(r, whole) ==
    LET response == Respond(wire[r], r, whole) IN
    /\ pc[r] = "reading"
    /\ Finish(r, response)
    /\ cache' = IF code[r] \in Codes
                THEN [cache EXCEPT ![code[r]] = response]
                ELSE cache
    /\ UNCHANGED <<code, gone, wire, spent, restarts>>

ReplyEndsDrained(r, whole) ==
    /\ pc[r] = "reading"
    /\ Finish(r, Respond(wire[r], r, whole))
    /\ cache' = IF code[r] \in Codes /\ wire[r] = "ok"
                THEN [cache EXCEPT ![code[r]] = Respond(wire[r], r, FALSE)]
                ELSE cache
    /\ UNCHANGED <<code, gone, wire, spent, restarts>>

(* The rest of the handler: read the body (the error is dropped, so the    *)
(* body may be cut short), cache a 200 under its code, write it.           *)
ReplyEnds(r, whole) ==
    LET response == Respond(wire[r], r, whole) IN
    /\ pc[r] = "reading"
    /\ Finish(r, response)
    /\ cache' = IF code[r] \in Codes /\ wire[r] = "ok"
                THEN [cache EXCEPT ![code[r]] = response]
                ELSE cache
    /\ UNCHANGED <<code, gone, wire, spent, restarts>>

-----------------------------------------------------------------------------
(* Cognito, from how the proxy uses it: a code is redeemed once.  A grant  *)
(* it has been sent can be served after the proxy gave up on it.           *)

CognitoGrants(r) ==
    /\ wire[r] = "sent"
    /\ code[r] \notin spent
    /\ wire' = [wire EXCEPT ![r] = "ok"]
    /\ spent' = spent \cup ({code[r]} \cap Codes)
    /\ UNCHANGED <<pc, code, gone, mu, cache, answer, restarts>>

CognitoRefuses(r) ==
    /\ wire[r] = "sent"
    /\ \/ /\ code[r] \in spent
          /\ wire' = [wire EXCEPT ![r] = "invalid_grant"]
       \/ wire' = [wire EXCEPT ![r] = "error"]
    /\ UNCHANGED <<pc, code, gone, mu, cache, answer, spent, restarts>>

(* The client gives up on a request that has not been answered.            *)
Disconnect(r) ==
    /\ pc[r] \in {"waiting"} \cup Holding
    /\ r \notin gone
    /\ gone' = gone \cup {r}
    /\ UNCHANGED <<pc, code, mu, cache, answer, wire, spent, restarts>>

(* The process restarts: the mutex, the cache and every request it was     *)
(* serving are lost.                                                       *)
Restart ==
    /\ restarts < MaxRestarts
    /\ restarts' = restarts + 1
    /\ pc' = [r \in Requests |->
                 IF pc[r] \in {"waiting"} \cup Holding THEN "dropped" ELSE pc[r]]
    /\ mu' = None
    /\ cache' = [c \in Codes |-> NoResponse]
    /\ UNCHANGED <<code, gone, answer, wire, spent>>

(* Every request has been served: the server idles.                        *)
Idle ==
    /\ \A r \in Requests : pc[r] \in Final
    /\ UNCHANGED vars

Handler(r) ==
    \/ Lock(r)
    \/ Replay(r)
    \/ Forward(r)
    \/ ForwardCancelled(r)
    \/ ExchangeFails(r)
    \/ ReplyBegins(r)
    \/ \E whole \in BOOLEAN : ReplyEnds(r, whole)

Cognito(r) == CognitoGrants(r) \/ CognitoRefuses(r)

Next ==
    \/ \E r \in Requests :
          \/ \E c \in Codes \cup {NoCode} : Arrive(r, c)
          \/ BodyUnreadable(r)
          \/ Handler(r)
          \/ Cognito(r)
          \/ Disconnect(r)
    \/ Restart
    \/ Idle

Spec == Init /\ [][Next]_vars

(***************************************************************************)
(* Fairness.  A goroutine that can run does: it takes a free mutex, goes   *)
(* on with its handler, and Do returns once its context is cancelled.      *)
(* Cognito answers what it was sent by the requests in Served.  Transport  *)
(* failures, disconnects and restarts are never owed.                      *)
(***************************************************************************)
Progress(r) ==
    \/ Replay(r)
    \/ Forward(r)
    \/ ForwardCancelled(r)
    \/ ReplyBegins(r)
    \/ \E whole \in BOOLEAN : ReplyEnds(r, whole)
    \/ r \in gone /\ ExchangeFails(r)

Fairness(Served) ==
    /\ \A r \in Requests : WF_vars(Lock(r)) /\ WF_vars(Progress(r))
    /\ \A r \in Served : WF_vars(Cognito(r))

-----------------------------------------------------------------------------
(* Properties *)

(* While a handler exchanges a code with Cognito, no success of that code  *)
(* is cached: the lookup that sent it there cannot have become stale,      *)
(* however the goroutines interleave (token.go:63-67 and 94-110).          *)
NoExchangeOfCachedCode ==
    \A r \in Requests : pc[r] \in {"exchanging", "reading"} => ~Cached(r)

(* All redemptions of one code that succeed are given the same response,   *)
(* across concurrent duplicates, clients that leave, grants served late    *)
(* and restarts (token.go:22-25).                                          *)
ReplayAgreement ==
    \A r, s \in Requests :
        (answer[r].status = "ok" /\ answer[s].status = "ok"
            /\ code[r] = code[s] /\ code[r] \in Codes)
        => answer[r] = answer[s]

(* Tokens only go to a request with the code they were issued for, and the *)
(* tokens of a grant without a code only to the request that asked         *)
(* (token.go:66 and 108 test code # "").                                   *)
OwnTokens ==
    \A r \in Requests :
        answer[r].status = "ok" =>
            /\ code[answer[r].from] = code[r]
            /\ code[r] = NoCode => answer[r].from = r

(* The proxy keeps the promise of SingleUseExchange.                       *)
Phase == [r \in Requests |->
             CASE pc[r] = "idle" -> "new"
               [] pc[r] \in {"waiting"} \cup Holding -> "open"
               [] OTHER -> "closed"]

Promise == INSTANCE SingleUseExchange WITH phase <- Phase, kept <- cache

KeepsPromise == Promise!Spec

(* While the process lives, a redemption is never refused because an       *)
(* earlier one went through this proxy ("Cognito rejects the second        *)
(* redemption with invalid_grant [...] to absorb that", token.go:22-25).   *)
DuplicateAbsorbed ==
    restarts = 0 => \A r \in Requests : answer[r].status # "invalid_grant"

(* What is kept for replay is a successful response ("we cache the first   *)
(* successful response", token.go:24): one whose body arrived completely.  *)
CachedIsWhole ==
    \A c \in Codes : cache[c] # NoResponse => cache[c].whole

=============================================================================
