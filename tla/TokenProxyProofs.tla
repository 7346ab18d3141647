-------------------------- MODULE TokenProxyProofs --------------------------
(***************************************************************************)
(* Proofs about the token proxy, for any number of requests, codes and     *)
(* restarts: its type invariant, the three safety invariants that          *)
(* token_proxy.cfg checks on a small instance, and that it implements      *)
(* SingleUseExchange.                                                      *)
(***************************************************************************)
EXTENDS TokenProxy, TLAPS

(* Exactly the request that holds the mutex is between Lock and Unlock.    *)
MutexInv == \A r \in Requests : pc[r] \in Holding <=> mu = r

(* An exchange starts with Forward; once the reply is being read its       *)
(* status is known.                                                        *)
WireInv ==
    \A r \in Requests :
        /\ pc[r] \in {"idle", "waiting", "locked"} => wire[r] = "none"
        /\ pc[r] = "reading" => wire[r] \in {"ok", "invalid_grant", "error"}

(* Cognito grants a code to at most one request.                           *)
GrantInv ==
    /\ \A r \in Requests :
          wire[r] = "ok" /\ code[r] \in Codes => code[r] \in spent
    /\ \A r, s \in Requests :
          wire[r] = "ok" /\ wire[s] = "ok"
              /\ code[r] = code[s] /\ code[r] \in Codes
          => r = s

(* There is an answer only after the handler has ended.                    *)
AnswerInv ==
    \A r \in Requests : pc[r] # "answered" => answer[r] = NoResponse

(* A success is the response that the handler of the granted request       *)
(* wrote itself.                                                           *)
Source(response, c) ==
    /\ response.from \in Requests
    /\ pc[response.from] = "answered"
    /\ answer[response.from] = response
    /\ code[response.from] = c
    /\ wire[response.from] = "ok"

SourceInv ==
    \A r \in Requests :
        answer[r].status = "ok" =>
            /\ Source(answer[r], code[r])
            /\ code[r] = NoCode => answer[r].from = r

CacheInv ==
    \A c \in Codes :
        cache[c] # NoResponse => cache[c].status = "ok" /\ Source(cache[c], c)

IInv ==
    /\ TypeOK
    /\ MutexInv
    /\ WireInv
    /\ GrantInv
    /\ AnswerInv
    /\ SourceInv
    /\ CacheInv
    /\ NoExchangeOfCachedCode


-----------------------------------------------------------------------------

(* An absent response is told from a response by its status.               *)
LEMMA NoResponseFact ==
    /\ NoResponse.status = "none"
    /\ NoResponse \notin Response
BY DEF NoResponse, Response, Statuses

LEMMA RespondType ==
    ASSUME NEW status \in Statuses, NEW r \in Requests, NEW whole \in BOOLEAN
    PROVE  /\ Respond(status, r, whole) \in Response
           /\ Respond(status, r, whole) # NoResponse
           /\ Respond(status, r, whole).status = status
           /\ Respond(status, r, whole).from = r
BY DEF Respond, Response, NoResponse, Statuses

LEMMA InitIInv == Init => IInv
<1> SUFFICES ASSUME Init PROVE IInv
  OBVIOUS
<1>1. TypeOK
  BY RestartsAssumption DEF Init, TypeOK
<1>2. MutexInv
  BY NoneAssumption DEF Init, MutexInv, Holding
<1>3. WireInv /\ GrantInv /\ AnswerInv
  BY DEF Init, WireInv, GrantInv, AnswerInv
<1>4. SourceInv /\ CacheInv
  BY NoResponseFact DEF Init, SourceInv, CacheInv
<1>5. NoExchangeOfCachedCode
  BY DEF Init, NoExchangeOfCachedCode
<1> QED
  BY <1>1, <1>2, <1>3, <1>4, <1>5 DEF IInv

(* A step that keeps the answers, the cache and the codes, and takes no    *)
(* handler back from its end nor a grant back, keeps what is said of       *)
(* sources.                                                                *)
LEMMA SourcesKept ==
    ASSUME IInv,
           UNCHANGED <<cache, answer>>,
           \A s \in Requests : pc[s] = "answered" =>
               /\ pc'[s] = "answered"
               /\ code'[s] = code[s]
               /\ wire[s] = "ok" => wire'[s] = "ok",
           \A s \in Requests : answer[s].status = "ok" => code'[s] = code[s]
    PROVE  SourceInv' /\ CacheInv'
BY DEF IInv, SourceInv, CacheInv, Source

(* Each action keeps the inductive invariant: one lemma for each.          *)

LEMMA ArriveStep ==
    ASSUME IInv, NEW r \in Requests, NEW c \in Codes \cup {NoCode}, Arrive(r, c)
    PROVE  IInv'
<1> USE DEF IInv, Arrive
<1>1. TypeOK'
  BY DEF TypeOK
<1>2. MutexInv'
  BY DEF TypeOK, MutexInv, Holding
<1>3. WireInv' /\ AnswerInv'
  BY DEF TypeOK, WireInv, AnswerInv
<1>4. GrantInv'
  BY DEF TypeOK, WireInv, GrantInv
<1>5. SourceInv' /\ CacheInv'
  BY NoResponseFact, SourcesKept DEF TypeOK, AnswerInv
<1>6. NoExchangeOfCachedCode'
  BY DEF TypeOK, NoExchangeOfCachedCode, Cached
<1> QED
  BY <1>1, <1>2, <1>3, <1>4, <1>5, <1>6

LEMMA LockStep ==
    ASSUME IInv, NEW r \in Requests, Lock(r)
    PROVE  IInv'
<1> USE DEF IInv, Lock
<1>1. TypeOK'
  BY DEF TypeOK, Holding
<1>2. MutexInv'
  BY NoneAssumption DEF TypeOK, MutexInv, Holding
<1>3. WireInv' /\ AnswerInv'
  BY DEF TypeOK, WireInv, AnswerInv
<1>4. GrantInv'
  BY DEF GrantInv
<1>5. SourceInv' /\ CacheInv'
  BY SourcesKept DEF TypeOK
<1>6. NoExchangeOfCachedCode'
  BY DEF TypeOK, NoExchangeOfCachedCode, Cached
<1> QED
  BY <1>1, <1>2, <1>3, <1>4, <1>5, <1>6

LEMMA ForwardStep ==
    ASSUME IInv, NEW r \in Requests, Forward(r)
    PROVE  IInv'
<1> USE DEF IInv, Forward
<1>1. TypeOK'
  BY DEF TypeOK, Holding
<1>2. MutexInv'
  BY DEF TypeOK, MutexInv, Holding
<1>3. WireInv' /\ AnswerInv'
  BY DEF TypeOK, WireInv, AnswerInv
<1>4. GrantInv'
  BY DEF TypeOK, GrantInv
<1>5. SourceInv' /\ CacheInv'
  BY SourcesKept DEF TypeOK
<1>6. NoExchangeOfCachedCode'
  BY DEF TypeOK, NoExchangeOfCachedCode, Cached
<1> QED
  BY <1>1, <1>2, <1>3, <1>4, <1>5, <1>6

LEMMA ReplyBeginsStep ==
    ASSUME IInv, NEW r \in Requests, ReplyBegins(r)
    PROVE  IInv'
<1> USE DEF IInv, ReplyBegins
<1>1. TypeOK'
  BY DEF TypeOK, Holding
<1>2. MutexInv'
  BY DEF TypeOK, MutexInv, Holding
<1>3. WireInv' /\ AnswerInv'
  BY DEF TypeOK, WireInv, AnswerInv
<1>4. GrantInv'
  BY DEF GrantInv
<1>5. SourceInv' /\ CacheInv'
  BY SourcesKept DEF TypeOK
<1>6. NoExchangeOfCachedCode'
  BY DEF TypeOK, NoExchangeOfCachedCode, Cached
<1> QED
  BY <1>1, <1>2, <1>3, <1>4, <1>5, <1>6

LEMMA CognitoStep ==
    ASSUME IInv, NEW r \in Requests, Cognito(r)
    PROVE  IInv'
<1> USE DEF IInv, Cognito, CognitoGrants, CognitoRefuses
<1>1. TypeOK'
  BY DEF TypeOK
<1>2. MutexInv' /\ AnswerInv'
  BY DEF MutexInv, AnswerInv
<1>3. WireInv'
  BY DEF TypeOK, WireInv
<1>4. GrantInv'
  BY DEF TypeOK, GrantInv
<1>5. SourceInv' /\ CacheInv'
  BY SourcesKept DEF TypeOK
<1>6. NoExchangeOfCachedCode'
  BY DEF NoExchangeOfCachedCode, Cached
<1> QED
  BY <1>1, <1>2, <1>3, <1>4, <1>5, <1>6

LEMMA DisconnectStep ==
    ASSUME IInv, NEW r \in Requests, Disconnect(r)
    PROVE  IInv'
<1> USE DEF IInv, Disconnect
<1>1. TypeOK'
  BY DEF TypeOK
<1>2. MutexInv' /\ WireInv' /\ GrantInv' /\ AnswerInv'
  BY DEF MutexInv, WireInv, GrantInv, AnswerInv
<1>3. SourceInv' /\ CacheInv'
  BY SourcesKept
<1>4. NoExchangeOfCachedCode'
  BY DEF NoExchangeOfCachedCode, Cached
<1> QED
  BY <1>1, <1>2, <1>3, <1>4

(* A handler that ends without a success leaves all successes alone.       *)
LEMMA FailureKeepsSources ==
    ASSUME IInv, NEW r \in Requests, NEW response,
           pc[r] # "answered",
           pc' = [pc EXCEPT ![r] = "answered"],
           answer' = [answer EXCEPT ![r] = response],
           response.status # "ok",
           UNCHANGED <<code, wire, cache>>
    PROVE  SourceInv' /\ CacheInv'
<1> USE DEF IInv, TypeOK
<1>1. \A s \in Requests : answer[s].status = "ok" => answer'[s] = answer[s]
  BY NoResponseFact DEF AnswerInv
<1>2. \A s \in Requests : pc[s] = "answered" =>
          pc'[s] = "answered" /\ answer'[s] = answer[s]
  OBVIOUS
<1>3. \A s \in Requests : answer'[s].status = "ok" => answer'[s] = answer[s]
  OBVIOUS
<1>4. SourceInv'
  BY <1>1, <1>2, <1>3 DEF SourceInv, Source
<1>5. CacheInv'
  BY <1>1, <1>2 DEF CacheInv, Source
<1> QED
  BY <1>4, <1>5

LEMMA BodyUnreadableStep ==
    ASSUME IInv, NEW r \in Requests, BodyUnreadable(r)
    PROVE  IInv'
<1> USE DEF IInv, BodyUnreadable
<1>0. /\ Respond("bad_request", r, TRUE) \in Response
      /\ Respond("bad_request", r, TRUE).status # "ok"
  BY RespondType DEF Statuses
<1>1. TypeOK'
  BY <1>0 DEF TypeOK, Final
<1>2. MutexInv'
  BY DEF TypeOK, MutexInv, Holding
<1>3. WireInv' /\ GrantInv' /\ AnswerInv'
  BY DEF TypeOK, WireInv, GrantInv, AnswerInv
<1>4. SourceInv' /\ CacheInv'
  BY <1>0, FailureKeepsSources
<1>5. NoExchangeOfCachedCode'
  BY DEF TypeOK, NoExchangeOfCachedCode, Cached
<1> QED
  BY <1>1, <1>2, <1>3, <1>4, <1>5

LEMMA BadGatewayStep ==
    ASSUME IInv, NEW r \in Requests, ForwardCancelled(r) \/ ExchangeFails(r)
    PROVE  IInv'
<1> USE DEF IInv, ForwardCancelled, ExchangeFails, Finish
<1>0. /\ Respond("bad_gateway", r, TRUE) \in Response
      /\ Respond("bad_gateway", r, TRUE).status # "ok"
  BY RespondType DEF Statuses
<1>1. TypeOK'
  BY <1>0 DEF TypeOK, Final
<1>2. MutexInv'
  BY NoneAssumption DEF TypeOK, MutexInv, Holding
<1>3. WireInv' /\ GrantInv' /\ AnswerInv'
  BY DEF TypeOK, WireInv, GrantInv, AnswerInv
<1>4. SourceInv' /\ CacheInv'
  BY <1>0, FailureKeepsSources
<1>5. NoExchangeOfCachedCode'
  BY DEF TypeOK, NoExchangeOfCachedCode, Cached
<1> QED
  BY <1>1, <1>2, <1>3, <1>4, <1>5

LEMMA ReplayStep ==
    ASSUME IInv, NEW r \in Requests, Replay(r)
    PROVE  IInv'
<1> USE DEF IInv, Replay, Finish, Cached
<1>1. TypeOK'
  BY DEF TypeOK, Final
<1>2. MutexInv'
  BY NoneAssumption DEF TypeOK, MutexInv, Holding
<1>3. WireInv' /\ GrantInv' /\ AnswerInv'
  BY DEF TypeOK, WireInv, GrantInv, AnswerInv
<1>4. \A s \in Requests : pc[s] = "answered" =>
          pc'[s] = "answered" /\ answer'[s] = answer[s]
  BY DEF TypeOK
<1>5. /\ answer'[r] = cache[code[r]]
      /\ \A s \in Requests \ {r} : answer'[s] = answer[s]
      /\ UNCHANGED <<code, wire, cache>>
  BY DEF TypeOK
<1>6. CacheInv'
  BY <1>4, <1>5 DEF CacheInv, Source
<1>7. SourceInv'
  <2>1. answer'[r].status = "ok" =>
            /\ Source(answer[answer'[r].from], code[r])
            /\ answer'[r] = answer[answer'[r].from]
            /\ code[r] # NoCode
    BY <1>5, NoCodeAssumption DEF CacheInv, Source
  <2>2. \A s \in Requests \ {r} : answer[s].status = "ok" =>
            /\ Source(answer[s], code[s])
            /\ code[s] = NoCode => answer[s].from = s
    BY DEF SourceInv
  <2> QED
    BY <2>1, <2>2, <1>4, <1>5 DEF SourceInv, Source
<1>8. NoExchangeOfCachedCode'
  BY DEF TypeOK, NoExchangeOfCachedCode
<1> QED
  BY <1>1, <1>2, <1>3, <1>6, <1>7, <1>8

LEMMA ReplyEndsStep ==
    ASSUME IInv, NEW r \in Requests, NEW whole \in BOOLEAN, ReplyEnds(r, whole)
    PROVE  IInv'
<1> DEFINE response == Respond(wire[r], r, whole)
<1> USE DEF IInv
<1>0. /\ wire[r] \in Statuses
      /\ response \in Response
      /\ response # NoResponse
      /\ response.status = wire[r]
      /\ response.from = r
  BY RespondType DEF ReplyEnds, WireInv, Statuses
<1>1. /\ pc[r] = "reading"
      /\ pc' = [pc EXCEPT ![r] = "answered"]
      /\ answer' = [answer EXCEPT ![r] = response]
      /\ mu' = None
      /\ cache' = IF code[r] \in Codes /\ wire[r] = "ok"
                  THEN [cache EXCEPT ![code[r]] = response]
                  ELSE cache
      /\ UNCHANGED <<code, gone, wire, spent, restarts>>
  BY DEF ReplyEnds, Finish
<1> HIDE DEF response
<1>2. TypeOK'
  BY <1>0, <1>1 DEF TypeOK, Final
<1>3. MutexInv'
  BY <1>1, NoneAssumption DEF TypeOK, MutexInv, Holding
<1>4. WireInv' /\ GrantInv' /\ AnswerInv'
  BY <1>1 DEF TypeOK, WireInv, GrantInv, AnswerInv
<1>5. \A s \in Requests : pc[s] = "answered" =>
          pc'[s] = "answered" /\ answer'[s] = answer[s]
  BY <1>1 DEF TypeOK
<1>6. /\ pc'[r] = "answered"
      /\ answer'[r] = response
      /\ \A s \in Requests \ {r} : answer'[s] = answer[s]
      /\ UNCHANGED <<code, wire>>
  BY <1>1 DEF TypeOK
<1>7. ASSUME NEW c \in Codes, cache'[c] # cache[c]
      PROVE  c = code[r] /\ wire[r] = "ok" /\ cache'[c] = response
  BY <1>1, <1>7 DEF TypeOK
<1>8. CacheInv'
  BY <1>0, <1>5, <1>6, <1>7 DEF CacheInv, Source
<1>9. SourceInv'
  BY <1>0, <1>5, <1>6 DEF SourceInv, Source
<1>10. NoExchangeOfCachedCode'
  BY <1>1 DEF TypeOK, NoExchangeOfCachedCode, Cached, MutexInv, Holding
<1> QED
  BY <1>2, <1>3, <1>4, <1>8, <1>9, <1>10

LEMMA RestartStep ==
    ASSUME IInv, Restart
    PROVE  IInv'
<1> USE DEF IInv, Restart
<1>1. TypeOK'
  BY RestartsAssumption DEF TypeOK, Holding, Final
<1>2. MutexInv'
  BY NoneAssumption DEF TypeOK, MutexInv, Holding
<1>3. WireInv' /\ GrantInv' /\ AnswerInv'
  BY DEF TypeOK, WireInv, GrantInv, AnswerInv, Holding
<1>4. SourceInv'
  BY DEF TypeOK, SourceInv, Source, Holding
<1>5. CacheInv' /\ NoExchangeOfCachedCode'
  BY DEF TypeOK, CacheInv, NoExchangeOfCachedCode, Cached, Holding
<1> QED
  BY <1>1, <1>2, <1>3, <1>4, <1>5

LEMMA NextIInv == IInv /\ [Next]_vars => IInv'
<1> SUFFICES ASSUME IInv, [Next]_vars PROVE IInv'
  OBVIOUS
<1>1. ASSUME NEW r \in Requests, Handler(r) PROVE IInv'
  BY <1>1, LockStep, ReplayStep, ForwardStep, BadGatewayStep, ReplyBeginsStep,
     ReplyEndsStep DEF Handler
<1>2. CASE Idle \/ UNCHANGED vars
  BY <1>2 DEF Idle, vars, IInv, TypeOK, MutexInv, WireInv, GrantInv, AnswerInv,
     SourceInv, CacheInv, Source, NoExchangeOfCachedCode, Cached
<1> QED
  BY <1>1, <1>2, ArriveStep, BodyUnreadableStep, CognitoStep, DisconnectStep,
     RestartStep DEF Next

(* The inductive invariant holds throughout.                               *)
THEOREM Inductive == Spec => []IInv
BY InitIInv, NextIInv, PTL DEF Spec

-----------------------------------------------------------------------------

(* The state of the proxy and of Cognito keeps its type.                   *)
THEOREM TypeCorrect == Spec => []TypeOK
<1>1. IInv => TypeOK
  BY DEF IInv
<1> QED
  BY <1>1, Inductive, PTL

(* A handler is never exchanging a code whose success is cached.           *)
THEOREM NoStaleLookup == Spec => []NoExchangeOfCachedCode
<1>1. IInv => NoExchangeOfCachedCode
  BY DEF IInv
<1> QED
  BY <1>1, Inductive, PTL

(* Two successes of one code have one source, the only request Cognito     *)
(* granted the code to, and are the response of that source.               *)
THEOREM Agreement == Spec => []ReplayAgreement
<1>1. IInv => ReplayAgreement
  BY DEF IInv, GrantInv, SourceInv, Source, ReplayAgreement
<1> QED
  BY <1>1, Inductive, PTL

(* Tokens go to requests with the code they were issued for.               *)
THEOREM TokensOfOwnCode == Spec => []OwnTokens
<1>1. IInv => OwnTokens
  BY DEF IInv, SourceInv, Source, OwnTokens
<1> QED
  BY <1>1, Inductive, PTL

-----------------------------------------------------------------------------
(* The proxy implements SingleUseExchange.                                 *)

LEMMA PhaseType ==
    ASSUME NEW r \in Requests
    PROVE  /\ Phase[r] = "new" <=> pc[r] = "idle"
           /\ Phase[r] = "open" <=> pc[r] \in {"waiting"} \cup Holding
BY DEF Phase, Holding

(* The responses of SingleUseExchange are those of the proxy.              *)
LEMMA SameResponses ==
    /\ Promise!NoResponse = NoResponse
    /\ Promise!Response = Response
    /\ \A status, r, whole :
          Promise!Respond(status, r, whole) = Respond(status, r, whole)
BY DEF NoResponse, Promise!NoResponse, Response, Promise!Response, Statuses,
       Promise!Statuses, Respond, Promise!Respond

(* The phase of one request moves with its pc, the others stay.            *)
LEMMA PhaseStep ==
    ASSUME TypeOK, NEW r \in Requests, NEW to, pc' = [pc EXCEPT ![r] = to]
    PROVE  /\ to \in {"waiting"} \cup Holding =>
                Phase' = [Phase EXCEPT ![r] = "open"]
           /\ to \in Final => Phase' = [Phase EXCEPT ![r] = "closed"]
BY DEF TypeOK, Phase, Holding, Final

(* A step of a handler that only moves it from one open phase to another.  *)
LEMMA StutterStep ==
    ASSUME TypeOK, NEW r \in Requests, Lock(r) \/ Forward(r) \/ ReplyBegins(r)
    PROVE  UNCHANGED Promise!vars
<1>1. PICK to \in Holding : pc' = [pc EXCEPT ![r] = to]
  BY DEF Lock, Forward, ReplyBegins, Holding
<1>2. pc[r] \in {"waiting"} \cup Holding
  BY DEF Lock, Forward, ReplyBegins, Holding
<1>3. Phase' = Phase
  BY <1>1, <1>2 DEF TypeOK, Phase, Holding
<1> QED
  BY <1>3 DEF Lock, Forward, ReplyBegins, Promise!vars

LEMMA FailStep ==
    ASSUME IInv, NEW r \in Requests, NEW response \in Response,
           Finish(r, response), response.status # "ok",
           pc[r] \in Holding, ~Cached(r), UNCHANGED <<code, cache>>
    PROVE  Promise!Fail(r, response)
<1>1. Phase' = [Phase EXCEPT ![r] = "closed"]
  BY PhaseStep DEF IInv, Finish, Final
<1>2. Phase[r] = "open"
  BY PhaseType
<1> QED
  BY <1>1, <1>2, SameResponses DEF Promise!Fail, Promise!Close, Promise!HasKept, Finish, Cached

LEMMA ReplyEndsPromise ==
    ASSUME IInv, NEW r \in Requests, NEW whole \in BOOLEAN, ReplyEnds(r, whole)
    PROVE  Promise!Next
<1> DEFINE response == Respond(wire[r], r, whole)
<1>1. /\ wire[r] \in Statuses
      /\ response \in Response
      /\ response.status = wire[r]
  BY RespondType DEF IInv, ReplyEnds, WireInv, Statuses
<1>2. pc[r] \in Holding /\ ~Cached(r)
  BY DEF IInv, ReplyEnds, NoExchangeOfCachedCode, Holding
<1>3. CASE wire[r] = "ok"
  <2>1. Phase' = [Phase EXCEPT ![r] = "closed"]
    BY PhaseStep DEF IInv, ReplyEnds, Finish, Final
  <2>2. Phase[r] = "open"
    BY <1>2, PhaseType
  <2>3. Promise!Succeed(r, whole)
    BY <1>2, <1>3, <2>1, <2>2, SameResponses
    DEF Promise!Succeed, Promise!Close, Promise!HasKept, ReplyEnds, Finish, Cached
  <2> QED
    BY <2>3 DEF Promise!Next
<1>4. CASE wire[r] # "ok"
  <2>1. Finish(r, response) /\ UNCHANGED <<code, cache>>
    BY <1>4 DEF ReplyEnds
  <2>2. Promise!Fail(r, response)
    BY <1>1, <1>2, <1>4, <2>1, FailStep
  <2> QED
    BY <1>1, <2>2, SameResponses DEF Promise!Next
<1> QED
  BY <1>3, <1>4

LEMMA HandlerPromise ==
    ASSUME IInv, NEW r \in Requests, Handler(r)
    PROVE  [Promise!Next]_(Promise!vars)
<1>1. CASE Lock(r) \/ Forward(r) \/ ReplyBegins(r)
  BY <1>1, StutterStep DEF IInv
<1>2. CASE Replay(r)
  <2>1. Phase' = [Phase EXCEPT ![r] = "closed"]
    BY <1>2, PhaseStep DEF IInv, Replay, Finish, Final
  <2>2. Phase[r] = "open"
    BY <1>2, PhaseType DEF Replay, Holding
  <2>3. Promise!Repeat(r)
    BY <1>2, <2>1, <2>2, SameResponses
    DEF Promise!Repeat, Promise!Close, Promise!HasKept, Replay, Finish, Cached
  <2> QED
    BY <2>3 DEF Promise!Next
<1>3. CASE ForwardCancelled(r) \/ ExchangeFails(r)
  <2> DEFINE response == Respond("bad_gateway", r, TRUE)
  <2>1. response \in Response /\ response.status # "ok"
    BY RespondType DEF Statuses
  <2>2. pc[r] \in Holding /\ ~Cached(r)
    BY <1>3 DEF IInv, ForwardCancelled, ExchangeFails, NoExchangeOfCachedCode,
                Holding
  <2>3. Finish(r, response) /\ UNCHANGED <<code, cache>>
    BY <1>3 DEF ForwardCancelled, ExchangeFails
  <2>4. Promise!Fail(r, response)
    BY <2>1, <2>2, <2>3, FailStep
  <2> QED
    BY <2>1, <2>4, SameResponses DEF Promise!Next
<1>4. CASE \E whole \in BOOLEAN : ReplyEnds(r, whole)
  BY <1>4, ReplyEndsPromise
<1> QED
  BY <1>1, <1>2, <1>3, <1>4 DEF Handler

LEMMA StepPromise == IInv /\ [Next]_vars => [Promise!Next]_(Promise!vars)
<1> SUFFICES ASSUME IInv, [Next]_vars PROVE [Promise!Next]_(Promise!vars)
  OBVIOUS
<1>1. ASSUME NEW r \in Requests, NEW c \in Codes \cup {NoCode}, Arrive(r, c)
      PROVE  Promise!Next
  <2>1. Phase' = [Phase EXCEPT ![r] = "open"]
    BY <1>1, PhaseStep DEF IInv, Arrive
  <2>2. Phase[r] = "new"
    BY <1>1, PhaseType DEF Arrive
  <2>3. Promise!Submit(r, c)
    BY <1>1, <2>1, <2>2 DEF Promise!Submit, Arrive
  <2> QED
    BY <2>3 DEF Promise!Next
<1>2. ASSUME NEW r \in Requests, BodyUnreadable(r)
      PROVE  Promise!Next
  <2>1. Phase' = [Phase EXCEPT ![r] = "closed"]
    BY <1>2, PhaseStep DEF IInv, BodyUnreadable, Final
  <2>2. Phase[r] = "new"
    BY <1>2, PhaseType DEF BodyUnreadable
  <2>3. Promise!Reject(r)
    BY <1>2, <2>1, <2>2, SameResponses
    DEF Promise!Reject, Promise!Close, BodyUnreadable
  <2> QED
    BY <2>3 DEF Promise!Next
<1>3. ASSUME NEW r \in Requests, Cognito(r) \/ Disconnect(r)
      PROVE  UNCHANGED Promise!vars
  BY <1>3 DEF Cognito, CognitoGrants, CognitoRefuses, Disconnect, Phase,
              Promise!vars
<1>4. CASE Restart
  <2>1. Phase' = [r \in Requests |->
                     IF Phase[r] = "open" THEN "closed" ELSE Phase[r]]
    BY <1>4 DEF Restart, IInv, TypeOK, Phase, Holding, Final
  <2>2. Promise!Forget
    BY <1>4, <2>1, SameResponses DEF Promise!Forget, Restart
  <2> QED
    BY <2>2 DEF Promise!Next
<1>5. CASE Idle \/ UNCHANGED vars
  BY <1>5 DEF Idle, vars, Phase, Promise!vars
<1> QED
  BY <1>1, <1>2, <1>3, <1>4, <1>5, HandlerPromise DEF Next

(* Once a success is kept, every redemption of its code is answered with   *)
(* it until a restart: the proxy implements SingleUseExchange.             *)
THEOREM Implements == Spec => KeepsPromise
<1>1. Init => Promise!Init
  <2> SUFFICES ASSUME Init PROVE Promise!Init
    OBVIOUS
  <2>1. Phase = [r \in Requests |-> "new"]
    BY DEF Init, Phase, Holding
  <2> QED
    BY <2>1, SameResponses DEF Init, Promise!Init
<1> QED
  BY <1>1, Inductive, StepPromise, PTL DEF Spec, KeepsPromise, Promise!Spec

=============================================================================
