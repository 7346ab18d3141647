------------------------- MODULE SingleUseExchange -------------------------
(***************************************************************************)
(* What the token proxy promises a client that redeems a single-use code   *)
(* more than once (internal/oauth/token.go, comment of                     *)
(* NewTokenProxyHandler): the first successful response of a code is kept, *)
(* and from then on every redemption of that code is answered with it,     *)
(* until the process restarts.  There is no mutex here, no exchange with   *)
(* Cognito, no connection: a redemption is answered in one step.           *)
(***************************************************************************)
EXTENDS TokenResponse

CONSTANTS Codes, NoCode

VARIABLES
    phase,    \* "new", "open" or "closed", for each request
    code,     \* the code each request redeems, or NoCode
    kept,     \* the response kept for each code
    answer    \* the response to each request

vars == <<phase, code, kept, answer>>

Init ==
    /\ phase = [r \in Requests |-> "new"]
    /\ code = [r \in Requests |-> NoCode]
    /\ kept = [c \in Codes |-> NoResponse]
    /\ answer = [r \in Requests |-> NoResponse]

HasKept(r) == code[r] \in Codes /\ kept[code[r]] # NoResponse

Close(r, response) ==
    /\ phase' = [phase EXCEPT ![r] = "closed"]
    /\ answer' = [answer EXCEPT ![r] = response]

Submit(r, c) ==
    /\ phase[r] = "new"
    /\ phase' = [phase EXCEPT ![r] = "open"]
    /\ code' = [code EXCEPT ![r] = c]
    /\ UNCHANGED <<kept, answer>>

Reject(r) ==
    /\ phase[r] = "new"
    /\ Close(r, Respond("bad_request", r, TRUE))
    /\ UNCHANGED <<code, kept>>

(* The first success of a code is kept; a grant without a code is answered *)
(* and not kept.                                                           *)
Succeed(r, whole) ==
    LET response == Respond("ok", r, whole) IN
    /\ phase[r] = "open"
    /\ ~HasKept(r)
    /\ Close(r, response)
    /\ kept' = IF code[r] \in Codes
               THEN [kept EXCEPT ![code[r]] = response]
               ELSE kept
    /\ UNCHANGED code

Repeat(r) ==
    /\ phase[r] = "open"
    /\ HasKept(r)
    /\ Close(r, kept[code[r]])
    /\ UNCHANGED <<code, kept>>

(* Failure is an answer only while no success is kept.                     *)
Fail(r, response) ==
    /\ phase[r] = "open"
    /\ ~HasKept(r)
    /\ response.status # "ok"
    /\ Close(r, response)
    /\ UNCHANGED <<code, kept>>

(* A restart forgets what was kept and the requests that were open.        *)
Forget ==
    /\ phase' = [r \in Requests |->
                    IF phase[r] = "open" THEN "closed" ELSE phase[r]]
    /\ kept' = [c \in Codes |-> NoResponse]
    /\ UNCHANGED <<code, answer>>

Next ==
    \/ \E r \in Requests :
          \/ \E c \in Codes \cup {NoCode} : Submit(r, c)
          \/ Reject(r)
          \/ \E whole \in BOOLEAN : Succeed(r, whole)
          \/ Repeat(r)
          \/ \E response \in Response : Fail(r, response)
    \/ Forget

Spec == Init /\ [][Next]_vars

=============================================================================
