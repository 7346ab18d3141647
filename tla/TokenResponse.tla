--------------------------- MODULE TokenResponse ---------------------------
(***************************************************************************)
(* The responses of POST /token: what NewTokenProxyHandler of              *)
(* internal/oauth/token.go writes, and what it stores as a cachedToken.    *)
(* A status stands for the status code and the kind of body.               *)
(***************************************************************************)
CONSTANT Requests     \* the requests that reach POST /token

(* 200 with tokens; Cognito's invalid_grant; another reply of Cognito that *)
(* is not a 200; 502 when the exchange failed; 400 for an unreadable form. *)
Statuses == {"ok", "invalid_grant", "error", "bad_gateway", "bad_request"}

(* A response records the request whose exchange produced it and whether   *)
(* its body is complete.                                                   *)
Response == [status : Statuses, from : Requests, whole : BOOLEAN]

NoResponse == [status |-> "none"]

Respond(status, r, whole) == [status |-> status, from |-> r, whole |-> whole]

=============================================================================
