---------------------------- MODULE MCOAuthLogin ----------------------------
(* TLC instance of OAuthLogin: a client and a test login at the same time. *)
EXTENDS OAuthLogin

CONSTANTS f1, f2, h1

MCFlows == {f1, f2}
MCTests == {f2}
MCHandlers == {h1}

=============================================================================
