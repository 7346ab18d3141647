-------------------------- MODULE MCRedirectRelay --------------------------
(* TLC instance of RedirectRelay. *)
EXTENDS RedirectRelay, TLC

CONSTANTS f1, f2, s1, s2, h1, h2

MCFlows == {f1, f2}
MCStates == {s1, s2}
MCHandlers == {h1, h2}

=============================================================================
