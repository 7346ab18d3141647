---------------------------- MODULE MCTokenProxy ----------------------------
(* TLC instance of TokenProxy: three requests and two codes for safety,    *)
(* where requests and codes are interchangeable; smaller sets for the      *)
(* temporal properties, without symmetry.                                  *)
EXTENDS TokenProxy, TLC

CONSTANTS r1, r2, r3, c1, c2

MCRequests == {r1, r2, r3}
MCCodes == {c1, c2}
FewRequests == {r1, r2}

Symmetry == Permutations(MCRequests) \cup Permutations(MCCodes)

(* Cognito never answers the grant of r1, whose client keeps waiting.      *)
HungSpec == Spec /\ Fairness(Requests \ {r1})

(* "Serialize redemptions of the same code" (token.go:61): a redemption is *)
(* only held up by redemptions of the same code, so one whose code is not  *)
(* that of the hung exchange is answered.                                  *)
OnlySameCodeWaits ==
    \A r \in Requests \ {r1} :
        (pc[r] = "waiting" /\ code[r] # code[r1]) ~> pc[r] \in Final

=============================================================================
