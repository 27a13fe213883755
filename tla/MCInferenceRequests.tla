------------------------ MODULE MCInferenceRequests ------------------------
(* Two requests of two accounts, and two models: a chat under Auto beside  *)
(* a request of any kind, another chat under Auto included, which may meet *)
(* every trouble and whose account may be at its limit.                    *)
EXTENDS InferenceRequests

CONSTANTS first, second, specialist

AnyAndAuto == [r \in Requests |-> IF r = first THEN Kinds ELSE {"autochat"}]
Earlier    == [r \in Requests |-> IF r = first THEN {1, 2} ELSE {1}]
=============================================================================
