---------------------------- MODULE MCLlmClient ----------------------------
(* Two requests of two stages.  A reset of 3 ticks is as long as the budget: *)
(* its pause is refused unless the request came after it was asked for.      *)
EXTENDS LlmClient

CONSTANTS r1, r2

MCRequests == {r1, r2}
MCCaps == <<2, 4>>
MCHints == {0, 3}
=============================================================================
