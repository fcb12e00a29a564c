------------------------- MODULE MCGatewayRegistration -------------------------
EXTENDS GatewayRegistration, TLC
Symmetry == Permutations(CallId)

\* What RecoversInTime and CallsSurviveCalm rest on is so for these values.
ASSUME TimesFit
=============================================================================
