------------------------- MODULE MCSessionLifecycle -------------------------
(* Instances of SessionLifecycle for TLC. *)
EXTENDS SessionLifecycle

CONSTANTS s1, s2, r1, r2

OneConnection  == {s1}
TwoConnections == {s1, s2}
OneSession     == {r1}
TwoSessions    == {r1, r2}

FirstSession   == {r1}

OwnSessionOnly == {}
Reflected      == {"several", "crossTeardown"}
Sharing        == {"foreign"}
=============================================================================
