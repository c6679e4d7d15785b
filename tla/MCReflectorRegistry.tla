------------------------- MODULE MCReflectorRegistry -------------------------
(* Instances of ReflectorRegistry for TLC. *)
EXTENDS ReflectorRegistry, TLC

CONSTANTS c1, c2, c3, r1, r2, p1, track1, track2

TwoClients   == {c1, c2}
ThreeClients == {c1, c2, c3}
OneSession   == {r1}
TwoSessions  == {r1, r2}
OnePath      == {p1}
OneTrack     == {track1}
TwoTracks    == {track1, track2}

Clean    == {}
Rivals   == {"rival"}
Everyone == Behaviours

Interchangeable == Permutations(Clients) \cup Permutations(Sessions) \cup Permutations(Tracks)
=============================================================================
