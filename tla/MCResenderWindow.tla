-------------------------- MODULE MCResenderWindow --------------------------
(* Instances of ResenderWindow for TLC.  Sizes are in halves of a segment,  *)
(* times in units of the smallest retransmission timeout.                  *)
EXTENDS ResenderWindow

Numbers   == {0, 1}
Half      == {1, 2}
Lifetimes == {0, 1}
OneWindow == {4}
=============================================================================
