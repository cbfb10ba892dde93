--------------------------- MODULE MCTimingPackets ---------------------------
(* TLC instance of TimingPackets *)
EXTENDS TimingPackets
MCLeaps == {1, 9}
MCWideLeaps == {12}
MCPhases == {0, 7}
=============================================================================
