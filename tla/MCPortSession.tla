---------------------------- MODULE MCPortSession ----------------------------
(* Two launches: the second overlaps the first or follows it.              *)
EXTENDS PortSession, TLC

CONSTANTS first, second

MCLaunches == {first, second}
MCMaxSignals == (first :> 2) @@ (second :> 0)
=============================================================================
