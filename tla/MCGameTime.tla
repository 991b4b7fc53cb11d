------------------------------ MODULE MCGameTime ------------------------------
(* A small instance of GameTime; 1000 is a timeScale of 1.0.               *)
EXTENDS GameTime

(* 500 is what the governor writes for 1000; 980 is still normal play. *)
MCScales == {1000, 980, 500, 300, 1200}

MCOverrides == {600, 1400}
=============================================================================
