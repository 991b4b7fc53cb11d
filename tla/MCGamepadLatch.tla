---------------------------- MODULE MCGamepadLatch ----------------------------
(* The bits of the words do not affect each other, and Fire is answered in *)
(* every way an ordinary button is, and in one more.                       *)
EXTENDS GamepadLatch

CONSTANT fire

MCInputs == {fire}
=============================================================================
