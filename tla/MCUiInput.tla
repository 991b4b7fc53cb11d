------------------------------- MODULE MCUiInput -------------------------------
(* R3 and A are read alike and or-ed, so one clicking button stands for    *)
(* both.                                                                   *)
EXTENDS UiInput

CONSTANT a

MCClickers == {a}
=============================================================================
