----------------------------- MODULE MCAudioQueue -----------------------------
(* Small instances of AudioQueue for TLC: buffers shorter and longer than  *)
(* a period, in a ring that wraps.                                         *)
EXTENDS AudioQueue

MCSize == [b \in Buffers |-> IF b % 3 = 2 THEN 3 ELSE 1]
MCHandler == {1}
=============================================================================
