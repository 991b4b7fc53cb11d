---------------------------- MODULE MCPrefsStore ----------------------------
(* Small instances of PrefsStore: one scalar type besides strings is enough *)
(* for an entry that changes type.                                          *)
EXTENDS PrefsStore, TLC

MCScalarTypes == {"int"}

(* No operation prefers a key. *)
MCSymmetry == Permutations(Keys)
=============================================================================
