------------------------ MODULE MCInstallTransaction ------------------------
(* Small instances of InstallTransaction for TLC. *)
EXTENDS InstallTransaction

CONSTANTS old, new, newer, bad, copied

MCVersions == {old, new, newer, bad, copied}
MCGood == {old, new, newer, copied}
MCSources == {new, newer, bad}

(* A first installation, the update of a complete one, and game directories *)
(* where one of the paths is missing or no payload.                         *)
MCInitial == {Nothing, [p \in Paths |-> old],
              [p \in Paths |-> IF p = 1 THEN old ELSE NoTree],
              [p \in Paths |-> IF p = 1 THEN Torn ELSE old]}
MCInstalled == {[p \in Paths |-> old]}

MCTouched == {NoTree, Torn, copied}
MCCopied == {copied}
=============================================================================
