----------------------------- MODULE MethodPatches -----------------------------
(***************************************************************************)
(* dt_gamepad_try_install of gamepad_dt.c: once per frame, until it has    *)
(* succeeded or failed, it looks methods of the game up by name and        *)
(* overwrites their bodies.  IL2CPP folds equal bodies: two methods may    *)
(* have one.                                                               *)
(***************************************************************************)
EXTENDS Naturals, Sequences, FiniteSets, SequencesExt

CONSTANTS Groups,   \* the methods in the order they are looked up and replaced;
                    \* the first group is the one the port cannot do without
          Wholes,   \* groups of which nothing is replaced unless all is found
          Builds,   \* the game's builds: the body of each method, the bodies that lie
                    \* in the library and those whose pages mprotect opens
          Slots     \* length of g_patched_bodies

Methods == UNION {ToSet(Groups[g]) : g \in 1 .. Len(Groups)}

ASSUME PatchAssumption ==
    /\ Groups \in Seq(Seq(Methods)) /\ Groups # <<>> /\ 1 \in Wholes
    /\ \A g, h \in 1 .. Len(Groups) : \A i \in 1 .. Len(Groups[g]) : \A j \in 1 .. Len(Groups[h]) :
          Groups[g][i] = Groups[h][j] => g = h /\ i = j
    /\ Builds \subseteq [body : [Methods -> Methods], inside : SUBSET Methods, writable : SUBSET Methods]
    /\ "none" \notin Methods
    /\ Slots \in Nat /\ Cardinality(Methods) <= Slots

VARIABLES body,     \* the body of each method
          inside,   \* bodies that lie in libil2cpp.so
          writable, \* bodies whose pages mprotect opens
          install,  \* g_install_state: "waiting", "installed", "refused"
          group,    \* the group at work, 0 between two calls
          queue,    \* its methods still to be replaced, by their places in it
          bodies,   \* g_patched_bodies
          patch,    \* the method whose replacement a body holds, or "none"
          missed    \* history: groups of which a lookup failed for good

patches == <<body, inside, writable, install, group, queue, bodies, patch, missed>>

PatchTypeOK ==
    /\ [body |-> body, inside |-> inside, writable |-> writable] \in Builds
    /\ install \in {"waiting", "installed", "refused"}
    /\ group \in 0 .. Len(Groups)
    /\ queue \subseteq IF group = 0 THEN {} ELSE 1 .. Len(Groups[group])
    /\ bodies \subseteq Methods /\ patch \in [Methods -> Methods \cup {"none"}]
    /\ missed \subseteq 1 .. Len(Groups)

PatchInit ==
    /\ \E build \in Builds :
          body = build.body /\ inside = build.inside /\ writable = build.writable
    /\ install = "waiting" /\ group = 0 /\ queue = {}
    /\ bodies = {} /\ patch = [m \in Methods |-> "none"] /\ missed = {}

-----------------------------------------------------------------------------
(* Two methods of the first group must not share a body. *)
Distinct(methods) == \A m, n \in methods : body[m] = body[n] => m = n

(* Defect: a body is recorded but never looked for. *)
NeverTaken(b) == FALSE

(* body_already_patched *)
Taken(b) == b \in bodies

(* replace_method_body: a pointer out of the library is refused before     *)
(* anything else, a body is recorded before its pages are opened.          *)
Replaces(m) == body[m] \in inside /\ ~Taken(body[m]) /\ body[m] \in writable

Record(b) ==
    IF b \in inside /\ ~Taken(b) /\ Cardinality(bodies) < Slots THEN bodies \cup {b} ELSE bodies

(* The next group, or the end of the call. *)
Onward ==
    IF group < Len(Groups) THEN group' = group + 1 /\ UNCHANGED install
    ELSE group' = 0 /\ install' = "installed"

Begin == install = "waiting" /\ group = 0 /\ group' = 1
         /\ UNCHANGED <<body, inside, writable, install, queue, bodies, patch, missed>>

(* Defect: an attempt that comes too early is the last. *)
GiveUp == group' = 0 /\ install' = "refused"

(* The game has not registered its classes yet, or a lookup was disturbed: *)
(* the next frame tries again.                                             *)
TryAgain == group' = 0 /\ UNCHANGED install

(* The lookups of the group at work gave these methods. *)
Found(found) ==
    LET all == ToSet(Groups[group]) IN
    /\ IF found # all /\ group = 1 THEN TryAgain /\ UNCHANGED <<queue, missed>>
       ELSE IF group = 1 /\ ~Distinct(all) THEN
            group' = 0 /\ install' = "refused" /\ UNCHANGED <<queue, missed>>
       ELSE LET offered == {i \in 1 .. Len(Groups[group]) :
                              Groups[group][i] \in found /\ (found = all \/ group \notin Wholes)}
            IN  /\ queue' = offered
                /\ missed' = IF found # all THEN missed \cup {group} ELSE missed
                /\ IF offered = {} THEN Onward ELSE UNCHANGED <<group, install>>
    /\ UNCHANGED <<body, inside, writable, bodies, patch>>

(* A failure in the first group ends the installation, in another that     *)
(* makes sense only whole, the pair of the view sensitivity, the group.    *)
Fatal(m) == group = 1 /\ ~Replaces(m)

Replace == \E i \in queue :
    /\ \A j \in queue : i <= j
    /\ LET m == Groups[group][i] IN
       /\ bodies' = Record(body[m])
       /\ patch' = IF Replaces(m) THEN [patch EXCEPT ![body[m]] = m] ELSE patch
       /\ IF Fatal(m) THEN
               queue' = {} /\ group' = 0 /\ install' = "refused"
          ELSE /\ queue' = IF Replaces(m) \/ group \notin Wholes THEN queue \ {i} ELSE {}
               /\ IF queue' = {} THEN Onward ELSE UNCHANGED <<group, install>>
    /\ UNCHANGED <<body, inside, writable, missed>>

-----------------------------------------------------------------------------
(* The build lets the core of the bridge be replaced. *)
Patchable ==
    /\ Distinct(ToSet(Groups[1]))
    /\ \A m \in ToSet(Groups[1]) : body[m] \in inside \cap writable

(* Once the bridge says it is installed, each of its core methods runs its *)
(* own hook, whatever shares its body (1191-1196), and every other method  *)
(* whose lookups did not fail runs a hook, unless its body is not in the   *)
(* library, its page stays read-only or its pair has failed before it.     *)
InstalledIsWhole ==
    install = "installed" =>
        /\ \A m \in ToSet(Groups[1]) : patch[body[m]] = m
        /\ \A g \in (2 .. Len(Groups)) \ missed : \A i \in 1 .. Len(Groups[g]) :
             \/ patch[body[Groups[g][i]]] # "none"
             \/ body[Groups[g][i]] \notin inside \cap writable
             \/ g \in Wholes /\ \E j \in 1 .. i - 1 : patch[body[Groups[g][j]]] # Groups[g][j]
=============================================================================
