------------------------------ MODULE MCGuestHooks ------------------------------
(* A small instance of GuestHooks.                                         *)
EXTENDS GuestHooks

MCGroups == << <<"ButtonDown", "ButtonUp", "GetGpadAxis">>,
               <<"ViewSensitivityX", "ViewSensitivityY">>,
               <<"Init", "Show">>,
               <<"SetBusy">> >>

MCWholes == {1, 2}

Own == [m \in Methods |-> m]

(* Each method has its own body; two of the core share one; two of the     *)
(* popup do and SetBusy shares one of the core while a page of the         *)
(* sensitivity stays shut; a page of the core stays shut; a pointer of the *)
(* popup leads out of the library.                                         *)
MCBuilds ==
    {[body |-> Own, inside |-> Methods, writable |-> Methods],
     [body |-> [Own EXCEPT !["ButtonUp"] = "ButtonDown"], inside |-> Methods, writable |-> Methods],
     [body |-> [Own EXCEPT !["Show"] = "Init", !["SetBusy"] = "GetGpadAxis"],
      inside |-> Methods, writable |-> Methods \ {"ViewSensitivityX"}],
     [body |-> Own, inside |-> Methods, writable |-> Methods \ {"ButtonUp"}],
     [body |-> Own, inside |-> Methods \ {"Init"}, writable |-> Methods]}
=============================================================================
