----------------------------- MODULE MCBroadcast -----------------------------
(* Passwords that are blank, and longer or shorter than one another.        *)
EXTENDS Broadcast

MCPasswords == {<<"a">>, <<"b", "a">>}
=============================================================================
