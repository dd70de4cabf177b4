----------------------------- MODULE MCDenylist -----------------------------
(* Denylist with two tokens. *)
EXTENDS Denylist

AllTokens == {"t1", "t2"}
=============================================================================
