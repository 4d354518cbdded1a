----------------------------- MODULE MCProcess -----------------------------
(***************************************************************************)
(* An instance of Process for TLC: a key for each check of from_env, and   *)
(* ports on both sides of what a u16 holds.                                *)
(***************************************************************************)
EXTENDS Process

PortValues == {-1, 0, 587, 65535, 65536}

Good == [length |-> 4, zeros |-> FALSE, hex |-> TRUE, padded |-> FALSE]

KeyValues ==
  {None, Good,
   [Good EXCEPT !.padded = TRUE],
   [Good EXCEPT !.zeros = TRUE],
   [Good EXCEPT !.hex = FALSE],
   [Good EXCEPT !.length = 2],
   [Good EXCEPT !.length = 3],
   [Good EXCEPT !.length = 6],
   [Good EXCEPT !.length = 0, !.zeros = TRUE]}

=============================================================================
