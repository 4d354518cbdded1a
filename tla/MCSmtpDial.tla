----------------------------- MODULE MCSmtpDial -----------------------------
(***************************************************************************)
(* An instance of SmtpDial for TLC: ports on both sides of what a u16 holds.*)
(***************************************************************************)
EXTENDS SmtpDial

PortValues == {-1, 0, 587, 65535, 65536}

=============================================================================
