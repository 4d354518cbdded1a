------------------------------ MODULE SmtpDial ------------------------------
(***************************************************************************)
(* One verification's dial: src/service/smtp_verifier.rs, called by        *)
(* verify of src/service/mail_config_service.rs.  The dialogue is a        *)
(* library's, seen as the source sees it: which phases it goes through,    *)
(* which errors each may end with, and what the server heard by then.      *)
(***************************************************************************)
EXTENDS Integers

CONSTANTS
  Modes,      \* values of smtp_encryption, known or not
  Ports,      \* values of smtp_port, an INTEGER column
  Refusals,   \* the SMTP codes a server refuses with
  Setting,    \* SMTP_VERIFY_TIMEOUT_SECS, None if absent or not a number
  None

Verdicts == {"ok", "connect", "auth", "protocol", "config"}

ASSUME DialAssumption ==
  /\ Ports \subseteq Int /\ Refusals \subseteq 400..599
  /\ Setting \in Nat \cup {None}
  /\ None \notin Int \cup Verdicts

\* The time limit, in seconds: 10 by default, from 1 to 60.
Timeout ==
  CASE Setting = None -> 10
    [] Setting # None /\ Setting < 1 -> 1
    [] Setting # None /\ Setting > 60 -> 60
    [] OTHER -> Setting

\* The phases of the dialogue.
Awaiting == {"connect", "handshake", "greeting", "hello", "starttls", "auth", "test"}
Phases == {"port", "policy", "credentials", "over"} \cup Awaiting

VARIABLES
  target,     \* what is dialled
  phase,
  left,       \* seconds before the time limit
  secure,     \* TLS is up
  opened,     \* a connection was attempted
  presented,  \* the credentials were sent
  accepted,   \* the server accepted them
  verdict

vars == <<target, phase, left, secure, opened, presented, accepted, verdict>>
heard == <<secure, opened, presented, accepted>>

DialTypeOK ==
  /\ target \in [mode : Modes, port : Ports]
  /\ phase \in Phases
  /\ left \in 0..Timeout
  /\ secure \in BOOLEAN /\ opened \in BOOLEAN
  /\ presented \in BOOLEAN /\ accepted \in BOOLEAN
  /\ verdict \in Verdicts \cup {None}

DialInit ==
  /\ target \in [mode : Modes, port : Ports]
  /\ phase = "port"
  /\ left = Timeout
  /\ secure = FALSE /\ opened = FALSE
  /\ presented = FALSE /\ accepted = FALSE
  /\ verdict = None

Enter(where) == phase' = where /\ UNCHANGED verdict

End(v) == phase' = "over" /\ verdict' = v

-----------------------------------------------------------------------------
(* Before anything is dialled.                                             *)

\* u16::try_from
PortFits == target.port \in 0..65535

CheckPort ==
  /\ phase = "port"
  /\ \/ PortFits /\ Enter("policy")
     \/ ~PortFits /\ End("config")
  /\ UNCHANGED <<target, left, heard>>

KnownMode == target.mode \in {"tls", "starttls", "none"}

\* tls_policy; a host that is no TLS server name makes no TLS parameters.
ChoosePolicy ==
  /\ phase = "policy"
  /\ \/ /\ KnownMode
        /\ Enter("connect")
        /\ opened' = TRUE
     \/ target.mode # "none" /\ End("config") /\ UNCHANGED opened
  /\ UNCHANGED <<target, left, secure, presented, accepted>>

-----------------------------------------------------------------------------
(* The dialogue.                                                           *)

\* The TCP connection is there: implicit TLS comes first.
Connected ==
  /\ phase = "connect"
  /\ Enter(IF target.mode = "tls" THEN "handshake" ELSE "greeting")
  /\ UNCHANGED <<target, left, heard>>

Secured ==
  /\ phase = "handshake"
  /\ Enter(IF target.mode = "tls" THEN "greeting" ELSE "hello")
  /\ secure' = TRUE
  /\ UNCHANGED <<target, left, opened, presented, accepted>>

Greeted == phase = "greeting" /\ Enter("hello") /\ UNCHANGED <<target, left, heard>>

\* Mutant of HelloAnswered: the switch to TLS is made if the server offers it.
HelloOpportunistic ==
  /\ phase = "hello"
  /\ \/ Enter("credentials")
     \/ target.mode = "starttls" /\ ~secure /\ Enter("starttls")
  /\ UNCHANGED <<target, left, heard>>

\* EHLO is answered: the switch to TLS is required, not offered.
HelloAnswered ==
  /\ phase = "hello"
  /\ Enter(IF target.mode = "starttls" /\ ~secure THEN "starttls" ELSE "credentials")
  /\ UNCHANGED <<target, left, heard>>

SwitchAgreed == phase = "starttls" /\ Enter("handshake") /\ UNCHANGED <<target, left, heard>>

\* Mutant of Present: a server that answers is good enough.
PresentNothing ==
  phase = "credentials" /\ Enter("test") /\ UNCHANGED <<target, left, heard>>

Present ==
  /\ phase = "credentials"
  /\ \/ Enter("auth") /\ presented' = TRUE
     \/ End("protocol") /\ UNCHANGED presented   \* no mechanism in common
  /\ UNCHANGED <<target, left, secure, opened, accepted>>

Authenticated ==
  /\ phase = "auth"
  /\ Enter("test")
  /\ accepted' = TRUE
  /\ UNCHANGED <<target, left, secure, opened, presented>>

\* test_connection returns.
Tested ==
  /\ phase = "test"
  /\ \E connected \in BOOLEAN : End(IF connected THEN "ok" ELSE "protocol")
  /\ UNCHANGED <<target, left, heard>>

-----------------------------------------------------------------------------
(* Errors, and the time.                                                   *)

\* An error of the library, by the questions classify asks it: the code of a
\* refusal, if it is one, or its kind.
Errors ==
  [status : Refusals, kind : {"refusal"}]
  \cup [status : {None}, kind : {"timeout", "tls", "response", "client", "network"}]

\* The errors a phase may end with.
ErrorsAt(where) ==
  {e \in Errors :
     /\ where = "connect" => e.kind \in {"timeout", "network"}
     /\ where = "handshake" => e.kind \in {"tls", "network"}
     /\ e.kind = "timeout" => where = "connect"   \* the limit of the library
     /\ e.kind = "tls" => where = "handshake"
     /\ e.kind = "client" => where = "starttls"}  \* it is not offered

AuthenticationCodes == {432, 454, 530, 534, 535, 538}

\* Mutant of Classify: an error of the client is a matter of configuration.
ClassifyClient(e) ==
  CASE e.status # None -> IF e.status \in AuthenticationCodes THEN "auth" ELSE "protocol"
    [] e.status = None /\ e.kind = "client" -> "config"
    [] OTHER -> "connect"

Classify(e) ==
  CASE e.status # None -> IF e.status \in AuthenticationCodes THEN "auth" ELSE "protocol"
    [] e.status = None /\ e.kind \in {"response", "client"} -> "protocol"
    [] OTHER -> "connect"

Fails ==
  /\ phase \in Awaiting
  /\ \E e \in ErrorsAt(phase) : End(Classify(e))
  /\ UNCHANGED <<target, left, heard>>

\* Mutant of Tick: the clock runs past the limit.
TickPast == phase \in Awaiting /\ left' = left - 1 /\ UNCHANGED <<target, phase, heard, verdict>>

Tick ==
  /\ phase \in Awaiting
  /\ left > 0
  /\ left' = left - 1
  /\ UNCHANGED <<target, phase, heard, verdict>>

\* Mutant of TimeUp: only the library's own limit, which ends with TCP.
TimeUpTcp ==
  phase = "connect" /\ left = 0 /\ End("connect") /\ UNCHANGED <<target, left, heard>>

\* The limit is on the whole exchange; an answer that is there in time wins.
TimeUp ==
  phase \in Awaiting /\ left = 0 /\ End("connect") /\ UNCHANGED <<target, left, heard>>

-----------------------------------------------------------------------------
\* What the client does of its own accord, and the clock.
Proceed == CheckPort \/ ChoosePolicy \/ Present \/ Tick \/ TimeUp

\* What it takes the server to answer.
Answered ==
  Connected \/ Secured \/ Greeted \/ HelloAnswered \/ SwitchAgreed \/ Authenticated \/ Tested

DialNext == Proceed \/ Answered \/ Fails

DialSpec == DialInit /\ [][DialNext]_vars

-----------------------------------------------------------------------------
(* Properties.                                                             *)

Covered == target.mode # "none" => secure

\* The credentials are sent only over what the configuration asked for, even
\* to a server that does not offer TLS or whose handshake fails.
CredentialsCovered == presented => Covered

\* A verification succeeds only if the server accepted the credentials, under
\* TLS unless the configuration is without.
SuccessMeansAccepted ==
  verdict = "ok" => KnownMode /\ accepted /\ Covered

\* "config" is the verdict exactly when nothing was dialled.
ConfigMeansUndialled == verdict # None => (verdict = "config" <=> ~opened)

\* "auth" means that the server refused the credentials it was given.
AuthMeansPresented == verdict = "auth" => presented

-----------------------------------------------------------------------------
(* Why they hold: an inductive invariant.                                  *)

DialInv ==
  /\ phase \in {"port", "policy"} => ~opened
  /\ phase \in Awaiting \cup {"credentials"} => opened /\ KnownMode
  /\ phase = "over" <=> verdict # None
  /\ phase \in {"greeting", "hello"} /\ target.mode = "tls" => secure
  /\ phase \in {"credentials", "auth", "test"} => Covered
  /\ phase = "test" => accepted
  /\ CredentialsCovered
  /\ SuccessMeansAccepted
  /\ ConfigMeansUndialled

=============================================================================
