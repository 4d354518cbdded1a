--------------------------- MODULE SmtpDialProofs ---------------------------
(***************************************************************************)
(* Safety of the dial, for every set of modes, ports and refusals and      *)
(* every setting of the time limit.                                        *)
(***************************************************************************)
EXTENDS SmtpDial, TLAPS

\* The time limit is a number of seconds from 1 to 60.
LEMMA TimeoutRange == Timeout \in 1..60
  BY DialAssumption DEF Timeout

-----------------------------------------------------------------------------
LEMMA NoVerdict == None \notin Verdicts
  BY DialAssumption

LEMMA ClassifyType ==
  ASSUME NEW e \in Errors
  PROVE  Classify(e) \in {"connect", "auth", "protocol"}
BY DEF Classify, Errors

LEMMA DialTypeInit == DialInit => DialTypeOK
<1> SUFFICES ASSUME DialInit PROVE DialTypeOK
  OBVIOUS
<1>1. left \in 0..Timeout
  BY TimeoutRange DEF DialInit
<1> QED
  BY <1>1 DEF DialInit, DialTypeOK, Phases

LEMMA DialTypeStep == DialTypeOK /\ [DialNext]_vars => DialTypeOK'
<1> SUFFICES ASSUME DialTypeOK, [DialNext]_vars PROVE DialTypeOK'
  OBVIOUS
<1> USE TimeoutRange DEF DialTypeOK, Phases, Awaiting, Verdicts, Enter, End, heard
<1>1. CASE UNCHANGED vars
  BY <1>1 DEF vars
<1>2. CASE CheckPort \/ ChoosePolicy \/ Present
  <2>1. CASE CheckPort
    BY <2>1 DEF CheckPort
  <2>2. CASE ChoosePolicy
    BY <2>2 DEF ChoosePolicy
  <2>3. CASE Present
    BY <2>3 DEF Present
  <2> QED
    BY <1>2, <2>1, <2>2, <2>3
<1>3. CASE Tick \/ TimeUp
  BY <1>3 DEF Tick, TimeUp
<1>4. CASE Answered
  BY <1>4 DEF Answered, Connected, Secured, Greeted, HelloAnswered, SwitchAgreed,
              Authenticated, Tested
<1>5. CASE Fails
  <2>1. PICK e \in Errors : End(Classify(e))
    BY <1>5 DEF Fails, ErrorsAt
  <2> QED
    BY <1>5, <2>1, ClassifyType DEF Fails
<1> QED
  BY <1>1, <1>2, <1>3, <1>4, <1>5 DEF DialNext, Proceed

\* Every variable keeps its type, and the clock never passes the limit.
THEOREM DialTypeCorrect == DialSpec => []DialTypeOK
  BY DialTypeInit, DialTypeStep, PTL DEF DialSpec

-----------------------------------------------------------------------------
(* The invariant.                                                          *)

LEMMA DialInvInit == DialInit => DialInv
  BY NoVerdict DEF DialInit, DialInv, Verdicts, CredentialsCovered, SuccessMeansAccepted,
                   ConfigMeansUndialled, Awaiting, Covered

LEMMA DialInvStep == DialTypeOK /\ DialInv /\ [DialNext]_vars => DialInv'
<1> SUFFICES ASSUME DialTypeOK, DialInv, [DialNext]_vars PROVE DialInv'
  OBVIOUS
<1> USE NoVerdict DEF Verdicts, DialInv, CredentialsCovered, SuccessMeansAccepted, ConfigMeansUndialled,
            Covered, KnownMode, Awaiting, Enter, End, heard
<1>1. CASE UNCHANGED vars
  BY <1>1 DEF vars
<1>2. CASE CheckPort \/ ChoosePolicy \/ Present
  <2>1. CASE CheckPort
    BY <2>1 DEF CheckPort
  <2>2. CASE ChoosePolicy
    BY <2>2 DEF ChoosePolicy
  <2>3. CASE Present
    BY <2>3 DEF Present
  <2> QED
    BY <1>2, <2>1, <2>2, <2>3
<1>3. CASE Tick \/ TimeUp
  BY <1>3 DEF Tick, TimeUp
<1>4. CASE Connected \/ Greeted \/ HelloAnswered \/ SwitchAgreed
  BY <1>4 DEF Connected, Greeted, HelloAnswered, SwitchAgreed
<1>5. CASE Secured \/ Authenticated \/ Tested
  BY <1>5 DEF Secured, Authenticated, Tested
<1>6. CASE Fails
  <2>1. PICK e \in Errors : End(Classify(e))
    BY <1>6 DEF Fails, ErrorsAt
  <2> QED
    BY <1>6, <2>1, ClassifyType DEF Fails
<1> QED
  BY <1>1, <1>2, <1>3, <1>4, <1>5, <1>6 DEF DialNext, Proceed, Answered

THEOREM DialInvariant == DialSpec => []DialInv
  BY DialTypeCorrect, DialInvInit, DialInvStep, PTL DEF DialSpec

\* Credentials never travel in the clear unless the configuration says so.
THEOREM Covers == DialSpec => []CredentialsCovered
<1>1. DialInv => CredentialsCovered
  BY DEF DialInv
<1> QED
  BY <1>1, DialInvariant, PTL

\* Success is the server's acceptance of the credentials.
THEOREM Succeeds == DialSpec => []SuccessMeansAccepted
<1>1. DialInv => SuccessMeansAccepted
  BY DEF DialInv
<1> QED
  BY <1>1, DialInvariant, PTL

\* An unusable configuration, and only that, is answered without a dial.
THEOREM Undialled == DialSpec => []ConfigMeansUndialled
<1>1. DialInv => ConfigMeansUndialled
  BY DEF DialInv
<1> QED
  BY <1>1, DialInvariant, PTL

=============================================================================
