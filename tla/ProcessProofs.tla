--------------------------- MODULE ProcessProofs ---------------------------
(***************************************************************************)
(* Safety of a process, for every environment, key length and pool: what   *)
(* is proved of one dial holds of the process that makes it, and it serves *)
(* only with its key and its schema.                                       *)
(***************************************************************************)
EXTENDS Process, SmtpDialProofs

-----------------------------------------------------------------------------
(* The dial.                                                               *)

LEMMA ProcessStepDials == [ProcessNext]_processVars => [DialNext]_vars
<1> SUFFICES ASSUME [ProcessNext]_processVars PROVE [DialNext]_vars
  OBVIOUS
<1>1. CASE UNCHANGED processVars
  BY <1>1 DEF processVars
<1>2. CASE StartUp
  BY <1>2 DEF StartUp
<1>3. CASE Dial
  BY <1>3 DEF Dial
<1>4. CASE Surroundings
  BY <1>4 DEF Surroundings
<1>5. CASE ProbeAsked \/ Probing
  BY <1>5 DEF ProbeAsked, Probing, ProbeAcquires, ProbeGivesUp, ProbeQueried,
              ProbeOver, Probe
<1> QED
  BY <1>1, <1>2, <1>3, <1>4, <1>5 DEF ProcessNext

\* A process makes the steps of SmtpDial's dial and no others: main.rs and
\* health.rs do not touch what a verification is doing.
THEOREM ProcessDials == ProcessSpec => DialSpec
<1>1. ProcessInit => DialInit
  BY DEF ProcessInit
<1> QED
  BY <1>1, ProcessStepDials, PTL DEF ProcessSpec, DialSpec


\* So what a dial guarantees, a process does: credentials only under the
\* configuration's cover, success only on the server's acceptance, "config"
\* exactly when nothing was dialled.
THEOREM ProcessDialsSafely ==
  ProcessSpec => [](CredentialsCovered /\ SuccessMeansAccepted /\ ConfigMeansUndialled)
BY ProcessDials, Covers, Succeeds, Undialled, PTL

-----------------------------------------------------------------------------
(* Types.                                                                  *)

LEMMA ProcessTypeInit == ProcessInit => ProcessTypeOK
<1> SUFFICES ASSUME ProcessInit PROVE ProcessTypeOK
  OBVIOUS
<1>1. DialTypeOK
  BY DialTypeInit DEF ProcessInit
<1>2. 0 \in 0..Migrations /\ 0 \in 0..PoolSize
  BY ProcessAssumption
<1> QED
  BY <1>1, <1>2 DEF ProcessInit, ProcessTypeOK, Stages

\* What the decoding gives of a key that was accepted.
LEMMA KeyDecoded ==
  ASSUME env.key \in Keys, Acceptable(env.key)
  PROVE  /\ Decoded(env.key) = [bytes |-> KeyLength \div 2, zero |-> FALSE]
         /\ Decoded(env.key) \in MasterKey
<1>1. env.key \in Key /\ env.key.length = KeyLength
  BY ProcessAssumption DEF Acceptable
<1>2. env.key.zeros = FALSE
  <2>1. env.key.zeros \in BOOLEAN
    BY <1>1, Zenon DEF Key
  <2> QED
    BY <2>1 DEF Acceptable
<1>3. KeyLength \div 2 \in Nat
  BY ProcessAssumption
<1> QED
  BY <1>1, <1>2, <1>3 DEF Decoded, MasterKey

LEMMA StartUpType ==
  ASSUME ProcessTypeOK, ProcessInv, StartUp
  PROVE  ProcessTypeOK'
<1>1. DialTypeOK'
  BY DEF StartUp, ProcessTypeOK, DialTypeOK, vars
<1>2. UNCHANGED <<env, dbUp, held, probe>>
  BY DEF StartUp, around, ReadConfig, ConfigureJwt, CreatePool, Migrate, Migrated,
         CreateProducer, ParseKey, Bind, StartFails, StartAgain
<1>3. at' \in Stages /\ cause' \in Stages \cup {None}
  BY DEF StartUp, ProcessTypeOK, Stages, Reach, Exit, ReadConfig, ConfigureJwt,
         CreatePool, Migrate, Migrated, CreateProducer, ParseKey, Bind, StartFails,
         StartAgain
<1>4. applied' \in 0..Migrations
  BY ProcessAssumption
     DEF StartUp, ProcessTypeOK, ReadConfig, ConfigureJwt, CreatePool, Migrate, Migrated,
         CreateProducer, ParseKey, Bind, StartFails, StartAgain
<1>5. producer' \in {None, "memory", "redpanda"}
  BY DEF StartUp, ProcessTypeOK, ReadConfig, ConfigureJwt, CreatePool, Migrate, Migrated,
         CreateProducer, ParseKey, Bind, StartFails, StartAgain
<1>6. masterKey' \in MasterKey \cup {None}
  <2>1. CASE ParseKey
    <3>1. Decoded(env.key) \in MasterKey
      BY <2>1, KeyDecoded DEF ParseKey, ProcessInv, ProcessTypeOK, Environments
    <3> QED
      BY <2>1, <3>1 DEF ParseKey, ProcessTypeOK
  <2>2. CASE ~ParseKey
    BY <2>2 DEF StartUp, ProcessTypeOK, ReadConfig, ConfigureJwt, CreatePool, Migrate,
                Migrated, CreateProducer, Bind, StartFails, StartAgain
  <2> QED
    BY <2>1, <2>2
<1> QED
  BY <1>1, <1>2, <1>3, <1>4, <1>5, <1>6 DEF ProcessTypeOK

LEMMA ProcessTypeStep ==
  ProcessTypeOK /\ ProcessInv /\ [ProcessNext]_processVars => ProcessTypeOK'
<1> SUFFICES ASSUME ProcessTypeOK, ProcessInv, [ProcessNext]_processVars
             PROVE  ProcessTypeOK'
  OBVIOUS
<1>0. DialTypeOK'
  BY DialTypeStep, ProcessStepDials DEF ProcessTypeOK
<1>1. CASE UNCHANGED processVars
  BY <1>0, <1>1 DEF ProcessTypeOK, processVars, start, around
<1>2. CASE StartUp
  BY <1>2, StartUpType
<1>3. CASE Dial
  BY <1>0, <1>3 DEF ProcessTypeOK, Dial, start, around
<1>4. CASE Surroundings
  <2>1. Taken \in Int /\ held <= Taken
    BY ProcessAssumption DEF Taken, ProcessTypeOK
  <2>2. dbUp' \in BOOLEAN
    BY <1>4 DEF Surroundings, ProcessTypeOK
  <2>3. held' \in 0..PoolSize
    BY <1>4, <2>1, ProcessAssumption DEF Surroundings, ProcessTypeOK
  <2> QED
    BY <1>0, <1>4, <2>2, <2>3 DEF Surroundings, ProcessTypeOK, start
<1>5. CASE ProbeAsked \/ Probing
  BY <1>0, <1>5 DEF ProcessTypeOK, ProbeAsked, Probing, ProbeAcquires, ProbeGivesUp,
                    ProbeQueried, ProbeOver, Probe, Answer, start, around
<1> QED
  BY <1>1, <1>2, <1>3, <1>4, <1>5 DEF ProcessNext

-----------------------------------------------------------------------------
(* The invariant.                                                          *)

LEMMA ProcessInvInit == ProcessInit => ProcessInv
  BY DEF ProcessInit, ProcessInv

LEMMA StartUpInv ==
  ASSUME ProcessTypeOK, ProcessInv, StartUp
  PROVE  ProcessInv'
<1> USE DEF ProcessInv, Reach, Exit
<1>0. env' = env
  BY DEF StartUp, ReadConfig, ConfigureJwt, CreatePool, Migrate, Migrated,
         CreateProducer, ParseKey, Bind, StartFails, StartAgain
<1>1. CASE ReadConfig
  BY <1>0, <1>1 DEF ReadConfig, Acceptable
<1>2. CASE ConfigureJwt \/ CreatePool
  BY <1>0, <1>2 DEF ConfigureJwt, CreatePool, Acceptable
<1>3. CASE Migrate \/ Migrated
  BY <1>0, <1>3 DEF Migrate, Migrated, Acceptable
<1>4. CASE CreateProducer
  BY <1>0, <1>4 DEF CreateProducer, Acceptable
<1>5. CASE ParseKey
  <2>1. Acceptable(env.key) /\ applied = Migrations
    BY <1>5 DEF ParseKey
  <2>2. Decoded(env.key) = [bytes |-> KeyLength \div 2, zero |-> FALSE]
    BY <2>1, KeyDecoded DEF ProcessTypeOK, Environments
  <2>3. CASE env.key.hex /\ ~env.key.padded /\ env.key.length % 2 = 0
    BY <1>0, <1>5, <2>1, <2>2, <2>3, Zenon DEF ParseKey, Acceptable
  <2>4. CASE ~(env.key.hex /\ ~env.key.padded /\ env.key.length % 2 = 0)
    <3>1. env.key.padded
      BY <2>1, <2>4, ProcessAssumption DEF Acceptable
    <3>2. at' = "exited" /\ cause' = "key"
      BY <1>5, <2>4 DEF ParseKey
    <3> QED
      BY <1>0, <2>1, <3>1, <3>2, Zenon
  <2> QED
    BY <2>3, <2>4
<1>6. CASE Bind \/ StartFails \/ StartAgain
  BY <1>0, <1>6 DEF Bind, StartFails, StartAgain, Acceptable
<1> QED
  BY <1>1, <1>2, <1>3, <1>4, <1>5, <1>6 DEF StartUp

LEMMA ProcessInvStep ==
  ProcessTypeOK /\ ProcessInv /\ [ProcessNext]_processVars => ProcessInv'
<1> SUFFICES ASSUME ProcessTypeOK, ProcessInv, [ProcessNext]_processVars
             PROVE  ProcessInv'
  OBVIOUS
<1>1. CASE StartUp
  BY <1>1, StartUpInv
<1>2. CASE ~StartUp
  <2>1. UNCHANGED start
    BY <1>2 DEF ProcessNext, processVars, Dial, Surroundings, ProbeAsked, Probing,
                ProbeAcquires, ProbeGivesUp, ProbeQueried, ProbeOver, Probe
  <2> QED
    BY <2>1 DEF start, ProcessInv, Acceptable
<1> QED
  BY <1>1, <1>2

\* The key that decoding finds is one that from_env accepted, which the types
\* rest on: the two are invariant together.
THEOREM ProcessInvariant == ProcessSpec => [](ProcessTypeOK /\ ProcessInv)
  BY ProcessTypeInit, ProcessTypeStep, ProcessInvInit, ProcessInvStep, PTL DEF ProcessSpec

\* The types, and the bounds: the requests hold at most PoolSize connections, at most the
\* migrations there are applied.
THEOREM ProcessTypeCorrect == ProcessSpec => []ProcessTypeOK
  BY ProcessInvariant, PTL

\* What is decoded is what was checked: a serving process has a whole, non
\* zero master key.
THEOREM ServesWithItsKey == ProcessSpec => []KeyServed
<1>1. ProcessTypeOK /\ ProcessInv => KeyServed
  <2> SUFFICES ASSUME ProcessInv, at = "serving" PROVE KeyServed
    BY DEF KeyServed
  <2>1. masterKey = [bytes |-> KeyLength \div 2, zero |-> FALSE]
    BY DEF ProcessInv
  <2>2. masterKey \in MasterKey
    BY <2>1, ProcessAssumption DEF MasterKey
  <2>3. masterKey # None
    BY <2>2, ProcessAssumption
  <2> QED
    BY <2>1, <2>3 DEF KeyServed
<1> QED
  BY <1>1, ProcessInvariant, PTL

\* Of an accepted key only the white space around it makes the decoding fail.
THEOREM DecodesWhatItAccepts == ProcessSpec => []DecodeRefusesPaddingOnly
<1>1. ProcessInv => DecodeRefusesPaddingOnly
  BY DEF ProcessInv, DecodeRefusesPaddingOnly
<1> QED
  BY <1>1, ProcessInvariant, PTL

\* Nothing is served over a schema that is half migrated.
THEOREM ServesMigrated == ProcessSpec => []ServesWholeSchema
<1>1. ProcessInv => ServesWholeSchema
  BY DEF ProcessInv, ServesWholeSchema
<1> QED
  BY <1>1, ProcessInvariant, PTL

=============================================================================
