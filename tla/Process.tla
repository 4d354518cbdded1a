------------------------------ MODULE Process ------------------------------
(***************************************************************************)
(* The life of one process: src/main.rs starts it, step by step, from what *)
(* src/config.rs makes of the environment; once it serves, it dials mail   *)
(* servers (SmtpDial) and answers the readiness probe of src/api/health.rs *)
(* over the pool that its requests use.  The orchestrator starts a process *)
(* that exits again, in the same environment.                              *)
(***************************************************************************)
EXTENDS SmtpDial

CONSTANTS
  Keys,        \* values of MASTER_ENCRYPTION_KEY, by what the code asks of them
  KeyLength,   \* 64 hex characters in the source
  Migrations,  \* files of migrations/
  PoolSize     \* 20 in the source

\* The trimmed value: its length, whether it is only zeros, only hex digits;
\* and whether there was anything to trim.
Key == [length : Nat, zeros : BOOLEAN, hex : BOOLEAN, padded : BOOLEAN]

MasterKey == [bytes : Nat, zero : BOOLEAN]

ASSUME ProcessAssumption ==
  /\ Keys \subseteq Key \cup {None}
  /\ KeyLength \in Nat \ {0} /\ KeyLength % 2 = 0
  /\ Migrations \in Nat /\ PoolSize \in Nat \ {0}
  /\ None \notin Key /\ None \notin MasterKey

\* database: DATABASE_URL is there.  jwt: JwtConfig::from_env succeeds.
\* elsewhere: the brokers are not localhost:9092.  force: FORCE_KAFKA is there.
Environments ==
  [key : Keys, database : BOOLEAN, jwt : BOOLEAN, elsewhere : BOOLEAN, force : BOOLEAN]

Stages == {"config", "jwt", "pool", "migrations", "producer", "key", "bind",
           "serving", "exited"}

VARIABLES
  env,
  at,         \* the stage of the start-up
  cause,      \* the stage that an exited process failed at
  applied,    \* migrations in the database
  producer,   \* where the events go
  masterKey,
  dbUp,       \* the database answers
  held,       \* connections the requests hold
  probe       \* where the readiness probe is

start == <<env, at, cause, applied, producer, masterKey>>
around == <<dbUp, held>>
processVars == <<vars, start, around, probe>>

ProcessTypeOK ==
  /\ DialTypeOK
  /\ env \in Environments
  /\ at \in Stages /\ cause \in Stages \cup {None}
  /\ applied \in 0..Migrations
  /\ producer \in {None, "memory", "redpanda"}
  /\ masterKey \in MasterKey \cup {None}
  /\ dbUp \in BOOLEAN /\ held \in 0..PoolSize
  /\ probe \in {"none", "acquiring", "querying", "ready", "notReady"}

ProcessInit ==
  /\ DialInit
  /\ env \in Environments
  /\ at = "config" /\ cause = None
  /\ applied = 0
  /\ producer = None /\ masterKey = None
  /\ dbUp = TRUE /\ held = 0
  /\ probe = "none"

-----------------------------------------------------------------------------
(* Start-up.                                                               *)

Reach(stage) == at' = stage /\ UNCHANGED cause

\* expect, or an error that main returns.
Exit == at' = "exited" /\ cause' = at

\* Mutants of Acceptable: without the check of the length, or of the digits.
AcceptableAnyLength(k) == k # None /\ k.length # 0 /\ ~k.zeros /\ k.hex

AcceptableAnyDigits(k) == k # None /\ ~k.zeros /\ k.length = KeyLength

\* What from_env asks of the trimmed key; it keeps the key untrimmed.
Acceptable(k) == k # None /\ k.length # 0 /\ ~k.zeros /\ k.length = KeyLength /\ k.hex

ReadConfig ==
  /\ at = "config"
  /\ IF env.database /\ Acceptable(env.key) THEN Reach("jwt") ELSE Exit
  /\ UNCHANGED <<env, applied, producer, masterKey>>

ConfigureJwt ==
  /\ at = "jwt"
  /\ IF env.jwt THEN Reach("pool") ELSE Exit
  /\ UNCHANGED <<env, applied, producer, masterKey>>

CreatePool ==
  /\ at = "pool"
  /\ dbUp /\ Reach("migrations")
  /\ UNCHANGED <<env, applied, producer, masterKey>>

\* Each file is a transaction, which also records that it is done.
Migrate ==
  /\ at = "migrations"
  /\ dbUp /\ applied < Migrations
  /\ applied' = applied + 1
  /\ UNCHANGED <<env, at, cause, producer, masterKey>>

\* Mutant of Migrated: the migrations go on in a task of their own.
MigratedLater ==
  /\ at = "migrations"
  /\ Reach("producer")
  /\ UNCHANGED <<env, applied, producer, masterKey>>

Migrated ==
  /\ at = "migrations"
  /\ applied = Migrations
  /\ Reach("producer")
  /\ UNCHANGED <<env, applied, producer, masterKey>>

CreateProducer ==
  /\ at = "producer"
  /\ producer' = IF env.elsewhere \/ env.force THEN "redpanda" ELSE "memory"
  /\ Reach("key")
  /\ UNCHANGED <<env, applied, masterKey>>

Decoded(k) == [bytes |-> k.length \div 2, zero |-> k.zeros]

\* hex::decode of the untrimmed key
ParseKey ==
  /\ at = "key"
  /\ IF env.key.hex /\ ~env.key.padded /\ env.key.length % 2 = 0
     THEN Reach("bind") /\ masterKey' = Decoded(env.key)
     ELSE Exit /\ UNCHANGED masterKey
  /\ UNCHANGED <<env, applied, producer>>

Bind == at = "bind" /\ Reach("serving") /\ UNCHANGED <<env, applied, producer, masterKey>>

\* The database, the Redpanda client or the address refuses.
StartFails ==
  /\ \/ at \in {"pool", "migrations", "bind"}
     \/ at = "producer" /\ (env.elsewhere \/ env.force)
  /\ Exit
  /\ UNCHANGED <<env, applied, producer, masterKey>>

StartAgain ==
  /\ at = "exited"
  /\ at' = "config" /\ cause' = None
  /\ producer' = None /\ masterKey' = None
  /\ UNCHANGED <<env, applied>>

StartUp ==
  /\ \/ ReadConfig \/ ConfigureJwt \/ CreatePool \/ Migrate \/ Migrated
     \/ CreateProducer \/ ParseKey \/ Bind \/ StartFails \/ StartAgain
  /\ UNCHANGED <<vars, around, probe>>

-----------------------------------------------------------------------------
(* Serving.                                                                *)

Dial == at = "serving" /\ DialNext /\ UNCHANGED <<start, around, probe>>

\* Connections that are not in the pool.
Taken == held + IF probe = "querying" THEN 1 ELSE 0

\* The requests take and return connections, the database comes and goes.
Surroundings ==
  /\ \/ dbUp' = ~dbUp /\ UNCHANGED held
     \/ /\ at = "serving" /\ dbUp /\ Taken < PoolSize
        /\ held' = held + 1
        /\ UNCHANGED dbUp
     \/ held > 0 /\ held' = held - 1 /\ UNCHANGED dbUp
  /\ UNCHANGED <<vars, start, probe>>

Probe(from, to) == probe = from /\ probe' = to /\ UNCHANGED <<vars, start, around>>

ProbeAsked == at = "serving" /\ Probe("none", "acquiring")

ProbeAcquires == dbUp /\ Taken < PoolSize /\ Probe("acquiring", "querying")

\* Mutant of Answer: the result of the query is ignored.
AnswerAnyway(ok) == "ready"

Answer(ok) == IF ok THEN "ready" ELSE "notReady"

\* Mutant of ProbeGivesUp: only connecting is limited, not the wait for one of
\* the pool's connections.
ProbeGivesUpConnecting == Taken < PoolSize /\ Probe("acquiring", Answer(FALSE))

\* The pool's limit on the wait for a connection, or no connection to be had.
ProbeGivesUp == Probe("acquiring", Answer(FALSE))

\* SELECT 1
ProbeQueried ==
  \E ok \in BOOLEAN : (ok => dbUp) /\ Probe("querying", Answer(ok))

ProbeOver == Probe("ready", "none") \/ Probe("notReady", "none")

Probing == ProbeAcquires \/ ProbeGivesUp \/ ProbeQueried \/ ProbeOver

ProcessNext == StartUp \/ Dial \/ Surroundings \/ ProbeAsked \/ Probing

ProcessSpec == ProcessInit /\ [][ProcessNext]_processVars

\* Nothing is asked of the mail server, the database, the requests that hold
\* connections or the orchestrator.
FairProcess ==
  /\ ProcessSpec
  /\ WF_processVars(at = "serving" /\ Proceed /\ UNCHANGED <<start, around, probe>>)
  /\ WF_processVars(Probing)

-----------------------------------------------------------------------------
(* Properties.                                                             *)

\* A process that serves encrypts under a key of KeyLength / 2 bytes that is
\* not zero, though one value was checked and another was decoded.
KeyServed ==
  at = "serving" => /\ masterKey # None
                    /\ masterKey.bytes = KeyLength \div 2 /\ ~masterKey.zero

\* Decoding, after the migrations, refuses no key that from_env accepted,
\* but for the white space around it.
DecodeRefusesPaddingOnly == at = "exited" /\ cause = "key" => env.key.padded

\* A process serves only over the whole schema, whatever earlier attempts left
\* half done.
ServesWholeSchema == at = "serving" => applied = Migrations

\* A verification that began ends, though the server may be silent at any point.
VerificationEnds == phase # "port" ~> verdict # None

\* The probe is answered, though the requests may keep every connection.
ProbeAnswered == probe = "acquiring" ~> probe \in {"ready", "notReady"}

\* When the database is gone for good the probe stops saying ready.
CutIsTold == <>[]~dbUp => <>[](probe # "ready")

-----------------------------------------------------------------------------
(* Why they hold: an inductive invariant.                                  *)

ProcessInv ==
  /\ at \notin {"config", "exited"} => Acceptable(env.key)
  /\ at = "exited" /\ cause = "key" => Acceptable(env.key) /\ env.key.padded
  /\ at \in {"producer", "key", "bind", "serving"} => applied = Migrations
  /\ at \in {"bind", "serving"} =>
       masterKey = [bytes |-> KeyLength \div 2, zero |-> FALSE]

=============================================================================
