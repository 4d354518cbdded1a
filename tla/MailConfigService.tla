------------------------- MODULE MailConfigService --------------------------
(***************************************************************************)
(* The service, src/service/mail_config_service.rs, over the repository.   *)
(* A session is one HTTP request.  Most are one call of the repository; a  *)
(* verification is two, and between them it dials the tenant's mail server *)
(* without a connection of the pool and without a lock: the row it read    *)
(* may be changed or deleted meanwhile, and another verification of the    *)
(* same configuration may overtake it.                                     *)
(***************************************************************************)
EXTENDS MailConfigRepository

CONSTANTS
  Passwords,
  Keys,            \* the values MASTER_ENCRYPTION_KEY has had
  ValidTargets,    \* those of a known encryption mode and an accepted port
  ClientRequests   \* what the handlers may be asked

\* AES-256-GCM: only the key that closed a secret opens it.
Encrypt(password, key) == [password |-> password, key |-> key]

Opens(key, secret) == secret.key = key

ASSUME SecretsAssumption ==
  Secrets = {Encrypt(p, k) : p \in Passwords, k \in Keys}

ASSUME TargetsAssumption == ValidTargets \subseteq Targets /\ None \notin Passwords

ASSUME NoneIsNoRequest ==
  None \notin ClientRequests /\ None \notin [id : Ids, row : Row]

ClientOps == {"create", "get", "update", "delete", "verify"}

\* The first call of the repository that a request makes, and the second one
\* of a verification.
RepositoryCall(r, key) ==
  IF r.op = "verify" THEN [r EXCEPT !.op = "getSecret"]
  ELSE [r EXCEPT !.secret = IF @ = None THEN None ELSE Encrypt(@, key)]

RecordCall(r, verdict) == [r EXCEPT !.op = "setVerified", !.verified = verdict]

ASSUME ClientRequestsAssumption ==
  \A r \in ClientRequests :
    /\ r.op \in ClientOps
    /\ \A k \in Keys : RepositoryCall(r, k) \in Requests
    /\ r.op = "verify" => \A v \in BOOLEAN : RecordCall(r, v) \in Requests

\* Where a request may be: in a call of the repository, waiting for the mail
\* server or for the broker, or answered.
Stages == {"calling", "reading", "dialling", "recording", "publishing"}
Answers == Outcomes \cup {"invalid"}

Events == [type : {"created", "verified"}, id : Ids, tenant : Tenants]

VARIABLES
  masterKey,
  request,
  stage,
  config,   \* the configuration that the last call of the repository returned
  dial,     \* the verdict of the mail server, None before it
  events,   \* what the broker took
  vouched,  \* the configurations that a mail server ever accepted
  lastDial  \* the verdict of the last dial made for each

locals == <<request, stage, config, dial>>
outside == <<events, vouched, lastDial>>
serviceVars == <<masterKey, locals, outside>>
allVars == <<vars, serviceVars>>

\* What a request has at hand where it is.
StageOK(s) ==
  /\ stage[s] # "idle" => request[s] # None
  /\ stage[s] \in {"idle", "dialling", "publishing"} \cup Answers => pc[s] = "idle"
  /\ stage[s] \in {"calling", "reading", "recording"} =>
       pc[s] # "idle" /\ call[s].tenant = request[s].tenant
  /\ stage[s] = "calling" => call[s].op = request[s].op
  /\ stage[s] = "reading" => call[s].op = "getSecret"
  /\ stage[s] \in {"reading", "dialling", "recording"} => request[s].op = "verify"
  /\ stage[s] \in {"reading", "recording"} => call[s].id = request[s].id
  /\ stage[s] \in {"dialling", "recording", "publishing"} => config[s] # None
  /\ stage[s] = "recording" =>
       call[s].op = "setVerified" /\ dial[s] # None /\ call[s].verified = dial[s]

ServiceTypeOK ==
  /\ TypeOK
  /\ masterKey \in Keys
  /\ request \in [Sessions -> ClientRequests \cup {None}]
  /\ stage \in [Sessions -> {"idle"} \cup Stages \cup Answers]
  /\ config \in [Sessions -> [id : Ids, row : Row] \cup {None}]
  /\ dial \in [Sessions -> BOOLEAN \cup {None}]
  /\ events \subseteq Events
  /\ vouched \subseteq Ids
  /\ lastDial \in [Ids -> BOOLEAN \cup {None}]
  /\ \A s \in Sessions : StageOK(s)

ServiceInit ==
  /\ Init
  /\ masterKey \in Keys
  /\ request = [s \in Sessions |-> None]
  /\ stage = [s \in Sessions |-> "idle"]
  /\ config = [s \in Sessions |-> None]
  /\ dial = [s \in Sessions |-> None]
  /\ events = {}
  /\ vouched = {}
  /\ lastDial = [i \in Ids |-> None]

Become(s, where) == stage' = [stage EXCEPT ![s] = where]

-----------------------------------------------------------------------------
(* Requests come in.                                                       *)

\* Mutant of Valid: an update is not checked.
ValidCreate(r) == r.op = "create" => r.target \in ValidTargets

\* validate_encryption and validate_smtp_port, for the fields that are given.
Valid(r) == r.target \in ValidTargets \cup {None}

Accept(s, r) ==
  /\ Valid(r)
  /\ Start(s, RepositoryCall(r, masterKey))
  /\ Become(s, IF r.op = "verify" THEN "reading" ELSE "calling")

Refuse(s, r) == ~Valid(r) /\ Become(s, "invalid") /\ UNCHANGED vars

Receive(s) ==
  /\ stage[s] = "idle"
  /\ \E r \in ClientRequests :
       /\ Accept(s, r) \/ Refuse(s, r)
       /\ request' = [request EXCEPT ![s] = r]
  /\ UNCHANGED <<masterKey, config, dial, outside>>

-----------------------------------------------------------------------------
(* What becomes of a call of the repository.  Each of these steps takes    *)
(* the method's result, and with it the connection is free.                *)

Returned(s) == config' = [config EXCEPT ![s] = [id |-> call[s].id, row |-> row[s]]]

\* Mutant of Finish: the event does not wait for the result.
FinishAnnounced(s) ==
  /\ stage[s] = "calling"
  /\ Collect(s)
  /\ IF request[s].op = "create" THEN Returned(s) /\ Become(s, "publishing")
     ELSE Become(s, pc[s]) /\ UNCHANGED config
  /\ UNCHANGED <<masterKey, request, dial, outside>>

\* create announces the configuration; get, update and delete are over.
Finish(s) ==
  /\ stage[s] = "calling"
  /\ Collect(s)
  /\ \/ /\ pc[s] = "ok" /\ request[s].op = "create"
        /\ Returned(s)
        /\ Become(s, "publishing")
     \/ /\ pc[s] # "ok" \/ request[s].op # "create"
        /\ Become(s, pc[s])
        /\ UNCHANGED config
  /\ UNCHANGED <<masterKey, request, dial, outside>>

\* Mutants of Open: a configuration that is not found, or a password that
\* does not open, is dialled all the same.
OpenUnfound(s) ==
  /\ stage[s] = "reading"
  /\ Collect(s)
  /\ Returned(s)
  /\ Become(s, "dialling")
  /\ UNCHANGED <<masterKey, request, dial, outside>>

OpenUnread(s) ==
  /\ stage[s] = "reading"
  /\ Collect(s)
  /\ \/ pc[s] = "ok" /\ Returned(s) /\ Become(s, "dialling")
     \/ pc[s] # "ok" /\ Become(s, pc[s]) /\ UNCHANGED config
  /\ UNCHANGED <<masterKey, request, dial, outside>>

\* verify opens the password with the process's key.
Open(s) ==
  /\ stage[s] = "reading"
  /\ Collect(s)
  /\ \/ /\ pc[s] = "ok"
        /\ Returned(s)
        /\ Become(s, IF Opens(masterKey, row[s].secret) THEN "dialling" ELSE "internal")
     \/ pc[s] # "ok" /\ Become(s, pc[s]) /\ UNCHANGED config
  /\ UNCHANGED <<masterKey, request, dial, outside>>

\* Mutant of Dial: TRUE is recorded whatever the mail server said.
DialPraised(s) ==
  /\ stage[s] = "dialling"
  /\ \E verdict \in BOOLEAN :
       /\ dial' = [dial EXCEPT ![s] = TRUE]
       /\ Start(s, RecordCall(request[s], TRUE))
       /\ vouched' = IF verdict THEN vouched \cup {request[s].id} ELSE vouched
       /\ lastDial' = [lastDial EXCEPT ![request[s].id] = verdict]
  /\ Become(s, "recording")
  /\ UNCHANGED <<masterKey, request, config, events>>

\* The mail server answers, or the time is up.
Dial(s) ==
  /\ stage[s] = "dialling"
  /\ \E verdict \in BOOLEAN :
       /\ dial' = [dial EXCEPT ![s] = verdict]
       /\ Start(s, RecordCall(request[s], verdict))
       /\ vouched' = IF verdict THEN vouched \cup {request[s].id} ELSE vouched
       /\ lastDial' = [lastDial EXCEPT ![request[s].id] = verdict]
  /\ Become(s, "recording")
  /\ UNCHANGED <<masterKey, request, config, events>>

\* A verdict that is recorded is announced if it is good.
Recorded(s) ==
  /\ stage[s] = "recording"
  /\ Collect(s)
  /\ \/ pc[s] = "ok" /\ Returned(s) /\ Become(s, IF dial[s] THEN "publishing" ELSE "ok")
     \/ pc[s] # "ok" /\ Become(s, pc[s]) /\ UNCHANGED config
  /\ UNCHANGED <<masterKey, request, dial, outside>>

Event(s) ==
  [type   |-> IF request[s].op = "create" THEN "created" ELSE "verified",
   id     |-> config[s].id,
   tenant |-> request[s].tenant]

\* The answer does not depend on whether the broker took the event.
Publish(s) ==
  /\ stage[s] = "publishing"
  /\ events' \in {events, events \cup {Event(s)}}
  /\ Become(s, "ok")
  /\ UNCHANGED <<vars, masterKey, request, config, dial, vouched, lastDial>>

Forget(S) ==
  /\ request' = [s \in Sessions |-> IF s \in S THEN None ELSE request[s]]
  /\ stage' = [s \in Sessions |-> IF s \in S THEN "idle" ELSE stage[s]]
  /\ config' = [s \in Sessions |-> IF s \in S THEN None ELSE config[s]]
  /\ dial' = [s \in Sessions |-> IF s \in S THEN None ELSE dial[s]]

Respond(s) ==
  stage[s] \in Answers /\ Forget({s}) /\ UNCHANGED <<vars, masterKey, outside>>

-----------------------------------------------------------------------------
\* The client hangs up, wherever its request is.
HangUp(s) == Forget({s}) /\ Abandon(s) /\ UNCHANGED <<masterKey, outside>>

\* The process ends, and starts again with a key that may be another one.
Restart == Forget(Sessions) /\ Crash /\ masterKey' \in Keys /\ UNCHANGED outside

\* What the program and the database do of their own accord.
Serve(s) ==
  \/ Work(s) /\ UNCHANGED serviceVars
  \/ Finish(s) \/ Open(s) \/ Recorded(s) \/ Respond(s)

BreakCycle(s) == DeadlockAbort(s) /\ UNCHANGED serviceVars

CalmNext == \E s \in Sessions : Receive(s) \/ Serve(s) \/ Dial(s) \/ Publish(s)

ServiceNext ==
  \/ CalmNext
  \/ \E s \in Sessions : (Fault(s) /\ UNCHANGED serviceVars) \/ HangUp(s)
  \/ Restart

ServiceSpec == ServiceInit /\ [][ServiceNext]_allVars

\* Nothing breaks: no error of the database, no client that hangs up, no
\* restart.
CalmSpec == ServiceInit /\ [][CalmNext]_allVars

\* Nothing is asked of the mail servers, nor of the broker.
FairService ==
  /\ ServiceSpec
  /\ \A s \in Sessions : SF_allVars(Serve(s)) /\ WF_allVars(BreakCycle(s))

-----------------------------------------------------------------------------
(* Properties.                                                             *)

\* A configuration is marked verified only if a mail server accepted a dial
\* made for it, whatever was updated, deleted or restarted since.
VerifiedWasAccepted ==
  \A i \in Ids : db[i] # None /\ db[i].verified => i \in vouched

EventTrue(e) ==
  /\ db[e.id] # None /\ db[e.id].tenant = e.tenant
  /\ e.type = "verified" => e.id \in vouched

\* An event tells of a configuration that is in the table, under its tenant,
\* and one of a verification, of a server that accepted it: nothing is
\* announced before it is committed.
EventsTrue == \A e \in events : EventTrue(e)

VerdictStep ==
  \A i \in Ids :
    db[i] # None /\ db'[i].verified # db[i].verified =>
      \E s \in Sessions :
        /\ stage[s] = "recording"
        /\ request[s].id = i
        /\ request[s].tenant = db[i].tenant
        /\ dial[s] = db'[i].verified
        /\ Opens(masterKey, config[s].row.secret)

\* The flag moves only as a verdict on this configuration, asked by its
\* tenant, of a dial made with a password that the present key opened: a lost
\* or changed key never unverifies a configuration.
FlagMovesByVerdict == [][VerdictStep]_db

\* What is stored passed the validation, though an update checks only the
\* fields it names.
StoredTargetsValid ==
  \A i \in Ids : db[i] # None => db[i].target \in ValidTargets

\* A request that is not itself waiting for a mail server or for the broker
\* comes to its end, though those others wait for may never answer.
OthersServed ==
  \A s \in Sessions :
    stage[s] \in {"calling", "reading", "recording"} ~>
      stage[s] \in {"idle", "dialling", "publishing"} \cup Answers

\* The flag of a configuration is the verdict of the last dial made for it,
\* once every verification of it has recorded its own.
FlagFollowsLastDial ==
  \A i \in Ids :
    /\ Live(db[i])
    /\ lastDial[i] # None
    /\ \A s \in Sessions : stage[s] = "recording" => request[s].id # i
    => db[i].verified = lastDial[i]

\* What keeps the flag from following: two verifications of a configuration
\* that overlap, from the dial of one to the end of the record of the other,
Verifying(s) == stage[s] \in {"dialling", "recording"}

VerificationsApart ==
  \A s, v \in Sessions :
    Verifying(s) /\ Verifying(v) /\ request[s].id = request[v].id => s = v

\* and a record that an error, a hang-up or a restart breaks off.
VerdictsKept ==
  \A s \in Sessions :
    stage[s] = "recording" /\ pc'[s] # pc[s] =>
      pc'[s] # "internal" /\ (pc'[s] = "idle" => pc[s] \in Outcomes)

-----------------------------------------------------------------------------
(* Why the properties hold: an inductive invariant.                        *)

\* What a verification has found out so far, and what is about to be announced.
RequestInv(s) ==
  /\ stage[s] \in {"dialling", "recording"} => Opens(masterKey, config[s].row.secret)
  /\ stage[s] = "recording" /\ dial[s] => request[s].id \in vouched
  /\ stage[s] = "publishing" => EventTrue(Event(s))

\* Wherever a row is made, kept or written from, its target was validated, and
\* so were those of the calls and requests it is made from.
Usable(r) == r # None => r.target \in ValidTargets

RowsUsable ==
  /\ \A i \in Ids : Usable(db[i])
  /\ \A s \in Sessions : Usable(row[s]) /\ \A i \in Ids : Usable(pending[s][i])

CallsValid == \A s \in Sessions : pc[s] # "idle" => Valid(call[s])

RequestsValid ==
  \A s \in Sessions : stage[s] \notin {"idle", "invalid"} => Valid(request[s])

\* A verification that has read its configuration is about a row of the
\* caller's tenant,
ReadFound(s) ==
  pc[s] \in {"secret", "commit", "ok"} /\ call[s].op = "getSecret" =>
    OfTenant(s, db[call[s].id])

DialsFound(s) ==
  Verifying(s) =>
    db[request[s].id] # None /\ db[request[s].id].tenant = request[s].tenant

\* and its record ends with the verdict in the row, unless that is deleted.
RecordOK(s) ==
  LET now == db[request[s].id]
  IN stage[s] = "recording" =>
       /\ lastDial[request[s].id] = dial[s]
       /\ \/ pc[s] \in {"begin", "flag", "commit"}
          \/ pc[s] = "ok" /\ (Live(now) => now.verified = dial[s])
          \/ pc[s] = "notFound" /\ ~Live(now)

FoundInv == \A s \in Sessions : ReadFound(s) /\ DialsFound(s)

LastDialInv ==
  /\ FlagFollowsLastDial
  /\ \A i \in Ids : lastDial[i] # None => db[i] # None
  /\ \A s \in Sessions : RecordOK(s)

ServiceInv ==
  VerifiedWasAccepted /\ EventsTrue /\ \A s \in Sessions : RequestInv(s)

=============================================================================
