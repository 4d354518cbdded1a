---------------------- MODULE MailConfigServiceProofs -----------------------
(***************************************************************************)
(* The service uses the repository only as the repository's specification  *)
(* says, so what is proved of the one holds under the other; and what the  *)
(* flag says of a configuration.                                           *)
(***************************************************************************)
EXTENDS MailConfigService, MailConfigRepositoryRefinement

-----------------------------------------------------------------------------
(* The service implements the repository's specification.                  *)

LEMMA AcceptCalls ==
  ASSUME masterKey \in Keys, NEW s \in Sessions, NEW r \in ClientRequests, Accept(s, r)
  PROVE  Invoke(s)
BY ClientRequestsAssumption DEF Accept, Invoke

LEMMA DialCalls ==
  ASSUME ServiceTypeOK, NEW s \in Sessions, Dial(s)
  PROVE  Invoke(s)
<1>1. request[s] \in ClientRequests /\ request[s].op = "verify"
  BY DEF ServiceTypeOK, StageOK, Dial
<1>2. PICK verdict \in BOOLEAN : Start(s, RecordCall(request[s], verdict))
  BY DEF Dial
<1> QED
  BY <1>1, <1>2, ClientRequestsAssumption DEF Invoke

\* Every step of the service is a step of the repository, or none.
LEMMA ServiceStep ==
  ASSUME ServiceTypeOK, [ServiceNext]_allVars
  PROVE  [Next]_vars
<1>1. CASE UNCHANGED allVars
  BY <1>1 DEF allVars
<1>2. ASSUME NEW s \in Sessions, Receive(s)
      PROVE  [Next]_vars
  BY <1>2, AcceptCalls DEF Receive, Refuse, Next, ServiceTypeOK
<1>3. ASSUME NEW s \in Sessions, Serve(s)
      PROVE  [Next]_vars
  BY <1>3 DEF Serve, Finish, Open, Recorded, Respond, Next, Step
<1>4. ASSUME NEW s \in Sessions, Dial(s)
      PROVE  [Next]_vars
  BY <1>4, DialCalls DEF Next
<1>5. ASSUME NEW s \in Sessions, Publish(s)
      PROVE  [Next]_vars
  BY <1>5 DEF Publish
<1>6. ASSUME NEW s \in Sessions, Fault(s) \/ HangUp(s)
      PROVE  [Next]_vars
  BY <1>6 DEF HangUp, Next
<1>7. CASE Restart
  BY <1>7 DEF Restart, Next
<1> QED
  BY <1>1, <1>2, <1>3, <1>4, <1>5, <1>6, <1>7 DEF ServiceNext, CalmNext

-----------------------------------------------------------------------------
(* Type correctness.                                                       *)

ServiceTypes ==
  /\ masterKey \in Keys
  /\ request \in [Sessions -> ClientRequests \cup {None}]
  /\ stage \in [Sessions -> {"idle"} \cup Stages \cup Answers]
  /\ config \in [Sessions -> [id : Ids, row : Row] \cup {None}]
  /\ dial \in [Sessions -> BOOLEAN \cup {None}]
  /\ events \subseteq Events
  /\ vouched \subseteq Ids
  /\ lastDial \in [Ids -> BOOLEAN \cup {None}]

\* A request's stage depends on its own variables only.
LEMMA OthersInStage ==
  ASSUME ServiceTypeOK, NEW s \in Sessions, StageOK(s)',
         \A v \in Sessions \ {s} :
           /\ stage'[v] = stage[v] /\ request'[v] = request[v]
           /\ config'[v] = config[v] /\ dial'[v] = dial[v]
           /\ pc'[v] = pc[v] /\ call'[v] = call[v]
  PROVE  \A v \in Sessions : StageOK(v)'
<1> SUFFICES ASSUME NEW v \in Sessions, v # s
             PROVE  StageOK(v)'
  OBVIOUS
<1> QED
  BY DEF ServiceTypeOK, StageOK

LEMMA ServiceTypeInit == ServiceInit => ServiceTypeOK
<1> SUFFICES ASSUME ServiceInit PROVE ServiceTypeOK
  OBVIOUS
<1>1. TypeOK
  BY TypeInit DEF ServiceInit
<1>2. ServiceTypes
  BY DEF ServiceInit, ServiceTypes
<1>3. \A s \in Sessions : StageOK(s)
  BY DEF ServiceInit, Init, StageOK, Answers, Outcomes
<1> QED
  BY <1>1, <1>2, <1>3 DEF ServiceTypes, ServiceTypeOK

\* The repository at work leaves every stage in order.
LEMMA StageWork ==
  ASSUME ServiceTypeOK, NEW s \in Sessions, Work(s) \/ Fault(s), UNCHANGED serviceVars
  PROVE  \A v \in Sessions : StageOK(v)'
<1>1. UnderWay(s)
  BY WorkUnderWay DEF ServiceTypeOK
<1>2. StageOK(s)'
  BY <1>1 DEF ServiceTypeOK, StageOK, UnderWay, serviceVars, locals
<1> QED
  BY <1>1, <1>2, OthersInStage DEF UnderWay, serviceVars, locals

\* A call that starts: the identifier of a creation apart, it is as it was made.
LEMMA Started ==
  ASSUME TypeOK, NEW s \in Sessions, NEW c \in Requests, Start(s, c)
  PROVE  /\ pc'[s] = "begin"
         /\ call'[s].op = c.op /\ call'[s].tenant = c.tenant
         /\ call'[s].verified = c.verified
         /\ c.op # "create" => call'[s].id = c.id
         /\ \A v \in Sessions \ {s} : pc'[v] = pc[v] /\ call'[v] = call[v]
<1>1. c \in Arguments
  BY RequestsAssumption DEF Call
<1>2. pc'[s] = "begin" /\ \A v \in Sessions \ {s} : pc'[v] = pc[v]
  BY DEF TypeOK, Start, Goto
<1>3. CASE c.op # "create"
  BY <1>2, <1>3 DEF TypeOK, Start
<1>4. CASE c.op = "create"
  <2>1. PICK i \in Ids : call' = [call EXCEPT ![s] = [c EXCEPT !.id = i]]
    BY <1>4 DEF Start
  <2> QED
    BY <1>1, <1>2, <1>4, <2>1 DEF TypeOK, Arguments
<1> QED
  BY <1>3, <1>4

LEMMA StageReceive ==
  ASSUME ServiceTypeOK, NEW s \in Sessions, Receive(s)
  PROVE  ServiceTypes' /\ \A v \in Sessions : StageOK(v)'
<1>1. PICK r \in ClientRequests :
        /\ Accept(s, r) \/ Refuse(s, r)
        /\ request' = [request EXCEPT ![s] = r]
  BY DEF Receive
<1>2. ServiceTypes'
  BY <1>1 DEF ServiceTypeOK, ServiceTypes, Receive, outside, Accept, Refuse, Become,
              Stages, Answers
<1>3. r # None /\ r.op \in ClientOps
  BY NoneIsNoRequest, ClientRequestsAssumption
<1>4. /\ request'[s] = r /\ config' = config /\ dial' = dial
      /\ \A v \in Sessions \ {s} : request'[v] = request[v] /\ stage'[v] = stage[v]
  BY <1>1 DEF ServiceTypeOK, Receive, Accept, Refuse, Become
<1>5. CASE Accept(s, r)
  <2> DEFINE c == RepositoryCall(r, masterKey)
  <2>1. /\ c \in Requests /\ c.tenant = r.tenant
        /\ c.op = IF r.op = "verify" THEN "getSecret" ELSE r.op
        /\ r.op = "verify" => c.id = r.id
    <3>1. c \in Requests
      BY ClientRequestsAssumption DEF ServiceTypeOK
    <3> QED
      BY <3>1, <1>3, RequestsAssumption DEF RepositoryCall, ClientOps, Call, Arguments
  <2>2. Start(s, c) /\ stage'[s] = IF r.op = "verify" THEN "reading" ELSE "calling"
    BY <1>5 DEF Accept, Become, ServiceTypeOK
  <2> HIDE DEF c
  <2>3. /\ pc'[s] = "begin"
        /\ call'[s].op = c.op /\ call'[s].tenant = c.tenant
        /\ c.op # "create" => call'[s].id = c.id
        /\ \A v \in Sessions \ {s} : pc'[v] = pc[v] /\ call'[v] = call[v]
    BY <2>1, <2>2, Started DEF ServiceTypeOK
  <2>4. StageOK(s)'
    BY <1>3, <1>4, <2>1, <2>2, <2>3 DEF StageOK, Answers, Outcomes
  <2> QED
    BY <1>2, <1>4, <2>3, <2>4, OthersInStage
<1>6. CASE Refuse(s, r)
  <2>1. stage'[s] = "invalid" /\ pc' = pc /\ call' = call
    BY <1>6 DEF Refuse, Become, vars, ServiceTypeOK
  <2>2. StageOK(s)'
    BY <1>3, <1>4, <2>1 DEF StageOK, ServiceTypeOK, Receive, Answers, Outcomes
  <2> QED
    BY <1>2, <1>4, <2>1, <2>2, OthersInStage
<1> QED
  BY <1>1, <1>5, <1>6

\* A call that is over leaves the session idle.
LEMMA Collected ==
  ASSUME ServiceTypeOK, NEW s \in Sessions, Collect(s), stage[s] # "idle",
         NEW where \in {"dialling", "publishing"} \cup Answers, Become(s, where),
         where \in {"dialling", "publishing"} => config'[s] # None,
         where = "dialling" => request[s].op = "verify",
         \A v \in Sessions \ {s} : config'[v] = config[v],
         UNCHANGED <<request, dial>>
  PROVE  \A v \in Sessions : StageOK(v)'
<1>1. /\ pc'[s] = "idle" /\ stage'[s] = where
      /\ \A v \in Sessions \ {s} :
           pc'[v] = pc[v] /\ call'[v] = call[v] /\ stage'[v] = stage[v]
  BY DEF ServiceTypeOK, TypeOK, Collect, Goto, Become
<1>2. request[s] # None
  BY DEF ServiceTypeOK, StageOK
<1>3. StageOK(s)'
  BY <1>1, <1>2 DEF StageOK, Answers, Outcomes
<1> QED
  BY <1>1, <1>3, OthersInStage

LEMMA ReturnedType ==
  ASSUME ServiceTypeOK, NEW s \in Sessions, pc[s] = "ok", row[s] \in Row, Returned(s)
  PROVE  /\ config' \in [Sessions -> [id : Ids, row : Row] \cup {None}]
         /\ config'[s] = [id |-> call[s].id, row |-> row[s]]
         /\ config'[s] # None
         /\ \A v \in Sessions \ {s} : config'[v] = config[v]
<1>1. call[s].id \in Ids
  BY DEF ServiceTypeOK, TypeOK, PlaceOK
<1>2. [id |-> call[s].id, row |-> row[s]] \in [id : Ids, row : Row]
  BY <1>1
<1> QED
  BY <1>2, NoneIsNoRequest DEF Returned, ServiceTypeOK

\* The three steps that take the result of a call.
Takes(s) == Finish(s) \/ Open(s) \/ Recorded(s)

LEMMA StageTakes ==
  ASSUME ServiceTypeOK, NEW s \in Sessions, Takes(s)
  PROVE  ServiceTypes' /\ \A v \in Sessions : StageOK(v)'
<1>1. /\ Collect(s)
      /\ stage[s] \in {"calling", "reading", "recording"}
      /\ UNCHANGED <<masterKey, request, dial, outside>>
  BY DEF Takes, Finish, Open, Recorded
<1>2. /\ stage[s] = "calling" => call[s].op = request[s].op
      /\ stage[s] = "reading" => call[s].op = "getSecret" /\ request[s].op = "verify"
      /\ stage[s] = "recording" => call[s].op = "setVerified"
  BY DEF ServiceTypeOK, StageOK
<1>3. CASE UNCHANGED config /\ Become(s, pc[s])
  <2>1. pc[s] \in Answers
    BY <1>1 DEF Collect, Answers
  <2>2. \A v \in Sessions : StageOK(v)'
    BY <1>1, <1>3, <2>1, Collected DEF Answers, Outcomes
  <2> QED
    BY <1>1, <1>3, <2>1, <2>2 DEF ServiceTypeOK, ServiceTypes, Become, outside
<1>4. CASE /\ pc[s] = "ok"
           /\ \/ stage[s] = "calling" /\ request[s].op = "create"
              \/ stage[s] \in {"reading", "recording"}
           /\ Returned(s)
           /\ \E where \in {"dialling", "publishing"} \cup Answers :
                Become(s, where) /\ (where = "dialling" => stage[s] = "reading")
  <2>1. row[s] \in Row
    BY <1>2, <1>4 DEF ServiceTypeOK, TypeOK, PlaceOK
  <2>2. PICK where \in {"dialling", "publishing"} \cup Answers :
          Become(s, where) /\ (where = "dialling" => stage[s] = "reading")
    BY <1>4
  <2>3. /\ config' \in [Sessions -> [id : Ids, row : Row] \cup {None}]
        /\ config'[s] # None
        /\ \A v \in Sessions \ {s} : config'[v] = config[v]
    BY <1>4, <2>1, ReturnedType
  <2>4. \A v \in Sessions : StageOK(v)'
    BY <1>1, <1>2, <2>2, <2>3, Collected
  <2> QED
    BY <1>1, <2>2, <2>3, <2>4 DEF ServiceTypeOK, ServiceTypes, Become, Stages, outside
<1> QED
  BY <1>3, <1>4 DEF Takes, Finish, Open, Recorded, Answers, Outcomes

LEMMA StageDial ==
  ASSUME ServiceTypeOK, NEW s \in Sessions, Dial(s)
  PROVE  ServiceTypes' /\ \A v \in Sessions : StageOK(v)'
<1>1. PICK verdict \in BOOLEAN :
        /\ dial' = [dial EXCEPT ![s] = verdict]
        /\ Start(s, RecordCall(request[s], verdict))
        /\ vouched' = IF verdict THEN vouched \cup {request[s].id} ELSE vouched
        /\ lastDial' = [lastDial EXCEPT ![request[s].id] = verdict]
  BY DEF Dial
<1> DEFINE c == RecordCall(request[s], verdict)
<1>2. request[s] \in ClientRequests /\ request[s].op = "verify" /\ config[s] # None
  BY DEF ServiceTypeOK, StageOK, Dial
<1>3. c \in Requests /\ c \in Call /\ request[s].id = c.id /\ c.id \in Ids
      /\ c.tenant = request[s].tenant
      /\ c.op = "setVerified" /\ c.verified = verdict
  <2>1. c \in Requests /\ RepositoryCall(request[s], masterKey) \in Requests
    BY <1>2, ClientRequestsAssumption DEF ServiceTypeOK
  <2>2. c \in Arguments /\ RepositoryCall(request[s], masterKey) \in Call
    BY <2>1, RequestsAssumption DEF Call
  <2>3. c.op = "setVerified" /\ c.verified = verdict
    BY <2>1, <2>2, RequestsAssumption DEF RecordCall, RepositoryCall, Call, Arguments
  <2> QED
    BY <1>2, <2>1, <2>2, <2>3, RequestsAssumption
    DEF RecordCall, RepositoryCall, Call, Arguments
<1> HIDE DEF c
<1>4. /\ pc'[s] = "begin"
      /\ call'[s].op = c.op /\ call'[s].tenant = c.tenant
      /\ call'[s].verified = c.verified /\ call'[s].id = c.id
      /\ \A v \in Sessions \ {s} : pc'[v] = pc[v] /\ call'[v] = call[v]
  BY <1>1, <1>3, Started DEF ServiceTypeOK, c
<1>5. /\ stage'[s] = "recording" /\ dial'[s] = verdict /\ dial'[s] # None
      /\ UNCHANGED <<request, config>>
      /\ \A v \in Sessions \ {s} : stage'[v] = stage[v] /\ dial'[v] = dial[v]
  BY <1>1, NoneAssumption DEF Dial, Become, ServiceTypeOK
<1>6. StageOK(s)'
  BY <1>2, <1>3, <1>4, <1>5, NoneIsNoRequest DEF StageOK, Answers, Outcomes
<1>7. ServiceTypes'
  BY <1>1, <1>3, <1>5 DEF ServiceTypeOK, ServiceTypes, Dial, Become, Stages
<1> QED
  BY <1>4, <1>5, <1>6, <1>7, OthersInStage

LEMMA EventType ==
  ASSUME ServiceTypeOK, NEW s \in Sessions, stage[s] = "publishing"
  PROVE  Event(s) \in Events
<1>1. request[s] \in ClientRequests /\ config[s] \in [id : Ids, row : Row]
  BY DEF ServiceTypeOK, StageOK
<1>2. RepositoryCall(request[s], masterKey) \in Arguments
  BY <1>1, ClientRequestsAssumption, RequestsAssumption DEF ServiceTypeOK, Call
<1>3. request[s].tenant \in Tenants
  BY <1>1, <1>2 DEF RepositoryCall, Arguments
<1> QED
  BY <1>1, <1>3 DEF Event, Events

LEMMA StagePublish ==
  ASSUME ServiceTypeOK, NEW s \in Sessions, Publish(s)
  PROVE  ServiceTypes' /\ \A v \in Sessions : StageOK(v)'
<1>1. /\ stage'[s] = "ok"
      /\ \A v \in Sessions \ {s} : stage'[v] = stage[v]
      /\ UNCHANGED <<vars, request, config, dial>>
  BY DEF Publish, Become, ServiceTypeOK
<1>2. StageOK(s)'
  BY <1>1 DEF StageOK, ServiceTypeOK, Publish, Answers, Outcomes, vars
<1>3. Event(s) \in Events
  BY EventType DEF Publish
<1>4. ServiceTypes'
  BY <1>1, <1>3 DEF ServiceTypeOK, ServiceTypes, Publish, Become, Answers, Outcomes
<1> QED
  BY <1>1, <1>2, <1>4, OthersInStage DEF vars

\* Requests that are over leave nothing behind in their sessions.
LEMMA StageForget ==
  ASSUME ServiceTypeOK, NEW S \in SUBSET Sessions, Forget(S), outside' = outside, masterKey' \in Keys,
         \A v \in S : pc'[v] = "idle",
         \A v \in Sessions \ S : pc'[v] = pc[v] /\ call'[v] = call[v]
  PROVE  ServiceTypes' /\ \A v \in Sessions : StageOK(v)'
<1>1. ServiceTypes'
  BY DEF ServiceTypeOK, ServiceTypes, Forget, outside
<1>2. ASSUME NEW v \in S
      PROVE  StageOK(v)'
  BY <1>2 DEF StageOK, Forget, Answers, Outcomes
<1>3. ASSUME NEW v \in Sessions \ S
      PROVE  StageOK(v)'
  BY <1>3 DEF StageOK, Forget, ServiceTypeOK
<1> QED
  BY <1>1, <1>2, <1>3

LEMMA ServiceTypeStep == ServiceTypeOK /\ [ServiceNext]_allVars => ServiceTypeOK'
<1> SUFFICES ASSUME ServiceTypeOK, [ServiceNext]_allVars PROVE ServiceTypeOK'
  OBVIOUS
<1>1. TypeOK'
  BY ServiceStep, TypeStep DEF ServiceTypeOK
<1> SUFFICES ServiceTypes' /\ \A v \in Sessions : StageOK(v)'
  BY <1>1 DEF ServiceTypes, ServiceTypeOK
<1>2. CASE UNCHANGED allVars
  BY <1>2 DEF ServiceTypes, ServiceTypeOK, StageOK, allVars, vars, serviceVars, locals, outside
<1>3. ASSUME NEW s \in Sessions, Receive(s) \/ Dial(s) \/ Publish(s) \/ Takes(s)
      PROVE  ServiceTypes' /\ \A v \in Sessions : StageOK(v)'
  BY <1>3, StageReceive, StageDial, StagePublish, StageTakes
<1>4. ASSUME NEW s \in Sessions, Work(s) \/ Fault(s), UNCHANGED serviceVars
      PROVE  ServiceTypes' /\ \A v \in Sessions : StageOK(v)'
  <2>1. ServiceTypes'
    BY <1>4 DEF ServiceTypes, ServiceTypeOK, serviceVars, locals, outside
  <2> QED
    BY <1>4, <2>1, StageWork
<1>5. ASSUME NEW s \in Sessions, Respond(s)
      PROVE  ServiceTypes' /\ \A v \in Sessions : StageOK(v)'
  <2>1. pc[s] = "idle" /\ UNCHANGED <<pc, call, masterKey, outside>> /\ Forget({s})
    BY <1>5 DEF Respond, ServiceTypeOK, StageOK, vars
  <2> QED
    BY <2>1, StageForget DEF ServiceTypeOK
<1>6. ASSUME NEW S \in SUBSET Sessions, Drop(S), Forget(S), outside' = outside, masterKey' \in Keys
      PROVE  ServiceTypes' /\ \A v \in Sessions : StageOK(v)'
  <2>1. /\ \A v \in S : pc'[v] = "idle"
        /\ \A v \in Sessions \ S : pc'[v] = pc[v] /\ call'[v] = call[v]
    BY <1>6 DEF Drop
  <2> QED
    BY <1>6, <2>1, StageForget
<1>7. ASSUME NEW s \in Sessions, HangUp(s)
      PROVE  ServiceTypes' /\ \A v \in Sessions : StageOK(v)'
  BY <1>6, <1>7 DEF HangUp, Abandon, ServiceTypeOK
<1>8. CASE Restart
  BY <1>6, <1>8 DEF Restart, Crash
<1> QED
  BY <1>2, <1>3, <1>4, <1>5, <1>7, <1>8 DEF ServiceNext, CalmNext, Serve, Takes

\* Every variable of the service has its type, and every request has at hand
\* what its stage calls for.
THEOREM ServiceTypeCorrect == ServiceSpec => []ServiceTypeOK
  BY ServiceTypeInit, ServiceTypeStep, PTL DEF ServiceSpec

\* The service calls the repository only as the repository's specification
\* says: what is proved of every repository under Spec holds of this one,
\* verifications, hang-ups and restarts included.
THEOREM ServiceIsRepository == ServiceSpec => Spec
<1>1. ServiceInit => Init
  BY DEF ServiceInit
<1> QED
  BY <1>1, ServiceTypeCorrect, ServiceStep, PTL DEF ServiceSpec, Spec

\* Each request that succeeds is one atomic change of the table, or two for a
\* verification, whatever verifications, hang-ups and restarts run next to it.
THEOREM ServiceIsTable == ServiceSpec => ImplementsTable
  BY ServiceIsRepository, ConcurrentIsTable, PTL

\* While the writers of each tenant take turns, the service over the repository
\* is the service over the store, with one default at most and none lost;
\* verifications dial outside the transactions, and may overlap all the same.
THEOREM ServiceInTurns ==
  ServiceSpec /\ []WritersInTurn => ImplementsStore /\ []AtMostOneDefault /\ DefaultKept
  BY ServiceIsRepository, TakingTurns, TurnsAreStore, TurnsOneDefault, TurnsKeepDefault, PTL

-----------------------------------------------------------------------------
(* The flag and the events.                                                *)

\* Only a verdict that is being recorded moves a flag.
LEMMA FlagMoves ==
  ASSUME ServiceTypeOK, IInv, [Next]_vars, NEW i \in Ids, db'[i] # None,
         IF db[i] = None THEN db'[i].verified ELSE db'[i].verified # db[i].verified
  PROVE  /\ db[i] # None
         /\ \E s \in Sessions : /\ stage[s] = "recording"
                                /\ request[s].id = i
                                /\ request[s].tenant = db[i].tenant
                                /\ dial[s] = db'[i].verified
                                /\ pc[s] = "commit"
<1>1. db'[i] # db[i]
  OBVIOUS
<1>2. PICK s \in Sessions : pc[s] = "commit" /\ db' = Merged(s)
  BY <1>1, OnlyCommits
<1>3. IF i = call[s].id THEN OwnVersion(s, db[i], db'[i]) ELSE OtherVersion(s, db[i], db'[i])
  BY <1>1, <1>2, CommittedVersion
<1>4. db[i] \in Row \cup {None}
  BY DEF IInv, TypeOK
<1>5. i = call[s].id /\ OwnVersion(s, db[i], db'[i])
  BY <1>3, <1>4 DEF OtherVersion, OfTenant, Demoted, Row
<1>6. call[s].op = "setVerified" /\ db[i] # None
  <2>1. call[s].op # "create" /\ call[s].op # "update"
    BY <1>5 DEF OwnVersion, Live
  <2>2. db[i] # None
    BY <1>5, <2>1 DEF OwnVersion, Live
  <2>3. call[s].op # "delete"
    BY <1>4, <1>5, <2>2 DEF OwnVersion, Deleted, Row
  <2> QED
    BY <1>5, <2>1, <2>2, <2>3 DEF OwnVersion
<1>7. db'[i].verified = call[s].verified /\ call[s].tenant = db[i].tenant
  BY <1>4, <1>5, <1>6 DEF OwnVersion, OfTenant, Flagged, Row
<1>8. stage[s] = "recording"
  <2>1. stage[s] \in {"calling", "reading", "recording"}
    BY <1>2 DEF ServiceTypeOK, StageOK, Stages, Answers
  <2>2. stage[s] = "calling" => call[s].op \in ClientOps
    BY ClientRequestsAssumption DEF ServiceTypeOK, StageOK
  <2> QED
    BY <1>6, <2>1, <2>2 DEF ServiceTypeOK, StageOK, ClientOps
<1> QED
  BY <1>2, <1>5, <1>6, <1>7, <1>8 DEF ServiceTypeOK, StageOK

LEMMA VerifiedStep ==
  ASSUME ServiceTypeOK, IInv, ServiceInv, [Next]_vars, vouched \subseteq vouched'
  PROVE  VerifiedWasAccepted'
<1> SUFFICES ASSUME NEW i \in Ids, db'[i] # None, db'[i].verified
             PROVE  i \in vouched
  BY DEF VerifiedWasAccepted
<1>1. CASE db[i] # None /\ db[i].verified
  BY <1>1 DEF ServiceInv, VerifiedWasAccepted
<1>2. CASE db[i] = None \/ ~db[i].verified
  <2>1. PICK s \in Sessions : stage[s] = "recording" /\ request[s].id = i /\ dial[s] = db'[i].verified
    BY <1>2, FlagMoves
  <2> QED
    BY <2>1 DEF ServiceInv, RequestInv
<1> QED
  BY <1>1, <1>2

\* What was said of a configuration stays true of it.
LEMMA TruthStays ==
  ASSUME IInv, [Next]_vars, vouched \subseteq vouched', NEW e \in Events, EventTrue(e)
  PROVE  EventTrue(e)'
<1>1. e.id \in Ids
  BY DEF Events
<1> QED
  BY <1>1, RowsStay DEF EventTrue

\* A request that a step leaves alone keeps what it has found out.
LEMMA OthersTrue ==
  ASSUME ServiceTypeOK, IInv, ServiceInv, [Next]_vars, vouched \subseteq vouched',
         NEW v \in Sessions, masterKey' = masterKey,
         stage'[v] = stage[v], request'[v] = request[v], config'[v] = config[v], dial'[v] = dial[v]
  PROVE  RequestInv(v)'
<1>1. CASE stage[v] = "publishing"
  <2>1. Event(v)' = Event(v)
    BY DEF Event
  <2>2. EventTrue(Event(v))'
    BY <1>1, <2>1, EventType, TruthStays DEF ServiceInv, RequestInv, EventTrue
  <2> QED
    BY <1>1, <2>2 DEF RequestInv
<1>2. CASE stage[v] # "publishing"
  BY <1>2 DEF ServiceInv, RequestInv
<1> QED
  BY <1>1, <1>2

LEMMA EventsStep ==
  ASSUME ServiceTypeOK, IInv, ServiceInv, [Next]_vars, vouched \subseteq vouched',
         \A e \in events' \ events : e \in Events /\ EventTrue(e)
  PROVE  EventsTrue'
<1> SUFFICES ASSUME NEW e \in events' PROVE EventTrue(e)'
  BY DEF EventsTrue
<1>1. e \in Events /\ EventTrue(e)
  BY DEF ServiceTypeOK, ServiceInv, EventsTrue
<1> QED
  BY <1>1, TruthStays

\* A request that takes the result of its call.
LEMMA TakesTrue ==
  ASSUME ServiceTypeOK, IInv, DoneInv, ServiceInv, NEW s \in Sessions, Takes(s)
  PROVE  RequestInv(s)'
<1>1. /\ stage[s] \in {"calling", "reading", "recording"}
      /\ UNCHANGED <<db, masterKey, request, dial, vouched>>
  BY DEF Takes, Finish, Open, Recorded, Collect, outside
<1>2. pc[s] \in Outcomes
  BY DEF Takes, Finish, Open, Recorded, Collect
<1>3. CASE stage'[s] \in Answers
  BY <1>3 DEF RequestInv, Answers, Outcomes
<1>4. CASE Finish(s) /\ pc[s] = "ok" /\ request[s].op = "create" /\ Returned(s)
  <2>1. stage'[s] = "publishing" /\ call[s].op = "create" /\ call[s].tenant = request[s].tenant
    BY <1>4 DEF Finish, Become, ServiceTypeOK, StageOK
  <2>2. OfTenant(s, db[call[s].id])
    BY <1>4, <2>1 DEF DoneInv, Answered
  <2>3. config'[s].id = call[s].id
    BY <1>4 DEF Returned, ServiceTypeOK
  <2> QED
    BY <1>1, <1>4, <2>1, <2>2, <2>3 DEF RequestInv, Event, EventTrue, OfTenant
<1>5. CASE Open(s) /\ pc[s] = "ok" /\ Returned(s) /\ Opens(masterKey, row[s].secret)
  <2>1. stage'[s] = "dialling"
    BY <1>5 DEF Open, Become, ServiceTypeOK, TypeOK
  <2>2. config'[s].row = row[s]
    BY <1>5 DEF Returned, ServiceTypeOK
  <2> QED
    BY <1>1, <1>5, <2>1, <2>2 DEF RequestInv, Opens
<1>6. CASE Recorded(s) /\ pc[s] = "ok" /\ dial[s] /\ Returned(s)
  <2>1. /\ stage'[s] = "publishing" /\ stage[s] = "recording"
        /\ call[s].op = "setVerified" /\ call[s].tenant = request[s].tenant
        /\ call[s].id = request[s].id
    BY <1>6 DEF Recorded, Become, ServiceTypeOK, StageOK
  <2>2. OfTenant(s, db[call[s].id]) /\ request[s].id \in vouched
    BY <1>6, <2>1 DEF DoneInv, Answered, ServiceInv, RequestInv
  <2>3. config'[s].id = call[s].id
    BY <1>6 DEF Returned, ServiceTypeOK
  <2> QED
    BY <1>1, <2>1, <2>2, <2>3 DEF RequestInv, Event, EventTrue, OfTenant
<1> QED
  BY <1>2, <1>3, <1>4, <1>5, <1>6
  DEF Takes, Finish, Open, Recorded, Become, ServiceTypeOK, Answers, Outcomes

\* A step of one request, with what its outcome must be.
LEMMA StepOfOne ==
  ASSUME ServiceTypeOK, IInv, ServiceInv, [Next]_vars, vouched \subseteq vouched',
         masterKey' = masterKey,
         \A e \in events' \ events : e \in Events /\ EventTrue(e),
         NEW s \in Sessions, RequestInv(s)',
         \A v \in Sessions \ {s} : /\ stage'[v] = stage[v] /\ request'[v] = request[v]
                                   /\ config'[v] = config[v] /\ dial'[v] = dial[v]
  PROVE  ServiceInv'
<1>1. \A v \in Sessions : RequestInv(v)'
  BY OthersTrue
<1> QED
  BY <1>1, VerifiedStep, EventsStep DEF ServiceInv

LEMMA ServiceInvStep ==
  ServiceTypeOK /\ IInv /\ DoneInv /\ ServiceInv /\ [ServiceNext]_allVars => ServiceInv'
<1> SUFFICES ASSUME ServiceTypeOK, IInv, DoneInv, ServiceInv, [ServiceNext]_allVars
             PROVE  ServiceInv'
  OBVIOUS
<1>1. [Next]_vars
  BY ServiceStep
<1>2. CASE UNCHANGED serviceVars
  <2>1. \A v \in Sessions : RequestInv(v)'
    BY <1>1, <1>2, OthersTrue DEF serviceVars, locals, outside
  <2>2. events' = events /\ vouched \subseteq vouched'
    BY <1>2 DEF serviceVars, outside
  <2> QED
    BY <1>1, <2>1, <2>2, VerifiedStep, EventsStep DEF ServiceInv
<1>3. ASSUME NEW s \in Sessions, Receive(s) \/ Takes(s)
      PROVE  ServiceInv'
  <2>1. RequestInv(s)'
    <3>1. CASE Receive(s)
      <4>1. stage'[s] \in {"reading", "calling", "invalid"}
        BY <3>1 DEF Receive, Accept, Refuse, Become, ServiceTypeOK
      <4> QED
        BY <4>1 DEF RequestInv
    <3> QED
      BY <1>3, <3>1, TakesTrue
  <2>2. events' = events /\ vouched' = vouched /\ masterKey' = masterKey
    BY <1>3 DEF Receive, Takes, Finish, Open, Recorded, outside
  <2>3. \A v \in Sessions \ {s} : /\ stage'[v] = stage[v] /\ request'[v] = request[v]
                                  /\ config'[v] = config[v] /\ dial'[v] = dial[v]
    BY <1>3 DEF Receive, Accept, Refuse, Takes, Finish, Open, Recorded, Returned, Become,
                ServiceTypeOK
  <2> QED
    BY <1>1, <2>1, <2>2, <2>3, StepOfOne
<1>4. ASSUME NEW s \in Sessions, Dial(s)
      PROVE  ServiceInv'
  <2>1. PICK verdict \in BOOLEAN :
          /\ dial' = [dial EXCEPT ![s] = verdict]
          /\ vouched' = IF verdict THEN vouched \cup {request[s].id} ELSE vouched
    BY <1>4 DEF Dial
  <2>2. /\ stage'[s] = "recording" /\ dial'[s] = verdict
        /\ UNCHANGED <<masterKey, request, config>>
        /\ events' = events /\ vouched \subseteq vouched'
        /\ \A v \in Sessions \ {s} : stage'[v] = stage[v] /\ dial'[v] = dial[v]
    BY <1>4, <2>1 DEF Dial, Become, ServiceTypeOK
  <2>3. RequestInv(s)'
    BY <1>4, <2>1, <2>2 DEF ServiceInv, RequestInv, Dial, Opens
  <2> QED
    BY <1>1, <2>2, <2>3, StepOfOne
<1>5. ASSUME NEW s \in Sessions, Publish(s)
      PROVE  ServiceInv'
  <2>1. Event(s) \in Events /\ EventTrue(Event(s))
    BY <1>5, EventType DEF Publish, ServiceInv, RequestInv
  <2>2. \A e \in events' \ events : e \in Events /\ EventTrue(e)
    BY <1>5, <2>1 DEF Publish
  <2>3. /\ stage'[s] = "ok" /\ UNCHANGED <<masterKey, request, config, dial, vouched>>
        /\ \A v \in Sessions \ {s} : stage'[v] = stage[v]
    BY <1>5 DEF Publish, Become, ServiceTypeOK
  <2>4. RequestInv(s)'
    BY <2>3 DEF RequestInv
  <2> QED
    BY <1>1, <2>2, <2>3, <2>4, StepOfOne
<1>6. ASSUME NEW s \in Sessions, Forget({s}), UNCHANGED <<masterKey, outside>>
      PROVE  ServiceInv'
  <2>1. /\ stage'[s] = "idle"
        /\ \A v \in Sessions \ {s} : /\ stage'[v] = stage[v] /\ request'[v] = request[v]
                                     /\ config'[v] = config[v] /\ dial'[v] = dial[v]
    BY <1>6 DEF Forget
  <2>2. events' = events /\ vouched' = vouched /\ masterKey' = masterKey
    BY <1>6 DEF outside
  <2> QED
    BY <1>1, <2>1, <2>2, StepOfOne DEF RequestInv
<1>7. CASE Restart
  <2>1. \A v \in Sessions : RequestInv(v)'
    BY <1>7 DEF Restart, Forget, RequestInv
  <2>2. events' = events /\ vouched' = vouched
    BY <1>7 DEF Restart, outside
  <2> QED
    BY <1>1, <2>1, <2>2, VerifiedStep, EventsStep DEF ServiceInv
<1> QED
  BY <1>2, <1>3, <1>4, <1>5, <1>6, <1>7
  DEF ServiceNext, CalmNext, Serve, Respond, HangUp, Takes, allVars

\* The service's own invariant, which rests on the repository's.
THEOREM ServiceInvariant == ServiceSpec => [](ServiceTypeOK /\ IInv /\ DoneInv /\ ServiceInv)
<1>1. ServiceInit => ServiceInv
  BY DEF ServiceInit, Init, NoRows, ServiceInv, VerifiedWasAccepted, EventsTrue, RequestInv
<1> QED
  BY <1>1, ServiceTypeCorrect, ServiceIsRepository, Invariant, Done, ServiceInvStep, PTL
  DEF ServiceSpec

\* A configuration is marked verified only if a mail server accepted it.
THEOREM Verified == ServiceSpec => []VerifiedWasAccepted
<1>1. ServiceInv => VerifiedWasAccepted
  BY DEF ServiceInv
<1> QED
  BY <1>1, ServiceInvariant, PTL

\* What the broker took is true: committed, of that tenant, accepted.
THEOREM Announced == ServiceSpec => []EventsTrue
<1>1. ServiceInv => EventsTrue
  BY DEF ServiceInv
<1> QED
  BY <1>1, ServiceInvariant, PTL

\* The flag moves only as a verdict that the tenant asked for, of a dial made
\* with a password that the present key opened.
THEOREM FlagByVerdict == ServiceSpec => FlagMovesByVerdict
<1>1. ServiceTypeOK /\ IInv /\ ServiceInv /\ [ServiceNext]_allVars => [VerdictStep]_db
  <2> SUFFICES ASSUME ServiceTypeOK, IInv, ServiceInv, [ServiceNext]_allVars
               PROVE  VerdictStep
    OBVIOUS
  <2>1. [Next]_vars
    BY ServiceStep
  <2> SUFFICES ASSUME NEW i \in Ids, db[i] # None, db'[i].verified # db[i].verified
               PROVE  \E s \in Sessions :
                        /\ stage[s] = "recording"
                        /\ request[s].id = i
                        /\ request[s].tenant = db[i].tenant
                        /\ dial[s] = db'[i].verified
                        /\ Opens(masterKey, config[s].row.secret)
    BY DEF VerdictStep
  <2>2. db'[i] # None
    BY <2>1, RowsStay
  <2> QED
    BY <2>1, <2>2, FlagMoves DEF ServiceInv, RequestInv
<1> QED
  BY <1>1, ServiceInvariant, PTL DEF ServiceSpec, FlagMovesByVerdict

-----------------------------------------------------------------------------
(* The flag after the last dial.                                           *)

\* A call stays where it is, is over, begins, or is worked for.
LEMMA WhoMoves ==
  ASSUME TypeOK, [Next]_vars, NEW v \in Sessions
  PROVE  \/ pc'[v] = pc[v] /\ call'[v] = call[v]
         \/ pc'[v] \in {"idle", "begin"}
         \/ (Work(v) \/ Fault(v)) /\ call'[v] = call[v]
<1>1. CASE UNCHANGED vars
  BY <1>1 DEF vars
<1>2. ASSUME NEW s \in Sessions, Work(s) \/ Fault(s)
      PROVE  v # s => pc'[v] = pc[v] /\ call'[v] = call[v]
  BY <1>2, WorkUnderWay DEF UnderWay
<1>3. ASSUME NEW s \in Sessions, Work(s) \/ Fault(s)
      PROVE  call' = call
  BY <1>3, WorkUnderWay DEF UnderWay
<1>4. ASSUME NEW s \in Sessions, Collect(s) \/ Invoke(s)
      PROVE  pc'[v] \in {"idle", "begin"} \/ (pc'[v] = pc[v] /\ call'[v] = call[v])
  BY <1>4 DEF TypeOK, Collect, Invoke, Start, Goto
<1>5. ASSUME NEW S \in SUBSET Sessions, Drop(S)
      PROVE  pc'[v] = "idle" \/ (pc'[v] = pc[v] /\ call'[v] = call[v])
  BY <1>5 DEF Drop
<1> QED
  BY <1>1, <1>2, <1>3, <1>4, <1>5 DEF Next, Step, Abandon, Crash

LEMMA FaultsAreInternal ==
  ASSUME TypeOK, NEW s \in Sessions, Fault(s)
  PROVE  pc'[s] = "internal"
BY DEF TypeOK, Fault, DbError, CommitUnacknowledged, DeadlockAbort, Fail, Goto

LEMMA SecretWork ==
  ASSUME TypeOK, NEW s \in Sessions, Work(s), call[s].op = "getSecret",
         pc'[s] \in {"secret", "commit", "ok"}
  PROVE  \/ pc[s] \in {"secret", "commit"}
         \/ pc[s] = "config" /\ Found(s) /\ db' = db
<1>1. CASE Begin(s)
  BY <1>1 DEF TypeOK, Begin, Goto, FirstStatement
<1>2. pc[s] \notin {"count", "insert", "select", "existing", "lock", "write", "delete", "flag",
                    "unset", "unsetting"}
  BY DEF TypeOK, PlaceOK
<1>3. CASE SelectConfig(s)
  BY <1>3 DEF TypeOK, SelectConfig, Read, Fail, Goto
<1>4. CASE SelectSecret(s) \/ Commit(s)
  BY <1>4 DEF SelectSecret, Commit
<1> QED
  BY <1>1, <1>2, <1>3, <1>4
  DEF Work, Create, Count, Insert, Get, Select, Update, Existing, Lock, WriteRow, Demote, Unset,
      UnsetRow, UnsetDone, SoftDelete, SetVerified, At

LEMMA VerdictWork ==
  ASSUME TypeOK, NEW s \in Sessions, Work(s), call[s].op = "setVerified"
  PROVE  \/ pc[s] = "begin" /\ pc'[s] = "flag"
         \/ pc[s] = "flag" /\ pc'[s] = "commit"
         \/ pc[s] = "flag" /\ pc'[s] = "notFound" /\ ~Found(s) /\ db' = db
         \/ pc[s] = "commit" /\ pc'[s] = "ok" /\ db' = Merged(s)
<1>1. CASE Begin(s)
  BY <1>1 DEF TypeOK, Begin, Goto, FirstStatement
<1>2. pc[s] \notin {"count", "insert", "select", "config", "secret", "existing", "lock", "write",
                    "delete", "unset", "unsetting"}
  BY DEF TypeOK, PlaceOK
<1>3. CASE SetVerified(s)
  BY <1>3 DEF TypeOK, SetVerified, At, Fail, Goto
<1>4. CASE Commit(s)
  BY <1>4 DEF TypeOK, Commit, Goto
<1> QED
  BY <1>1, <1>2, <1>3, <1>4
  DEF Work, Create, Count, Insert, Get, Select, SelectConfig, SelectSecret, Update, Existing,
      Lock, WriteRow, Demote, Unset, UnsetRow, UnsetDone, SoftDelete, At

\* A deletion is for good.
LEMMA DeadStay ==
  ASSUME IInv, [Next]_vars, NEW i \in Ids, db[i] # None, ~Live(db[i])
  PROVE  ~Live(db'[i])
<1> SUFFICES ASSUME db'[i] # db[i] PROVE FALSE
  BY DEF Live
<1>1. PICK s \in Sessions : db' = Merged(s)
  BY OnlyCommits
<1>2. IF i = call[s].id THEN OwnVersion(s, db[i], db'[i]) ELSE OtherVersion(s, db[i], db'[i])
  BY <1>1, CommittedVersion
<1> QED
  BY <1>2 DEF OwnVersion, OtherVersion, Live, Demoted

LEMMA ReadFoundStep ==
  ASSUME IInv, [Next]_vars, NEW v \in Sessions, ReadFound(v)
  PROVE  ReadFound(v)'
<1> SUFFICES ASSUME pc'[v] \in {"secret", "commit", "ok"}, call'[v].op = "getSecret"
             PROVE  OfTenant(v, db[call[v].id])'
  BY DEF ReadFound
<1>1. TypeOK
  BY DEF IInv
<1>2. call'[v] = call[v] /\ call[v].op = "getSecret"
  BY <1>1, WhoMoves
<1>3. \/ pc[v] \in {"secret", "commit", "ok"}
      \/ pc[v] = "config" /\ Found(v) /\ db' = db
  BY <1>1, <1>2, WhoMoves, FaultsAreInternal, SecretWork
<1>4. CASE pc[v] \in {"secret", "commit", "ok"}
  <2>1. OfTenant(v, db[call[v].id]) /\ call[v].id \in Ids
    BY <1>1, <1>2, <1>4 DEF ReadFound, TypeOK, PlaceOK
  <2> QED
    BY <1>2, <2>1, RowsStay DEF OfTenant
<1>5. CASE pc[v] = "config" /\ Found(v) /\ db' = db
  <2>1. Locks(v) = {} /\ call[v].id \in Ids
    BY <1>1, <1>5 DEF IInv, LockInv, HoldsNothing, TypeOK, PlaceOK
  <2> QED
    BY <1>2, <1>5, <2>1 DEF OfTenant, Found, LiveRows, Live, Current, Locks
<1> QED
  BY <1>3, <1>4, <1>5

\* Where a verification comes from.
LEMMA VerifyingMoves ==
  ASSUME ServiceTypeOK, [ServiceNext]_allVars, NEW v \in Sessions, Verifying(v)'
  PROVE  /\ request'[v] = request[v]
         /\ \/ Verifying(v)
            \/ stage[v] = "reading" /\ pc[v] = "ok"
<1> USE DEF Verifying
<1>1. CASE UNCHANGED serviceVars
  BY <1>1 DEF serviceVars, locals
<1>2. ASSUME NEW s \in Sessions, Receive(s)
      PROVE  v # s /\ stage'[v] = stage[v] /\ request'[v] = request[v]
  BY <1>2 DEF Receive, Accept, Refuse, Become, ServiceTypeOK
<1>3. ASSUME NEW s \in Sessions, Finish(s) \/ Recorded(s)
      PROVE  v # s /\ stage'[v] = stage[v] /\ request'[v] = request[v]
  BY <1>3 DEF Finish, Recorded, Collect, Outcomes, Become, ServiceTypeOK
<1>4. ASSUME NEW s \in Sessions, Open(s)
      PROVE  /\ request'[v] = request[v]
             /\ stage'[v] = stage[v] \/ (v = s /\ stage[v] = "reading" /\ pc[v] = "ok")
  BY <1>4 DEF Open, Collect, Outcomes, Become, ServiceTypeOK
<1>5. ASSUME NEW s \in Sessions, Dial(s) \/ Publish(s)
      PROVE  /\ request'[v] = request[v]
             /\ stage'[v] = stage[v] \/ (v = s /\ stage[v] = "dialling")
  BY <1>5 DEF Dial, Publish, Become, ServiceTypeOK
<1>6. ASSUME NEW S \in SUBSET Sessions, Forget(S)
      PROVE  stage'[v] = stage[v] /\ request'[v] = request[v]
  BY <1>6 DEF Forget
<1> QED
  BY <1>1, <1>2, <1>3, <1>4, <1>5, <1>6
  DEF ServiceNext, CalmNext, Serve, Respond, HangUp, Restart, allVars

LEMMA VerifyId ==
  ASSUME ServiceTypeOK, NEW s \in Sessions, Verifying(s) \/ stage[s] = "reading"
  PROVE  request[s].id \in Ids
<1>1. request[s] \in ClientRequests /\ request[s].op = "verify"
  BY DEF ServiceTypeOK, StageOK, Verifying
<1>2. RepositoryCall(request[s], masterKey) \in Call
  BY <1>1, ClientRequestsAssumption, RequestsAssumption DEF ServiceTypeOK
<1> QED
  BY <1>1, <1>2 DEF RepositoryCall, Call, Arguments

LEMMA FoundStep ==
  ServiceTypeOK /\ IInv /\ FoundInv /\ [ServiceNext]_allVars => FoundInv'
<1> SUFFICES ASSUME ServiceTypeOK, IInv, FoundInv, [ServiceNext]_allVars, NEW v \in Sessions
             PROVE  ReadFound(v)' /\ DialsFound(v)'
  BY DEF FoundInv
<1>1. [Next]_vars
  BY ServiceStep
<1>2. ReadFound(v)'
  BY <1>1, ReadFoundStep DEF FoundInv
<1>3. ASSUME Verifying(v)'
      PROVE  db'[request'[v].id] # None /\ db'[request'[v].id].tenant = request'[v].tenant
  <2>1. /\ request'[v] = request[v]
        /\ Verifying(v) \/ (stage[v] = "reading" /\ pc[v] = "ok")
    BY <1>3, VerifyingMoves
  <2>2. request[v].id \in Ids
    BY <2>1, VerifyId
  <2>3. db[request[v].id] # None /\ db[request[v].id].tenant = request[v].tenant
    BY <2>1 DEF FoundInv, DialsFound, ReadFound, OfTenant, ServiceTypeOK, StageOK
  <2> QED
    BY <1>1, <2>1, <2>2, <2>3, RowsStay
<1> QED
  BY <1>2, <1>3 DEF DialsFound

\* A request that is recording dialled just now, or was recording before.
LEMMA RecordingMoves ==
  ASSUME ServiceTypeOK, [ServiceNext]_allVars, NEW v \in Sessions, stage'[v] = "recording"
  PROVE  \/ Dial(v)
         \/ stage[v] = "recording" /\ request'[v] = request[v] /\ dial'[v] = dial[v]
<1>1. CASE UNCHANGED serviceVars
  BY <1>1 DEF serviceVars, locals
<1>2. ASSUME NEW s \in Sessions, Receive(s) \/ Takes(s)
      PROVE  stage'[v] = stage[v] /\ request'[v] = request[v] /\ dial'[v] = dial[v]
  BY <1>2 DEF Receive, Accept, Refuse, Takes, Finish, Open, Recorded, Collect, Outcomes,
              Become, ServiceTypeOK
<1>3. ASSUME NEW s \in Sessions, Dial(s)
      PROVE  v = s \/ (stage'[v] = stage[v] /\ request'[v] = request[v] /\ dial'[v] = dial[v])
  BY <1>3 DEF Dial, Become, ServiceTypeOK
<1>4. ASSUME NEW s \in Sessions, Publish(s)
      PROVE  stage'[v] = stage[v] /\ request'[v] = request[v] /\ dial'[v] = dial[v]
  BY <1>4 DEF Publish, Become, ServiceTypeOK
<1>5. ASSUME NEW S \in SUBSET Sessions, Forget(S)
      PROVE  stage'[v] = stage[v] /\ request'[v] = request[v] /\ dial'[v] = dial[v]
  BY <1>5 DEF Forget
<1> QED
  BY <1>1, <1>2, <1>3, <1>4, <1>5
  DEF ServiceNext, CalmNext, Serve, Takes, Respond, HangUp, Restart, allVars

\* A record that is over and was not broken off has its answer.
LEMMA RecordingEnds ==
  ASSUME ServiceTypeOK, [ServiceNext]_allVars, VerdictsKept, NEW v \in Sessions,
         stage[v] = "recording",
         stage'[v] # "recording" \/ request'[v] # request[v]
  PROVE  pc[v] \in Outcomes /\ db' = db
<1>1. ~UNCHANGED serviceVars
  BY DEF serviceVars, locals
<1>2. ASSUME NEW s \in Sessions, Receive(s) \/ Dial(s) \/ Publish(s) \/ Finish(s) \/ Open(s)
      PROVE  FALSE
  BY <1>2 DEF Receive, Accept, Refuse, Dial, Publish, Finish, Open, Become, ServiceTypeOK
<1>3. ASSUME NEW s \in Sessions, Recorded(s)
      PROVE  pc[v] \in Outcomes /\ db' = db
  BY <1>3 DEF Recorded, Collect, Become, ServiceTypeOK
<1>4. ASSUME NEW s \in Sessions, Respond(s)
      PROVE  FALSE
  BY <1>4 DEF Respond, Forget, Answers, Outcomes
<1>5. ASSUME NEW S \in SUBSET Sessions, Forget(S), Drop(S)
      PROVE  pc[v] \in Outcomes /\ db' = db
  <2>1. v \in S /\ pc'[v] = "idle" /\ pc[v] # "idle"
    BY <1>5 DEF Forget, Drop, ServiceTypeOK, StageOK
  <2> QED
    BY <1>5, <2>1 DEF Drop, VerdictsKept
<1> QED
  BY <1>1, <1>2, <1>3, <1>4, <1>5
  DEF ServiceNext, CalmNext, Serve, HangUp, Abandon, Restart, Crash, allVars

\* A record goes on or ends: its call is not dropped while it is recording.
LEMMA RecordingGoesOn ==
  ASSUME ServiceTypeOK, [ServiceNext]_allVars, NEW v \in Sessions, stage'[v] = "recording"
  PROVE  pc'[v] # "idle"
BY ServiceTypeStep DEF ServiceTypeOK, StageOK

LEMMA LastDialMoves ==
  ASSUME ServiceTypeOK, [ServiceNext]_allVars, NEW i \in Ids, lastDial'[i] # lastDial[i]
  PROVE  \E s \in Sessions : Dial(s) /\ request[s].id = i
<1>1. PICK s \in Sessions : Dial(s)
  BY DEF ServiceNext, CalmNext, Serve, Receive, Finish, Open, Recorded, Respond, Publish, HangUp,
         Restart, allVars, serviceVars, outside
<1> QED
  BY <1>1 DEF Dial, ServiceTypeOK

LEMMA Dialled ==
  ASSUME ServiceTypeOK, NEW s \in Sessions, Dial(s)
  PROVE  /\ stage'[s] = "recording" /\ pc'[s] = "begin" /\ request' = request
         /\ lastDial'[request[s].id] = dial'[s]
<1>1. request[s].id \in Ids
  BY VerifyId DEF Dial, Verifying
<1>2. stage'[s] = "recording" /\ request' = request
  BY DEF Dial, Become, ServiceTypeOK
<1>3. lastDial'[request[s].id] = dial'[s]
  BY <1>1 DEF Dial, ServiceTypeOK
<1>4. pc'[s] = "begin"
  BY DEF Dial, Start, Goto, ServiceTypeOK, TypeOK
<1> QED
  BY <1>2, <1>3, <1>4

\* While a verification records, it alone speaks of its configuration.
LEMMA RecordStep ==
  ASSUME ServiceTypeOK, IInv, DoneInv, FoundInv, LastDialInv, VerificationsApart,
         [ServiceNext]_allVars, VerdictsKept, NEW v \in Sessions
  PROVE  RecordOK(v)'
<1> DEFINE i == request[v].id
<1> SUFFICES ASSUME stage'[v] = "recording"
             PROVE  LET now == db'[request'[v].id]
                    IN /\ lastDial'[request'[v].id] = dial'[v]
                       /\ \/ pc'[v] \in {"begin", "flag", "commit"}
                          \/ pc'[v] = "ok" /\ (Live(now) => now.verified = dial'[v])
                          \/ pc'[v] = "notFound" /\ ~Live(now)
  BY DEF RecordOK, Live
<1>1. [Next]_vars
  BY ServiceStep
<1>2. CASE Dial(v)
  BY <1>2, Dialled
<1>3. CASE stage[v] = "recording" /\ request'[v] = request[v] /\ dial'[v] = dial[v]
  <2>1. i \in Ids /\ Verifying(v)
    BY <1>3, VerifyId DEF Verifying
  <2>2. /\ call[v].op = "setVerified" /\ call[v].id = i /\ call[v].verified = dial[v]
        /\ call[v].tenant = request[v].tenant /\ pc[v] # "idle"
    BY <1>3 DEF ServiceTypeOK, StageOK
  <2>3. db[i] # None /\ db[i].tenant = request[v].tenant
    BY <2>1 DEF FoundInv, DialsFound
  <2>4. lastDial'[i] = dial'[v]
    <3>1. lastDial[i] = dial[v]
      BY <1>3 DEF LastDialInv, RecordOK
    <3>2. ASSUME NEW s \in Sessions, Dial(s), request[s].id = i
          PROVE  FALSE
      <4>1. Verifying(s) /\ s # v
        BY <1>3, <3>2 DEF Dial, Verifying
      <4> QED
        BY <2>1, <3>2, <4>1 DEF VerificationsApart
    <3> QED
      BY <1>3, <2>1, <3>1, <3>2, LastDialMoves
  <2>5. CASE pc'[v] = pc[v]
    <3>1. CASE pc[v] = "ok"
      <4>1. Live(db'[i]) => Live(db[i]) /\ db[i].verified = dial[v]
        BY <1>1, <1>3, <2>1, <2>3, <3>1, DeadStay DEF LastDialInv, RecordOK
      <4>2. db'[i] # None
        BY <1>1, <2>1, <2>3, RowsStay
      <4>3. db'[i].verified = db[i].verified
        <5> SUFFICES ASSUME db'[i].verified # db[i].verified PROVE FALSE
          OBVIOUS
        <5>1. PICK w \in Sessions : stage[w] = "recording" /\ request[w].id = i /\ pc[w] = "commit"
          BY <1>1, <2>1, <2>3, <4>2, FlagMoves
        <5> QED
          BY <2>1, <3>1, <5>1 DEF VerificationsApart, Verifying
      <4> QED
        BY <1>3, <2>4, <2>5, <3>1, <4>1, <4>3
    <3>2. CASE pc[v] = "notFound"
      <4>1. ~Live(db'[i])
        BY <1>1, <1>3, <2>1, <2>3, <3>2, DeadStay DEF LastDialInv, RecordOK
      <4> QED
        BY <1>3, <2>4, <2>5, <3>2, <4>1
    <3>3. CASE pc[v] \in {"begin", "flag", "commit"}
      BY <1>3, <2>4, <2>5, <3>3
    <3> QED
      BY <1>3, <3>1, <3>2, <3>3 DEF LastDialInv, RecordOK
  <2>6. CASE pc'[v] = "begin"
    BY <1>3, <2>4, <2>6
  <2>7. CASE pc'[v] # pc[v] /\ pc'[v] # "begin"
    <3>1. pc'[v] # "internal"
      BY <1>3, <2>7 DEF VerdictsKept
    <3>2. pc'[v] # "idle"
      BY <1>3, RecordingGoesOn
    <3>3. Work(v)
      BY <1>1, <2>7, <3>1, <3>2, WhoMoves, FaultsAreInternal DEF IInv
    <3>4. CASE pc[v] = "flag" /\ pc'[v] = "notFound" /\ ~Found(v) /\ db' = db
      <4>1. Locks(v) = {}
        BY <3>4 DEF IInv, LockInv, HoldsNothing
      <4>2. ~Live(db[i])
        BY <2>1, <2>2, <2>3, <3>4, <4>1 DEF Found, LiveRows, Current, Locks
      <4> QED
        BY <1>3, <2>4, <3>4, <4>2
    <3>5. CASE pc[v] = "commit" /\ pc'[v] = "ok" /\ db' = Merged(v)
      <4>1. i \in Locks(v)
        BY <2>2, <3>5 DEF DoneInv, CommitHolds
      <4>2. db'[i] = pending[v][i] /\ OwnVersion(v, db[i], db'[i])
        BY <2>1, <2>2, <3>5, <4>1 DEF Merged, Current, Locks, IInv, LockInv, VersionsOK
      <4>3. db'[i] = Flagged(db[i], dial[v]) /\ db[i] \in Row
        BY <2>1, <2>2, <2>3, <4>2 DEF OwnVersion, IInv, TypeOK
      <4>4. db'[i].verified = dial[v]
        BY <4>3 DEF Flagged, Row
      <4> QED
        BY <1>3, <2>4, <3>5, <4>4
    <3> QED
      BY <1>3, <2>2, <2>4, <3>3, <3>4, <3>5, VerdictWork DEF IInv
  <2> QED
    BY <2>5, <2>6, <2>7
<1> QED
  BY <1>2, <1>3, RecordingMoves

LEMMA FollowsStep ==
  ASSUME ServiceTypeOK, IInv, FoundInv, LastDialInv, VerificationsApart,
         [ServiceNext]_allVars, VerdictsKept
  PROVE  FlagFollowsLastDial'
<1> SUFFICES ASSUME NEW i \in Ids, Live(db'[i]), lastDial'[i] # None,
                    \A s \in Sessions : stage'[s] = "recording" => request'[s].id # i
             PROVE  db'[i].verified = lastDial'[i]
  BY DEF FlagFollowsLastDial, Live
<1>1. [Next]_vars
  BY ServiceStep
<1>2. lastDial'[i] = lastDial[i]
  <2>1. ASSUME NEW s \in Sessions, Dial(s) PROVE request[s].id # i
    BY <2>1, Dialled
  <2> QED
    BY <2>1, LastDialMoves
<1>3. db[i] # None /\ Live(db[i])
  BY <1>1, <1>2, DeadStay DEF LastDialInv
<1>4. CASE \E s \in Sessions : stage[s] = "recording" /\ request[s].id = i
  <2>1. PICK s \in Sessions : stage[s] = "recording" /\ request[s].id = i
    BY <1>4
  <2>2. pc[s] \in Outcomes /\ db' = db
    BY <2>1, RecordingEnds
  <2>3. db[i].verified = dial[s] /\ lastDial[i] = dial[s]
    BY <1>3, <2>1, <2>2 DEF LastDialInv, RecordOK, Outcomes
  <2> QED
    BY <1>2, <2>2, <2>3
<1>5. CASE \A s \in Sessions : stage[s] = "recording" => request[s].id # i
  <2>1. db[i].verified = lastDial[i]
    BY <1>2, <1>3, <1>5 DEF LastDialInv, FlagFollowsLastDial
  <2>2. db'[i] # None
    BY DEF Live
  <2>3. db'[i].verified = db[i].verified
    BY <1>1, <1>3, <1>5, <2>2, FlagMoves
  <2> QED
    BY <1>2, <2>1, <2>3
<1> QED
  BY <1>4, <1>5

LEMMA LastDialStep ==
  /\ ServiceTypeOK /\ IInv /\ DoneInv /\ FoundInv /\ LastDialInv /\ VerificationsApart
  /\ [ServiceNext]_allVars /\ [VerdictsKept]_allVars
  => LastDialInv'
<1> SUFFICES ASSUME ServiceTypeOK, IInv, DoneInv, FoundInv, LastDialInv, VerificationsApart,
                    [ServiceNext]_allVars, [VerdictsKept]_allVars
             PROVE  LastDialInv'
  OBVIOUS
<1>1. VerdictsKept
  BY DEF VerdictsKept, allVars, vars
<1>2. FlagFollowsLastDial'
  BY <1>1, FollowsStep
<1>3. \A s \in Sessions : RecordOK(s)'
  BY <1>1, RecordStep
<1>4. ASSUME NEW i \in Ids, lastDial'[i] # None
      PROVE  db'[i] # None
  <2>1. db[i] # None
    <3>1. ASSUME NEW s \in Sessions, Dial(s), request[s].id = i
          PROVE  db[i] # None
      BY <3>1 DEF Dial, FoundInv, DialsFound, Verifying
    <3> QED
      BY <1>4, <3>1, LastDialMoves DEF LastDialInv
  <2> QED
    BY <2>1, RowsStay, ServiceStep
<1> QED
  BY <1>2, <1>3, <1>4 DEF LastDialInv

\* When no two verifications of a configuration overlap from the dial to the
\* record, and no error, hang-up or restart breaks a record off, the flag of
\* each configuration is the verdict of the last dial made for it.  These are
\* the only ways for the flag to fall behind: updates, deletions, dials of
\* others, and whatever happens to other requests, are not.
THEOREM FlagFollows ==
  ServiceSpec /\ []VerificationsApart /\ [][VerdictsKept]_allVars => []FlagFollowsLastDial
<1>1. ServiceInit => FoundInv /\ LastDialInv
  BY DEF ServiceInit, Init, FoundInv, ReadFound, DialsFound, Verifying, LastDialInv,
         FlagFollowsLastDial, RecordOK
<1>2. LastDialInv => FlagFollowsLastDial
  BY DEF LastDialInv
<1> QED
  BY <1>1, <1>2, ServiceInvariant, FoundStep, LastDialStep, PTL DEF ServiceSpec

LEMMA CalmKeepsVerdicts ==
  ServiceTypeOK /\ [CalmNext]_allVars => [VerdictsKept]_allVars
<1> SUFFICES ASSUME ServiceTypeOK, CalmNext, NEW v \in Sessions, stage[v] = "recording",
                    pc'[v] # pc[v]
             PROVE  pc'[v] # "internal" /\ (pc'[v] = "idle" => pc[v] \in Outcomes)
  BY DEF VerdictsKept
<1>1. TypeOK /\ call[v].op = "setVerified"
  BY DEF ServiceTypeOK, StageOK
<1>2. ASSUME NEW s \in Sessions, Work(s)
      PROVE  pc'[v] \notin {"internal", "idle"}
  <2>1. v = s
    BY <1>1, <1>2, WorkUnderWay DEF UnderWay
  <2> QED
    BY <1>1, <1>2, <2>1, VerdictWork
<1>3. ASSUME NEW s \in Sessions, Collect(s)
      PROVE  pc'[v] = "idle" /\ pc[v] \in Outcomes
  BY <1>1, <1>3 DEF TypeOK, Collect, Goto
<1>4. ASSUME NEW s \in Sessions, NEW c, Start(s, c)
      PROVE  pc'[v] = "begin"
  BY <1>1, <1>4 DEF TypeOK, Start, Goto
<1> QED
  BY <1>2, <1>3, <1>4
  DEF CalmNext, Receive, Accept, Refuse, Serve, Finish, Open, Recorded, Respond, Dial, Publish,
      vars

\* So when nothing breaks, what the flag may miss is a dial that another one
\* overlaps, and nothing else.
THEOREM CalmFlagFollows == CalmSpec /\ []VerificationsApart => []FlagFollowsLastDial
<1>1. [CalmNext]_allVars => [ServiceNext]_allVars
  BY DEF ServiceNext
<1> QED
  BY <1>1, ServiceTypeCorrect, CalmKeepsVerdicts, FlagFollows, PTL DEF CalmSpec, ServiceSpec

-----------------------------------------------------------------------------
(* What is stored was validated.                                           *)

LEMMA CurrentUsable ==
  ASSUME TypeOK, RowsUsable, NEW s \in Sessions, NEW i \in Ids
  PROVE  Usable(Current(s, i))
BY DEF RowsUsable, Usable, Current

LEMMA WriteUsable ==
  ASSUME TypeOK, RowsUsable, NEW s \in Sessions, NEW i \in Ids, NEW r, Usable(r),
         Write(s, i, r)
  PROVE  \A v \in Sessions, j \in Ids : Usable(pending'[v][j])
BY DEF Write, RowsUsable, Usable, TypeOK

LEMMA FailUsable ==
  ASSUME TypeOK, RowsUsable, NEW s \in Sessions, NEW o, Fail(s, o)
  PROVE  RowsUsable'
BY DEF Fail, RowsUsable, Usable, TypeOK, NoRows

LEMMA FoundRow ==
  ASSUME TypeOK, NEW s \in Sessions, Found(s)
  PROVE  Current(s, call[s].id) \in Row
BY CurrentType DEF Found, LiveRows

\* Statements that make no row.
LEMMA OthersUsable ==
  ASSUME TypeOK, RowsUsable, NEW s \in Sessions,
         \/ Invoke(s) \/ Begin(s) \/ Commit(s) \/ CommitUnacknowledged(s) \/ Collect(s)
         \/ Unset(s) \/ UnsetDone(s)
  PROVE  RowsUsable'
<1>1. CASE Invoke(s) \/ Begin(s) \/ Unset(s) \/ UnsetDone(s)
  BY <1>1 DEF Invoke, Start, Begin, Unset, UnsetDone, RowsUsable, Usable
<1>2. CASE Commit(s) \/ CommitUnacknowledged(s)
  <2>1. \A i \in Ids : Usable(db'[i])
    BY <1>2, CurrentUsable DEF Commit, CommitUnacknowledged, Merged, Usable
  <2>2. \A v \in Sessions, i \in Ids : Usable(pending'[v][i])
    <3>1. pending' = [pending EXCEPT ![s] = NoRows]
      BY <1>2 DEF Commit, CommitUnacknowledged
    <3>2. pending'[s] = NoRows /\ \A v \in Sessions \ {s} : pending'[v] = pending[v]
      BY <3>1 DEF TypeOK
    <3>3. \A i \in Ids : NoRows[i] = None
      BY DEF NoRows
    <3> QED
      BY <3>2, <3>3 DEF RowsUsable, Usable
  <2>3. row' = row
    BY <1>2 DEF Commit, CommitUnacknowledged
  <2> QED
    BY <2>1, <2>2, <2>3 DEF RowsUsable, Usable
<1>3. CASE Collect(s)
  BY <1>3 DEF Collect, RowsUsable, Usable, TypeOK
<1> QED
  BY <1>1, <1>2, <1>3

LEMMA DropUsable ==
  ASSUME TypeOK, RowsUsable, NEW S \in SUBSET Sessions, Drop(S)
  PROVE  RowsUsable'
BY DEF Drop, RowsUsable, Usable, NoRows

LEMMA CreateUsable ==
  ASSUME TypeOK, RowsUsable, CallsValid, NEW s \in Sessions, Create(s)
  PROVE  RowsUsable'
<1>1. CASE Count(s)
  <2>1. call[s] \in Call /\ call[s].op = "create" /\ Valid(call[s])
    BY <1>1 DEF Count, TypeOK, PlaceOK, CallsValid
  <2>2. call[s].target \in ValidTargets
    BY <2>1 DEF Call, Valid
  <2>3. \A d : Usable(NewRow(call[s], d))
    BY <2>2 DEF Usable, NewRow
  <2> QED
    BY <1>1, <2>3 DEF Count, RowsUsable, Usable, TypeOK
<1>2. CASE Insert(s)
  <2>1. CASE \E o : Fail(s, o)
    BY <2>1, FailUsable
  <2>2. CASE Write(s, call[s].id, row[s]) /\ UNCHANGED <<db, row>>
    <3>1. call[s].id \in Ids
      BY <1>2 DEF Insert, At, TypeOK, PlaceOK
    <3>2. \A v \in Sessions, j \in Ids : Usable(pending'[v][j])
      BY <2>2, <3>1, WriteUsable DEF RowsUsable
    <3> QED
      BY <2>2, <3>2 DEF RowsUsable, Usable
  <2> QED
    BY <1>2, <2>1, <2>2 DEF Insert
<1> QED
  BY <1>1, <1>2 DEF Create

LEMMA GetUsable ==
  ASSUME TypeOK, RowsUsable, NEW s \in Sessions, Get(s)
  PROVE  RowsUsable'
<1>1. CASE \E o : Fail(s, o)
  BY <1>1, FailUsable
<1>2. ASSUME NEW r, Usable(r), row' = [row EXCEPT ![s] = r], UNCHANGED <<db, pending>>
      PROVE  RowsUsable'
  BY <1>2 DEF RowsUsable, Usable, TypeOK
<1>3. pc[s] \in {"select", "config", "secret"} => call[s].id \in Ids
  BY DEF TypeOK, PlaceOK
<1>4. CASE Select(s) \/ SelectConfig(s)
  BY <1>1, <1>2, <1>3, <1>4, CurrentUsable DEF Select, SelectConfig, Read
<1>5. CASE SelectSecret(s)
  <2>1. row[s] \in Row /\ Usable(row[s])
    BY <1>5 DEF SelectSecret, TypeOK, PlaceOK, RowsUsable
  <2>2. \A x : Usable([row[s] EXCEPT !.secret = x])
    BY <2>1, NoneIsNoRow DEF Usable, Row
  <2> QED
    BY <1>1, <1>2, <1>5, <2>2 DEF SelectSecret
<1> QED
  BY <1>4, <1>5 DEF Get

LEMMA UpdateUsable ==
  ASSUME TypeOK, RowsUsable, CallsValid, NEW s \in Sessions, Update(s)
  PROVE  RowsUsable'
<1>1. CASE \E o : Fail(s, o)
  BY <1>1, FailUsable
<1>2. call[s] \in Call /\ call[s].id \in Ids /\ Valid(call[s])
  BY DEF Update, Existing, Lock, WriteRow, At, TypeOK, PlaceOK, CallsValid
<1>3. CASE Existing(s) /\ Found(s)
  <2>1. Current(s, call[s].id) \in Row
    BY <1>2, <1>3, FoundRow
  <2>2. Usable(Merge(call[s], Current(s, call[s].id)))
    BY <1>2, <2>1, CurrentUsable, NoneIsNoRow DEF Usable, Merge, Given, Row, Valid
  <2> QED
    BY <1>3, <2>2 DEF Existing, RowsUsable, Usable, TypeOK
<1>4. CASE Lock(s) /\ Found(s)
  <2>1. Current(s, call[s].id) \in Row /\ row[s] \in Row
    BY <1>2, <1>4, FoundRow DEF Lock, At, TypeOK, PlaceOK
  <2>2. Usable(Kept(call[s], row[s], Current(s, call[s].id)))
    BY <2>1, NoneIsNoRow DEF RowsUsable, Usable, Kept, Row
  <2>3. \A v \in Sessions, j \in Ids : Usable(pending'[v][j])
    BY <1>2, <1>4, CurrentUsable, WriteUsable DEF Lock
  <2> QED
    BY <1>4, <2>2, <2>3 DEF Lock, RowsUsable, Usable, TypeOK
<1>5. CASE WriteRow(s) /\ KeyHolders(s) = {}
  <2>1. \A v \in Sessions, j \in Ids : Usable(pending'[v][j])
    BY <1>2, <1>5, WriteUsable DEF WriteRow, RowsUsable
  <2> QED
    BY <1>5, <2>1 DEF WriteRow, RowsUsable, Usable
<1> QED
  BY <1>1, <1>3, <1>4, <1>5 DEF Update, Existing, Lock, WriteRow

LEMMA LastWriteUsable ==
  ASSUME TypeOK, RowsUsable, NEW s \in Sessions,
         UnsetRow(s) \/ SoftDelete(s) \/ SetVerified(s)
  PROVE  RowsUsable'
<1>1. CASE \E o : Fail(s, o)
  BY <1>1, FailUsable
<1>2. CASE UnsetRow(s)
  <2> DEFINE i == Head(queue[s])
  <2>1. i \in Ids
    BY <1>2 DEF UnsetRow, TypeOK
  <2>2. Usable(Demoted(Current(s, i)))
    <3>1. Current(s, i) \in Row \cup {None}
      BY <2>1, CurrentType
    <3> QED
      BY <2>1, <3>1, CurrentUsable, NoneIsNoRow DEF Usable, Demoted, Live, Row
  <2>3. \A v \in Sessions, j \in Ids : Usable(pending'[v][j])
    BY <1>2, <2>1, <2>2, WriteUsable DEF UnsetRow
  <2> QED
    BY <1>2, <2>3 DEF UnsetRow, RowsUsable, Usable
<1>3. CASE (SoftDelete(s) \/ SetVerified(s)) /\ Found(s)
  <2> DEFINE i == call[s].id
             r == Current(s, i)
  <2>1. i \in Ids /\ r \in Row /\ Usable(r)
    BY <1>3, FoundRow, CurrentUsable DEF SoftDelete, SetVerified, At, TypeOK, PlaceOK
  <2>2. Usable(Deleted(r)) /\ \A f : Usable(Flagged(r, f))
    BY <2>1, NoneIsNoRow DEF Usable, Deleted, Flagged, Row
  <2> HIDE DEF r
  <2>3. CASE SoftDelete(s)
    <3>1. Write(s, i, Deleted(r)) /\ UNCHANGED <<db, row>>
      BY <1>3, <2>3 DEF SoftDelete, Fail, r
    <3>2. \A v \in Sessions, j \in Ids : Usable(pending'[v][j])
      BY <2>1, <2>2, <3>1, WriteUsable
    <3> QED
      BY <3>1, <3>2 DEF RowsUsable, Usable
  <2>4. CASE SetVerified(s)
    <3>1. PICK f : /\ Write(s, i, Flagged(r, f))
                   /\ row' = [row EXCEPT ![s] = Flagged(r, f)]
                   /\ db' = db
      BY <1>3, <2>4 DEF SetVerified, r
    <3>2. \A v \in Sessions, j \in Ids : Usable(pending'[v][j])
      BY <2>1, <2>2, <3>1, WriteUsable
    <3> QED
      BY <2>2, <3>1, <3>2 DEF RowsUsable, Usable, TypeOK
  <2> QED
    BY <1>3, <2>3, <2>4
<1> QED
  BY <1>1, <1>2, <1>3 DEF SoftDelete, SetVerified

\* Every row that a step makes comes from usable ones and from a valid call.
LEMMA UsableStep ==
  ASSUME TypeOK, RowsUsable, CallsValid, [Next]_vars
  PROVE  RowsUsable'
<1>1. CASE UNCHANGED vars
  BY <1>1 DEF vars, RowsUsable, Usable
<1>2. ASSUME NEW s \in Sessions, Step(s) \/ Invoke(s)
      PROVE  RowsUsable'
  BY <1>2, OthersUsable, CreateUsable, GetUsable, UpdateUsable, LastWriteUsable
     DEF Step, Work, Demote
<1>3. ASSUME NEW s \in Sessions, Fault(s)
      PROVE  RowsUsable'
  BY <1>3, OthersUsable, FailUsable DEF Fault, DbError, DeadlockAbort
<1>4. CASE Crash
  BY <1>4, DropUsable DEF Crash
<1>5. ASSUME NEW s \in Sessions, Abandon(s)
      PROVE  RowsUsable'
  BY <1>5, DropUsable DEF Abandon
<1> QED
  BY <1>1, <1>2, <1>3, <1>4, <1>5 DEF Next

\* A call is made only of a request that was valid.
LEMMA CallsStep ==
  ASSUME ServiceTypeOK, CallsValid, RequestsValid, [ServiceNext]_allVars
  PROVE  CallsValid' /\ RequestsValid'
<1>1. CASE UNCHANGED allVars
  BY <1>1 DEF allVars, vars, serviceVars, locals, CallsValid, RequestsValid
<1>2. ASSUME NEW s \in Sessions, Receive(s)
      PROVE  CallsValid' /\ RequestsValid'
  <2>1. PICK r \in ClientRequests :
          (Accept(s, r) \/ Refuse(s, r)) /\ request' = [request EXCEPT ![s] = r]
    BY <1>2 DEF Receive
  <2>2. CASE Accept(s, r)
    <3>1. call'[s].target = r.target /\ pc'[s] = "begin"
      <4>1. RepositoryCall(r, masterKey) \in Call
        BY ClientRequestsAssumption, RequestsAssumption DEF ServiceTypeOK
      <4>2. RepositoryCall(r, masterKey).target = r.target
        BY <4>1 DEF RepositoryCall, Call, Arguments
      <4> QED
        BY <2>2, <4>1, <4>2
        DEF Accept, Start, Goto, ServiceTypeOK, TypeOK, Call, Arguments
    <3>2. \A v \in Sessions \ {s} : pc'[v] = pc[v] /\ call'[v] = call[v] /\ stage'[v] = stage[v]
      BY <2>2 DEF Accept, Start, Goto, Become, ServiceTypeOK, TypeOK
    <3> QED
      BY <2>1, <2>2, <3>1, <3>2 DEF Accept, Valid, CallsValid, RequestsValid, ServiceTypeOK
  <2>3. CASE Refuse(s, r)
    BY <2>1, <2>3 DEF Refuse, Become, CallsValid, RequestsValid, vars, ServiceTypeOK
  <2> QED
    BY <2>1, <2>2, <2>3
<1>3. ASSUME NEW s \in Sessions, Work(s) \/ Fault(s), UNCHANGED serviceVars
      PROVE  CallsValid' /\ RequestsValid'
  <2>1. UnderWay(s)
    BY <1>3, WorkUnderWay DEF ServiceTypeOK
  <2> QED
    BY <1>3, <2>1 DEF UnderWay, CallsValid, RequestsValid, serviceVars, locals
<1>4. ASSUME NEW s \in Sessions, Takes(s)
      PROVE  CallsValid' /\ RequestsValid'
  <2>1. /\ Collect(s) /\ request' = request
        /\ stage[s] \in {"calling", "reading", "recording"}
        /\ \A v \in Sessions \ {s} : stage'[v] = stage[v]
    BY <1>4 DEF Takes, Finish, Open, Recorded, Become, ServiceTypeOK
  <2>2. pc'[s] = "idle" /\ \A v \in Sessions \ {s} : pc'[v] = pc[v] /\ call'[v] = call[v]
    BY <2>1 DEF Collect, Goto, ServiceTypeOK, TypeOK
  <2> QED
    BY <2>1, <2>2 DEF CallsValid, RequestsValid
<1>5. ASSUME NEW s \in Sessions, Dial(s)
      PROVE  CallsValid' /\ RequestsValid'
  <2>1. PICK verdict \in BOOLEAN : Start(s, RecordCall(request[s], verdict))
    BY <1>5 DEF Dial
  <2> DEFINE c == RecordCall(request[s], verdict)
  <2>2. request[s] \in ClientRequests /\ request[s].op = "verify"
    BY <1>5 DEF Dial, ServiceTypeOK, StageOK
  <2>3. c \in Arguments /\ c.target = request[s].target /\ c.op # "create"
    <3>1. c \in Requests /\ RepositoryCall(request[s], masterKey) \in Requests
      BY <2>2, ClientRequestsAssumption DEF ServiceTypeOK
    <3>2. c \in Arguments /\ RepositoryCall(request[s], masterKey) \in Call
      BY <3>1, RequestsAssumption DEF Call
    <3> QED
      BY <2>2, <3>1, <3>2 DEF RecordCall, RepositoryCall, Call, Arguments
  <2>4. Start(s, c)
    BY <2>1
  <2> HIDE DEF c
  <2>5. /\ call'[s] = c
        /\ \A v \in Sessions \ {s} : pc'[v] = pc[v] /\ call'[v] = call[v]
    BY <2>3, <2>4 DEF Start, Goto, ServiceTypeOK, TypeOK
  <2>6. /\ stage[s] = "dialling" /\ request' = request
        /\ \A v \in Sessions \ {s} : stage'[v] = stage[v]
    BY <1>5 DEF Dial, Become, ServiceTypeOK
  <2> QED
    BY <2>3, <2>5, <2>6 DEF CallsValid, RequestsValid, Valid
<1>6. ASSUME NEW s \in Sessions, Publish(s)
      PROVE  CallsValid' /\ RequestsValid'
  BY <1>6 DEF Publish, Become, ServiceTypeOK, CallsValid, RequestsValid, vars
<1>7. ASSUME NEW s \in Sessions, Respond(s)
      PROVE  CallsValid' /\ RequestsValid'
  BY <1>7 DEF Respond, Forget, CallsValid, RequestsValid, vars
<1>8. ASSUME NEW S \in SUBSET Sessions, Drop(S), Forget(S)
      PROVE  CallsValid' /\ RequestsValid'
  BY <1>8 DEF Drop, Forget, CallsValid, RequestsValid
<1> QED
  BY <1>1, <1>2, <1>3, <1>4, <1>5, <1>6, <1>7, <1>8
  DEF ServiceNext, CalmNext, Serve, BreakCycle, HangUp, Abandon, Restart, Crash, Takes

\* No row in the table, and none on its way there, holds a target that the
\* validation refuses.
THEOREM Validated == ServiceSpec => []StoredTargetsValid
<1> DEFINE J == RowsUsable /\ CallsValid /\ RequestsValid
<1>1. ServiceInit => J
  BY DEF ServiceInit, Init, NoRows, RowsUsable, Usable, CallsValid, RequestsValid
<1>2. ServiceTypeOK /\ J /\ [ServiceNext]_allVars => J'
  BY ServiceStep, UsableStep, CallsStep DEF ServiceTypeOK
<1>3. J => StoredTargetsValid
  BY DEF RowsUsable, Usable, StoredTargetsValid
<1> QED
  BY <1>1, <1>2, <1>3, ServiceTypeCorrect, PTL DEF ServiceSpec

=============================================================================
