--------------------- MODULE MailConfigRepositoryProofs ---------------------
(***************************************************************************)
(* What the repository guarantees for any number of sessions, rows and     *)
(* connections.                                                            *)
(***************************************************************************)
EXTENDS MailConfigRepository, FiniteSetTheorems, TLAPS

-----------------------------------------------------------------------------
(* The helpers return what they should.                                    *)

LEMMA CurrentType ==
  ASSUME TypeOK, NEW s \in Sessions, NEW i \in Ids
  PROVE  /\ Current(s, i) \in Row \cup {None}
         /\ Live(Current(s, i)) => Current(s, i) \in Row
  BY DEF TypeOK, Current, Live

\* One order of a set of rows is a sequence of rows.
LEMMA OrderType ==
  ASSUME NEW S \in SUBSET Ids, NEW q \in SetToSeqs(S)
  PROVE  q \in Seq(Ids)
<1>1. IsFiniteSet(S)
  BY IdsAssumption, FS_Subset
<1>2. Cardinality(S) \in Nat
  BY <1>1, FS_CardinalityType
<1>3. q \in [1..Cardinality(S) -> S]
  BY DEF SetToSeqs
<1> QED
  BY <1>2, <1>3

LEMMA NoRowsType == NoRows \in [Ids -> Row \cup {None}]
  BY DEF NoRows

LEMMA DemotedType ==
  ASSUME NEW r \in Row \cup {None}
  PROVE  Demoted(r) \in Row \cup {None} /\ (r \in Row => Demoted(r) \in Row)
  BY DEF Demoted, Live, Row

LEMMA NewRowType ==
  ASSUME NEW c \in Call, c.op = "create", NEW d \in BOOLEAN
  PROVE  NewRow(c, d) \in Row
  BY DEF Call, Arguments, NewRow, Row

LEMMA MergeType ==
  ASSUME NEW c \in Call, NEW r \in Row
  PROVE  Merge(c, r) \in Row
  BY DEF Call, Arguments, Merge, Given, Row

LEMMA KeptType ==
  ASSUME NEW c \in Call, NEW m \in Row, NEW r \in Row
  PROVE  Kept(c, m, r) \in Row
  BY DEF Call, Arguments, Kept, Given, Row

LEMMA FlaggedType ==
  ASSUME NEW c \in Call, c.op = "setVerified", NEW r \in Row
  PROVE  Flagged(r, c.verified) \in Row
  BY DEF Call, Arguments, Flagged, Row

LEMMA DeletedType ==
  ASSUME NEW r \in Row
  PROVE  Deleted(r) \in Row
  BY DEF Deleted, Row

-----------------------------------------------------------------------------
(* Type correctness.                                                       *)

\* A session's place depends on its own variables only.
LEMMA OthersInPlace ==
  ASSUME TypeOK, NEW s \in Sessions, PlaceOK(s)',
         \A v \in Sessions \ {s} :
           pc'[v] = pc[v] /\ call'[v] = call[v] /\ row'[v] = row[v]
  PROVE  \A v \in Sessions : PlaceOK(v)'
<1> SUFFICES ASSUME NEW v \in Sessions, v # s
             PROVE  PlaceOK(v)'
  OBVIOUS
<1> QED
  BY DEF TypeOK, PlaceOK

LEMMA WriteType ==
  ASSUME TypeOK, NEW s \in Sessions, NEW i \in Ids, NEW r \in Row \cup {None}, Write(s, i, r)
  PROVE  pending' \in [Sessions -> [Ids -> Row \cup {None}]]
  BY DEF TypeOK, Write

LEMMA FailType ==
  ASSUME TypeOK, NEW s \in Sessions, NEW o \in Outcomes \ {"ok"}, pc[s] # "idle", Fail(s, o)
  PROVE  TypeOK'
<1>1. pending' \in [Sessions -> [Ids -> Row \cup {None}]]
  BY NoRowsType DEF TypeOK, Fail
<1>2. pc' \in [Sessions -> {"idle", "begin"} \cup Statements \cup Outcomes]
  BY DEF TypeOK, Fail, Goto
<1>3. /\ row' \in [Sessions -> Row \cup {None}]
      /\ queue' \in [Sessions -> Seq(Ids)]
  BY DEF TypeOK, Fail
<1>4. PlaceOK(s)'
  BY DEF TypeOK, PlaceOK, Fail, Goto, Outcomes
<1>5. \A v \in Sessions : PlaceOK(v)'
  BY <1>4, OthersInPlace DEF Fail, Goto, TypeOK
<1> QED
  BY <1>1, <1>2, <1>3, <1>5 DEF TypeOK, Fail

LEMMA TypeInit == Init => TypeOK
  BY DEF Init, TypeOK, PlaceOK, NoRows, Statements

LEMMA TypeCommit ==
  ASSUME TypeOK, NEW s \in Sessions, Commit(s) \/ CommitUnacknowledged(s)
  PROVE  TypeOK'
<1> USE DEF Commit, CommitUnacknowledged
<1>1. Merged(s) \in [Ids -> Row \cup {None}]
  BY CurrentType DEF Merged
<1>2. pending' \in [Sessions -> [Ids -> Row \cup {None}]]
  BY NoRowsType DEF TypeOK
<1>3. pc' \in [Sessions -> {"idle", "begin"} \cup Statements \cup Outcomes]
  BY DEF TypeOK, Goto, Outcomes
<1>4. PlaceOK(s)'
  BY DEF TypeOK, PlaceOK, Goto
<1>5. \A v \in Sessions : PlaceOK(v)'
  BY <1>4, OthersInPlace DEF Goto, TypeOK
<1> QED
  BY <1>1, <1>2, <1>3, <1>5 DEF TypeOK

\* A call is completed by the identifier it draws.
LEMMA InvokeCall ==
  ASSUME NEW s \in Sessions, Invoke(s)
  PROVE  \E c \in Call : /\ call' = [call EXCEPT ![s] = c]
                         /\ c.id \in Ids
                         /\ c.op = "create" => Fresh(c.id)
<1>1. PICK r \in Requests :
        \/ r.op # "create" /\ call' = [call EXCEPT ![s] = r]
        \/ /\ r.op = "create"
           /\ \E i \in Ids : Fresh(i) /\ call' = [call EXCEPT ![s] = [r EXCEPT !.id = i]]
  BY DEF Invoke, Start
<1>2. r \in Call /\ (r.op = "create" => r.id = None)
  BY RequestsAssumption
<1>3. CASE r.op # "create" /\ call' = [call EXCEPT ![s] = r]
  BY <1>2, <1>3 DEF Call, Arguments
<1>4. CASE r.op = "create"
  <2>1. PICK i \in Ids : Fresh(i) /\ call' = [call EXCEPT ![s] = [r EXCEPT !.id = i]]
    BY <1>1, <1>4
  <2>2. [r EXCEPT !.id = i] \in Call /\ [r EXCEPT !.id = i].id = i
    BY <1>2, <1>4, <2>1 DEF Call, Arguments
  <2> QED
    BY <2>1, <2>2
<1> QED
  BY <1>1, <1>3, <1>4

LEMMA TypeInvoke ==
  ASSUME TypeOK, NEW s \in Sessions, Invoke(s)
  PROVE  TypeOK'
<1>1. PICK c \in Call : c.id \in Ids /\ call' = [call EXCEPT ![s] = c]
  BY InvokeCall
<1>2. call' \in [Sessions -> Call \cup {None}]
  BY <1>1 DEF TypeOK
<1>3. pc' \in [Sessions -> {"idle", "begin"} \cup Statements \cup Outcomes]
  BY DEF TypeOK, Invoke, Start, Goto
<1>4. PlaceOK(s)'
  BY <1>1 DEF TypeOK, PlaceOK, Invoke, Start, Goto
<1>5. \A v \in Sessions : PlaceOK(v)'
  BY <1>1, <1>4, OthersInPlace DEF Invoke, Start, Goto, TypeOK
<1> QED
  BY <1>2, <1>3, <1>5 DEF TypeOK, Invoke, Start

LEMMA TypeBegin ==
  ASSUME TypeOK, NEW s \in Sessions, Begin(s)
  PROVE  TypeOK'
<1>1. call[s] \in Call /\ call[s].id \in Ids /\ call[s].op \in Ops
  BY DEF TypeOK, PlaceOK, Begin, Call, Arguments
<1>2. pc'[s] = FirstStatement(call[s])
  BY DEF TypeOK, Begin, Goto
<1>3. /\ FirstStatement(call[s]) \in Statements
      /\ PlaceOK(s)'
  BY <1>1, <1>2 DEF FirstStatement, Ops, Statements, PlaceOK, Begin
<1>4. \A v \in Sessions : PlaceOK(v)'
  BY <1>3, OthersInPlace DEF Begin, Goto, TypeOK
<1> QED
  BY <1>2, <1>3, <1>4 DEF TypeOK, Begin, Goto

LEMMA TypeCollect ==
  ASSUME TypeOK, NEW s \in Sessions, Collect(s)
  PROVE  TypeOK'
<1>1. /\ pc' \in [Sessions -> {"idle", "begin"} \cup Statements \cup Outcomes]
      /\ call' \in [Sessions -> Call \cup {None}]
      /\ row' \in [Sessions -> Row \cup {None}]
  BY DEF TypeOK, Collect, Goto
<1>2. PlaceOK(s)'
  BY DEF TypeOK, PlaceOK, Collect, Goto
<1>3. \A v \in Sessions : PlaceOK(v)'
  BY <1>2, OthersInPlace DEF Collect, Goto, TypeOK
<1> QED
  BY <1>1, <1>3 DEF TypeOK, Collect

\* A session of a lock cycle waits, and another waits for it.
LEMMA CycleMember ==
  ASSUME NEW s \in Sessions, Deadlocked(s)
  PROVE  WaitsFor(s) # {} /\ \E v \in Sessions : s \in WaitsFor(v)
<1>1. WaitsFor(s) # {}
  <2> SUFFICES ASSUME WaitsFor(s) = {} PROVE FALSE
    OBVIOUS
  <2>1. {} \in SUBSET Sessions
    OBVIOUS
  <2> QED
    BY <2>1 DEF Deadlocked
<1>2. \E v \in Sessions : s \in WaitsFor(v)
  <2> SUFFICES ASSUME \A v \in Sessions : s \notin WaitsFor(v) PROVE FALSE
    OBVIOUS
  <2> DEFINE S == Sessions \ {s}
  <2>1. \A v \in Sessions : WaitsFor(v) \subseteq S
    BY DEF WaitsFor
  <2>2. S \in SUBSET Sessions /\ s \notin S
    OBVIOUS
  <2> HIDE DEF S
  <2> QED
    BY <2>1, <2>2 DEF Deadlocked
<1> QED
  BY <1>1, <1>2

LEMMA DeadlockedInTx ==
  ASSUME NEW s \in Sessions, Deadlocked(s)
  PROVE  pc[s] \in {"unsetting", "lock", "delete", "flag", "insert", "write"}
<1>1. WaitsFor(s) # {}
  BY CycleMember
<1>2. Wanted(s) # {}
  BY <1>1 DEF WaitsFor
<1> QED
  BY <1>2 DEF Wanted

\* The last statement of a transaction that writes one row.
LEMMA TypeLastWrite ==
  ASSUME TypeOK, NEW s \in Sessions, pc[s] # "idle", NEW r \in Row,
         Write(s, call[s].id, r), Goto(s, "commit"),
         row' \in [Sessions -> Row \cup {None}],
         \A v \in Sessions \ {s} : row'[v] = row[v],
         call[s].op = "delete" \/ row'[s] \in Row,
         UNCHANGED <<db, call, queue>>
  PROVE  TypeOK'
<1>1. call[s].id \in Ids
  BY DEF TypeOK, PlaceOK
<1>2. pending' \in [Sessions -> [Ids -> Row \cup {None}]]
  BY <1>1, WriteType
<1>3. pc' \in [Sessions -> {"idle", "begin"} \cup Statements \cup Outcomes]
  BY DEF TypeOK, Goto, Statements
<1>4. PlaceOK(s)'
  BY DEF TypeOK, PlaceOK, Goto
<1>5. \A v \in Sessions : PlaceOK(v)'
  BY <1>4, OthersInPlace DEF Goto, TypeOK
<1> QED
  BY <1>2, <1>3, <1>5 DEF TypeOK

LEMMA TypeDemote ==
  ASSUME TypeOK, NEW s \in Sessions, Demote(s)
  PROVE  TypeOK'
<1>1. CASE Unset(s)
  <2>1. UnsetScope(s) \in SUBSET Ids
    BY DEF UnsetScope, LiveRows
  <2>2. queue' \in [Sessions -> Seq(Ids)]
    BY <1>1, <2>1, OrderType DEF Unset, TypeOK
  <2>3. pc' \in [Sessions -> {"idle", "begin"} \cup Statements \cup Outcomes]
    BY <1>1 DEF TypeOK, Unset, Goto, Statements
  <2>4. PlaceOK(s)'
    BY <1>1 DEF TypeOK, PlaceOK, Unset, Goto
  <2>5. \A v \in Sessions : PlaceOK(v)'
    BY <1>1, <2>4, OthersInPlace DEF Unset, Goto, TypeOK
  <2> QED
    BY <1>1, <2>2, <2>3, <2>5 DEF TypeOK, Unset
<1>2. CASE UnsetRow(s)
  <2>1. Head(queue[s]) \in Ids /\ Tail(queue[s]) \in Seq(Ids)
    BY <1>2 DEF UnsetRow, TypeOK
  <2>2. pending' \in [Sessions -> [Ids -> Row \cup {None}]]
    BY <1>2, <2>1, CurrentType, DemotedType, WriteType DEF UnsetRow
  <2>3. \A v \in Sessions : PlaceOK(v)'
    BY <1>2 DEF TypeOK, PlaceOK, UnsetRow
  <2> QED
    BY <1>2, <2>1, <2>2, <2>3 DEF TypeOK, UnsetRow
<1>3. CASE UnsetDone(s)
  <2>1. pc' \in [Sessions -> {"idle", "begin"} \cup Statements \cup Outcomes]
    BY <1>3 DEF TypeOK, UnsetDone, Goto, Statements
  <2>2. PlaceOK(s)'
    BY <1>3 DEF TypeOK, PlaceOK, UnsetDone, Goto
  <2>3. \A v \in Sessions : PlaceOK(v)'
    BY <1>3, <2>2, OthersInPlace DEF UnsetDone, Goto, TypeOK
  <2> QED
    BY <1>3, <2>1, <2>3 DEF TypeOK, UnsetDone
<1> QED
  BY <1>1, <1>2, <1>3 DEF Demote

LEMMA TypeCreate ==
  ASSUME TypeOK, NEW s \in Sessions, Create(s)
  PROVE  TypeOK'
<1>1. CASE Count(s)
  <2>1. call[s] \in Call /\ call[s].op = "create"
    BY <1>1 DEF TypeOK, PlaceOK, Count
  <2>2. NewRow(call[s], call[s].isDefault \/ LiveRows(s) = {}) \in Row
    BY <2>1, NewRowType
  <2>3. /\ pc' \in [Sessions -> {"idle", "begin"} \cup Statements \cup Outcomes]
        /\ row' \in [Sessions -> Row \cup {None}]
    BY <1>1, <2>2 DEF TypeOK, Count, Goto, Statements
  <2>4. PlaceOK(s)'
    BY <1>1, <2>2 DEF TypeOK, PlaceOK, Count, Goto
  <2>5. \A v \in Sessions : PlaceOK(v)'
    BY <1>1, <2>4, OthersInPlace DEF Count, Goto, TypeOK
  <2> QED
    BY <1>1, <2>3, <2>5 DEF TypeOK, Count
<1>2. CASE Insert(s)
  <2>1. pc[s] # "idle" /\ row[s] \in Row
    BY <1>2 DEF Insert, At, TypeOK, PlaceOK
  <2>2. CASE KeyHolders(s) # {} /\ Fail(s, "conflict")
    BY <2>1, <2>2, FailType DEF Outcomes
  <2>3. CASE /\ Write(s, call[s].id, row[s])
             /\ Goto(s, "commit")
             /\ UNCHANGED <<db, call, row, queue>>
    BY <2>1, <2>3, TypeLastWrite DEF TypeOK
  <2> QED
    BY <1>2, <2>2, <2>3 DEF Insert
<1> QED
  BY <1>1, <1>2 DEF Create

\* A statement that only moves a session on and sets its row.
LEMMA TypeMove ==
  ASSUME TypeOK, NEW s \in Sessions, NEW r \in Row, NEW where \in Statements,
         row' = [row EXCEPT ![s] = r], Goto(s, where), PlaceOK(s)',
         db' = db, call' = call, queue' = queue,
         pending' \in [Sessions -> [Ids -> Row \cup {None}]]
  PROVE  TypeOK'
<1>1. /\ pc' \in [Sessions -> {"idle", "begin"} \cup Statements \cup Outcomes]
      /\ row' \in [Sessions -> Row \cup {None}]
  BY DEF TypeOK, Goto
<1>2. \A v \in Sessions : PlaceOK(v)'
  BY OthersInPlace DEF Goto, TypeOK
<1> QED
  BY <1>1, <1>2 DEF TypeOK

LEMMA TypeGet ==
  ASSUME TypeOK, NEW s \in Sessions, Get(s)
  PROVE  TypeOK'
<1>1. pc[s] \in {"select", "config", "secret"} /\ call[s] \in Call /\ call[s].id \in Ids
  BY DEF Get, Select, SelectConfig, SelectSecret, TypeOK, PlaceOK
<1>2. CASE \E o \in Outcomes \ {"ok"} : Fail(s, o)
  BY <1>1, <1>2, FailType
<1> DEFINE now == Current(s, call[s].id)
<1>3. ASSUME Found(s) PROVE now \in Row
  BY <1>1, <1>3, CurrentType DEF Found, LiveRows
<1>4. CASE \E where \in {"commit", "secret"} :
             /\ Found(s)
             /\ where = "secret" => pc[s] = "config"
             /\ row' = [row EXCEPT ![s] = now]
             /\ Goto(s, where)
             /\ UNCHANGED <<db, pending, call, queue>>
  <2>1. PICK where \in {"commit", "secret"} :
             /\ Found(s)
             /\ where = "secret" => pc[s] = "config"
             /\ row' = [row EXCEPT ![s] = now]
             /\ Goto(s, where)
             /\ UNCHANGED <<db, pending, call, queue>>
    BY <1>4
  <2>2. now \in Row /\ where \in Statements
    BY <1>3, <2>1 DEF Statements
  <2> HIDE DEF now
  <2>3. PlaceOK(s)'
    BY <1>1, <2>1, <2>2 DEF TypeOK, PlaceOK, Goto
  <2> QED
    BY <2>1, <2>2, <2>3, TypeMove DEF TypeOK
<1>5. CASE /\ Found(s)
           /\ pc[s] = "secret"
           /\ row' = [row EXCEPT ![s].secret = now.secret]
           /\ Goto(s, "commit")
           /\ UNCHANGED <<db, pending, call, queue>>
  <2>1. now \in Row /\ row[s] \in Row
    BY <1>3, <1>5 DEF TypeOK, PlaceOK
  <2> HIDE DEF now
  <2>2. [row[s] EXCEPT !.secret = now.secret] \in Row
    BY <2>1 DEF Row
  <2>3. row' = [row EXCEPT ![s] = [row[s] EXCEPT !.secret = now.secret]]
    BY <1>5 DEF TypeOK
  <2>4. PlaceOK(s)'
    BY <1>1, <1>5, <2>2, <2>3 DEF TypeOK, PlaceOK, Goto
  <2> QED
    BY <1>5, <2>2, <2>3, <2>4, TypeMove DEF TypeOK, Statements
<1> QED
  BY <1>2, <1>4, <1>5 DEF Get, Select, SelectConfig, SelectSecret, Read, Outcomes

LEMMA TypeUpdate ==
  ASSUME TypeOK, NEW s \in Sessions, Update(s)
  PROVE  TypeOK'
<1> DEFINE now == Current(s, call[s].id)
<1>1. pc[s] # "idle" /\ call[s] \in Call /\ call[s].id \in Ids /\ call[s].op = "update"
  BY DEF Update, Existing, Lock, WriteRow, At, TypeOK, PlaceOK
<1>2. CASE \E o \in Outcomes \ {"ok"} : Fail(s, o)
  BY <1>1, <1>2, FailType
<1>3. ASSUME Found(s) PROVE now \in Row
  BY <1>1, <1>3, CurrentType DEF Found, LiveRows
<1>4. CASE Existing(s) /\ Found(s) /\ UNCHANGED <<db, pending, call, queue>>
  <2> DEFINE merged == Merge(call[s], now)
  <2>1. now \in Row
    BY <1>3, <1>4
  <2>2. merged \in Row
    BY <1>1, <2>1, MergeType
  <2>3. PICK where \in {"unset", "lock"} :
          row' = [row EXCEPT ![s] = merged] /\ Goto(s, where)
    BY <1>4 DEF Existing
  <2> HIDE DEF merged
  <2>4. PlaceOK(s)'
    BY <1>1, <1>4, <2>2, <2>3 DEF TypeOK, PlaceOK, Goto
  <2> QED
    BY <1>4, <2>2, <2>3, <2>4, TypeMove DEF TypeOK, Statements
<1>5. CASE /\ pc[s] = "lock" /\ Found(s)
           /\ Write(s, call[s].id, now)
           /\ row' = [row EXCEPT ![s] = Kept(call[s], @, now)]
           /\ Goto(s, "write")
           /\ UNCHANGED <<db, call, queue>>
  <2>1. now \in Row /\ row[s] \in Row
    BY <1>3, <1>5 DEF TypeOK, PlaceOK
  <2> HIDE DEF now
  <2>2. Kept(call[s], row[s], now) \in Row
    BY <1>1, <2>1, KeptType
  <2>3. row' = [row EXCEPT ![s] = Kept(call[s], row[s], now)]
    BY <1>5 DEF TypeOK
  <2>4. pending' \in [Sessions -> [Ids -> Row \cup {None}]]
    BY <1>1, <1>5, <2>1, WriteType
  <2>5. PlaceOK(s)'
    BY <1>1, <1>5, <2>2, <2>3 DEF TypeOK, PlaceOK, Goto
  <2> QED
    BY <1>5, <2>2, <2>3, <2>4, <2>5, TypeMove DEF Statements
<1>6. CASE /\ pc[s] = "write"
           /\ Write(s, call[s].id, row[s])
           /\ Goto(s, "commit")
           /\ UNCHANGED <<db, call, row, queue>>
  BY <1>1, <1>6, TypeLastWrite DEF TypeOK, PlaceOK
<1>7. Existing(s) \/ Lock(s) \/ WriteRow(s)
  BY DEF Update
<1> QED
  BY <1>2, <1>4, <1>5, <1>6, <1>7 DEF Existing, Lock, WriteRow, At, Outcomes

LEMMA TypeSoftDelete ==
  ASSUME TypeOK, NEW s \in Sessions, SoftDelete(s)
  PROVE  TypeOK'
<1>1. pc[s] # "idle" /\ call[s].id \in Ids /\ call[s].op = "delete"
  BY DEF SoftDelete, At, TypeOK, PlaceOK
<1>2. CASE Fail(s, "notFound")
  BY <1>1, <1>2, FailType DEF Outcomes
<1>3. CASE /\ Found(s)
           /\ Write(s, call[s].id, Deleted(Current(s, call[s].id)))
           /\ Goto(s, "commit")
           /\ UNCHANGED <<db, call, row, queue>>
  <2>1. Deleted(Current(s, call[s].id)) \in Row
    BY <1>1, <1>3, CurrentType, DeletedType DEF Found, LiveRows
  <2> QED
    BY <1>1, <1>3, <2>1, TypeLastWrite DEF TypeOK
<1> QED
  BY <1>2, <1>3 DEF SoftDelete

LEMMA TypeSetVerified ==
  ASSUME TypeOK, NEW s \in Sessions, SetVerified(s)
  PROVE  TypeOK'
<1> DEFINE flagged == Flagged(Current(s, call[s].id), call[s].verified)
<1>1. pc[s] # "idle" /\ call[s].id \in Ids /\ call[s] \in Call /\ call[s].op = "setVerified"
  BY DEF SetVerified, At, TypeOK, PlaceOK
<1>2. CASE Fail(s, "notFound")
  BY <1>1, <1>2, FailType DEF Outcomes
<1>3. CASE /\ Found(s)
           /\ Write(s, call[s].id, flagged)
           /\ row' = [row EXCEPT ![s] = flagged]
           /\ Goto(s, "commit")
           /\ UNCHANGED <<db, call, queue>>
  <2>1. flagged \in Row
    BY <1>1, <1>3, CurrentType, FlaggedType DEF Found, LiveRows
  <2>2. /\ row' \in [Sessions -> Row \cup {None}]
        /\ row'[s] \in Row
        /\ \A v \in Sessions \ {s} : row'[v] = row[v]
    BY <1>3, <2>1 DEF TypeOK
  <2> HIDE DEF flagged
  <2> QED
    BY <1>1, <1>3, <2>1, <2>2, TypeLastWrite
<1> QED
  BY <1>2, <1>3 DEF SetVerified

LEMMA TypeDrop ==
  ASSUME TypeOK, NEW S \in SUBSET Sessions, Drop(S)
  PROVE  TypeOK'
<1>1. /\ pending' \in [Sessions -> [Ids -> Row \cup {None}]]
      /\ pc' \in [Sessions -> {"idle", "begin"} \cup Statements \cup Outcomes]
      /\ call' \in [Sessions -> Call \cup {None}]
      /\ row' \in [Sessions -> Row \cup {None}]
      /\ queue' \in [Sessions -> Seq(Ids)]
  BY NoRowsType DEF TypeOK, Drop
<1>2. ASSUME NEW s \in Sessions PROVE PlaceOK(s)'
  BY <1>2 DEF TypeOK, PlaceOK, Drop
<1> QED
  BY <1>1, <1>2 DEF TypeOK, Drop

\* The type invariant is inductive by itself.
LEMMA TypeStep == TypeOK /\ [Next]_vars => TypeOK'
<1> SUFFICES ASSUME TypeOK, [Next]_vars PROVE TypeOK'
  OBVIOUS
<1>1. CASE UNCHANGED vars
  BY <1>1 DEF TypeOK, PlaceOK, vars
<1>2. ASSUME NEW s \in Sessions, Step(s) \/ Invoke(s) \/ CommitUnacknowledged(s)
      PROVE  TypeOK'
  BY <1>2, TypeBegin, TypeCreate, TypeGet, TypeUpdate, TypeDemote, TypeSoftDelete,
     TypeSetVerified, TypeCommit, TypeCollect, TypeInvoke DEF Step, Work
<1>3. ASSUME NEW s \in Sessions, DbError(s) \/ DeadlockAbort(s)
      PROVE  TypeOK'
  <2>1. pc[s] # "idle" /\ Fail(s, "internal")
    BY <1>3, DeadlockedInTx DEF DbError, DeadlockAbort, InTx, Statements
  <2> QED
    BY <2>1, FailType DEF Outcomes
<1>4. ASSUME NEW s \in Sessions, Abandon(s)
      PROVE  TypeOK'
  BY <1>4, TypeDrop DEF Abandon
<1>5. CASE Crash
  BY <1>5, TypeDrop DEF Crash
<1> QED
  BY <1>1, <1>2, <1>3, <1>4, <1>5 DEF Next, Fault

\* Every variable keeps its type, and every session the arguments and the row
\* that the statement it has reached works on.
THEOREM TypeCorrect == Spec => []TypeOK
BY TypeInit, TypeStep, PTL DEF Spec

=============================================================================
