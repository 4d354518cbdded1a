------------------- MODULE MailConfigRepositoryRefinement -------------------
(***************************************************************************)
(* While the writers of each tenant take turns the repository is the       *)
(* atomic store, and so keeps at most one default configuration per        *)
(* tenant.  A pool of one connection makes them.                           *)
(***************************************************************************)
EXTENDS MailConfigRepositorySafety

StoreProofs == INSTANCE MailConfigStoreProofs WITH configs <- db

-----------------------------------------------------------------------------
(* One transaction at a time.                                              *)

LEMMA NobodyElse ==
  ASSUME PoolSize = 1, NEW s \in Sessions, Begin(s)
  PROVE  \A v \in Sessions : ~InTx(v)
<1> DEFINE T == {v \in Sessions : InTx(v)}
<1>1. IsFiniteSet(T) /\ Cardinality(T) \in Nat
  BY SessionsAssumption, FS_Subset, FS_CardinalityType
<1>2. Cardinality(T) < 1
  BY DEF Begin
<1>3. Cardinality(T) = 0
  BY <1>1, <1>2
<1> QED
  BY <1>1, <1>3, FS_EmptySet

\* What a step does to the sessions: one of them goes on, or some are dropped.
LEMMA Mover ==
  ASSUME TypeOK, [Next]_vars
  PROVE  \/ UNCHANGED vars
         \/ \E s \in Sessions : Work(s) \/ Fault(s)
         \/ \E s \in Sessions : Invoke(s) \/ Collect(s)
         \/ \E S \in SUBSET Sessions : Drop(S)
BY DEF Next, Step, Abandon, Crash

LEMMA AloneStep ==
  ASSUME PoolSize = 1, TypeOK, Alone, [Next]_vars
  PROVE  Alone'
<1>1. CASE UNCHANGED vars
  BY <1>1 DEF vars, Alone, InTx
<1>2. ASSUME NEW s \in Sessions, Begin(s)
      PROVE  Alone'
  <2>1. \A v \in Sessions \ {s} : pc'[v] = pc[v]
    BY <1>2 DEF Begin, Goto, TypeOK
  <2> QED
    BY <1>2, <2>1, NobodyElse DEF Alone, InTx
<1>3. ASSUME NEW s \in Sessions, \A v \in Sessions \ {s} : pc'[v] = pc[v],
             pc'[s] \in Statements => pc[s] \in Statements
      PROVE  Alone'
  BY <1>3 DEF Alone, InTx
<1>4. ASSUME NEW s \in Sessions, Work(s) \/ Fault(s), ~Begin(s)
      PROVE  Alone'
  <2>1. \A v \in Sessions \ {s} : pc'[v] = pc[v]
    BY <1>4, WorkUnderWay DEF UnderWay
  <2>2. CASE InTx(s)
    BY <1>3, <2>1, <2>2 DEF InTx
  <2>3. CASE ~InTx(s)
    <3>1. DbError(s)
      BY <1>4, <2>3, DeadlockedInTx
      DEF Work, Fault, Create, Count, Insert, Get, Select, SelectConfig, SelectSecret, Update,
          Existing, Lock, WriteRow, Demote, Unset, UnsetRow, UnsetDone, SoftDelete, SetVerified,
          Commit, CommitUnacknowledged, DeadlockAbort, At, InTx, Statements
    <3>2. pc'[s] \notin Statements
      BY <3>1 DEF DbError, Fail, Goto, TypeOK, Statements
    <3> QED
      BY <1>3, <2>1, <3>2
  <2> QED
    BY <2>2, <2>3
<1>5. ASSUME NEW s \in Sessions, Invoke(s) \/ Collect(s)
      PROVE  Alone'
  <2>1. pc'[s] \notin Statements /\ \A v \in Sessions \ {s} : pc'[v] = pc[v]
    BY <1>5 DEF Invoke, Start, Collect, Goto, TypeOK, Statements
  <2> QED
    BY <1>3, <2>1
<1>6. ASSUME NEW S \in SUBSET Sessions, Drop(S)
      PROVE  Alone'
  BY <1>6 DEF Drop, Alone, InTx, Statements
<1> QED
  BY <1>1, <1>2, <1>4, <1>5, <1>6, Mover

-----------------------------------------------------------------------------
(* Every call is a request's.                                              *)

LEMMA AskedStep ==
  ASSUME TypeOK, \A s \in Sessions : Asked(s), [Next]_vars
  PROVE  \A s \in Sessions : Asked(s)'
<1>1. CASE UNCHANGED vars
  BY <1>1 DEF vars, Asked
<1>2. ASSUME NEW s \in Sessions, Work(s) \/ Fault(s)
      PROVE  \A v \in Sessions : Asked(v)'
  BY <1>2, WorkUnderWay DEF UnderWay, Asked
<1>3. ASSUME NEW s \in Sessions, Collect(s)
      PROVE  \A v \in Sessions : Asked(v)'
  BY <1>3 DEF Collect, Goto, TypeOK, Asked
<1>4. ASSUME NEW s \in Sessions, Invoke(s)
      PROVE  \A v \in Sessions : Asked(v)'
  <2>1. PICK c \in Requests : Start(s, c)
    BY <1>4 DEF Invoke
  <2>2. c \in Arguments
    BY RequestsAssumption DEF Call
  <2>3. \A v \in Sessions \ {s} : pc'[v] = pc[v] /\ call'[v] = call[v]
    BY <2>1 DEF Start, Goto, TypeOK
  <2>4. Asked(s)'
    BY <2>1, <2>2 DEF Start, TypeOK, Asked, Arguments
  <2> QED
    BY <2>3, <2>4 DEF Asked
<1>5. ASSUME NEW S \in SUBSET Sessions, Drop(S)
      PROVE  \A v \in Sessions : Asked(v)'
  BY <1>5 DEF Drop, Asked
<1> QED
  BY <1>1, <1>2, <1>3, <1>4, <1>5, Mover

\* A step of one session leaves the others where they are.
LEMMA WorkOthersSame ==
  ASSUME TypeOK, NEW s \in Sessions, Work(s) \/ Fault(s)
  PROVE  OthersSame(s)
<1>1. \A v \in Sessions \ {s} : pc'[v] = pc[v] /\ call'[v] = call[v]
  BY WorkUnderWay DEF UnderWay
<1>2. \A v \in Sessions \ {s} : row'[v] = row[v] /\ queue'[v] = queue[v]
  BY DEF TypeOK, Work, Fault, Begin, Create, Count, Insert, Get, Select, SelectConfig, SelectSecret,
         Read, Update, Existing, Lock, WriteRow, Demote, Unset, UnsetRow, UnsetDone, SoftDelete,
         SetVerified, Commit, DbError, CommitUnacknowledged, DeadlockAbort, Fail
<1>3. \A v \in Sessions \ {s} : pending'[v] = pending[v]
  BY DEF TypeOK, Work, Fault, Begin, Create, Count, Insert, Get, Select, SelectConfig, SelectSecret,
         Read, Update, Existing, Lock, WriteRow, Demote, Unset, UnsetRow, UnsetDone, SoftDelete,
         SetVerified, Commit, DbError, CommitUnacknowledged, DeadlockAbort, Fail, Write
<1> QED
  BY <1>1, <1>2, <1>3 DEF OthersSame

-----------------------------------------------------------------------------
(* A transaction does what its caller asked for, whatever runs meanwhile.  *)

\* The columns of a version that the caller gave stay as given.
LEMMA MergeTwice ==
  ASSUME NEW c \in Call, NEW r \in Row
  PROVE  Merge(c, Merge(c, r)) = Merge(c, r)
BY DEF Merge, Given, Row, Call, Arguments

LEMMA KeptTwice ==
  ASSUME NEW c \in Call, NEW r \in Row, NEW now \in Row, r = Merge(c, r)
  PROVE  LET new == Kept(c, r, now)
         IN new \in Row /\ new = Kept(c, Merge(c, new), now)
<1> DEFINE new == Kept(c, r, now)
<1>1. new \in Row
  BY KeptType
<1>2. /\ r.name = Given(c.name, r.name)
      /\ r.target = Given(c.target, r.target)
      /\ r.isDefault = Given(c.isDefault, r.isDefault)
  BY DEF Merge, Row
<1>3. /\ new.name = r.name /\ new.target = r.target /\ new.isDefault = r.isDefault
      /\ new.secret = Given(c.secret, now.secret) /\ new.verified = now.verified
  BY DEF Kept, Row
<1> HIDE DEF new
<1>4. Merge(c, new) = new
  BY <1>1, <1>2, <1>3 DEF Merge, Row
<1>5. Kept(c, new, now) = new
  BY <1>1, <1>3 DEF Kept, Row
<1> QED
  BY <1>1, <1>4, <1>5 DEF new

LEMMA OutsideAsAsked ==
  ASSUME IInv', NEW s \in Sessions, pc'[s] \notin Statements
  PROVE  AsAsked(s)'
BY DEF IInv, LockInv, HoldsNothing, AsAsked, Statements

\* Another session's step, with which only its own versions become committed.
LEMMA OthersAsAsked ==
  ASSUME IInv, DoneInv, NEW s \in Sessions, OwnCommit(s), OthersSame(s),
         NEW v \in Sessions \ {s}, AsAsked(v)
  PROVE  AsAsked(v)'
<1> DEFINE id == call[v].id
<1>1. /\ pc'[v] = pc[v] /\ call'[v] = call[v] /\ row'[v] = row[v]
      /\ pending'[v] = pending[v]
  BY DEF OthersSame
<1>2. ASSUME pc[v] \in {"write", "commit"}, call[v].op = "update"
      PROVE  db'[id] = db[id]
  <2>1. id \in Locks(v)
    BY <1>2 DEF IInv, LockInv, RowOK, DoneInv, CommitHolds
  <2>2. id \notin Locks(s) /\ id \in Ids
    BY <2>1 DEF IInv, LockInv, LocksExclusive, Locks
  <2> QED
    BY <2>2 DEF OwnCommit
<1>3. ASSUME NEW r, pc[v] \in {"insert", "write", "commit"}, Made(v, r)
      PROVE  Made(v, r)'
  <2>1. pc[v] = "insert" => call[v].op = "create"
    BY DEF IInv, TypeOK, PlaceOK
  <2> QED
    BY <1>1, <1>2, <1>3, <2>1 DEF Made
<1>4. Locks(v)' = Locks(v)
  BY <1>1 DEF Locks
<1> QED
  BY <1>1, <1>3, <1>4 DEF AsAsked

\* A write to the row of the call.
LEMMA OwnWriteAsAsked ==
  ASSUME TypeOK, NEW s \in Sessions, AsAsked(s), call[s].id \in Ids, NEW r \in Row,
         Write(s, call[s].id, r), UNCHANGED <<db, call>>,
         pc'[s] \in {"write", "commit"},
         pc'[s] = "write" => Made(s, row'[s]),
         pc'[s] = "commit" => Made(s, r)
  PROVE  AsAsked(s)'
<1>1. /\ pending'[s][call[s].id] = r
      /\ \A i \in Ids \ {call[s].id} : pending'[s][i] = pending[s][i]
  BY DEF TypeOK, Write
<1>2. \A i \in Locks(s)' : i # call[s].id => i \in Locks(s)
  BY <1>1 DEF Locks
<1>3. \A x : Made(s, x)' <=> Made(s, x)
  BY DEF Made
<1>4. pc'[s] = "write" => Made(s, row[s])'
  BY DEF Made
<1>5. pc'[s] = "commit" => Made(s, pending[s][call[s].id])'
  BY <1>1 DEF Made
<1> QED
  BY <1>2, <1>4, <1>5 DEF AsAsked

\* A step that writes nothing.
LEMMA DemoteAsAsked ==
  ASSUME IInv, NEW s \in Sessions, AsAsked(s), Demote(s)
  PROVE  AsAsked(s)'
<1>1. CASE Unset(s)
  BY <1>1 DEF Unset, Goto, IInv, TypeOK, AsAsked, Locks
<1>2. CASE UnsetRow(s)
  BY <1>2 DEF UnsetRow, At, IInv, TypeOK, AsAsked
<1>3. CASE UnsetDone(s)
  BY <1>3 DEF UnsetDone, Goto, IInv, TypeOK, AsAsked, Locks
<1> QED
  BY <1>1, <1>2, <1>3 DEF Demote

LEMMA CreateAsAsked ==
  ASSUME IInv, NEW s \in Sessions, AsAsked(s), Create(s), pc'[s] \in Statements
  PROVE  AsAsked(s)'
<1>1. CASE Count(s)
  <2> DEFINE d == call[s].isDefault \/ LiveRows(s) = {}
  <2>1. /\ pc'[s] = "insert" /\ row'[s] = NewRow(call[s], d)
        /\ UNCHANGED <<db, pending, call>> /\ call[s].op = "create"
    BY <1>1 DEF Count, Goto, IInv, TypeOK, PlaceOK
  <2>2. NewRow(call[s], d).isDefault = d
    BY DEF NewRow
  <2> HIDE DEF d
  <2>3. Made(s, row[s])'
    BY <2>1, <2>2 DEF Made, d
  <2> QED
    BY <2>1, <2>3 DEF AsAsked, Locks
<1>2. CASE Insert(s)
  <2>1. pc'[s] = "commit" /\ Write(s, call[s].id, row[s]) /\ UNCHANGED <<db, call, row>>
    BY <1>2 DEF Insert, Fail, Goto, Outcomes, Statements, IInv, TypeOK
  <2>2. call[s].id \in Ids /\ row[s] \in Row /\ Made(s, row[s])
    BY <1>2 DEF Insert, At, IInv, TypeOK, PlaceOK, AsAsked
  <2> QED
    BY <2>1, <2>2, OwnWriteAsAsked DEF IInv
<1> QED
  BY <1>1, <1>2 DEF Create

LEMMA UpdateAsAsked ==
  ASSUME IInv, NEW s \in Sessions, AsAsked(s), Update(s), pc'[s] \in Statements
  PROVE  AsAsked(s)'
<1> DEFINE c == call[s]
           now == Current(s, c.id)
<1>1. c \in Call /\ c.id \in Ids /\ c.op = "update"
  BY DEF Update, Existing, Lock, WriteRow, At, IInv, TypeOK, PlaceOK
<1>2. CASE Existing(s)
  <2>1. /\ Found(s) /\ UNCHANGED <<db, pending, call>>
        /\ row'[s] = Merge(c, now)
        /\ pc'[s] = IF Merge(c, now).isDefault /\ ~now.isDefault THEN "unset" ELSE "lock"
        /\ Locks(s) = {}
    BY <1>2 DEF Existing, Fail, Goto, Outcomes, Statements, IInv, TypeOK, LockInv, HoldsNothing
  <2>2. now \in Row
    BY <1>1, <2>1, CurrentType DEF Found, LiveRows, IInv
  <2> HIDE DEF c, now
  <2>3. Merge(c, row'[s]) = row'[s]
    BY <1>1, <2>1, <2>2, MergeTwice
  <2>4. Merge(c, now).isDefault /\ ~now.isDefault => c.isDefault = TRUE
    BY <1>1, <2>2 DEF Merge, Given, Row, Call, Arguments
  <2> QED
    BY <1>1, <2>1, <2>3, <2>4 DEF AsAsked, Locks, c
<1>3. CASE Lock(s)
  <2>1. /\ pc[s] = "lock" /\ WaitsFor(s) = {} /\ Found(s)
        /\ pc'[s] = "write" /\ UNCHANGED <<db, call>>
        /\ Write(s, c.id, now)
        /\ row'[s] = Kept(c, row[s], now)
    BY <1>3 DEF Lock, At, Fail, Goto, Outcomes, Statements, IInv, TypeOK
  <2>2. row[s] \in Row /\ row[s] = Merge(c, row[s])
    BY <1>1, <2>1 DEF IInv, TypeOK, PlaceOK, AsAsked
  <2>3. now \in Row /\ OwnVersion(s, db[c.id], now)
    BY <2>1, FoundFacts DEF IInv, Inv
  <2>4. Kept(c, row[s], now) = Kept(c, row[s], db[c.id]) /\ db[c.id] \in Row
    <3>1. /\ now.verified = db[c.id].verified
          /\ now.secret = db[c.id].secret \/ now.secret = c.secret
          /\ db[c.id] \in Row
      BY <1>1, <2>3 DEF OwnVersion, Live, IInv, TypeOK
    <3>2. now.secret # None
      BY <2>3, NoneAssumption DEF Row
    <3> QED
      BY <3>1, <3>2 DEF Kept, Given
  <2>5. Made(s, row'[s])
    <3> DEFINE new == Kept(c, row[s], db[c.id])
    <3>1. new = Kept(c, Merge(c, new), db[c.id])
      BY <1>1, <2>2, <2>4, KeptTwice
    <3>2. row'[s] = new
      BY <2>1, <2>4
    <3> HIDE DEF new
    <3> QED
      BY <1>1, <3>1, <3>2 DEF Made
  <2> QED
    BY <1>1, <2>1, <2>3, <2>5, OwnWriteAsAsked DEF IInv
<1>4. CASE WriteRow(s)
  <2>1. pc'[s] = "commit" /\ Write(s, c.id, row[s]) /\ UNCHANGED <<db, call, row>>
    BY <1>4 DEF WriteRow, Fail, Goto, Outcomes, Statements, IInv, TypeOK
  <2>2. row[s] \in Row /\ Made(s, row[s])
    BY <1>4 DEF WriteRow, At, IInv, TypeOK, PlaceOK, AsAsked
  <2> QED
    BY <1>1, <2>1, <2>2, OwnWriteAsAsked DEF IInv
<1> QED
  BY <1>2, <1>3, <1>4 DEF Update

LEMMA OwnAsAsked ==
  ASSUME IInv, NEW s \in Sessions, AsAsked(s), Work(s) \/ Fault(s), pc'[s] \in Statements
  PROVE  AsAsked(s)'
<1>1. CASE Begin(s)
  <2>1. /\ Locks(s) = {} /\ pc'[s] = FirstStatement(call[s])
        /\ UNCHANGED <<db, pending, call, row>>
        /\ call[s] \in Call
    BY <1>1 DEF Begin, Goto, IInv, TypeOK, PlaceOK, LockInv, HoldsNothing
  <2>2. /\ pc'[s] \in {"unset", "count", "select", "config", "existing", "delete", "flag"}
        /\ pc'[s] = "unset" => call[s].op = "create" /\ call[s].isDefault = TRUE
    BY <2>1 DEF FirstStatement, Call, Arguments, Ops
  <2> QED
    BY <2>1, <2>2 DEF AsAsked, Locks
<1>2. CASE Get(s)
  <2>1. /\ call[s].op \in {"get", "getSecret"} /\ UNCHANGED <<db, pending, call>>
        /\ pc'[s] \in {"secret", "commit"}
        /\ Locks(s) = {}
    BY <1>2 DEF Get, Select, SelectConfig, SelectSecret, Read, Fail, Goto, Outcomes, Statements,
                IInv, TypeOK, PlaceOK, LockInv, HoldsNothing
  <2> QED
    BY <2>1 DEF AsAsked, Made, Locks
<1>3. CASE SoftDelete(s) \/ SetVerified(s)
  <2>1. /\ pc[s] \in {"delete", "flag"} /\ WaitsFor(s) = {} /\ Found(s)
        /\ call[s].op \in {"delete", "setVerified"} /\ call[s].id \in Ids
        /\ pc'[s] = "commit" /\ UNCHANGED <<db, call>>
    BY <1>3 DEF SoftDelete, SetVerified, At, Fail, Goto, Outcomes, Statements, IInv, TypeOK, PlaceOK
  <2>2. Current(s, call[s].id) \in Row
    BY <2>1, FoundFacts DEF IInv, Inv
  <2>3. PICK r \in Row : Write(s, call[s].id, r)
    BY <1>3, <2>1, <2>2, DeletedType, FlaggedType
    DEF SoftDelete, SetVerified, At, IInv, TypeOK, PlaceOK
  <2> QED
    BY <2>1, <2>3, OwnWriteAsAsked DEF IInv, Made
<1>4. CASE Commit(s) \/ CommitUnacknowledged(s) \/ DbError(s) \/ DeadlockAbort(s)
  BY <1>4 DEF Commit, CommitUnacknowledged, DbError, DeadlockAbort, Fail, Goto, Statements, IInv, TypeOK
<1> QED
  BY <1>1, <1>2, <1>3, <1>4, DemoteAsAsked, CreateAsAsked, UpdateAsAsked DEF Work, Fault

LEMMA AskedInvStep ==
  ASSUME IInv, DoneInv, AskedInv, [Next]_vars
  PROVE  AskedInv'
<1>1. IInv' /\ \A s \in Sessions : Asked(s)'
  BY InvStep, AskedStep DEF AskedInv, IInv
<1> SUFFICES \A s \in Sessions : AsAsked(s)'
  BY <1>1 DEF AskedInv
<1>2. CASE UNCHANGED vars
  BY <1>2 DEF vars, AskedInv, AsAsked, Made, Locks
<1>3. ASSUME NEW s \in Sessions, OwnCommit(s), OthersSame(s)
      PROVE  \A v \in Sessions \ {s} : AsAsked(v)'
  BY <1>3, OthersAsAsked DEF AskedInv
<1>4. ASSUME NEW s \in Sessions, Work(s) \/ Fault(s)
      PROVE  \A v \in Sessions : AsAsked(v)'
  <2>1. AsAsked(s)'
    BY <1>1, <1>4, OwnAsAsked, OutsideAsAsked DEF AskedInv
  <2>2. OthersSame(s)
    BY <1>4, WorkOthersSame DEF IInv
  <2>3. OwnCommit(s)
    BY <1>4
    DEF Work, Fault, Begin, Create, Count, Insert, Get, Select, SelectConfig, SelectSecret, Read,
        Update, Existing, Lock, WriteRow, Demote, Unset, UnsetRow, UnsetDone, SoftDelete,
        SetVerified, Commit, DbError, CommitUnacknowledged, DeadlockAbort, Fail,
        OwnCommit, Merged, Current, Locks
  <2> QED
    BY <1>3, <2>1, <2>2, <2>3
<1>5. ASSUME NEW s \in Sessions, Invoke(s) \/ Collect(s)
      PROVE  \A v \in Sessions : AsAsked(v)'
  <2>1. OthersSame(s) /\ db' = db /\ pc'[s] \notin Statements
    BY <1>5 DEF Invoke, Start, Collect, Goto, OthersSame, IInv, TypeOK, Statements
  <2> QED
    BY <1>1, <1>3, <2>1, OutsideAsAsked DEF OwnCommit
<1>6. ASSUME NEW S \in SUBSET Sessions, Drop(S)
      PROVE  \A v \in Sessions : AsAsked(v)'
  <2>1. \A v \in S : pc'[v] \notin Statements
    BY <1>6 DEF Drop, Statements
  <2>2. \A v \in Sessions \ S : AsAsked(v)'
    BY <1>6 DEF Drop, AskedInv, AsAsked, Made, Locks
  <2> QED
    BY <1>1, <2>1, <2>2, OutsideAsAsked
<1> QED
  BY <1>2, <1>4, <1>5, <1>6, Mover DEF IInv

-----------------------------------------------------------------------------
(* However calls run together, a commit is one step of the table.          *)

\* Of the rows of others a commit changes only some, and only if its call
\* takes the default.
LEMMA SeenDemoted ==
  ASSUME IInv, DoneInv, AskedInv, NEW s \in Sessions, pc[s] = "commit", db' = Merged(s),
         call[s].op \in {"create", "update"}
  PROVE  Table!PutSeen(call[s].id, pending[s][call[s].id], call[s].isDefault = TRUE)
<1> DEFINE id == call[s].id
           new == pending[s][id]
           seen == Locks(s) \ {id}
<1>1. id \in Ids /\ id \in Locks(s)
  BY DEF IInv, TypeOK, PlaceOK, DoneInv, CommitHolds
<1>2. OfTenant(s, new)
  BY <1>1 DEF IInv, LockInv, VersionsOK, OwnVersion
<1>3. ASSUME NEW i \in seen
      PROVE  OfTenant(s, db[i]) /\ pending[s][i] = Demoted(db[i])
  BY <1>3 DEF IInv, LockInv, VersionsOK, OtherVersion, Locks
<1> DEFINE changed == {i \in seen : Live(db[i])}
<1>4. changed \in SUBSET (Table!LiveOf(new.tenant) \ {id})
  BY <1>2, <1>3 DEF Table!LiveOf, Table!Live, Live, OfTenant, Locks
<1>5. changed # {} => call[s].isDefault = TRUE
  BY DEF AskedInv, AsAsked
<1>6. ASSUME NEW i \in Ids
      PROVE  Current(s, i) = IF i = id THEN new
                             ELSE IF i \in changed THEN Table!Demoted(db[i])
                             ELSE db[i]
  <2>1. CASE i = id
    BY <1>1, <2>1 DEF Current, Locks
  <2>2. CASE i \in changed
    BY <1>3, <2>2 DEF Current, Locks, Demoted, Table!Demoted, Live, Table!Live
  <2>3. CASE i # id /\ i \notin changed
    <3>1. CASE i \in seen
      BY <1>3, <2>3, <3>1 DEF Current, Demoted
    <3>2. CASE i \notin seen
      BY <2>3, <3>2 DEF Current, Locks
    <3> QED
      BY <2>3, <3>1, <3>2
  <2> QED
    BY <2>1, <2>2, <2>3
<1> HIDE DEF id, new, changed
<1>7. db' = [i \in Ids |-> IF i = id THEN new
                           ELSE IF i \in changed THEN Table!Demoted(db[i])
                           ELSE db[i]]
  BY <1>6 DEF Merged
<1>8. id \notin changed
  BY DEF changed
<1>9. Table!PutSeen(id, new, call[s].isDefault = TRUE)
  BY <1>4, <1>5, <1>7, <1>8 DEF Table!PutSeen
<1> QED
  BY <1>9 DEF id, new

LEMMA CommitTables ==
  ASSUME IInv, DoneInv, AskedInv, NEW s \in Sessions, pc[s] = "commit", db' = Merged(s), db' # db
  PROVE  Table!TableNext
<1> DEFINE c == call[s]
           id == c.id
           old == db[id]
           new == pending[s][id]
<1>1. c \in Call /\ id \in Ids /\ c.op \in Ops
  BY DEF IInv, TypeOK, PlaceOK, Call, Arguments
<1>2. c.op \in {"create", "update", "delete", "setVerified"}
  <2>1. PICK i \in Ids : db'[i] # db[i]
    BY DEF Merged, IInv, TypeOK
  <2> QED
    BY <2>1, CommittedVersion DEF OwnVersion, OtherVersion
<1>3. /\ id \in Locks(s) /\ OwnVersion(s, old, new) /\ new \in Row /\ Made(s, new)
  <2>1. id \in Locks(s)
    BY <1>2 DEF DoneInv, CommitHolds
  <2> QED
    BY <1>1, <2>1 DEF IInv, TypeOK, LockInv, VersionsOK, Locks, AskedInv, AsAsked
<1>4. Table!KeyFree(id, new)
  <2>1. \A i \in Ids \ {id} : ~SameKey(new, db[i])
    BY <1>1 DEF IInv, KeysApart
  <2> HIDE DEF new, id
  <2> QED
    BY <2>1 DEF Table!KeyFree, SameKey, Table!SameKey, Live, Table!Live
<1>5. ASSUME c.op # "create"
      PROVE  /\ c \in Requests
             /\ old \in Row /\ old.tenant = c.tenant
             /\ id \in Table!LiveOf(c.tenant)
  <2>1. c \in Requests
    <3>1. PICK r \in Requests : \/ r.op # "create" /\ c = r
                                \/ r.op = "create" /\ c = [r EXCEPT !.id = id]
      BY DEF AskedInv, Asked
    <3>2. r \in Arguments
      BY RequestsAssumption DEF Call
    <3> QED
      BY <1>5, <3>1, <3>2 DEF Arguments
  <2> QED
    BY <1>1, <1>3, <1>5, <2>1 DEF OwnVersion, OfTenant, Live, Table!LiveOf, Table!Live, IInv, TypeOK
<1>6. CASE c.op = "create"
  <2>1. PICK r \in Requests : r.op = "create" /\ c = [r EXCEPT !.id = id]
    BY <1>1, <1>6 DEF AskedInv, Asked
  <2>2. /\ r \in Call /\ c.isDefault = r.isDefault /\ r.isDefault \in BOOLEAN
        /\ \A x : Table!NewRow(r, x) = NewRow(c, x)
    BY <2>1, RequestsAssumption DEF Call, Arguments, NewRow, Table!NewRow
  <2>3. old = None
    BY <1>3, <1>6 DEF OwnVersion
  <2>4. PICK first \in BOOLEAN : first = new.isDefault
    BY <1>3 DEF Row
  <2>5. new = Table!NewRow(r, r.isDefault \/ first)
    <3>1. new = NewRow(c, first) /\ (r.isDefault => first)
      BY <1>3, <1>6, <2>2, <2>4 DEF Made
    <3>2. (r.isDefault \/ first) = first
      BY <2>2, <2>4, <3>1
    <3> QED
      BY <2>2, <3>1, <3>2
  <2>6. Table!PutSeen(id, new, c.isDefault = TRUE)
    BY <1>6, SeenDemoted
  <2> HIDE DEF c, id, old, new
  <2>7. Table!PutSeen(id, new, r.isDefault)
    <3>1. (c.isDefault = TRUE) = r.isDefault
      BY <2>2
    <3> QED
      BY <2>6, <3>1
  <2>8. Table!TableCreate(r)
    BY <1>1, <1>4, <2>3, <2>5, <2>7 DEF Table!TableCreate, old
  <2> QED
    BY <2>1, <2>8 DEF Table!TableNext
<1>7. CASE c.op = "update"
  <2> DEFINE read == [old EXCEPT !.name = new.name, !.target = new.target,
                                 !.isDefault = new.isDefault]
             r == Table!Kept(c, Table!Merge(c, read), old)
  <2>1. new = Kept(c, Merge(c, new), old) /\ new.tenant = c.tenant /\ ~new.deleted
    BY <1>3, <1>7 DEF Made, OwnVersion, OfTenant, Live
  <2>2. /\ new.name \in Names /\ new.target \in Targets /\ new.isDefault \in BOOLEAN
    BY <1>3 DEF Row
  <2>3. old \in Row /\ old.tenant = c.tenant /\ ~old.deleted
    BY <1>3, <1>5, <1>7 DEF OwnVersion, Live
  <2>4. r = new
    <3> HIDE DEF c, old, new
    <3>0. read \in Row
      BY <2>2, <2>3 DEF Row
    <3> HIDE DEF read
    <3>1. r = Kept(c, Merge(c, read), old)
      BY DEF Kept, Table!Kept, Merge, Table!Merge, Given, Table!Given
    <3>2. Merge(c, read) \in Row /\ Merge(c, new) \in Row
      BY <1>1, <1>3, <3>0, MergeType
    <3>3. /\ Merge(c, read).name = Merge(c, new).name
          /\ Merge(c, read).target = Merge(c, new).target
          /\ Merge(c, read).isDefault = Merge(c, new).isDefault
          /\ Merge(c, read).tenant = Merge(c, new).tenant
          /\ Merge(c, read).deleted = Merge(c, new).deleted
      BY <1>3, <2>1, <2>3 DEF Merge, Row, read
    <3>4. Kept(c, Merge(c, read), old) = Kept(c, Merge(c, new), old)
      BY <3>2, <3>3 DEF Kept, Row
    <3> QED
      BY <2>1, <3>1, <3>4
  <2>5. Table!PutSeen(id, new, c.isDefault = TRUE)
    BY <1>7, SeenDemoted
  <2> HIDE DEF c, id, old, new, r
  <2>6. Table!KeyFree(id, r) /\ Table!PutSeen(id, r, c.isDefault = TRUE)
    BY <1>4, <2>4, <2>5
  <2>7. Table!TableUpdate(c)
    BY <1>5, <1>7, <2>2, <2>6 DEF Table!TableUpdate, r, old, id
  <2> QED
    BY <1>5, <1>7, <2>7 DEF Table!TableNext
<1>8. ASSUME c.op \in {"delete", "setVerified"}
      PROVE  Table!Put(id, new, FALSE)
  <2>1. \A i \in Ids \ {id} : i \notin Locks(s)
    BY <1>8 DEF IInv, LockInv, VersionsOK, OtherVersion
  <2>2. db' = [i \in Ids |-> IF i = id THEN new ELSE db[i]]
    BY <1>1, <1>3, <2>1 DEF Merged, Current, Locks
  <2> HIDE DEF new, id
  <2> QED
    BY <2>2 DEF Table!Put
<1>9. CASE c.op = "delete"
  <2>1. new = Table!Deleted(old)
    BY <1>3, <1>9 DEF OwnVersion, Deleted, Table!Deleted
  <2>2. Table!StoreDelete(c)
    BY <1>5, <1>8, <1>9, <2>1 DEF Table!StoreDelete
  <2> QED
    BY <1>5, <1>9, <2>2 DEF Table!TableNext
<1>10. CASE c.op = "setVerified"
  <2>1. new = Table!Flagged(old, c.verified)
    BY <1>3, <1>10 DEF OwnVersion, Flagged, Table!Flagged
  <2>2. Table!StoreSetVerified(c)
    BY <1>5, <1>8, <1>10, <2>1 DEF Table!StoreSetVerified
  <2> QED
    BY <1>5, <1>10, <2>2 DEF Table!TableNext
<1> QED
  BY <1>2, <1>6, <1>7, <1>9, <1>10

\* Whatever calls, faults, hang-ups and restarts run together over however
\* many connections, each call is one atomic change of the table or none: the
\* columns it was given are as given, the password and the verdict as they
\* were, no name is taken, and what else it changes is that some of the others
\* lose the default, if it takes it.
THEOREM ConcurrentIsTable == Spec => ImplementsTable
<1>1. Init => Table!StoreInit /\ AskedInv
  BY DEF Init, Table!StoreInit, NoRows, Table!NoRows, AskedInv, Asked, AsAsked, Locks
<1>2. IInv /\ DoneInv /\ AskedInv /\ [Next]_vars => AskedInv'
  BY AskedInvStep
<1>3. IInv /\ DoneInv /\ AskedInv /\ [Next]_vars => [Table!TableNext]_db
  <2> SUFFICES ASSUME IInv, DoneInv, AskedInv, [Next]_vars, db' # db
               PROVE  Table!TableNext
    OBVIOUS
  <2>1. PICK s \in Sessions : pc[s] = "commit" /\ db' = Merged(s)
    BY OnlyCommits
  <2> QED
    BY <2>1, CommitTables
<1> QED
  BY <1>1, <1>2, <1>3, Invariant, Done, PTL DEF Spec, ImplementsTable, Table!TableSpec

-----------------------------------------------------------------------------
(* What the transaction has made so far.                                   *)

\* Those outside a transaction, or whom a step passes by, have nothing to keep.
LEMMA Outside ==
  ASSUME NEW s, ~InTx(s)
  PROVE  SerialOK(s)
BY DEF InTx, Statements, SerialOK

LEMMA PassedBy ==
  ASSUME NEW s, SerialOK(s), db' = db, pc'[s] = pc[s], call'[s] = call[s],
         row'[s] = row[s], queue'[s] = queue[s], pending'[s] = pending[s]
  PROVE  SerialOK(s)'
BY DEF SerialOK, VersionMade, Demotions, Demoting, Siblings, OwnFound, OfTenant, Current, Live

\* An order of a set of rows holds them all.
LEMMA OrderHolds ==
  ASSUME NEW S \in SUBSET Ids, NEW q \in SetToSeqs(S), NEW i \in S
  PROVE  \E k \in DOMAIN q : q[k] = i
<1> DEFINE n == Cardinality(S)
<1>1. IsFiniteSet(S) /\ n \in Nat
  BY IdsAssumption, FS_Subset, FS_CardinalityType
<1>2. Cardinality(1..n) = n
  BY <1>1, FS_Interval
<1>3. q \in [1..n -> S] /\ \A j, k \in 1..n : j # k => q[j] # q[k]
  BY DEF SetToSeqs
<1>4. q \in Injection(1..n, S)
  BY <1>3 DEF Injection, IsInjective
<1>5. q \in Surjection(1..n, S)
  BY <1>1, <1>2, <1>4, FS_Injection
<1> QED
  BY <1>3, <1>5 DEF Surjection

\* Before its first write a transaction sees the table.
LEMMA SeesTable ==
  ASSUME NEW s, Locks(s) = {}, NEW i \in Ids
  PROVE  Current(s, i) = db[i]
BY DEF Locks, Current

\* Of the rows of others it sees them as they are, or demoted.
LEMMA SeesOthers ==
  ASSUME IInv, NEW s \in Sessions, NEW i \in Ids \ {call[s].id}
  PROVE  \/ Current(s, i) = db[i]
         \/ i \in Siblings(s) /\ Current(s, i) = Demoted(db[i])
<1>1. CASE i \notin Locks(s)
  BY <1>1 DEF Locks, Current
<1>2. CASE i \in Locks(s)
  <2>1. OfTenant(s, db[i]) /\ Current(s, i) = Demoted(db[i])
    BY <1>2 DEF IInv, LockInv, VersionsOK, OtherVersion, Locks, Current
  <2> QED
    BY <2>1 DEF Siblings, Demoted, OfTenant
<1> QED
  BY <1>1, <1>2

LEMMA PutOwn ==
  ASSUME TypeOK, NEW s \in Sessions, call[s].id \in Ids, NEW r \in Row,
         Write(s, call[s].id, r), UNCHANGED <<db, call>>
  PROVE  /\ Current(s, call[s].id)' = r
         /\ Demotions(s) => Demotions(s)'
         /\ \A x : VersionMade(s, x) => VersionMade(s, x)'
<1>1. /\ pending'[s][call[s].id] = r
      /\ \A i \in Ids \ {call[s].id} : pending'[s][i] = pending[s][i]
  BY DEF TypeOK, Write
<1>2. Current(s, call[s].id)' = r /\ \A i \in Ids \ {call[s].id} : Current(s, i)' = Current(s, i)
  BY <1>1, NoneIsNoRow DEF Current
<1>3. Demotions(s) => Demotions(s)'
  BY <1>2 DEF Demotions, Demoting, Siblings, Live
<1>4. \A x : VersionMade(s, x) => VersionMade(s, x)'
  BY DEF VersionMade, Siblings, Live
<1> QED
  BY <1>2, <1>3, <1>4

LEMMA SerialBegin ==
  ASSUME IInv, NEW s \in Sessions, Begin(s)
  PROVE  SerialOK(s)'
<1>1. Locks(s) = {} /\ pc[s] = "begin"
  BY DEF IInv, LockInv, HoldsNothing, Begin
<1>2. call[s] \in Call /\ call[s].id \in Ids
  BY <1>1 DEF IInv, TypeOK, PlaceOK
<1>3. UNCHANGED <<db, pending, call, row, queue>> /\ pc'[s] = FirstStatement(call[s])
  BY DEF Begin, Goto, IInv, TypeOK
<1>4. \A i \in Ids : Current(s, i)' = db[i]
  BY <1>1, <1>3, SeesTable DEF Current
<1>5. CASE call[s].op = "create" /\ call[s].isDefault
  <2>1. pc'[s] = "unset"
    BY <1>3, <1>5 DEF FirstStatement
  <2> QED
    BY <1>3, <1>5, <2>1 DEF SerialOK, Demoting
<1>6. CASE call[s].op = "create" /\ ~call[s].isDefault
  <2>1. pc'[s] = "count"
    BY <1>3, <1>6 DEF FirstStatement
  <2>2. Demotions(s)'
    BY <1>3, <1>4, <1>6 DEF Demotions, Demoting
  <2> QED
    BY <1>2, <1>3, <1>4, <2>1, <2>2 DEF SerialOK
<1>7. CASE call[s].op # "create"
  <2>1. FirstStatement(call[s]) \in {"select", "config", "existing", "delete", "flag"}
    <3>1. call[s].op \in Ops
      BY <1>2 DEF Call, Arguments
    <3> QED
      BY <1>7, <3>1 DEF FirstStatement, Ops
  <2> QED
    BY <1>3, <2>1 DEF SerialOK
<1> QED
  BY <1>5, <1>6, <1>7

LEMMA SerialUnset ==
  ASSUME IInv, NEW s \in Sessions, SerialOK(s), Unset(s)
  PROVE  SerialOK(s)'
<1>1. /\ pc[s] = "unset" /\ pc'[s] = "unsetting"
      /\ UNCHANGED <<db, pending, call, row>>
      /\ Locks(s) = {} /\ call[s].id \in Ids
  BY DEF IInv, TypeOK, PlaceOK, LockInv, HoldsNothing, Unset, Goto
<1>2. PICK q \in SetToSeqs(UnsetScope(s)) : queue'[s] = q
  BY DEF Unset, IInv, TypeOK
<1>3. \A i \in Ids : Current(s, i) = db[i]
  BY <1>1, SeesTable
<1>4. Siblings(s) \subseteq UnsetScope(s) /\ UnsetScope(s) \subseteq Ids
  BY <1>3 DEF Siblings, UnsetScope, LiveRows
<1>5. \A i \in Siblings(s) : \E k \in DOMAIN queue'[s] : queue'[s][k] = i
  BY <1>2, <1>4, OrderHolds
<1>6. Siblings(s)' = Siblings(s)
  BY <1>1 DEF Siblings, Live
<1> QED
  BY <1>1, <1>3, <1>5, <1>6 DEF SerialOK, Demoting, OwnFound, OfTenant, Live, Current

LEMMA SerialUnsetRow ==
  ASSUME IInv, NEW s \in Sessions, SerialOK(s), UnsetRow(s)
  PROVE  SerialOK(s)'
<1>1. PICK i \in Ids, r \in Row :
        /\ i = Head(queue[s]) /\ i # call[s].id
        /\ r = Demoted(db[i]) /\ Write(s, i, r)
  BY UnsetRowFacts DEF IInv, Inv, OtherVersion
<1>2. /\ pc[s] = "unsetting" /\ pc' = pc
      /\ UNCHANGED <<db, call, row>>
      /\ queue'[s] = Tail(queue[s]) /\ queue[s] # <<>> /\ queue[s] \in Seq(Ids)
      /\ call[s].id \in Ids
  BY DEF UnsetRow, At, IInv, TypeOK, PlaceOK
<1>3. \A k \in DOMAIN queue[s] \ {1} : k - 1 \in DOMAIN queue'[s] /\ queue'[s][k - 1] = queue[s][k]
  BY <1>2
<1>4. queue[s][1] = i
  BY <1>1, <1>2
<1>5. Current(s, i)' = r /\ \A j \in Ids \ {i} : Current(s, j)' = Current(s, j)
  <2>1. pending'[s][i] = r /\ \A j \in Ids \ {i} : pending'[s][j] = pending[s][j]
    BY <1>1 DEF Write, IInv, TypeOK
  <2> QED
    BY <1>2, <2>1, NoneIsNoRow DEF Current
<1>6. Siblings(s)' = Siblings(s) /\ Siblings(s) \subseteq Ids
  BY <1>2 DEF Siblings, Live
<1>7. ASSUME NEW j \in Siblings(s)
      PROVE  (\E k \in DOMAIN queue'[s] : queue'[s][k] = j) \/ Current(s, j)' = Demoted(db[j])
  <2>1. CASE j = i
    BY <1>1, <1>5, <2>1
  <2>2. CASE j # i
    BY <1>2, <1>3, <1>4, <1>5, <1>6, <2>2 DEF SerialOK
  <2> QED
    BY <2>1, <2>2
<1>8. Current(s, call[s].id)' = db[call[s].id]
  BY <1>1, <1>2, <1>5 DEF SerialOK
<1> QED
  BY <1>2, <1>6, <1>7, <1>8 DEF SerialOK, Demoting, OwnFound, OfTenant, Live

LEMMA SerialUnsetDone ==
  ASSUME IInv, NEW s \in Sessions, SerialOK(s), UnsetDone(s)
  PROVE  SerialOK(s)'
<1>1. /\ pc[s] = "unsetting"
      /\ pc'[s] = IF call[s].op = "create" THEN "count" ELSE "lock"
      /\ UNCHANGED <<db, pending, call, row>>
      /\ queue[s] = <<>>
  BY DEF UnsetDone, Goto, IInv, TypeOK
<1>2. Demoting(s) /\ \A i \in Siblings(s) : Current(s, i) = Demoted(db[i])
  BY <1>1 DEF SerialOK
<1>3. Demotions(s)
  BY <1>2, SeesOthers DEF Demotions
<1>4. Demotions(s)'
  BY <1>1, <1>3 DEF Demotions, Demoting, Siblings, Live, Current
<1> QED
  BY <1>1, <1>4 DEF SerialOK, OwnFound, OfTenant, Live, Current

LEMMA SerialCount ==
  ASSUME IInv, NEW s \in Sessions, SerialOK(s), Count(s)
  PROVE  SerialOK(s)'
<1> DEFINE r == NewRow(call[s], call[s].isDefault \/ LiveRows(s) = {})
<1>1. /\ pc[s] = "count" /\ pc'[s] = "insert"
      /\ UNCHANGED <<db, pending, call>>
      /\ row'[s] = r
      /\ call[s].op = "create" /\ call[s].id \in Ids
  BY DEF Count, Goto, IInv, TypeOK, PlaceOK
<1>2. Current(s, call[s].id) = None
  BY <1>1 DEF IInv, LockInv, Reserved, Creating, Statements, SerialOK
<1>3. LiveRows(s) = {} <=> Siblings(s) = {}
  <2>1. ASSUME NEW i \in LiveRows(s)
        PROVE  i \in Siblings(s)
    <3>1. i \in Ids \ {call[s].id}
      BY <1>2 DEF LiveRows, Live
    <3> QED
      BY <3>1, SeesOthers DEF LiveRows, Siblings
  <2>2. ASSUME NEW i \in Siblings(s)
        PROVE  i \in LiveRows(s)
    <3>1. i \in Ids \ {call[s].id} /\ db[i] \in Row /\ Live(db[i]) /\ db[i].tenant = call[s].tenant
      BY DEF Siblings, IInv, TypeOK, Live
    <3>2. Live(Demoted(db[i])) /\ Demoted(db[i]).tenant = db[i].tenant
      BY <3>1, DemotedType, NoneIsNoRow DEF Demoted, Live, Row
    <3> QED
      BY <3>1, <3>2, SeesOthers DEF LiveRows
  <2> QED
    BY <2>1, <2>2
<1>4. VersionMade(s, r)
  BY <1>1, <1>3 DEF VersionMade
<1> HIDE DEF r
<1>5. Demotions(s)' /\ VersionMade(s, row[s])'
  BY <1>1, <1>4 DEF SerialOK, Demotions, Demoting, Siblings, Live, Current, VersionMade
<1> QED
  BY <1>1, <1>5 DEF SerialOK, Current

LEMMA SerialInsert ==
  ASSUME IInv, NEW s \in Sessions, SerialOK(s), Insert(s), pc'[s] = "commit"
  PROVE  SerialOK(s)'
<1>1. /\ pc[s] = "insert" /\ call[s].op = "create" /\ call[s].id \in Ids /\ row[s] \in Row
  BY DEF Insert, At, IInv, TypeOK, PlaceOK
<1>2. Write(s, call[s].id, row[s]) /\ UNCHANGED <<db, call, row>>
  BY DEF Insert, Fail, Goto, IInv, TypeOK
<1>3. Demotions(s)' /\ VersionMade(s, row[s])' /\ Current(s, call[s].id)' = row[s]
  BY <1>1, <1>2, PutOwn DEF IInv, SerialOK
<1> QED
  BY <1>1, <1>2, <1>3 DEF SerialOK

LEMMA SerialExisting ==
  ASSUME IInv, NEW s \in Sessions, Existing(s), Found(s)
  PROVE  SerialOK(s)'
<1> DEFINE old == db[call[s].id]
           merged == Merge(call[s], old)
<1>1. /\ pc[s] = "existing" /\ Locks(s) = {}
      /\ call[s] \in Call /\ call[s].op = "update" /\ call[s].id \in Ids
  BY DEF Existing, IInv, TypeOK, PlaceOK, LockInv, HoldsNothing
<1>2. \A i \in Ids : Current(s, i) = db[i]
  BY <1>1, SeesTable
<1>3. /\ UNCHANGED <<db, pending, call>>
      /\ row'[s] = merged
      /\ pc'[s] = IF merged.isDefault /\ ~old.isDefault THEN "unset" ELSE "lock"
  BY <1>1, <1>2 DEF Existing, Fail, Goto, IInv, TypeOK
<1>4. OwnFound(s)
  BY <1>1, <1>2 DEF Found, LiveRows, OwnFound, OfTenant, Live
<1>5. pc'[s] = IF Demoting(s) THEN "unset" ELSE "lock"
  BY <1>1, <1>3 DEF Demoting
<1>6. ~Demoting(s) => Demotions(s)
  BY <1>2 DEF Demotions
<1> HIDE DEF old
<1>7. /\ Demoting(s)' = Demoting(s) /\ OwnFound(s)' = OwnFound(s)
      /\ Demotions(s)' = Demotions(s)
      /\ row'[s] = Merge(call[s], db[call[s].id])
  BY <1>3 DEF Demoting, OwnFound, OfTenant, Live, Demotions, Siblings, Current, old
<1> QED
  BY <1>1, <1>2, <1>3, <1>4, <1>5, <1>6, <1>7 DEF SerialOK, Current

LEMMA SerialLock ==
  ASSUME IInv, NEW s \in Sessions, SerialOK(s), Lock(s), Found(s)
  PROVE  SerialOK(s)'
<1> DEFINE id == call[s].id
<1>1. /\ pc[s] = "lock" /\ call[s].op = "update" /\ id \in Ids
  BY DEF Lock, At, IInv, TypeOK, PlaceOK
<1>2. /\ Demotions(s) /\ OwnFound(s)
      /\ Current(s, id) = db[id]
      /\ row[s] = Merge(call[s], db[id])
  BY <1>1 DEF SerialOK
<1>3. /\ UNCHANGED <<db, call>> /\ pc'[s] = "write"
      /\ Write(s, id, db[id])
      /\ row'[s] = Kept(call[s], row[s], db[id])
  BY <1>1, <1>2 DEF Lock, Fail, Goto, IInv, TypeOK
<1>4. db[id] \in Row
  BY <1>1, <1>2 DEF OwnFound, Live, IInv, TypeOK
<1>5. VersionMade(s, row'[s])
  BY <1>1, <1>2, <1>3 DEF VersionMade
<1>6. /\ Current(s, id)' = db[id] /\ Demotions(s)'
      /\ VersionMade(s, row[s])'
  <2>1. PICK r : r = row'[s]
    OBVIOUS
  <2> QED
    BY <1>1, <1>2, <1>3, <1>4, <1>5, <2>1, PutOwn DEF IInv, VersionMade
<1>7. OwnFound(s)'
  BY <1>2, <1>3 DEF OwnFound, OfTenant, Live
<1> QED
  BY <1>1, <1>3, <1>6, <1>7 DEF SerialOK

LEMMA SerialWriteRow ==
  ASSUME IInv, NEW s \in Sessions, SerialOK(s), WriteRow(s), pc'[s] = "commit"
  PROVE  SerialOK(s)'
<1>1. /\ pc[s] = "write" /\ call[s].op = "update" /\ call[s].id \in Ids /\ row[s] \in Row
  BY DEF WriteRow, At, IInv, TypeOK, PlaceOK
<1>2. Write(s, call[s].id, row[s]) /\ UNCHANGED <<db, call, row>>
  BY DEF WriteRow, Fail, Goto, IInv, TypeOK
<1>3. Demotions(s)' /\ VersionMade(s, row[s])' /\ Current(s, call[s].id)' = row[s]
  BY <1>1, <1>2, PutOwn DEF IInv, SerialOK
<1>4. OwnFound(s)'
  BY <1>1, <1>2 DEF SerialOK, OwnFound, OfTenant, Live
<1> QED
  BY <1>1, <1>2, <1>3, <1>4 DEF SerialOK

\* A method whose only write is to its own row.
LEMMA SerialOwnWrite ==
  ASSUME IInv, NEW s \in Sessions, SoftDelete(s) \/ SetVerified(s), Found(s)
  PROVE  SerialOK(s)'
<1> DEFINE id == call[s].id
<1>1. /\ Locks(s) = {} /\ call[s] \in Call /\ id \in Ids
      /\ pc[s] \in {"delete", "flag"}
      /\ pc[s] = "delete" => call[s].op = "delete"
      /\ pc[s] = "flag" => call[s].op = "setVerified"
  <2>1. pc[s] \in {"delete", "flag"}
    BY DEF SoftDelete, SetVerified, At
  <2>2. Locks(s) = {}
    BY <2>1 DEF IInv, LockInv, HoldsNothing
  <2> QED
    BY <2>1, <2>2 DEF IInv, TypeOK, PlaceOK
<1>2. \A i \in Ids : Current(s, i) = db[i]
  BY <1>1, SeesTable
<1>3. OwnFound(s) /\ db[id] \in Row
  BY <1>1, <1>2 DEF Found, LiveRows, OwnFound, OfTenant, Live, IInv, TypeOK
<1>4. Demotions(s)
  BY <1>1, <1>2 DEF Demotions, Demoting
<1>5. PICK r \in Row : Write(s, id, r) /\ VersionMade(s, r)
  <2>1. CASE SoftDelete(s)
    <3>1. Deleted(db[id]) \in Row
      BY <1>3 DEF Deleted, Row
    <3>2. Write(s, id, Deleted(db[id])) /\ call[s].op = "delete"
      BY <1>1, <1>2, <2>1 DEF SoftDelete, At
    <3> QED
      BY <3>1, <3>2 DEF VersionMade
  <2>2. CASE SetVerified(s)
    <3>1. call[s].op = "setVerified" /\ call[s].verified \in BOOLEAN
      BY <1>1, <2>2 DEF SetVerified, At, Call, Arguments
    <3>2. Flagged(db[id], call[s].verified) \in Row
      BY <1>3, <3>1 DEF Flagged, Row
    <3>3. Write(s, id, Flagged(db[id], call[s].verified))
      BY <1>1, <1>2, <2>2 DEF SetVerified, At
    <3> QED
      BY <3>1, <3>2, <3>3 DEF VersionMade
  <2> QED
    BY <2>1, <2>2
<1>6. UNCHANGED <<db, call>> /\ pc'[s] = "commit"
  BY DEF SoftDelete, SetVerified, At, Fail, Goto, IInv, TypeOK
<1>7. Demotions(s)' /\ VersionMade(s, r)' /\ Current(s, id)' = r
  BY <1>1, <1>4, <1>5, <1>6, PutOwn DEF IInv
<1>8. OwnFound(s)'
  BY <1>3, <1>6 DEF OwnFound, OfTenant, Live
<1> QED
  BY <1>6, <1>7, <1>8 DEF SerialOK, VersionMade

\* A method that reads.
LEMMA SerialGet ==
  ASSUME IInv, NEW s \in Sessions, Get(s)
  PROVE  SerialOK(s)'
<1>1. call[s].op \in {"get", "getSecret"} /\ Locks(s) = {}
  BY DEF Get, Select, SelectConfig, SelectSecret, IInv, TypeOK, PlaceOK, LockInv, HoldsNothing
<1>2. pc'[s] \in {"secret", "commit"} \cup Outcomes
  BY DEF Get, Select, SelectConfig, SelectSecret, Read, Fail, Goto, Outcomes, IInv, TypeOK
<1>3. CASE pc'[s] = "commit"
  <2>1. UNCHANGED <<db, pending, call>>
    BY <1>3 DEF Get, Select, SelectConfig, SelectSecret, Read, Fail, Goto, Outcomes, IInv, TypeOK
  <2>2. Demotions(s)'
    BY <1>1, <2>1, SeesTable DEF Demotions, Demoting, Current
  <2> QED
    BY <1>1, <1>3, <2>1, <2>2 DEF SerialOK, VersionMade
<1>4. CASE pc'[s] \in {"secret"} \cup Outcomes
  BY <1>4 DEF SerialOK, Outcomes
<1> QED
  BY <1>2, <1>3, <1>4

LEMMA SerialCommit ==
  ASSUME TypeOK, NEW s \in Sessions, pc'[s] \notin Statements
  PROVE  SerialOK(s)'
BY DEF SerialOK, Statements

\* The session that a step is of.
LEMMA SerialOwn ==
  ASSUME IInv, NEW s \in Sessions, SerialOK(s), Work(s) \/ Fault(s)
  PROVE  SerialOK(s)'
<1>1. CASE pc'[s] \notin Statements
  BY <1>1, SerialCommit DEF IInv
<1>2. ASSUME NEW o \in Outcomes, Fail(s, o)
      PROVE  SerialOK(s)'
  <2>1. pc'[s] \notin Statements
    BY <1>2 DEF Fail, Goto, IInv, TypeOK, Outcomes, Statements
  <2> QED
    BY <1>1, <2>1
<1>3. CASE Commit(s) \/ CommitUnacknowledged(s)
  <2>1. pc'[s] \notin Statements
    BY <1>3 DEF Commit, CommitUnacknowledged, Goto, IInv, TypeOK, Statements
  <2> QED
    BY <1>1, <2>1
<1>4. CASE DbError(s) \/ DeadlockAbort(s)
  BY <1>2, <1>4 DEF DbError, DeadlockAbort, Outcomes
<1>5. CASE Insert(s) \/ WriteRow(s)
  <2>1. pc'[s] = "commit" \/ \E o \in Outcomes : Fail(s, o)
    BY <1>5 DEF Insert, WriteRow, Goto, IInv, TypeOK, Outcomes
  <2> QED
    BY <1>2, <1>5, <2>1, SerialInsert, SerialWriteRow
<1>6. CASE (Existing(s) \/ Lock(s) \/ SoftDelete(s) \/ SetVerified(s)) /\ ~Found(s)
  BY <1>2, <1>6 DEF Existing, Lock, SoftDelete, SetVerified, Outcomes
<1> QED
  BY <1>3, <1>4, <1>5, <1>6, SerialBegin, SerialUnset, SerialUnsetRow, SerialUnsetDone,
     SerialCount, SerialExisting, SerialLock, SerialOwnWrite, SerialGet
  DEF Work, Fault, Create, Update, Demote

\* A read holds nothing, so it has made nothing of the table, whatever others
\* commit meanwhile.
LEMMA SerialReader ==
  ASSUME IInv', NEW v \in Sessions, call'[v].op \in {"get", "getSecret"}
  PROVE  SerialOK(v)'
<1>1. /\ pc'[v] \notin {"unset", "unsetting", "count", "insert", "lock", "write"}
      /\ \A i \in Ids : i \notin Locks(v)'
  BY DEF IInv, TypeOK, PlaceOK, LockInv, VersionsOK, OwnVersion, OtherVersion
<1>2. \A i \in Ids : Current(v, i)' = db'[i]
  BY <1>1 DEF Locks, Current
<1>3. Demotions(v)'
  BY <1>2 DEF Demotions, Demoting
<1> QED
  BY <1>1, <1>3 DEF SerialOK, VersionMade

\* What a commit does to rows is invisible to the transactions of other
\* tenants: the rows it changes were, and are, none of theirs.
LEMMA CommittedElsewhere ==
  ASSUME IInv, NEW s \in Sessions, pc[s] = "commit", db' = Merged(s),
         NEW v \in Sessions \ {s}, call[s].tenant # call[v].tenant,
         NEW i \in Ids, db'[i] # db[i]
  PROVE  /\ ~OfTenant(v, db[i]) /\ ~OfTenant(v, db'[i])
         /\ pending[v][i] = None
         /\ Creating(v) => i # call[v].id
<1>1. /\ i \in Locks(s)
      /\ IF i = call[s].id THEN OwnVersion(s, db[i], db'[i]) ELSE OtherVersion(s, db[i], db'[i])
  BY CommittedVersion
<1>2. OfTenant(s, db'[i]) /\ (db[i] # None => OfTenant(s, db[i]))
  <2>1. CASE i = call[s].id
    BY <1>1, <2>1 DEF OwnVersion
  <2>2. CASE i # call[s].id
    <3>1. db[i] \in Row /\ OfTenant(s, db[i]) /\ db'[i] = Demoted(db[i])
      BY <1>1, <2>2 DEF OtherVersion, OfTenant, IInv, TypeOK
    <3>2. db'[i] \in Row /\ db'[i].tenant = db[i].tenant
      BY <3>1, DemotedType DEF Demoted, Row
    <3> QED
      BY <3>1, <3>2, NoneIsNoRow DEF OfTenant
  <2> QED
    BY <2>1, <2>2
<1>3. pending[v][i] = None
  BY <1>1 DEF IInv, LockInv, LocksExclusive, Locks
<1>4. Creating(v) => i # call[v].id
  BY <1>1 DEF IInv, LockInv, Reserved
<1> QED
  BY <1>2, <1>3, <1>4 DEF OfTenant

LEMMA SerialElsewhere ==
  ASSUME IInv, NEW s \in Sessions, pc[s] = "commit", db' = Merged(s), OthersSame(s),
         NEW v \in Sessions \ {s}, call[s].tenant # call[v].tenant, Writing(v), SerialOK(v)
  PROVE  SerialOK(v)'
<1> DEFINE id == call[v].id
<1>1. /\ pc'[v] = pc[v] /\ call'[v] = call[v] /\ row'[v] = row[v]
      /\ queue'[v] = queue[v] /\ pending'[v] = pending[v]
      /\ id \in Ids
  BY DEF OthersSame, Writing, InTx, Statements, IInv, TypeOK, PlaceOK
<1>2. \A i \in Ids : OfTenant(v, db[i]) \/ OfTenant(v, db'[i]) => db'[i] = db[i]
  BY CommittedElsewhere
<1>3. Siblings(v)' = Siblings(v)
  BY <1>1, <1>2 DEF Siblings, OfTenant, Live
<1>4. \A i \in Ids : db'[i] = db[i] \/ Current(v, i)' = db'[i]
  BY <1>1, CommittedElsewhere DEF Current
<1>5. \A i \in Siblings(v) : db'[i] = db[i]
  BY <1>2 DEF Siblings, OfTenant, Live
<1>6. \A i \in Ids : db'[i] = db[i] => Current(v, i)' = Current(v, i)
  BY <1>1 DEF Current
<1>7. CASE call[v].op = "create" \/ OwnFound(v)
  <2>1. db'[id] = db[id]
    BY <1>1, <1>2, <1>7, CommittedElsewhere DEF OwnFound, Creating, Writing, InTx
  <2>2. Demoting(v)' <=> Demoting(v)
    BY <1>1, <2>1 DEF Demoting
  <2>3. Demotions(v) => Demotions(v)'
    <3> SUFFICES ASSUME Demotions(v), NEW i \in Ids \ {id}
                 PROVE  Current(v, i)' =
                          IF Demoting(v)' /\ i \in Siblings(v)' THEN Demoted(db'[i]) ELSE db'[i]
      BY <1>1 DEF Demotions
    <3>1. CASE db'[i] = db[i]
      BY <1>3, <1>6, <2>2, <3>1 DEF Demotions
    <3>2. CASE db'[i] # db[i]
      BY <1>3, <1>4, <1>5, <3>2
    <3> QED
      BY <3>1, <3>2
  <2>4. \A x : VersionMade(v, x) => VersionMade(v, x)'
    BY <1>1, <1>3, <2>1 DEF VersionMade
  <2>5. OwnFound(v) => OwnFound(v)'
    BY <1>1, <2>1 DEF OwnFound, OfTenant, Live
  <2>6. Current(v, id)' = Current(v, id)
    BY <1>1, <1>6, <2>1
  <2>7. \A i \in Siblings(v) : Current(v, i)' = Current(v, i)
    BY <1>5, <1>6 DEF Siblings
  <2> QED
    BY <1>1, <1>3, <1>5, <2>1, <2>2, <2>3, <2>4, <2>5, <2>6, <2>7 DEF SerialOK
<1>8. CASE call[v].op # "create" /\ ~OwnFound(v)
  <2>1. pc[v] \notin {"unset", "unsetting", "count", "insert", "lock", "write", "commit"}
    <3>1. call[v].op \in {"update", "delete", "setVerified"}
      BY <1>8 DEF Writing, InTx, Statements, IInv, TypeOK, PlaceOK, Call, Arguments, Ops
    <3> QED
      BY <1>8, <3>1 DEF SerialOK, IInv, TypeOK, PlaceOK
  <2> QED
    BY <1>1, <2>1 DEF SerialOK
<1> QED
  BY <1>7, <1>8

LEMMA SerialStep ==
  ASSUME IInv, SerialInv, WritersInTurn, [Next]_vars
  PROVE  SerialInv'
<1>1. IInv' /\ \A s \in Sessions : Asked(s)'
  BY InvStep, AskedStep DEF SerialInv, IInv
<1> SUFFICES \A s \in Sessions : SerialOK(s)'
  BY <1>1 DEF SerialInv
<1>2. CASE UNCHANGED vars
  BY <1>2, PassedBy DEF vars, SerialInv
<1>3. ASSUME NEW s \in Sessions, OthersSame(s), db' = db
      PROVE  \A v \in Sessions \ {s} : SerialOK(v)'
  BY <1>3, PassedBy DEF OthersSame, SerialInv
<1>4. ASSUME NEW s \in Sessions, Work(s) \/ Fault(s)
      PROVE  \A v \in Sessions : SerialOK(v)'
  <2>1. SerialOK(s)'
    BY <1>4, SerialOwn DEF SerialInv
  <2>2. OthersSame(s)
    BY <1>4, WorkOthersSame DEF IInv
  <2>3. CASE db' = db
    BY <1>3, <2>1, <2>2, <2>3
  <2>4. ASSUME db' # db, NEW v \in Sessions \ {s}
        PROVE  SerialOK(v)'
    <3>1. pc[s] = "commit" /\ db' = Merged(s)
      BY <1>4, <2>4
      DEF Work, Fault, Begin, Create, Count, Insert, Get, Select, SelectConfig, SelectSecret, Read,
          Update, Existing, Lock, WriteRow, Demote, Unset, UnsetRow, UnsetDone, SoftDelete,
          SetVerified, Commit, DbError, CommitUnacknowledged, DeadlockAbort, Fail
    <3>2. Writing(s)
      <4>1. call[s].op \notin {"get", "getSecret"}
        <5>1. PICK i \in Ids : db'[i] # db[i]
          BY <2>4, <3>1 DEF Merged, IInv, TypeOK
        <5> QED
          BY <3>1, <5>1, CommittedVersion DEF OwnVersion, OtherVersion
      <4> QED
        BY <3>1, <4>1 DEF Writing, InTx, Statements
    <3>3. pc'[v] = pc[v] /\ call'[v] = call[v]
      BY <2>2 DEF OthersSame
    <3>4. CASE ~InTx(v)
      BY <3>3, <3>4, SerialCommit DEF InTx, IInv
    <3>5. CASE InTx(v) /\ ~Writing(v)
      BY <1>1, <3>3, <3>5, SerialReader DEF Writing
    <3>6. CASE Writing(v)
      BY <2>2, <3>1, <3>2, <3>6, SerialElsewhere DEF WritersInTurn, SerialInv
    <3> QED
      BY <3>4, <3>5, <3>6 DEF Writing
  <2> QED
    BY <2>1, <2>3, <2>4
<1>5. ASSUME NEW s \in Sessions, Invoke(s) \/ Collect(s)
      PROVE  \A v \in Sessions : SerialOK(v)'
  <2>1. OthersSame(s) /\ db' = db /\ pc'[s] \notin Statements
    BY <1>5 DEF Invoke, Start, Collect, Goto, OthersSame, IInv, TypeOK, Statements
  <2> QED
    BY <1>3, <2>1, SerialCommit DEF IInv
<1>6. ASSUME NEW S \in SUBSET Sessions, Drop(S)
      PROVE  \A v \in Sessions : SerialOK(v)'
  <2>1. \A v \in S : pc'[v] \notin Statements
    BY <1>6 DEF Drop, Statements
  <2>2. \A v \in Sessions \ S : SerialOK(v)'
    BY <1>6, PassedBy DEF Drop, SerialInv
  <2> QED
    BY <2>1, <2>2, SerialCommit DEF IInv
<1> QED
  BY <1>2, <1>4, <1>5, <1>6, Mover DEF IInv

-----------------------------------------------------------------------------
(* A commit is one step of the store.                                      *)

LEMMA CommitStores ==
  ASSUME IInv, NEW s \in Sessions, Asked(s), SerialOK(s), pc[s] = "commit", db' = Merged(s)
  PROVE  Store!StoreNext \/ db' = db
<1> DEFINE c == call[s]
           id == c.id
           old == db[id]
           new == Current(s, id)
<1>1. c \in Call /\ id \in Ids /\ c.op \in Ops
  BY DEF IInv, TypeOK, PlaceOK, Call, Arguments
<1>2. /\ \A i \in Ids \ {id} :
           db'[i] = IF Demoting(s) /\ i \in Siblings(s) THEN Demoted(db[i]) ELSE db[i]
      /\ db'[id] = new /\ VersionMade(s, new)
  BY <1>1 DEF SerialOK, Demotions, Merged
<1>3. db' = [i \in Ids |-> IF i = id THEN new
                           ELSE IF Demoting(s) /\ i \in Siblings(s) THEN Demoted(db[i])
                           ELSE db[i]]
  BY <1>2 DEF Merged
<1>4. ASSUME NEW takes \in BOOLEAN, takes <=> Demoting(s), new.tenant = c.tenant
      PROVE  Store!Put(id, new, takes)
  <2>1. \A i \in Ids \ {id} : i \in Siblings(s) <=> i \in Store!LiveOf(new.tenant)
    BY <1>4 DEF Siblings, Store!LiveOf, Store!Live, Live
  <2>2. \A i \in Ids : Demoted(db[i]) = Store!Demoted(db[i])
    BY DEF Demoted, Store!Demoted, Live, Store!Live
  <2> HIDE DEF new, id, c
  <2>3. db' = [i \in Ids |-> IF i = id THEN new
                             ELSE IF takes /\ i \in Store!LiveOf(new.tenant) THEN Store!Demoted(db[i])
                             ELSE db[i]]
    BY <1>3, <1>4, <2>1, <2>2
  <2> QED
    BY <2>3 DEF Store!Put
<1>5. Store!KeyFree(id, new)
  <2>1. \A i \in Ids \ {id} : ~SameKey(new, db[i])
    BY <1>1 DEF IInv, KeysApart, Current
  <2> HIDE DEF new, id
  <2> QED
    BY <2>1 DEF Store!KeyFree, SameKey, Store!SameKey, Live, Store!Live
<1>6. CASE c.op \in {"get", "getSecret"}
  <2>1. ~Demoting(s)
    BY <1>6 DEF Demoting
  <2>2. id \notin Locks(s)
    BY <1>6 DEF IInv, LockInv, VersionsOK, OwnVersion
  <2>3. new = db[id]
    BY <1>1, <2>2 DEF Locks, Current
  <2>4. db' = [i \in Ids |-> db[i]]
    BY <1>3, <2>1, <2>3
  <2> QED
    BY <2>4 DEF IInv, TypeOK
<1>7. CASE c.op = "create"
  <2>1. PICK r \in Requests : r.op = "create" /\ c = [r EXCEPT !.id = id]
    BY <1>1, <1>7 DEF Asked
  <2>2. r \in Call /\ c.tenant = r.tenant /\ c.isDefault = r.isDefault /\ r.isDefault \in BOOLEAN
        /\ \A x : Store!NewRow(r, x) = NewRow(c, x)
    BY <2>1, RequestsAssumption DEF Call, Arguments, NewRow, Store!NewRow
  <2>3. db[id] = None
    BY <1>7 DEF IInv, LockInv, Reserved, Creating, Statements
  <2>4. Store!LiveOf(c.tenant) = {} <=> Siblings(s) = {}
    BY <2>3 DEF Store!LiveOf, Siblings, Live, Store!Live
  <2>5. (c.isDefault \/ Siblings(s) = {}) = (r.isDefault \/ Store!LiveOf(r.tenant) = {})
    BY <2>2, <2>4
  <2>6. new = Store!NewRow(r, r.isDefault \/ Store!LiveOf(r.tenant) = {})
    BY <1>2, <1>7, <2>2, <2>5 DEF VersionMade
  <2>7. new.tenant = c.tenant
    BY <2>2, <2>6 DEF Store!NewRow
  <2>8. Demoting(s) <=> r.isDefault
    BY <1>7, <2>2 DEF Demoting
  <2>9. Store!Put(id, new, r.isDefault)
    BY <1>4, <2>2, <2>7, <2>8
  <2> HIDE DEF c, id, new
  <2>10. Store!StoreCreate(r)
    BY <1>1, <1>5, <2>3, <2>6, <2>9 DEF Store!StoreCreate
  <2> QED
    BY <2>1, <2>10 DEF Store!StoreNext
<1>8. ASSUME c.op \in {"update", "delete", "setVerified"}
      PROVE  /\ c \in Requests
             /\ old \in Row /\ old.tenant = c.tenant
             /\ id \in Store!LiveOf(c.tenant)
  <2>1. c \in Requests
    <3>1. PICK r \in Requests : \/ r.op # "create" /\ c = r
                                \/ r.op = "create" /\ c = [r EXCEPT !.id = id]
      BY DEF Asked
    <3>2. r \in Arguments
      BY RequestsAssumption DEF Call
    <3> QED
      BY <1>8, <3>1, <3>2 DEF Arguments
  <2>2. OwnFound(s)
    BY <1>8 DEF SerialOK
  <2> QED
    BY <1>1, <2>1, <2>2 DEF OwnFound, OfTenant, Live, Store!LiveOf, Store!Live, IInv, TypeOK
<1>9. CASE c.op = "update"
  <2> DEFINE merged == Merge(c, old)
  <2>1. new = Kept(c, merged, old)
    BY <1>2, <1>9 DEF VersionMade
  <2>2. new.tenant = c.tenant
    BY <1>8, <1>9, <2>1 DEF Kept, Merge, Row
  <2>3. merged = Store!Merge(c, old) /\ new = Store!Kept(c, merged, old)
    BY <2>1 DEF Merge, Store!Merge, Kept, Store!Kept, Given, Store!Given
  <2>4. Store!Put(id, new, merged.isDefault /\ ~old.isDefault)
    BY <1>4, <1>9, <2>2 DEF Demoting
  <2> HIDE DEF merged, new
  <2>5. Store!StoreUpdate(c)
    BY <1>5, <1>8, <1>9, <2>3, <2>4 DEF Store!StoreUpdate
  <2> QED
    BY <1>8, <1>9, <2>5 DEF Store!StoreNext
<1>10. CASE c.op = "delete"
  <2>1. new = Deleted(old)
    BY <1>2, <1>10 DEF VersionMade
  <2>2. new.tenant = c.tenant /\ new = Store!Deleted(old)
    BY <1>8, <1>10, <2>1 DEF Deleted, Store!Deleted, Row
  <2>3. Store!Put(id, new, FALSE)
    BY <1>4, <1>10, <2>2 DEF Demoting
  <2> HIDE DEF new
  <2>4. Store!StoreDelete(c)
    BY <1>8, <1>10, <2>2, <2>3 DEF Store!StoreDelete
  <2> QED
    BY <1>8, <1>10, <2>4 DEF Store!StoreNext
<1>11. CASE c.op = "setVerified"
  <2>1. new = Flagged(old, c.verified)
    BY <1>2, <1>11 DEF VersionMade
  <2>2. new.tenant = c.tenant /\ new = Store!Flagged(old, c.verified)
    BY <1>8, <1>11, <2>1 DEF Flagged, Store!Flagged, Row
  <2>3. Store!Put(id, new, FALSE)
    BY <1>4, <1>11, <2>2 DEF Demoting
  <2> HIDE DEF new
  <2>4. Store!StoreSetVerified(c)
    BY <1>8, <1>11, <2>2, <2>3 DEF Store!StoreSetVerified
  <2> QED
    BY <1>8, <1>11, <2>4 DEF Store!StoreNext
<1> QED
  BY <1>1, <1>6, <1>7, <1>9, <1>10, <1>11 DEF Ops

LEMMA SerialInit == Init => SerialInv
BY DEF Init, SerialInv, Statements, Asked, SerialOK

LEMMA StoreStep ==
  ASSUME IInv, SerialInv, [Next]_vars
  PROVE  [Store!StoreNext]_db
<1> SUFFICES ASSUME db' # db PROVE Store!StoreNext
  OBVIOUS
<1>1. PICK s \in Sessions : pc[s] = "commit" /\ db' = Merged(s)
  BY OnlyCommits
<1> QED
  BY <1>1, CommitStores DEF SerialInv

\* While writers take turns, one call after another makes what it says of
\* what its predecessors left.
LEMMA TurnsInvariant == TurnsSpec => Spec /\ [](IInv /\ SerialInv /\ WritersInTurn)
<1>1. Init => WritersInTurn
  BY DEF Init, WritersInTurn, Writing, InTx, Statements
<1>2. WritersInTurn /\ [Next /\ WritersInTurn']_vars => WritersInTurn'
  BY DEF vars, WritersInTurn, Writing, InTx
<1>3. [Next /\ WritersInTurn']_vars => [Next]_vars
  OBVIOUS
<1>4. IInv /\ SerialInv /\ WritersInTurn /\ [Next]_vars => SerialInv'
  BY SerialStep
<1>5. TurnsSpec => Spec
  BY <1>3, PTL DEF TurnsSpec, Spec
<1> QED
  BY <1>1, <1>2, <1>3, <1>4, <1>5, SerialInit, Invariant, PTL DEF TurnsSpec

\* While the writers of each tenant take turns, whatever faults, hang-ups and
\* restarts there are and however many tenants write at once, the table
\* changes only as the atomic store may: a call takes effect whole, on the
\* table as it is, or not at all.
THEOREM TurnsAreStore == TurnsSpec => ImplementsStore
<1>1. Init => Store!StoreInit
  BY DEF Init, Store!StoreInit, NoRows, Store!NoRows
<1>2. IInv /\ SerialInv /\ [Next]_vars => [Store!StoreNext]_db
  BY StoreStep
<1> QED
  BY <1>1, <1>2, TurnsInvariant, PTL DEF Spec, ImplementsStore, Store!StoreSpec

\* So no tenant ever has two default configurations.
THEOREM TurnsOneDefault == TurnsSpec => []AtMostOneDefault
<1>1. Store!StoreInit => StoreProofs!StoreInit
  BY DEF Store!StoreInit, StoreProofs!StoreInit, Store!NoRows, StoreProofs!NoRows
<1>2. [Store!StoreNext]_db => [StoreProofs!StoreNext]_db
  BY DEF Store!NewRow, StoreProofs!NewRow, Store!LiveOf, StoreProofs!LiveOf, Store!Live,
         StoreProofs!Live, Store!KeyFree, StoreProofs!KeyFree, Store!SameKey,
         StoreProofs!SameKey, Store!Put, StoreProofs!Put, Store!Demoted,
         StoreProofs!Demoted, Store!Merge, StoreProofs!Merge, Store!Given,
         StoreProofs!Given, Store!Kept, StoreProofs!Kept, Store!Deleted,
         StoreProofs!Deleted, Store!Flagged, StoreProofs!Flagged, Store!StoreCreate,
         StoreProofs!StoreCreate, Store!StoreUpdate, StoreProofs!StoreUpdate,
         Store!StoreDelete, StoreProofs!StoreDelete, Store!StoreSetVerified,
         StoreProofs!StoreSetVerified, Store!StoreNext, StoreProofs!StoreNext
<1>3. StoreProofs!OneDefault => AtMostOneDefault
  BY DEF StoreProofs!OneDefault, AtMostOneDefault, Live, StoreProofs!Live
<1>4. TurnsSpec => ImplementsStore
  BY TurnsAreStore
<1>5. StoreProofs!StoreSpec => []StoreProofs!OneDefault
  <2>1. None \notin StoreProofs!Row
    BY NoneIsNoRow DEF StoreProofs!Row, Row
  <2>2. \A c \in Requests : c \in StoreProofs!Call /\ (c.op = "create" => c.id = None)
    BY RequestsAssumption
    DEF StoreProofs!Call, StoreProofs!Arguments, StoreProofs!Ops, Call, Arguments, Ops
  <2>3. StoreProofs!IsFiniteSet(Ids)
    BY IdsAssumption DEF StoreProofs!IsFiniteSet, IsFiniteSet
  <2> QED
    BY <2>1, <2>2, <2>3, NoneAssumption, StoreProofs!StoreOneDefault
<1> QED
  BY <1>1, <1>2, <1>3, <1>4, <1>5, PTL DEF ImplementsStore, Store!StoreSpec, StoreProofs!StoreSpec

-----------------------------------------------------------------------------
(* A tenant's default goes only when it is given up.                       *)

IsDefault(r, tenant) == Live(r) /\ r.isDefault /\ r.tenant = tenant

\* Who commits a table in which the row i is not a default any more, nor any
\* other row of the tenant.
LEMMA GivenUp ==
  ASSUME IInv, NEW s \in Sessions, SerialOK(s), pc[s] = "commit", db' = Merged(s),
         NEW tenant \in Tenants, NEW i \in Ids, IsDefault(db[i], tenant),
         \A j \in Ids : ~IsDefault(db'[j], tenant)
  PROVE  /\ call[s].tenant = tenant
         /\ \/ call[s].op = "delete"
            \/ call[s].op = "update" /\ call[s].isDefault = FALSE
<1> DEFINE c == call[s]
           id == c.id
           old == db[id]
           new == Current(s, id)
<1>1. c \in Call /\ id \in Ids /\ c.op \in Ops /\ db[i] \in Row
  BY DEF IInv, TypeOK, PlaceOK, Call, Arguments, IsDefault, Live
<1>2. /\ \A j \in Ids \ {id} :
           db'[j] = IF Demoting(s) /\ j \in Siblings(s) THEN Demoted(db[j]) ELSE db[j]
      /\ db'[id] = new /\ VersionMade(s, new)
  BY <1>1 DEF SerialOK, Demotions, Merged
<1>3. db'[i] # db[i]
  BY DEF IsDefault, Live
<1>4. i # id => Demoting(s) /\ c.tenant = tenant
  BY <1>2, <1>3 DEF Siblings, IsDefault
<1>5. CASE c.op \in {"get", "getSecret"}
  <2>1. ~Demoting(s) /\ id \notin Locks(s)
    BY <1>5 DEF Demoting, IInv, LockInv, VersionsOK, OwnVersion
  <2> QED
    BY <1>1, <1>2, <1>3, <1>4, <2>1 DEF Locks, Current
<1>6. CASE c.op = "create"
  <2>1. i # id
    BY <1>6 DEF IInv, LockInv, Reserved, Creating, Statements, IsDefault, Live
  <2>2. new = NewRow(c, TRUE)
    <3>1. new = NewRow(c, c.isDefault \/ Siblings(s) = {})
      BY <1>2, <1>6 DEF VersionMade
    <3>2. (c.isDefault \/ Siblings(s) = {}) = TRUE
      BY <1>4, <1>6, <2>1 DEF Demoting
    <3> QED
      BY <3>1, <3>2
  <2>3. new \in Row
    BY <1>1, <1>6, <2>2 DEF NewRow, Call, Arguments, Row
  <2>4. IsDefault(new, tenant)
    <3>1. new # None
      BY <2>3, NoneIsNoRow
    <3>2. c.tenant = tenant
      BY <1>4, <2>1
    <3>3. ~new.deleted /\ new.isDefault /\ new.tenant = c.tenant
      BY <2>2 DEF NewRow
    <3> QED
      BY <3>1, <3>2, <3>3 DEF IsDefault, Live
  <2> QED
    BY <1>1, <1>2, <2>4
<1>7. ASSUME c.op \in {"update", "delete", "setVerified"}
      PROVE  old \in Row /\ Live(old) /\ old.tenant = c.tenant
  BY <1>1, <1>7 DEF SerialOK, OwnFound, OfTenant, Live, IInv, TypeOK
<1>8. CASE c.op = "update"
  <2>1. new = Kept(c, Merge(c, old), old)
    BY <1>2, <1>8 DEF VersionMade
  <2>2. new \in Row /\ Live(new) /\ new.tenant = c.tenant /\ new.isDefault = Given(c.isDefault, old.isDefault)
    <3>1. Merge(c, old) \in Row
      BY <1>1, <1>7, <1>8 DEF Merge, Given, Row, Call, Arguments
    <3>2. new \in Row
      BY <1>1, <1>7, <1>8, <2>1, <3>1, KeptType
    <3> QED
      BY <1>7, <1>8, <2>1, <3>2, NoneIsNoRow DEF Kept, Merge, Live, Row
  <2>3. i = id => old.isDefault /\ c.tenant = tenant
    BY <1>7, <1>8 DEF IsDefault
  <2>4. i # id => Given(c.isDefault, old.isDefault) /\ c.tenant = tenant
    BY <1>4, <1>8 DEF Demoting, Merge
  <2>5. ~new.isDefault /\ c.tenant = tenant
    BY <1>1, <1>2, <2>2, <2>3, <2>4 DEF IsDefault
  <2>6. c.isDefault \in BOOLEAN \cup {None}
    BY <1>1 DEF Call, Arguments
  <2>7. c.isDefault = FALSE
    BY <2>2, <2>3, <2>4, <2>5, <2>6, NoneAssumption DEF Given
  <2> QED
    BY <1>8, <2>5, <2>7
<1>9. CASE c.op = "delete"
  BY <1>4, <1>7, <1>9 DEF IsDefault
<1>10. CASE c.op = "setVerified"
  <2>1. i = id
    BY <1>4, <1>10 DEF Demoting
  <2>2. new = Flagged(old, c.verified)
    BY <1>2, <1>10 DEF VersionMade
  <2>3. new \in Row
    BY <1>1, <1>7, <1>10, <2>2 DEF Flagged, Row, Call, Arguments
  <2>4. IsDefault(new, tenant)
    BY <1>7, <1>10, <2>1, <2>2, <2>3, NoneIsNoRow DEF Flagged, IsDefault, Live, Row
  <2> QED
    BY <1>1, <1>2, <2>4
<1> QED
  BY <1>1, <1>5, <1>6, <1>8, <1>9, <1>10 DEF Ops

\* And a tenant that has a default keeps one until a call deletes a
\* configuration or gives the default up.
THEOREM TurnsKeepDefault == TurnsSpec => DefaultKept
<1> DEFINE Keeping ==
      \A t \in Tenants :
        HasDefault(t) /\ ~HasDefault(t)' =>
          \E s \in Sessions :
            /\ pc[s] = "commit"
            /\ call[s].tenant = t
            /\ \/ call[s].op = "delete"
               \/ call[s].op = "update" /\ call[s].isDefault = FALSE
<1>1. IInv /\ SerialInv /\ [Next]_vars => [Keeping]_db
  <2> SUFFICES ASSUME IInv, SerialInv, [Next]_vars, db' # db,
                      NEW t \in Tenants, HasDefault(t), ~HasDefault(t)'
               PROVE  \E s \in Sessions :
                        /\ pc[s] = "commit"
                        /\ call[s].tenant = t
                        /\ \/ call[s].op = "delete"
                           \/ call[s].op = "update" /\ call[s].isDefault = FALSE
    OBVIOUS
  <2>1. PICK s \in Sessions : pc[s] = "commit" /\ db' = Merged(s)
    BY OnlyCommits
  <2>2. PICK i \in Ids : IsDefault(db[i], t)
    BY DEF HasDefault, IsDefault
  <2>3. \A j \in Ids : ~IsDefault(db'[j], t)
    BY DEF HasDefault, IsDefault, Live
  <2> QED
    BY <2>1, <2>2, <2>3, GivenUp DEF SerialInv
<1> QED
  BY <1>1, TurnsInvariant, PTL DEF Spec, DefaultKept

-----------------------------------------------------------------------------
(* A configuration and its password are read as one.                       *)

\* What the second of the two reads finds is what the first one found.
PairInv ==
  \A s \in Sessions :
    pc[s] = "secret" => row[s] = db[call[s].id] /\ OfTenant(s, row[s])

LEMMA PairStep ==
  ASSUME IInv, PairInv, PairsUndisturbed, [Next]_vars
  PROVE  PairInv'
<1> SUFFICES ASSUME NEW s \in Sessions, pc'[s] = "secret"
             PROVE  row'[s] = db'[call'[s].id] /\ OfTenant(s, row[s])'
  BY DEF PairInv
<1>1. CASE SelectConfig(s)
  <2>1. Locks(s) = {} /\ call[s].id \in Ids
    BY <1>1 DEF SelectConfig, IInv, TypeOK, PlaceOK, LockInv, HoldsNothing
  <2>2. Current(s, call[s].id) = db[call[s].id]
    BY <2>1, SeesTable
  <2> QED
    BY <1>1, <2>2 DEF SelectConfig, Read, Found, LiveRows, Live, OfTenant, Fail, Goto, IInv, TypeOK
<1>2. CASE ~SelectConfig(s)
  <2>1. /\ pc[s] = "secret" /\ row'[s] = row[s] /\ call'[s] = call[s]
        /\ call[s].id \in Ids /\ call[s].op = "getSecret"
    <3>1. pc[s] = "secret" /\ row'[s] = row[s] /\ call'[s] = call[s]
      <4>1. CASE UNCHANGED vars
        BY <4>1 DEF vars
      <4>2. ASSUME NEW v \in Sessions \ {s}, Work(v) \/ Fault(v)
            PROVE  pc'[s] = pc[s] /\ row'[s] = row[s] /\ call'[s] = call[s]
        BY <4>2, WorkOthersSame DEF IInv, OthersSame
      <4>3. ASSUME Work(s) \/ Fault(s)
            PROVE  FALSE
        BY <1>2, <4>3
        DEF Work, Fault, Begin, Create, Count, Insert, Get, Select, SelectConfig, SelectSecret, Read,
            Update, Existing, Lock, WriteRow, Demote, Unset, UnsetRow, UnsetDone, SoftDelete,
            SetVerified, Commit, DbError, CommitUnacknowledged, DeadlockAbort, Fail, Goto, At,
            IInv, TypeOK, PlaceOK, FirstStatement, Call, Arguments, Ops
      <4>4. ASSUME NEW v \in Sessions, Invoke(v) \/ Collect(v)
            PROVE  pc[s] = "secret" /\ row'[s] = row[s] /\ call'[s] = call[s]
        BY <4>4 DEF Invoke, Start, Collect, Goto, Outcomes, IInv, TypeOK
      <4>5. ASSUME NEW S \in SUBSET Sessions, Drop(S)
            PROVE  pc[s] = "secret" /\ row'[s] = row[s] /\ call'[s] = call[s]
        BY <4>5 DEF Drop
      <4> QED
        BY <4>1, <4>2, <4>3, <4>4, <4>5, Mover DEF IInv
    <3> QED
      BY <3>1 DEF IInv, TypeOK, PlaceOK
  <2>2. db'[call[s].id] = db[call[s].id]
    <3> SUFFICES ASSUME db'[call[s].id] # db[call[s].id]
                 PROVE  FALSE
      OBVIOUS
    <3>1. PICK v \in Sessions : pc[v] = "commit" /\ db' = Merged(v)
      BY OnlyCommits
    <3>2. /\ call[s].id \in Locks(v)
          /\ \/ call[s].id = call[v].id /\ OwnVersion(v, db[call[s].id], db'[call[s].id])
             \/ OtherVersion(v, db[call[s].id], db'[call[s].id])
      BY <2>1, <3>1, CommittedVersion
    <3>3. Writing(v)
      BY <3>1, <3>2 DEF OwnVersion, OtherVersion, Writing, InTx, Statements
    <3>4. row[s] \in Row /\ row[s] = db[call[s].id]
      BY <2>1 DEF PairInv, IInv, TypeOK, PlaceOK
    <3>5. OfTenant(v, db[call[s].id])
      BY <3>2, <3>4, NoneIsNoRow DEF OwnVersion, OtherVersion
    <3> QED
      BY <2>1, <3>3, <3>4, <3>5 DEF PairsUndisturbed, PairInv, OfTenant
  <2> QED
    BY <2>1, <2>2 DEF PairInv, OfTenant
<1> QED
  BY <1>1, <1>2

\* get_with_smtp_password answers with the password of the row it answers
\* with, unless a writer of the tenant comes between its two statements: the
\* race that it shows otherwise is the only one.
THEOREM UndisturbedPairs == Spec /\ []PairsUndisturbed => SecretOfSameRow
<1> DEFINE Same == \A s \in Sessions :
                     pc[s] = "secret" /\ pc'[s] = "commit" => row'[s] = row[s]
<1>1. Init => PairInv
  BY DEF Init, PairInv
<1>2. IInv /\ PairInv /\ PairsUndisturbed /\ [Next]_vars => PairInv'
  BY PairStep
<1>3. IInv /\ PairInv /\ [Next]_vars => [Same]_vars
  <2> SUFFICES ASSUME IInv, PairInv, Next,
                      NEW s \in Sessions, pc[s] = "secret", pc'[s] = "commit"
               PROVE  row'[s] = row[s]
    OBVIOUS
  <2>1. SelectSecret(s) /\ Found(s)
    <3>1. ASSUME NEW v \in Sessions \ {s}, Work(v) \/ Fault(v)
          PROVE  FALSE
      BY <3>1, WorkOthersSame DEF IInv, OthersSame
    <3>2. CASE Work(s) \/ Fault(s)
      BY <3>2
      DEF Work, Fault, Begin, Create, Count, Insert, Get, Select, SelectConfig, SelectSecret, Read,
          Update, Existing, Lock, WriteRow, Demote, Unset, UnsetRow, UnsetDone, SoftDelete,
          SetVerified, Commit, DbError, CommitUnacknowledged, DeadlockAbort, Fail, Goto, At,
          IInv, TypeOK
    <3>3. ASSUME NEW v \in Sessions, Invoke(v) \/ Collect(v)
          PROVE  FALSE
      BY <3>3 DEF Invoke, Start, Collect, Goto, Outcomes, IInv, TypeOK
    <3>4. ASSUME NEW S \in SUBSET Sessions, Drop(S)
          PROVE  FALSE
      BY <3>4 DEF Drop
    <3> QED
      BY <3>1, <3>2, <3>3, <3>4, Mover DEF IInv, vars
  <2>2. /\ Locks(s) = {} /\ call[s].id \in Ids /\ row[s] \in Row /\ row[s] = db[call[s].id]
    BY DEF IInv, TypeOK, PlaceOK, LockInv, HoldsNothing, PairInv
  <2>3. Current(s, call[s].id) = row[s]
    BY <2>2, SeesTable
  <2>4. row'[s] = [row[s] EXCEPT !.secret = row[s].secret]
    BY <2>1, <2>3 DEF SelectSecret, IInv, TypeOK
  <2> QED
    BY <2>2, <2>4 DEF Row
<1> QED
  BY <1>1, <1>2, <1>3, Invariant, PTL DEF Spec, SecretOfSameRow

-----------------------------------------------------------------------------
(* A pool of one connection.                                               *)

\* Whenever writers take turns, the repository is the store for it.
LEMMA TakingTurns == Spec /\ []WritersInTurn => TurnsSpec
<1>1. [Next]_vars /\ WritersInTurn' => [Next /\ WritersInTurn']_vars
  OBVIOUS
<1> QED
  BY <1>1, PTL DEF Spec, TurnsSpec

\* With one connection the writers of a tenant take turns: all transactions
\* do.
THEOREM OneConnectionTakesTurns == ASSUME PoolSize = 1 PROVE Spec => TurnsSpec
<1>1. Init => Alone
  BY DEF Init, Alone, InTx, Statements
<1>2. TypeOK /\ Alone /\ [Next]_vars => Alone'
  BY AloneStep
<1>3. Alone' /\ [Next]_vars => [Next /\ WritersInTurn']_vars
  BY DEF Alone, WritersInTurn, Writing, InTx
<1> QED
  BY <1>1, <1>2, <1>3, TypeCorrect, PTL DEF Spec, TurnsSpec

\* So with one connection the repository is the atomic store, no tenant has
\* two defaults or loses its default by accident, and a configuration and its
\* password are read as one.
THEOREM OneConnection ==
  ASSUME PoolSize = 1
  PROVE  Spec => ImplementsStore /\ []AtMostOneDefault /\ DefaultKept /\ SecretOfSameRow
<1>1. Init => Alone
  BY DEF Init, Alone, InTx, Statements
<1>2. TypeOK /\ Alone /\ [Next]_vars => Alone'
  BY AloneStep
<1>3. TypeOK /\ Alone => PairsUndisturbed
  BY DEF TypeOK, PlaceOK, Alone, PairsUndisturbed, Writing, InTx, Statements
<1>4. Spec => []PairsUndisturbed
  BY <1>1, <1>2, <1>3, TypeCorrect, PTL DEF Spec
<1> QED
  BY <1>4, OneConnectionTakesTurns, TurnsAreStore, TurnsOneDefault, TurnsKeepDefault,
     UndisturbedPairs, PTL

=============================================================================
