--------------------- MODULE MailConfigRepositorySafety ---------------------
(***************************************************************************)
(* The safety properties of the repository, from an inductive invariant    *)
(* that says which versions of which rows its transactions hold.           *)
(***************************************************************************)
EXTENDS MailConfigRepositoryProofs

\* What one session's step does to the table: nothing, or its own versions
\* become the committed ones.
OwnCommit(s) ==
  \A i \in Ids : db'[i] = db[i] \/ (i \in Locks(s) /\ db'[i] = pending[s][i])

OthersSame(s) ==
  \A v \in Sessions \ {s} :
    /\ pc'[v] = pc[v]
    /\ call'[v] = call[v]
    /\ row'[v] = row[v]
    /\ queue'[v] = queue[v]
    /\ pending'[v] = pending[v]

SessionInv(s) ==
  HoldsNothing(s) /\ Reserved(s) /\ QueueOK(s) /\ VersionsOK(s) /\ RowOK(s)

-----------------------------------------------------------------------------
(* Names: no step makes two rows bear one key.                             *)

\* Versions that disappear, or become committed, bear no new key.
LEMMA KeysFewer ==
  ASSUME KeysApart, NEW s \in Sessions, OwnCommit(s),
         \A v \in Sessions : \A i \in Ids :
           pending'[v][i] = pending[v][i] \/ pending'[v][i] = None
  PROVE  KeysApart'
  BY DEF KeysApart, OwnCommit, SameKey, Live, Locks

\* A new version bears no new key, or one that is free.
LEMMA KeysWrite ==
  ASSUME TypeOK, KeysApart, NEW s \in Sessions, NEW i \in Ids, NEW r, Write(s, i, r), db' = db,
         \A j \in Ids \ {i} : /\ ~SameKey(db[j], r)
                              /\ \A v \in Sessions : ~SameKey(pending[v][j], r)
  PROVE  KeysApart'
<1>1. \A v \in Sessions : \A j \in Ids :
        pending'[v][j] = IF v = s /\ j = i THEN r ELSE pending[v][j]
  BY DEF TypeOK, Write
<1> QED
  BY <1>1 DEF KeysApart, SameKey, Live

LEMMA KeysRewrite ==
  ASSUME TypeOK, KeysApart, NEW s \in Sessions, NEW i \in Ids, NEW r, Write(s, i, r), db' = db,
         Live(r) => /\ Live(Current(s, i))
                    /\ r.tenant = Current(s, i).tenant
                    /\ r.name = Current(s, i).name
  PROVE  KeysApart'
<1>1. \A j \in Ids \ {i} : /\ ~SameKey(db[j], r)
                           /\ \A v \in Sessions : ~SameKey(pending[v][j], r)
  BY DEF KeysApart, SameKey, Current
<1> QED
  BY <1>1, KeysWrite

-----------------------------------------------------------------------------
(* Locks: a version is written only where no other transaction has one.    *)

LEMMA LocksWrite ==
  ASSUME TypeOK, LocksExclusive, NEW s \in Sessions, NEW i \in Ids, NEW r, Write(s, i, r),
         \A v \in Sessions \ {s} : i \notin Locks(v)
  PROVE  LocksExclusive'
<1>1. \A v \in Sessions : Locks(v)' \subseteq IF v = s THEN Locks(s) \cup {i} ELSE Locks(v)
  BY DEF TypeOK, Write, Locks
<1> QED
  BY <1>1 DEF LocksExclusive

LEMMA LocksFewer ==
  ASSUME LocksExclusive, \A v \in Sessions : Locks(v)' \subseteq Locks(v)
  PROVE  LocksExclusive'
  BY DEF LocksExclusive

-----------------------------------------------------------------------------
(* The other sessions do not notice a step.                                *)

\* A committed row is replaced by one of the same tenant.
LEMMA TenantStays ==
  ASSUME TypeOK, NEW s \in Sessions, VersionsOK(s), OwnCommit(s),
         NEW i \in Ids, db[i] # None
  PROVE  db'[i] # None /\ db'[i].tenant = db[i].tenant
<1>1. CASE db'[i] = db[i]
  BY <1>1
<1>2. CASE i \in Locks(s) /\ db'[i] = pending[s][i]
  <2>1. CASE i = call[s].id
    BY <1>2, <2>1 DEF VersionsOK, OwnVersion, OfTenant
  <2>2. CASE i # call[s].id
    <3>1. db'[i] = Demoted(db[i]) /\ db[i] \in Row
      BY <1>2, <2>2 DEF VersionsOK, OtherVersion, TypeOK
    <3>2. Demoted(db[i]) \in Row /\ Demoted(db[i]).tenant = db[i].tenant
      BY <3>1, DemotedType DEF Demoted, Row
    <3> QED
      BY <3>1, <3>2, NoneIsNoRow
  <2> QED
    BY <2>1, <2>2
<1> QED
  BY <1>1, <1>2 DEF OwnCommit

LEMMA OthersKeep ==
  ASSUME TypeOK, LocksExclusive, NEW s \in Sessions, VersionsOK(s),
         OwnCommit(s), OthersSame(s),
         NEW v \in Sessions \ {s}, SessionInv(v),
         Creating(v) => /\ call[v].id \notin Locks(s)'
                        /\ Creating(s)' => call'[s].id # call[v].id
  PROVE  SessionInv(v)'
<1>1. \A i \in Locks(v) : db'[i] = db[i]
  <2> SUFFICES ASSUME NEW i \in Locks(v) PROVE db'[i] = db[i]
    OBVIOUS
  <2>1. i \in Ids /\ i \notin Locks(s)
    BY DEF LocksExclusive, Locks
  <2> QED
    BY <2>1 DEF OwnCommit
<1>2. \A u \in Sessions \ {s} : Locks(u)' = Locks(u)
  BY DEF Locks, OthersSame
<1>3. HoldsNothing(v)'
  BY <1>2 DEF SessionInv, HoldsNothing, OthersSame
<1>4. Reserved(v)'
  <2> SUFFICES ASSUME Creating(v)' PROVE Reserved(v)'
    BY DEF Reserved
  <2>1. Creating(v) /\ call'[v] = call[v] /\ pc'[v] = pc[v] /\ call[v].id \in Ids
    BY DEF Creating, OthersSame, TypeOK, PlaceOK, Statements
  <2>2. db[call[v].id] = None /\ call[v].id \notin Locks(s)
    BY <2>1 DEF SessionInv, Reserved
  <2>3. db'[call[v].id] = None
    BY <2>1, <2>2 DEF OwnCommit
  <2>4. pc'[v] # "commit" => call'[v].id \notin Locks(v)'
    BY <1>2, <2>1 DEF SessionInv, Reserved
  <2>5. \A u \in Sessions \ {v} :
          /\ call'[v].id \notin Locks(u)'
          /\ Creating(u)' => call'[u].id # call'[v].id
    <3> SUFFICES ASSUME NEW u \in Sessions \ {v}
                 PROVE  /\ call'[v].id \notin Locks(u)'
                        /\ Creating(u)' => call'[u].id # call'[v].id
      OBVIOUS
    <3>1. CASE u = s
      BY <2>1, <3>1
    <3>2. CASE u # s
      BY <1>2, <2>1, <3>2 DEF SessionInv, Reserved, OthersSame, Creating
    <3> QED
      BY <3>1, <3>2
  <2> QED
    BY <2>1, <2>3, <2>4, <2>5 DEF Reserved
<1>5. QueueOK(v)'
  <2> SUFFICES ASSUME NEW k \in DOMAIN queue[v]
               PROVE  queue[v][k] # call[v].id /\ OfTenant(v, db[queue[v][k]])'
    BY DEF SessionInv, QueueOK, OthersSame
  <2>1. queue[v][k] \in Ids
    BY DEF TypeOK
  <2>2. queue[v][k] # call[v].id /\ OfTenant(v, db[queue[v][k]])
    BY DEF SessionInv, QueueOK
  <2>3. db'[queue[v][k]] # None /\ db'[queue[v][k]].tenant = db[queue[v][k]].tenant
    BY <2>1, <2>2, TenantStays DEF OfTenant
  <2> QED
    BY <2>2, <2>3 DEF OfTenant, OthersSame
<1>6. VersionsOK(v)'
  <2> SUFFICES ASSUME NEW i \in Locks(v)
               PROVE  IF i = call[v].id THEN OwnVersion(v, db[i], pending[v][i])'
                                        ELSE OtherVersion(v, db[i], pending[v][i])'
    BY <1>2 DEF VersionsOK, OthersSame
  <2>1. db'[i] = db[i] /\ pending'[v] = pending[v] /\ call'[v] = call[v]
    BY <1>1 DEF OthersSame
  <2> QED
    BY <2>1 DEF SessionInv, VersionsOK, OwnVersion, OtherVersion, OfTenant, Live,
                Demoted, Deleted, Flagged
<1>7. RowOK(v)'
  <2>1. /\ pc'[v] = pc[v] /\ call'[v] = call[v] /\ row'[v] = row[v]
        /\ Locks(v)' = Locks(v)
        /\ pc[v] = "write" => db'[call[v].id] = db[call[v].id]
    BY <1>1, <1>2 DEF OthersSame, SessionInv, RowOK
  <2>2. pc[v] = "insert" => OwnVersion(v, None, row[v])'
    BY <2>1 DEF SessionInv, RowOK, OwnVersion, OfTenant, Live, Deleted, Flagged
  <2>3. pc[v] = "write" => call[v].id \in Locks(v) /\ OwnVersion(v, db[call[v].id], row[v])'
    BY <2>1 DEF SessionInv, RowOK, OwnVersion, OfTenant, Live, Deleted, Flagged
  <2>4. OfTenant(v, row[v])' /\ Live(row[v])' <=> OfTenant(v, row[v]) /\ Live(row[v])
    BY <2>1 DEF OfTenant, Live
  <2> QED
    BY <2>1, <2>2, <2>3, <2>4 DEF SessionInv, RowOK
<1> QED
  BY <1>3, <1>4, <1>5, <1>6, <1>7 DEF SessionInv

-----------------------------------------------------------------------------
(* Each step keeps the invariant.                                          *)

Inv == TypeOK /\ LockInv

LEMMA Assemble ==
  ASSUME Inv, NEW s \in Sessions, OwnCommit(s), OthersSame(s), LocksExclusive',
         SessionInv(s)',
         \A v \in Sessions \ {s} : Creating(v) =>
           /\ call[v].id \notin Locks(s)'
           /\ Creating(s)' => call'[s].id # call[v].id
  PROVE  LockInv'
<1>1. \A v \in Sessions \ {s} : SessionInv(v)'
  BY OthersKeep DEF Inv, LockInv, SessionInv
<1> QED
  BY <1>1 DEF LockInv, SessionInv

\* A transaction that ends, or does not write, locks no row that a creation
\* drew, and a call under way keeps its identifier.
LEMMA AssembleSameLocks ==
  ASSUME Inv, NEW s \in Sessions, OwnCommit(s), OthersSame(s), SessionInv(s)',
         Locks(s)' \subseteq Locks(s),
         Creating(s)' => Creating(s) /\ call'[s] = call[s]
  PROVE  LockInv'
<1>1. \A v \in Sessions : Locks(v)' \subseteq Locks(v)
  BY DEF OthersSame, Locks
<1>2. LocksExclusive'
  BY <1>1, LocksFewer DEF Inv, LockInv
<1>3. \A v \in Sessions \ {s} : Creating(v) =>
           /\ call[v].id \notin Locks(s)'
           /\ Creating(s)' => call'[s].id # call[v].id
  BY DEF Inv, LockInv, Reserved
<1> QED
  BY <1>2, <1>3, Assemble

LEMMA LockFail ==
  ASSUME Inv, NEW s \in Sessions, NEW o \in Outcomes, Fail(s, o)
  PROVE  LockInv'
<1>1. /\ Locks(s)' = {}
      /\ OwnCommit(s)
      /\ OthersSame(s)
      /\ pc'[s] \in Outcomes
      /\ queue'[s] = <<>>
  BY DEF Inv, TypeOK, Fail, Goto, Locks, NoRows, OwnCommit, OthersSame
<1>2. SessionInv(s)'
  BY <1>1 DEF SessionInv, HoldsNothing, Reserved, Creating, QueueOK, VersionsOK, RowOK,
              Outcomes, Statements
<1> QED
  BY <1>1, <1>2, AssembleSameLocks DEF Creating, Outcomes, Statements

LEMMA LockCommit ==
  ASSUME Inv, NEW s \in Sessions, Commit(s) \/ CommitUnacknowledged(s)
  PROVE  LockInv'
<1>1. pc[s] = "commit" /\ db' = Merged(s) /\ pending' = [pending EXCEPT ![s] = NoRows]
  BY DEF Commit, CommitUnacknowledged
<1>2. pc'[s] \in Outcomes /\ queue'[s] = <<>>
  BY DEF Inv, TypeOK, LockInv, QueueOK, Commit, CommitUnacknowledged, Goto, Outcomes
<1>3. Locks(s)' = {}
  BY <1>1 DEF Inv, TypeOK, Locks, NoRows
<1>4. OwnCommit(s)
  BY <1>1 DEF OwnCommit, Merged, Current, Locks
<1>5. OthersSame(s)
  BY DEF Inv, TypeOK, OthersSame, Commit, CommitUnacknowledged, Goto
<1>6. SessionInv(s)'
  BY <1>2, <1>3 DEF SessionInv, HoldsNothing, Reserved, Creating, QueueOK, VersionsOK, RowOK,
              Outcomes, Statements
<1> QED
  BY <1>2, <1>3, <1>4, <1>5, <1>6, AssembleSameLocks DEF Creating, Outcomes, Statements

LEMMA LockCollect ==
  ASSUME Inv, NEW s \in Sessions, Collect(s)
  PROVE  LockInv'
<1>1. Locks(s) = {} /\ queue[s] = <<>>
  BY DEF Inv, LockInv, HoldsNothing, QueueOK, Collect, Outcomes
<1>2. /\ Locks(s)' = {}
      /\ OwnCommit(s)
      /\ OthersSame(s)
      /\ pc'[s] = "idle"
      /\ queue'[s] = <<>>
  BY <1>1 DEF Inv, TypeOK, Collect, Goto, Locks, OwnCommit, OthersSame
<1>3. SessionInv(s)'
  BY <1>2 DEF SessionInv, HoldsNothing, Reserved, Creating, QueueOK, VersionsOK, RowOK, Statements
<1> QED
  BY <1>2, <1>3, AssembleSameLocks DEF Creating, Statements

\* A fresh identifier is locked by nobody.
LEMMA FreshUnlocked ==
  ASSUME Inv, NEW i \in Ids, Fresh(i), NEW v \in Sessions
  PROVE  i \notin Locks(v)
<1> SUFFICES ASSUME i \in Locks(v) PROVE FALSE
  OBVIOUS
<1>1. db[i] = None /\ (Creating(v) => call[v].id # i)
  BY DEF Fresh
<1>2. i = call[v].id /\ call[v].op = "create"
  BY <1>1 DEF Inv, LockInv, VersionsOK, OtherVersion, OwnVersion, OfTenant, Live
<1>3. pc[v] \in Statements
  BY DEF Inv, LockInv, HoldsNothing, Statements
<1> QED
  BY <1>1, <1>2, <1>3 DEF Creating

LEMMA LockInvoke ==
  ASSUME Inv, NEW s \in Sessions, Invoke(s)
  PROVE  LockInv'
<1>1. PICK c \in Call : /\ call' = [call EXCEPT ![s] = c]
                        /\ c.id \in Ids
                        /\ c.op = "create" => Fresh(c.id)
  BY InvokeCall
<1>2. /\ call'[s] = c
      /\ pc'[s] = "begin"
      /\ \A v \in Sessions : Locks(v)' = Locks(v)
      /\ queue'[s] = <<>>
      /\ OwnCommit(s)
      /\ OthersSame(s)
      /\ Locks(s) = {}
  BY <1>1 DEF Inv, TypeOK, LockInv, HoldsNothing, QueueOK, Invoke, Start, Goto, Locks, OwnCommit, OthersSame
<1>3. \A v \in Sessions : c.op = "create" => c.id \notin Locks(v)
  BY <1>1, FreshUnlocked
<1>4. Reserved(s)'
  BY <1>1, <1>2, <1>3 DEF Reserved, Creating, Fresh, OthersSame, Invoke, Start
<1>5. SessionInv(s)'
  BY <1>2, <1>4 DEF SessionInv, HoldsNothing, QueueOK, VersionsOK, RowOK
<1>6. LocksExclusive'
  BY <1>2, LocksFewer DEF Inv, LockInv
<1>7. \A v \in Sessions \ {s} : Creating(v) =>
           /\ call[v].id \notin Locks(s)'
           /\ Creating(s)' => call'[s].id # call[v].id
  BY <1>1, <1>2 DEF Creating, Fresh
<1> QED
  BY <1>2, <1>5, <1>6, <1>7, Assemble

LEMMA LockBegin ==
  ASSUME Inv, NEW s \in Sessions, Begin(s)
  PROVE  LockInv'
<1>1. call[s].op \in Ops
  BY DEF Inv, TypeOK, PlaceOK, Begin, Call, Arguments
<1>2. /\ call'[s] = call[s]
      /\ pc'[s] = FirstStatement(call[s])
      /\ Locks(s)' = Locks(s)
      /\ Locks(s) = {}
      /\ queue'[s] = <<>>
      /\ OwnCommit(s)
      /\ OthersSame(s)
  BY DEF Inv, TypeOK, LockInv, HoldsNothing, QueueOK, Begin, Goto, Locks, OwnCommit, OthersSame
<1>3. Creating(s)' => Creating(s)
  BY <1>2 DEF Creating, Begin
<1>4. FirstStatement(call[s]) = "unset" => call[s].op = "create"
  BY <1>1 DEF FirstStatement, Ops
<1>5. FirstStatement(call[s]) \notin {"unsetting", "lock", "insert", "write", "commit"}
  BY <1>1 DEF FirstStatement, Ops
<1>6. Reserved(s)'
  BY <1>2, <1>3 DEF Inv, LockInv, Reserved, OthersSame, Creating, Begin, Locks
<1>7. SessionInv(s)'
  BY <1>2, <1>4, <1>5, <1>6 DEF SessionInv, HoldsNothing, QueueOK, VersionsOK, RowOK
<1> QED
  BY <1>2, <1>3, <1>7, AssembleSameLocks

\* A statement that changes nothing in the database.
LEMMA LockMove ==
  ASSUME Inv, NEW s \in Sessions, UNCHANGED <<db, pending, call>>, OthersSame(s),
         pc[s] \in Statements \ {"commit"}, call[s].op = "create" => pc'[s] # "commit",
         HoldsNothing(s)', QueueOK(s)', RowOK(s)'
  PROVE  LockInv'
<1>1. \A v \in Sessions : Locks(v)' = Locks(v)
  BY DEF Locks
<1>2. OwnCommit(s)
  BY DEF OwnCommit
<1>3. Creating(s)' => Creating(s)
  BY DEF Creating
<1>4. Reserved(s)'
  <2> SUFFICES ASSUME Creating(s)' PROVE Reserved(s)'
    BY DEF Reserved
  <2>1. call[s].op = "create" /\ Reserved(s) /\ Creating(s)
    BY <1>3 DEF Creating, Inv, LockInv
  <2>2. \A v \in Sessions \ {s} : Creating(v)' => Creating(v)
    BY DEF Creating, OthersSame
  <2>3. call[s].id \notin Locks(s)'
    BY <1>1, <2>1 DEF Reserved
  <2> QED
    BY <1>1, <2>1, <2>2, <2>3 DEF Reserved
<1>5. VersionsOK(s)'
  BY <1>1 DEF Inv, LockInv, VersionsOK, OwnVersion, OtherVersion, OfTenant, Live,
              Demoted, Deleted, Flagged
<1> QED
  BY <1>1, <1>2, <1>3, <1>4, <1>5, AssembleSameLocks DEF SessionInv

LEMMA LockUnset ==
  ASSUME Inv, NEW s \in Sessions, Unset(s)
  PROVE  LockInv'
<1>1. /\ pc[s] = "unset" /\ pc'[s] = "unsetting"
      /\ UNCHANGED <<db, pending, call, row>>
      /\ OthersSame(s)
      /\ Locks(s) = {}
  BY DEF Inv, TypeOK, LockInv, HoldsNothing, Unset, Goto, OthersSame
<1>2. PICK q \in SetToSeqs(UnsetScope(s)) : queue'[s] = q
  BY DEF Unset, Inv, TypeOK
<1>3. \A k \in DOMAIN q : q[k] \in UnsetScope(s)
  BY DEF SetToSeqs
<1>4. \A i \in UnsetScope(s) : i # call[s].id /\ OfTenant(s, db[i])
  <2> SUFFICES ASSUME NEW i \in UnsetScope(s) PROVE i # call[s].id /\ OfTenant(s, db[i])
    OBVIOUS
  <2>1. i \in Ids /\ Live(Current(s, i)) /\ Current(s, i).tenant = call[s].tenant
    BY DEF UnsetScope, LiveRows
  <2>2. Current(s, i) = db[i]
    BY <1>1, <2>1 DEF Locks, Current
  <2>3. call[s].op = "update" \/ Creating(s)
    BY <1>1 DEF Inv, TypeOK, PlaceOK, Creating, Statements
  <2>4. i # call[s].id
    BY <2>1, <2>2, <2>3 DEF UnsetScope, Inv, LockInv, Reserved, Live
  <2> QED
    BY <2>1, <2>2, <2>4 DEF OfTenant, Live
<1>5. QueueOK(s)'
  BY <1>1, <1>2, <1>3, <1>4 DEF QueueOK, OfTenant
<1>6. HoldsNothing(s)' /\ RowOK(s)'
  BY <1>1 DEF Inv, LockInv, HoldsNothing, RowOK, OfTenant, Live
<1> QED
  BY <1>1, <1>5, <1>6, LockMove DEF Statements

LEMMA LockUnsetDone ==
  ASSUME Inv, NEW s \in Sessions, UnsetDone(s)
  PROVE  LockInv'
<1>1. /\ pc[s] = "unsetting"
      /\ pc'[s] = IF call[s].op = "create" THEN "count" ELSE "lock"
      /\ UNCHANGED <<db, pending, call, row>>
      /\ OthersSame(s)
      /\ queue'[s] = <<>>
  BY DEF Inv, TypeOK, UnsetDone, Goto, OthersSame
<1>2. \/ call[s].op = "update"
      \/ call[s].op = "create" /\ call[s].isDefault
  BY <1>1 DEF Inv, TypeOK, PlaceOK
<1>3. HoldsNothing(s)' /\ RowOK(s)' /\ QueueOK(s)'
  BY <1>1, <1>2 DEF Inv, LockInv, HoldsNothing, RowOK, QueueOK, OfTenant, Live
<1> QED
  BY <1>1, <1>3, LockMove DEF Statements

LEMMA LockCount ==
  ASSUME Inv, NEW s \in Sessions, Count(s)
  PROVE  LockInv'
<1> DEFINE r == NewRow(call[s], call[s].isDefault \/ LiveRows(s) = {})
<1>1. /\ pc[s] = "count" /\ pc'[s] = "insert"
      /\ UNCHANGED <<db, pending, call>>
      /\ row'[s] = r
      /\ OthersSame(s)
      /\ queue'[s] = <<>>
      /\ Locks(s)' = Locks(s)
  BY DEF Inv, TypeOK, LockInv, QueueOK, Count, Goto, OthersSame, Locks
<1>2. call[s] \in Call /\ call[s].op = "create"
  BY <1>1 DEF Inv, TypeOK, PlaceOK
<1>3. r \in Row /\ r.tenant = call[s].tenant /\ ~r.deleted /\ ~r.verified
  BY <1>2, NewRowType DEF NewRow
<1> HIDE DEF r
<1>4. r # None
  BY <1>3, NoneIsNoRow
<1>5. RowOK(s)'
  BY <1>1, <1>2, <1>3, <1>4 DEF RowOK, OwnVersion, OfTenant, Live
<1>6. HoldsNothing(s)' /\ QueueOK(s)'
  BY <1>1 DEF Inv, LockInv, HoldsNothing, QueueOK
<1> QED
  BY <1>1, <1>5, <1>6, LockMove DEF Statements

LEMMA LockGet ==
  ASSUME Inv, NEW s \in Sessions, Get(s)
  PROVE  LockInv'
<1>1. CASE \E o \in Outcomes : Fail(s, o)
  BY <1>1, LockFail
<1>2. CASE /\ UNCHANGED <<db, pending, call, queue>>
           /\ pc[s] \in {"select", "config", "secret"}
           /\ \/ Goto(s, "commit")
              \/ Goto(s, "secret") /\ pc[s] = "config"
           /\ \E r : row' = [row EXCEPT ![s] = r]
  <2>1. /\ pc'[s] \in {"commit", "secret"}
        /\ OthersSame(s)
        /\ queue'[s] = <<>>
        /\ call[s].op # "create"
        /\ Locks(s)' = Locks(s) /\ Locks(s) = {}
    BY <1>2 DEF Inv, TypeOK, PlaceOK, LockInv, QueueOK, HoldsNothing, Goto, OthersSame, Locks
  <2>2. HoldsNothing(s)' /\ QueueOK(s)' /\ RowOK(s)'
    BY <2>1 DEF HoldsNothing, QueueOK, RowOK
  <2> QED
    BY <1>2, <2>1, <2>2, LockMove DEF Statements
<1> QED
  BY <1>1, <1>2 DEF Get, Select, SelectConfig, SelectSecret, Read, Outcomes

LEMMA LockExisting ==
  ASSUME Inv, NEW s \in Sessions, Existing(s)
  PROVE  LockInv'
<1> DEFINE now == Current(s, call[s].id)
           merged == Merge(call[s], now)
<1>1. CASE Fail(s, "notFound")
  BY <1>1, LockFail DEF Outcomes
<1>2. CASE /\ Found(s)
           /\ row' = [row EXCEPT ![s] = merged]
           /\ \E where \in {"unset", "lock"} : Goto(s, where)
           /\ UNCHANGED <<db, pending, call, queue>>
  <2>1. /\ pc[s] = "existing" /\ pc'[s] \in {"unset", "lock"}
        /\ call[s] \in Call /\ call[s].id \in Ids /\ call[s].op = "update"
        /\ OthersSame(s)
        /\ queue'[s] = <<>>
        /\ row'[s] = merged
        /\ Locks(s)' = Locks(s) /\ Locks(s) = {}
    BY <1>2 DEF Inv, TypeOK, PlaceOK, LockInv, QueueOK, HoldsNothing, Existing, Goto, OthersSame, Locks
  <2>2. now \in Row /\ now.tenant = call[s].tenant /\ ~now.deleted
    BY <1>2, <2>1, CurrentType DEF Inv, Found, LiveRows, Live
  <2> HIDE DEF now
  <2>3. merged \in Row /\ merged.tenant = call[s].tenant /\ ~merged.deleted
    BY <2>1, <2>2, MergeType DEF Merge, Row
  <2> HIDE DEF merged
  <2>4. HoldsNothing(s)' /\ QueueOK(s)' /\ RowOK(s)'
    BY <1>2, <2>1, <2>3, NoneIsNoRow DEF HoldsNothing, QueueOK, RowOK, OfTenant, Live
  <2> QED
    BY <1>2, <2>1, <2>4, LockMove DEF Statements
<1> QED
  BY <1>1, <1>2 DEF Existing

\* A statement that writes one row.
LEMMA LockWrite ==
  ASSUME Inv, NEW s \in Sessions, NEW i \in Ids, NEW r \in Row, Write(s, i, r),
         UNCHANGED <<db, call>>, OthersSame(s), pc[s] \in Statements \ {"commit"},
         \A v \in Sessions \ {s} : i \notin Locks(v),
         IF i = call[s].id THEN OwnVersion(s, db[i], r) ELSE OtherVersion(s, db[i], r),
         call[s].op = "create" => (i = call[s].id <=> pc'[s] = "commit"),
         HoldsNothing(s)', QueueOK(s)', RowOK(s)'
  PROVE  LockInv'
<1>1. /\ Locks(s)' = Locks(s) \cup {i}
      /\ \A v \in Sessions \ {s} : Locks(v)' = Locks(v)
  BY NoneIsNoRow DEF Inv, TypeOK, Write, Locks
<1>2. LocksExclusive'
  BY LocksWrite DEF Inv, LockInv
<1>3. OwnCommit(s) /\ (Creating(s)' => Creating(s))
  BY DEF OwnCommit, Creating
<1>4. \A v \in Sessions \ {s} : Creating(v) =>
        /\ call[v].id \notin Locks(s)'
        /\ Creating(s)' => call'[s].id # call[v].id
  <2> SUFFICES ASSUME NEW v \in Sessions \ {s}, Creating(v)
               PROVE  /\ call[v].id \notin Locks(s)'
                      /\ Creating(s)' => call'[s].id # call[v].id
    OBVIOUS
  <2>1. /\ db[call[v].id] = None
        /\ call[v].id \notin Locks(s)
        /\ Creating(s) => call[s].id # call[v].id
    BY DEF Inv, LockInv, Reserved
  <2>2. call[v].id # i
    <3>1. CASE i # call[s].id
      BY <2>1, <3>1 DEF OtherVersion, OfTenant
    <3>2. CASE i = call[s].id /\ call[s].op # "create"
      BY <2>1, <3>2 DEF OwnVersion, Live
    <3>3. CASE i = call[s].id /\ call[s].op = "create"
      BY <2>1, <3>3 DEF Creating
    <3> QED
      BY <3>1, <3>2, <3>3
  <2> QED
    BY <1>1, <1>3, <2>1, <2>2
<1>5. Reserved(s)'
  <2> SUFFICES ASSUME Creating(s)' PROVE Reserved(s)'
    BY DEF Reserved
  <2>1. call[s].op = "create" /\ Reserved(s) /\ Creating(s)
    BY <1>3 DEF Creating, Inv, LockInv
  <2>2. \A v \in Sessions \ {s} : Creating(v)' => Creating(v)
    BY DEF Creating, OthersSame
  <2>3. pc'[s] # "commit" => call[s].id \notin Locks(s)'
    BY <1>1, <2>1 DEF Reserved
  <2> QED
    BY <1>1, <2>1, <2>2, <2>3 DEF Reserved
<1>6. VersionsOK(s)'
  <2>1. /\ pending'[s][i] = r
        /\ \A j \in Ids \ {i} : pending'[s][j] = pending[s][j]
    BY DEF Inv, TypeOK, Write
  <2> SUFFICES ASSUME NEW j \in Locks(s)'
               PROVE  IF j = call[s].id THEN OwnVersion(s, db[j], pending[s][j])'
                                        ELSE OtherVersion(s, db[j], pending[s][j])'
    BY DEF VersionsOK
  <2>2. CASE j = i
    BY <2>1, <2>2 DEF OwnVersion, OtherVersion, OfTenant, Live, Demoted, Deleted, Flagged
  <2>3. CASE j # i
    <3>1. j \in Locks(s) /\ j \in Ids
      BY <1>1, <2>3 DEF Locks
    <3> QED
      BY <2>1, <2>3, <3>1 DEF Inv, LockInv, VersionsOK, OwnVersion, OtherVersion, OfTenant,
                              Live, Demoted, Deleted, Flagged
  <2> QED
    BY <2>2, <2>3
<1> QED
  BY <1>2, <1>3, <1>4, <1>5, <1>6, Assemble DEF SessionInv

\* Whoever does not wait for a row it wants has it to itself.
LEMMA NotWaiting ==
  ASSUME NEW s \in Sessions, WaitsFor(s) = {}, NEW i \in Wanted(s), NEW v \in Sessions \ {s}
  PROVE  i \notin Locks(v)
  BY DEF WaitsFor

LEMMA UnsetRowFacts ==
  ASSUME Inv, NEW s \in Sessions, UnsetRow(s)
  PROVE  LET i == Head(queue[s])
         IN /\ i \in Ids
            /\ Demoted(Current(s, i)) \in Row
            /\ Write(s, i, Demoted(Current(s, i)))
            /\ \A v \in Sessions \ {s} : i \notin Locks(v)
            /\ i # call[s].id
            /\ OtherVersion(s, db[i], Demoted(Current(s, i)))
<1> DEFINE i == Head(queue[s])
<1>1. pc[s] = "unsetting" /\ queue[s] # <<>> /\ WaitsFor(s) = {}
  BY DEF UnsetRow, At
<1>2. i \in Ids /\ i # call[s].id /\ OfTenant(s, db[i])
  <2>1. queue[s] \in Seq(Ids) /\ 1 \in DOMAIN queue[s] /\ i = queue[s][1] /\ i \in Ids
    BY <1>1 DEF Inv, TypeOK
  <2> QED
    BY <2>1 DEF Inv, LockInv, QueueOK
<1>3. \A v \in Sessions \ {s} : i \notin Locks(v)
  BY <1>1, NotWaiting DEF Wanted
<1>4. call[s].op \in {"create", "update"}
  BY <1>1 DEF Inv, TypeOK, PlaceOK
<1>5. db[i] \in Row
  BY <1>2 DEF Inv, TypeOK, OfTenant
<1>6. Demoted(Current(s, i)) = Demoted(db[i])
  <2>1. CASE i \notin Locks(s)
    BY <1>2, <2>1 DEF Current, Locks
  <2>2. CASE i \in Locks(s)
    <3>1. Current(s, i) = Demoted(db[i])
      BY <1>2, <2>2 DEF Inv, LockInv, VersionsOK, OtherVersion, Current, Locks
    <3>2. Demoted(Demoted(db[i])) = Demoted(db[i])
      BY <1>5 DEF Demoted, Live, Row
    <3> QED
      BY <3>1, <3>2
  <2> QED
    BY <2>1, <2>2
<1>7. Demoted(db[i]) \in Row
  BY <1>5, DemotedType
<1>8. Write(s, i, Demoted(Current(s, i)))
  BY DEF UnsetRow
<1> QED
  BY <1>2, <1>3, <1>4, <1>6, <1>7, <1>8 DEF OtherVersion

LEMMA LockUnsetRow ==
  ASSUME Inv, NEW s \in Sessions, UnsetRow(s)
  PROVE  LockInv'
<1> DEFINE i == Head(queue[s])
           r == Demoted(Current(s, i))
<1>1. /\ i \in Ids /\ r \in Row /\ Write(s, i, r) /\ i # call[s].id
      /\ \A v \in Sessions \ {s} : i \notin Locks(v)
      /\ OtherVersion(s, db[i], r)
  BY UnsetRowFacts
<1>2. /\ pc[s] = "unsetting" /\ pc' = pc
      /\ UNCHANGED <<db, call, row>>
      /\ queue'[s] = Tail(queue[s]) /\ queue[s] # <<>> /\ queue[s] \in Seq(Ids)
      /\ OthersSame(s)
  BY DEF UnsetRow, At, Write, OthersSame, Inv, TypeOK
<1>3. \A k \in DOMAIN queue'[s] : k + 1 \in DOMAIN queue[s] /\ queue'[s][k] = queue[s][k + 1]
  BY <1>2
<1>4. QueueOK(s)'
  BY <1>2, <1>3 DEF Inv, LockInv, QueueOK, OfTenant
<1>5. HoldsNothing(s)' /\ RowOK(s)'
  BY <1>2 DEF Inv, LockInv, HoldsNothing, RowOK, OfTenant, Live
<1> HIDE DEF i, r
<1> QED
  BY <1>1, <1>2, <1>4, <1>5, LockWrite DEF Statements

\* The row a call names, once found and not waited for, is the call's to
\* write.
LEMMA FoundFacts ==
  ASSUME Inv, NEW s \in Sessions, pc[s] \in {"lock", "delete", "flag"}, WaitsFor(s) = {}, Found(s)
  PROVE  LET i == call[s].id
             now == Current(s, i)
         IN /\ i \in Ids
            /\ now \in Row /\ now.tenant = call[s].tenant /\ ~now.deleted
            /\ \A v \in Sessions \ {s} : i \notin Locks(v)
            /\ pc[s] # "lock" => now = db[i]
            /\ pc[s] = "lock" => OwnVersion(s, db[i], now)
<1> DEFINE i == call[s].id
           now == Current(s, i)
<1>1. /\ i \in Ids
      /\ pc[s] = "lock" => call[s].op = "update"
  BY DEF Inv, TypeOK, PlaceOK
<1>2. now \in Row /\ now.tenant = call[s].tenant /\ ~now.deleted
  BY <1>1, CurrentType DEF Inv, Found, LiveRows, Live
<1>3. i \in Wanted(s)
  BY DEF Wanted
<1>4. \A v \in Sessions \ {s} : i \notin Locks(v)
  BY <1>3, NotWaiting
<1>5. pc[s] # "lock" => now = db[i]
  BY <1>1 DEF Inv, LockInv, HoldsNothing, Current, Locks
<1>6. ASSUME pc[s] = "lock" PROVE OwnVersion(s, db[i], now)
  <2>1. CASE i \in Locks(s)
    BY <1>1, <2>1 DEF Inv, LockInv, VersionsOK, Current, Locks
  <2>2. CASE i \notin Locks(s)
    <3>1. now = db[i]
      BY <1>1, <2>2 DEF Current, Locks
    <3> QED
      BY <1>1, <1>2, <1>6, <3>1, NoneIsNoRow DEF OwnVersion, OfTenant, Live
  <2> QED
    BY <2>1, <2>2
<1> QED
  BY <1>1, <1>2, <1>4, <1>5, <1>6

LEMMA LockInsert ==
  ASSUME Inv, NEW s \in Sessions, Insert(s)
  PROVE  LockInv'
<1>1. CASE Fail(s, "conflict")
  BY <1>1, LockFail DEF Outcomes
<1>2. CASE /\ Write(s, call[s].id, row[s])
           /\ Goto(s, "commit")
           /\ UNCHANGED <<db, call, row, queue>>
  <2>1. /\ pc[s] = "insert" /\ pc'[s] = "commit"
        /\ call[s].id \in Ids /\ call[s].op = "create" /\ row[s] \in Row
        /\ queue'[s] = <<>>
        /\ OthersSame(s)
    BY <1>2 DEF Inv, TypeOK, PlaceOK, LockInv, QueueOK, Insert, At, Goto, Write, OthersSame
  <2>2. /\ db[call[s].id] = None
        /\ \A v \in Sessions \ {s} : call[s].id \notin Locks(v)
    BY <2>1 DEF Inv, LockInv, Reserved, Creating, Statements
  <2>3. OwnVersion(s, db[call[s].id], row[s])
    BY <2>1, <2>2 DEF Inv, LockInv, RowOK
  <2>4. HoldsNothing(s)' /\ QueueOK(s)' /\ RowOK(s)'
    BY <2>1 DEF HoldsNothing, QueueOK, RowOK
  <2> QED
    BY <1>2, <2>1, <2>2, <2>3, <2>4, LockWrite DEF Statements
<1> QED
  BY <1>1, <1>2 DEF Insert

LEMMA LockLock ==
  ASSUME Inv, NEW s \in Sessions, Lock(s)
  PROVE  LockInv'
<1> DEFINE now == Current(s, call[s].id)
           merged == row[s]
           kept == Kept(call[s], merged, now)
<1>1. CASE Fail(s, "internal")
  BY <1>1, LockFail DEF Outcomes
<1>2. CASE /\ Found(s)
           /\ Write(s, call[s].id, now)
           /\ row' = [row EXCEPT ![s] = Kept(call[s], @, now)]
           /\ Goto(s, "write")
           /\ UNCHANGED <<db, call, queue>>
  <2>1. /\ pc[s] = "lock" /\ WaitsFor(s) = {} /\ pc'[s] = "write"
        /\ call[s].id \in Ids /\ call[s].op = "update" /\ call[s] \in Call
        /\ merged \in Row
        /\ queue'[s] = <<>>
        /\ row'[s] = kept
        /\ OthersSame(s)
    BY <1>2 DEF Inv, TypeOK, PlaceOK, LockInv, QueueOK, Lock, At, Goto, Write, OthersSame
  <2>2. /\ now \in Row
        /\ \A v \in Sessions \ {s} : call[s].id \notin Locks(v)
        /\ OwnVersion(s, db[call[s].id], now)
    BY <1>2, <2>1, FoundFacts
  <2>3. OfTenant(s, merged) /\ Live(merged)
    BY <2>1 DEF Inv, LockInv, RowOK
  <2> HIDE DEF now, merged
  <2>4. /\ kept \in Row
        /\ kept.tenant = merged.tenant /\ kept.deleted = merged.deleted
        /\ kept.verified = now.verified
        /\ kept.secret = now.secret \/ kept.secret = call[s].secret
    BY <2>1, <2>2, KeptType DEF Kept, Given, Row
  <2> HIDE DEF kept
  <2>5. OwnVersion(s, db[call[s].id], kept)
    BY <2>1, <2>2, <2>3, <2>4, NoneIsNoRow DEF OwnVersion, OfTenant, Live
  <2>6. call[s].id \in Locks(s)'
    BY <1>2, <2>1, <2>2, NoneIsNoRow DEF Inv, TypeOK, Write, Locks
  <2>7. RowOK(s)'
    BY <1>2, <2>1, <2>5, <2>6 DEF RowOK, OwnVersion, OfTenant, Live
  <2>8. HoldsNothing(s)' /\ QueueOK(s)'
    BY <2>1 DEF HoldsNothing, QueueOK
  <2> QED
    BY <1>2, <2>1, <2>2, <2>7, <2>8, LockWrite DEF Statements
<1> QED
  BY <1>1, <1>2 DEF Lock

LEMMA LockWriteRow ==
  ASSUME Inv, NEW s \in Sessions, WriteRow(s)
  PROVE  LockInv'
<1>1. CASE Fail(s, "conflict")
  BY <1>1, LockFail DEF Outcomes
<1>2. CASE /\ Write(s, call[s].id, row[s])
           /\ Goto(s, "commit")
           /\ UNCHANGED <<db, call, row, queue>>
  <2>1. /\ pc[s] = "write" /\ pc'[s] = "commit"
        /\ call[s].id \in Ids /\ call[s].op = "update" /\ row[s] \in Row
        /\ queue'[s] = <<>>
        /\ OthersSame(s)
    BY <1>2 DEF Inv, TypeOK, PlaceOK, LockInv, QueueOK, WriteRow, At, Goto, Write, OthersSame
  <2>2. call[s].id \in Locks(s) /\ OwnVersion(s, db[call[s].id], row[s])
    BY <2>1 DEF Inv, LockInv, RowOK
  <2>3. \A v \in Sessions \ {s} : call[s].id \notin Locks(v)
    BY <2>2 DEF Inv, LockInv, LocksExclusive
  <2>4. HoldsNothing(s)' /\ QueueOK(s)' /\ RowOK(s)'
    BY <2>1 DEF HoldsNothing, QueueOK, RowOK
  <2> QED
    BY <1>2, <2>1, <2>2, <2>3, <2>4, LockWrite DEF Statements
<1> QED
  BY <1>1, <1>2 DEF WriteRow

LEMMA LockSoftDelete ==
  ASSUME Inv, NEW s \in Sessions, SoftDelete(s)
  PROVE  LockInv'
<1> DEFINE now == Current(s, call[s].id)
           new == Deleted(now)
<1>1. CASE Fail(s, "notFound")
  BY <1>1, LockFail DEF Outcomes
<1>2. CASE /\ Found(s)
           /\ Write(s, call[s].id, new)
           /\ Goto(s, "commit")
           /\ UNCHANGED <<db, call, row, queue>>
  <2>1. /\ pc[s] = "delete" /\ WaitsFor(s) = {} /\ pc'[s] = "commit"
        /\ call[s].op = "delete"
        /\ queue'[s] = <<>>
        /\ OthersSame(s)
    BY <1>2 DEF Inv, TypeOK, PlaceOK, LockInv, QueueOK, SoftDelete, At, Goto, Write, OthersSame
  <2>2. /\ call[s].id \in Ids
        /\ now \in Row /\ now.tenant = call[s].tenant /\ ~now.deleted /\ now = db[call[s].id]
        /\ \A v \in Sessions \ {s} : call[s].id \notin Locks(v)
    BY <1>2, <2>1, FoundFacts
  <2> HIDE DEF now
  <2>3. new \in Row /\ new.tenant = now.tenant
    BY <2>2, DeletedType DEF Deleted, Row
  <2>4. OwnVersion(s, db[call[s].id], new)
    BY <2>1, <2>2, <2>3, NoneIsNoRow DEF OwnVersion, OfTenant, Live
  <2>5. HoldsNothing(s)' /\ QueueOK(s)' /\ RowOK(s)'
    BY <2>1 DEF HoldsNothing, QueueOK, RowOK
  <2> HIDE DEF new
  <2> QED
    BY <1>2, <2>1, <2>2, <2>3, <2>4, <2>5, LockWrite DEF Statements
<1> QED
  BY <1>1, <1>2 DEF SoftDelete

LEMMA LockSetVerified ==
  ASSUME Inv, NEW s \in Sessions, SetVerified(s)
  PROVE  LockInv'
<1> DEFINE now == Current(s, call[s].id)
           new == Flagged(now, call[s].verified)
<1>1. CASE Fail(s, "notFound")
  BY <1>1, LockFail DEF Outcomes
<1>2. CASE /\ Found(s)
           /\ Write(s, call[s].id, new)
           /\ row' = [row EXCEPT ![s] = new]
           /\ Goto(s, "commit")
           /\ UNCHANGED <<db, call, queue>>
  <2>1. /\ pc[s] = "flag" /\ WaitsFor(s) = {} /\ pc'[s] = "commit"
        /\ call[s].op = "setVerified" /\ call[s] \in Call
        /\ queue'[s] = <<>>
        /\ OthersSame(s)
    BY <1>2 DEF Inv, TypeOK, PlaceOK, LockInv, QueueOK, SetVerified, At, Goto, Write, OthersSame
  <2>2. /\ call[s].id \in Ids
        /\ now \in Row /\ now.tenant = call[s].tenant /\ ~now.deleted /\ now = db[call[s].id]
        /\ \A v \in Sessions \ {s} : call[s].id \notin Locks(v)
    BY <1>2, <2>1, FoundFacts
  <2> HIDE DEF now
  <2>3. new \in Row /\ new.tenant = now.tenant
    BY <2>1, <2>2, FlaggedType DEF Flagged, Row
  <2>4. OwnVersion(s, db[call[s].id], new)
    BY <2>1, <2>2, <2>3, NoneIsNoRow DEF OwnVersion, OfTenant, Live
  <2>5. HoldsNothing(s)' /\ QueueOK(s)' /\ RowOK(s)'
    BY <2>1 DEF HoldsNothing, QueueOK, RowOK
  <2> HIDE DEF new
  <2> QED
    BY <1>2, <2>1, <2>2, <2>3, <2>4, <2>5, LockWrite DEF Statements
<1> QED
  BY <1>1, <1>2 DEF SetVerified

\* The sessions that a drop leaves alone see fewer locks, and the same table.
LEMMA LockDrop ==
  ASSUME Inv, NEW S \in SUBSET Sessions, Drop(S)
  PROVE  LockInv'
<1>1. ASSUME NEW v \in S
      PROVE  Locks(v)' = {} /\ pc'[v] = "idle" /\ queue'[v] = <<>>
  BY <1>1 DEF Drop, Locks, NoRows
<1>2. ASSUME NEW v \in Sessions \ S
      PROVE  /\ Locks(v)' = Locks(v) /\ pending'[v] = pending[v]
             /\ pc'[v] = pc[v] /\ call'[v] = call[v]
             /\ row'[v] = row[v] /\ queue'[v] = queue[v]
  BY <1>2 DEF Drop, Locks
<1>3. db' = db
  BY DEF Drop
<1>4. ASSUME NEW v \in Sessions
      PROVE  /\ Locks(v)' \subseteq Locks(v)
             /\ Creating(v)' => Creating(v) /\ call'[v] = call[v]
  BY <1>1, <1>2 DEF Creating, Statements
<1>5. LocksExclusive'
  BY <1>4, LocksFewer DEF Inv, LockInv
<1>6. ASSUME NEW v \in S PROVE SessionInv(v)'
  BY <1>1, <1>6 DEF SessionInv, HoldsNothing, Reserved, Creating, QueueOK, VersionsOK, RowOK,
                    Statements
<1>7. ASSUME NEW v \in Sessions \ S PROVE SessionInv(v)'
  <2>1. SessionInv(v)
    BY DEF Inv, LockInv, SessionInv
  <2>2. Reserved(v)'
    BY <1>2, <1>3, <1>4, <2>1 DEF SessionInv, Reserved, Creating
  <2>3. VersionsOK(v)'
    BY <1>2, <1>3, <2>1 DEF SessionInv, VersionsOK, OwnVersion, OtherVersion, OfTenant, Live,
                            Demoted, Deleted, Flagged
  <2>4. RowOK(v)'
    <3>1. pc[v] = "insert" => OwnVersion(v, None, row[v])'
      BY <1>2, <2>1 DEF SessionInv, RowOK, OwnVersion, OfTenant, Live, Deleted, Flagged
    <3>2. pc[v] = "write" => call[v].id \in Locks(v) /\ OwnVersion(v, db[call[v].id], row[v])'
      BY <1>2, <1>3, <2>1 DEF SessionInv, RowOK, OwnVersion, OfTenant, Live, Deleted, Flagged
    <3>3. OfTenant(v, row[v])' /\ Live(row[v])' <=> OfTenant(v, row[v]) /\ Live(row[v])
      BY <1>2 DEF OfTenant, Live
    <3> QED
      BY <1>2, <2>1, <3>1, <3>2, <3>3 DEF SessionInv, RowOK
  <2>5. HoldsNothing(v)' /\ QueueOK(v)'
    BY <1>2, <1>3, <2>1 DEF SessionInv, HoldsNothing, QueueOK, OfTenant
  <2> QED
    BY <2>2, <2>3, <2>4, <2>5 DEF SessionInv
<1> QED
  BY <1>5, <1>6, <1>7 DEF LockInv, SessionInv

LEMMA LockInit == Init => LockInv
<1> SUFFICES ASSUME Init PROVE LockInv
  OBVIOUS
<1>1. \A s \in Sessions : Locks(s) = {} /\ pc[s] = "idle" /\ queue[s] = <<>>
  BY DEF Init, Locks, NoRows
<1>2. ASSUME NEW s \in Sessions
      PROVE  HoldsNothing(s) /\ Reserved(s) /\ QueueOK(s) /\ VersionsOK(s) /\ RowOK(s)
  BY <1>1 DEF HoldsNothing, Reserved, Creating, QueueOK, VersionsOK, RowOK, Statements
<1> QED
  BY <1>1, <1>2 DEF LockInv, LocksExclusive

LEMMA LockStep == Inv /\ [Next]_vars => LockInv'
<1> SUFFICES ASSUME Inv, [Next]_vars PROVE LockInv'
  OBVIOUS
<1>1. CASE UNCHANGED vars
  BY <1>1 DEF Inv, LockInv, LocksExclusive, Locks, HoldsNothing, Reserved, Creating, QueueOK,
              VersionsOK, OwnVersion, OtherVersion, OfTenant, Live, Demoted, Deleted, Flagged,
              RowOK, vars
<1>2. ASSUME NEW s \in Sessions, Step(s)
      PROVE  LockInv'
  BY <1>2, LockBegin, LockCount, LockInsert, LockGet, LockExisting, LockLock, LockWriteRow,
     LockUnset, LockUnsetRow, LockUnsetDone, LockSoftDelete, LockSetVerified, LockCommit,
     LockCollect DEF Step, Work, Create, Update, Demote
<1>3. ASSUME NEW s \in Sessions,
             Invoke(s) \/ DbError(s) \/ CommitUnacknowledged(s) \/ DeadlockAbort(s)
      PROVE  LockInv'
  BY <1>3, LockInvoke, LockFail, LockCommit DEF DbError, DeadlockAbort, Outcomes
<1>4. CASE Crash \/ \E s \in Sessions : Abandon(s)
  BY <1>4, LockDrop DEF Crash, Abandon
<1> QED
  BY <1>1, <1>2, <1>3, <1>4 DEF Next, Fault

-----------------------------------------------------------------------------
(* Names, over all steps.                                                  *)

LEMMA KeysSame ==
  ASSUME KeysApart, NEW s \in Sessions, db' = db,
         \A v \in Sessions : \A i \in Ids :
           pending'[v][i] = pending[v][i] \/ pending'[v][i] = None
  PROVE  KeysApart'
  BY KeysFewer DEF OwnCommit

LEMMA KeysFail ==
  ASSUME TypeOK, KeysApart, NEW s \in Sessions, NEW o, Fail(s, o)
  PROVE  KeysApart'
<1>1. \A v \in Sessions : \A i \in Ids :
        pending'[v][i] = pending[v][i] \/ pending'[v][i] = None
  BY DEF TypeOK, Fail, NoRows
<1> QED
  BY <1>1, KeysSame DEF Fail

LEMMA KeysDrop ==
  ASSUME TypeOK, KeysApart, NEW S \in SUBSET Sessions, Drop(S)
  PROVE  KeysApart'
<1>1. /\ db' = db
      /\ \A v \in Sessions : \A i \in Ids :
           pending'[v][i] = pending[v][i] \/ pending'[v][i] = None
  BY DEF Drop, NoRows
<1> QED
  BY <1>1 DEF KeysApart, SameKey, Live

LEMMA KeysCommit ==
  ASSUME TypeOK, KeysApart, NEW s \in Sessions, Commit(s) \/ CommitUnacknowledged(s)
  PROVE  KeysApart'
<1>1. OwnCommit(s)
  BY DEF Commit, CommitUnacknowledged, OwnCommit, Merged, Current, Locks
<1>2. \A v \in Sessions : \A i \in Ids :
        pending'[v][i] = pending[v][i] \/ pending'[v][i] = None
  <2>1. pending' = [pending EXCEPT ![s] = NoRows]
    BY DEF Commit, CommitUnacknowledged
  <2> QED
    BY <2>1 DEF TypeOK, NoRows
<1> QED
  BY <1>1, <1>2, KeysFewer

LEMMA KeysNewRow ==
  ASSUME TypeOK, KeysApart, NEW s \in Sessions, KeyHolders(s) = {}, call[s].id \in Ids,
         Write(s, call[s].id, row[s]), db' = db
  PROVE  KeysApart'
<1>1. \A j \in Ids \ {call[s].id} :
        /\ ~SameKey(db[j], row[s])
        /\ \A v \in Sessions : ~SameKey(pending[v][j], row[s])
  BY DEF KeyHolders
<1> QED
  BY <1>1, KeysWrite

LEMMA KeysStep == Inv /\ KeysApart /\ [Next]_vars => KeysApart'
<1> SUFFICES ASSUME Inv, KeysApart, [Next]_vars PROVE KeysApart'
  OBVIOUS
<1> USE DEF Inv
<1>1. CASE UNCHANGED vars
  BY <1>1 DEF KeysApart, SameKey, Live, vars
<1>2. ASSUME NEW s \in Sessions, UNCHANGED <<db, pending>>
      PROVE  KeysApart'
  BY <1>2, KeysSame
<1>3. ASSUME NEW s \in Sessions, NEW o, Fail(s, o)
      PROVE  KeysApart'
  BY <1>3, KeysFail
<1>4. ASSUME NEW s \in Sessions, UnsetRow(s)
      PROVE  KeysApart'
  <2> DEFINE i == Head(queue[s])
             r == Demoted(Current(s, i))
  <2>1. i \in Ids /\ Write(s, i, r) /\ db' = db
    BY <1>4, UnsetRowFacts DEF UnsetRow
  <2>2. Current(s, i) \in Row \cup {None}
    BY <2>1, CurrentType
  <2>3. Live(r) => /\ Live(Current(s, i))
                   /\ r.tenant = Current(s, i).tenant
                   /\ r.name = Current(s, i).name
    BY <2>2 DEF Demoted, Live, Row
  <2> QED
    BY <2>1, <2>3, KeysRewrite
<1>5. ASSUME NEW s \in Sessions, Lock(s)
      PROVE  KeysApart'
  <2>1. CASE Write(s, call[s].id, Current(s, call[s].id)) /\ db' = db
    BY <1>5, <2>1, KeysRewrite DEF Lock, At, TypeOK, PlaceOK
  <2> QED
    BY <1>3, <1>5, <2>1 DEF Lock
<1>6. ASSUME NEW s \in Sessions, SoftDelete(s)
      PROVE  KeysApart'
  <2>1. call[s].id \in Ids
    BY <1>6 DEF SoftDelete, At, TypeOK, PlaceOK
  <2> DEFINE now == Current(s, call[s].id)
  <2>2. CASE Found(s) /\ Write(s, call[s].id, Deleted(now)) /\ db' = db
    <3>1. now \in Row
      BY <2>1, <2>2, CurrentType DEF Found, LiveRows
    <3>2. ~Live(Deleted(now))
      BY <3>1 DEF Live, Deleted, Row
    <3> QED
      BY <2>1, <2>2, <3>2, KeysRewrite
  <2> QED
    BY <1>3, <1>6, <2>2 DEF SoftDelete
<1>7. ASSUME NEW s \in Sessions, SetVerified(s)
      PROVE  KeysApart'
  <2>1. call[s].id \in Ids
    BY <1>7 DEF SetVerified, At, TypeOK, PlaceOK
  <2> DEFINE now == Current(s, call[s].id)
             new == Flagged(now, call[s].verified)
  <2>2. CASE Found(s) /\ Write(s, call[s].id, new) /\ db' = db
    <3>1. now \in Row /\ Live(now)
      BY <2>1, <2>2, CurrentType DEF Found, LiveRows
    <3>2. new.tenant = now.tenant /\ new.name = now.name
      BY <3>1 DEF Flagged, Row
    <3> QED
      BY <2>1, <2>2, <3>1, <3>2, KeysRewrite
  <2> QED
    BY <1>3, <1>7, <2>2 DEF SetVerified
<1>8. ASSUME NEW s \in Sessions, Insert(s) \/ WriteRow(s)
      PROVE  KeysApart'
  <2>1. call[s].id \in Ids
    BY <1>8 DEF Insert, WriteRow, At, TypeOK, PlaceOK
  <2> QED
    BY <1>3, <1>8, <2>1, KeysNewRow DEF Insert, WriteRow
<1>9. ASSUME NEW s \in Sessions, Get(s) \/ Existing(s)
      PROVE  KeysApart'
  BY <1>2, <1>3, <1>9 DEF Get, Select, SelectConfig, SelectSecret, Read, Existing
<1>10. ASSUME NEW s \in Sessions,
              Begin(s) \/ Invoke(s) \/ Collect(s) \/ Count(s) \/ Unset(s) \/ UnsetDone(s)
       PROVE  KeysApart'
  BY <1>2, <1>10 DEF Begin, Invoke, Start, Collect, Count, Unset, UnsetDone
<1>11. ASSUME NEW s \in Sessions,
              Commit(s) \/ CommitUnacknowledged(s) \/ DbError(s) \/ DeadlockAbort(s)
       PROVE  KeysApart'
  BY <1>3, <1>11, KeysCommit DEF DbError, DeadlockAbort
<1>12. CASE Crash \/ \E s \in Sessions : Abandon(s)
  BY <1>12, KeysDrop DEF Crash, Abandon
<1> QED
  BY <1>1, <1>4, <1>5, <1>6, <1>7, <1>8, <1>9, <1>10, <1>11, <1>12
  DEF Next, Fault, Step, Work, Create, Update, Demote

-----------------------------------------------------------------------------
(* The theorems.                                                           *)

LEMMA InvInit == Init => IInv
<1> SUFFICES ASSUME Init PROVE IInv
  OBVIOUS
<1>1. KeysApart
  BY DEF Init, KeysApart, SameKey, Live, NoRows
<1> QED
  BY <1>1, TypeInit, LockInit DEF IInv

LEMMA InvStep == IInv /\ [Next]_vars => IInv'
BY TypeStep, LockStep, KeysStep DEF IInv, Inv

\* The locks, the versions under them and the identifiers of creations are
\* always as the inductive invariant says.
THEOREM Invariant == Spec => []IInv
BY InvInit, InvStep, PTL DEF Spec

\* Whatever creations and renames run together, no two live configurations
\* of a tenant ever have the same name.
THEOREM NamesStayUnique == Spec => []NamesUnique
<1>1. IInv => NamesUnique
  BY DEF IInv, KeysApart, NamesUnique
<1> QED
  BY <1>1, Invariant, PTL

\* Only an update, or the creation of a default, can be the victim of a lock
\* cycle: to be in one, a transaction must hold a row and wait for another.
THEOREM VictimsHold == Spec => []VictimsHoldMany
<1>1. IInv => VictimsHoldMany
  <2> SUFFICES ASSUME IInv, NEW s \in Sessions, Deadlocked(s)
               PROVE  \/ call[s].op = "update"
                      \/ call[s].op = "create" /\ call[s].isDefault
    BY DEF VictimsHoldMany
  <2>1. Locks(s) # {}
    BY CycleMember DEF WaitsFor
  <2>2. pc[s] \in {"unsetting", "lock", "delete", "flag", "insert", "write"}
    BY DeadlockedInTx
  <2>3. PlaceOK(s) /\ HoldsNothing(s)
    BY DEF IInv, LockInv, TypeOK
  <2> QED
    BY <2>1, <2>2, <2>3 DEF PlaceOK, HoldsNothing
<1> QED
  BY <1>1, Invariant, PTL

\* The table changes only when a transaction commits.
LEMMA OnlyCommits ==
  ASSUME IInv, [Next]_vars, db' # db
  PROVE  \E s \in Sessions : pc[s] = "commit" /\ db' = Merged(s)
BY DEF Next, Fault, Step, Work, Begin, Create, Count, Insert, Get, Select, SelectConfig, SelectSecret, Read,
       Update, Existing, Lock, WriteRow, Demote, Unset, UnsetRow, UnsetDone, SoftDelete,
       SetVerified, Commit, Collect, Invoke, Start, DbError, CommitUnacknowledged,
       DeadlockAbort, Abandon, Crash, Drop, Fail, vars

\* What a commit replaces a row by is the version its transaction holds.
LEMMA CommittedVersion ==
  ASSUME IInv, NEW s \in Sessions, db' = Merged(s), NEW i \in Ids, db'[i] # db[i]
  PROVE  /\ i \in Locks(s)
         /\ db'[i] = pending[s][i]
         /\ IF i = call[s].id THEN OwnVersion(s, db[i], db'[i]) ELSE OtherVersion(s, db[i], db'[i])
<1>1. i \in Locks(s) /\ db'[i] = pending[s][i]
  BY DEF Merged, Current, Locks
<1> QED
  BY <1>1 DEF IInv, LockInv, VersionsOK

\* A committed transaction changes rows of its own tenant only, and of rows
\* other than its call's, only is_default.
THEOREM Isolation == Spec => TenantsIsolated
<1>1. IInv /\ [Next]_vars => [IsolatedStep]_db
  <2> SUFFICES ASSUME IInv, [Next]_vars, db' # db PROVE IsolatedStep
    OBVIOUS
  <2>1. PICK s \in Sessions : pc[s] = "commit" /\ db' = Merged(s)
    BY OnlyCommits
  <2>2. ASSUME NEW i \in Ids, db'[i] # db[i]
        PROVE  Footprint(s, i) /\ db'[i].tenant = call[s].tenant
    <3>1. IF i = call[s].id THEN OwnVersion(s, db[i], db'[i]) ELSE OtherVersion(s, db[i], db'[i])
      BY <2>1, <2>2, CommittedVersion
    <3>2. CASE i = call[s].id
      BY <2>1, <3>1, <3>2 DEF Footprint, OwnVersion, OfTenant
    <3>3. CASE i # call[s].id
      <4>1. db[i] \in Row /\ Live(db[i]) /\ db'[i] = Demoted(db[i])
        BY <2>2, <3>1, <3>3 DEF OtherVersion, OfTenant, Demoted, IInv, TypeOK
      <4>2. Demoted(db[i]).tenant = db[i].tenant
        BY <4>1 DEF Demoted, Row
      <4> QED
        BY <2>1, <3>1, <3>3, <4>1, <4>2 DEF Footprint, OtherVersion, OfTenant
    <3> QED
      BY <3>2, <3>3
  <2> QED
    BY <2>2 DEF IsolatedStep
<1> QED
  BY <1>1, Invariant, PTL DEF Spec, TenantsIsolated

\* A deleted configuration never changes again.
THEOREM Tombstones == Spec => TombstonesFrozen
<1>1. IInv /\ [Next]_vars => [FrozenStep]_db
  <2> SUFFICES ASSUME IInv, [Next]_vars, db' # db,
                      NEW i \in Ids, db[i] # None, db[i].deleted, db'[i] # db[i]
               PROVE  FALSE
    BY DEF FrozenStep
  <2>1. PICK s \in Sessions : db' = Merged(s)
    BY OnlyCommits
  <2>2. IF i = call[s].id THEN OwnVersion(s, db[i], db'[i]) ELSE OtherVersion(s, db[i], db'[i])
    BY <2>1, CommittedVersion
  <2> QED
    BY <2>2 DEF OwnVersion, OtherVersion, Live, Demoted
<1> QED
  BY <1>1, Invariant, PTL DEF Spec, TombstonesFrozen

\* A password changes only by an update that names one, a verified flag only
\* by a verdict.
THEOREM ColumnsKept == Spec => SecretAndFlagKept
<1>1. IInv /\ [Next]_vars => [KeepingStep]_db
  <2> SUFFICES ASSUME IInv, [Next]_vars, db' # db PROVE KeepingStep
    OBVIOUS
  <2>1. PICK s \in Sessions : pc[s] = "commit" /\ db' = Merged(s)
    BY OnlyCommits
  <2>2. ASSUME NEW i \in Ids, db[i] # None, db'[i] # db[i]
        PROVE  /\ db'[i].secret # db[i].secret =>
                    call[s].op = "update" /\ i = call[s].id /\ db'[i].secret = call[s].secret
               /\ db'[i].verified # db[i].verified =>
                    /\ call[s].op = "setVerified"
                    /\ i = call[s].id
                    /\ db'[i].verified = call[s].verified
    <3>1. IF i = call[s].id THEN OwnVersion(s, db[i], db'[i]) ELSE OtherVersion(s, db[i], db'[i])
      BY <2>1, <2>2, CommittedVersion
    <3>2. db[i] \in Row
      BY <2>2 DEF IInv, TypeOK
    <3>3. CASE i = call[s].id
      <4>1. /\ OwnVersion(s, db[i], db'[i])
            /\ call[s].op # "create"
        BY <2>2, <3>1, <3>3 DEF OwnVersion
      <4>2. CASE call[s].op = "update"
        BY <3>3, <4>1, <4>2 DEF OwnVersion
      <4>3. CASE call[s].op = "delete"
        BY <3>2, <4>1, <4>3 DEF OwnVersion, Deleted, Row
      <4>4. CASE call[s].op = "setVerified"
        BY <3>2, <3>3, <4>1, <4>4 DEF OwnVersion, Flagged, Row
      <4> QED
        BY <4>1, <4>2, <4>3, <4>4 DEF OwnVersion
    <3>4. CASE i # call[s].id
      BY <3>1, <3>2, <3>4 DEF OtherVersion, Demoted, Row
    <3> QED
      BY <3>3, <3>4
  <2> QED
    BY <2>1, <2>2 DEF KeepingStep
<1> QED
  BY <1>1, Invariant, PTL DEF Spec, SecretAndFlagKept

-----------------------------------------------------------------------------
(* What the caller of a method finds in the table.                         *)

\* A configuration never changes hands, and never disappears.
LEMMA RowsStay ==
  ASSUME IInv, [Next]_vars, NEW i \in Ids, db[i] # None
  PROVE  db'[i] # None /\ db'[i].tenant = db[i].tenant
<1>1. CASE db' = db
  BY <1>1
<1>2. CASE db' # db
  <2>1. PICK s \in Sessions : db' = Merged(s)
    BY <1>2, OnlyCommits
  <2>2. OwnCommit(s)
    BY <2>1 DEF OwnCommit, Merged, Current, Locks
  <2> QED
    BY <2>2, TenantStays DEF IInv, LockInv
<1> QED
  BY <1>1, <1>2

\* A session stays where it is, leaves, commits, or comes to its commit.
Stays(v) ==
  pc'[v] = pc[v] /\ call'[v] = call[v] /\ pending'[v] = pending[v]

Arrives(v) ==
  /\ pc'[v] = "commit"
  /\ call'[v] = call[v]
  /\ call[v].op \notin {"get", "getSecret"} => pending'[v][call[v].id] # None

Moves(v) ==
  Stays(v) \/ pc'[v] \notin {"commit", "ok"} \/ Commit(v) \/ Arrives(v)

LEMMA FailMoves ==
  ASSUME TypeOK, NEW s \in Sessions, NEW o \in Outcomes \ {"ok"}, Fail(s, o)
  PROVE  \A v \in Sessions : Moves(v)
BY DEF TypeOK, Fail, Goto, Moves, Stays, Outcomes

\* The last write of a method is to the row of its call.
LEMMA WriteMoves ==
  ASSUME TypeOK, NEW s \in Sessions, NEW r \in Row,
         call[s].id \in Ids, Write(s, call[s].id, r), Goto(s, "commit"), call' = call
  PROVE  \A v \in Sessions : Moves(v)
<1>1. pending'[s][call[s].id] = r /\ pc'[s] = "commit"
  BY DEF TypeOK, Write, Goto
<1>2. \A v \in Sessions \ {s} : Stays(v)
  BY DEF TypeOK, Write, Goto, Stays
<1> QED
  BY <1>1, <1>2, NoneIsNoRow DEF Moves, Arrives

LEMMA LastWriteMoves ==
  ASSUME TypeOK, NEW s \in Sessions,
         Insert(s) \/ WriteRow(s) \/ SoftDelete(s) \/ SetVerified(s)
  PROVE  \A v \in Sessions : Moves(v)
<1>1. call[s].id \in Ids /\ call[s] \in Call
  BY DEF TypeOK, PlaceOK, Insert, WriteRow, SoftDelete, SetVerified, At
<1>2. ASSUME NEW o \in Outcomes \ {"ok"}, Fail(s, o)
      PROVE  \A v \in Sessions : Moves(v)
  BY <1>2, FailMoves
<1>3. CASE Insert(s) \/ WriteRow(s)
  <2>1. row[s] \in Row
    BY <1>3 DEF TypeOK, PlaceOK, Insert, WriteRow, At
  <2> QED
    BY <1>1, <1>2, <1>3, <2>1, WriteMoves DEF Insert, WriteRow, Outcomes
<1>4. CASE SoftDelete(s)
  <2>1. Found(s) => Deleted(Current(s, call[s].id)) \in Row
    BY <1>1, CurrentType, DeletedType DEF Found, LiveRows
  <2> QED
    BY <1>1, <1>2, <1>4, <2>1, WriteMoves DEF SoftDelete, Outcomes
<1>5. CASE SetVerified(s)
  <2> DEFINE flagged == Flagged(Current(s, call[s].id), call[s].verified)
  <2>1. call[s].op = "setVerified"
    BY <1>5 DEF TypeOK, PlaceOK, SetVerified, At
  <2>2. Found(s) => flagged \in Row
    BY <1>1, <2>1, CurrentType, FlaggedType DEF Found, LiveRows
  <2>3. \/ Found(s) /\ Write(s, call[s].id, flagged) /\ Goto(s, "commit") /\ call' = call
        \/ Fail(s, "notFound")
    BY <1>5 DEF SetVerified
  <2> HIDE DEF flagged
  <2> QED
    BY <1>1, <1>2, <2>2, <2>3, WriteMoves DEF Outcomes
<1> QED
  BY <1>3, <1>4, <1>5

LEMMA ReadMoves ==
  ASSUME TypeOK, NEW s \in Sessions, Select(s) \/ SelectConfig(s) \/ SelectSecret(s)
  PROVE  \A v \in Sessions : Moves(v)
<1>1. call[s].op \in {"get", "getSecret"}
  BY DEF TypeOK, PlaceOK, Select, SelectConfig, SelectSecret
<1>2. CASE \E o \in {"notFound", "internal"} : Fail(s, o)
  BY <1>2, FailMoves DEF Outcomes
<1>3. CASE UNCHANGED <<pending, call>> /\ \E p \in {"commit", "secret"} : Goto(s, p)
  BY <1>1, <1>3 DEF TypeOK, Goto, Moves, Stays, Arrives
<1> QED
  BY <1>2, <1>3 DEF Select, SelectConfig, SelectSecret, Read

LEMMA OtherMoves ==
  ASSUME TypeOK, NEW s \in Sessions,
         \/ Begin(s) \/ Count(s) \/ Existing(s) \/ Lock(s) \/ Demote(s)
         \/ Commit(s) \/ Collect(s) \/ Invoke(s)
  PROVE  \A v \in Sessions : Moves(v)
<1> USE DEF Moves, Stays
<1>1. CASE Begin(s)
  <2>1. call[s].op \in Ops
    BY <1>1 DEF TypeOK, PlaceOK, Begin, Call, Arguments
  <2>2. FirstStatement(call[s]) \notin {"commit", "ok"}
    BY <2>1 DEF FirstStatement, Ops
  <2> QED
    BY <1>1, <2>2 DEF TypeOK, Begin, Goto
<1>2. CASE Count(s)
  BY <1>2 DEF TypeOK, Count, Goto
<1>3. CASE Existing(s) \/ Lock(s)
  <2>1. CASE \E o \in {"notFound", "internal"} : Fail(s, o)
    BY <2>1, FailMoves DEF Outcomes
  <2>2. CASE UNCHANGED <<pending, call>> /\ \E p \in {"unset", "lock"} : Goto(s, p)
    BY <2>2 DEF TypeOK, Goto
  <2>3. CASE /\ Goto(s, "write") /\ call' = call
             /\ \E i \in Ids : \E r : Write(s, i, r)
    BY <2>3 DEF TypeOK, Goto, Write
  <2>4. call[s].id \in Ids
    BY <1>3 DEF TypeOK, PlaceOK, Existing, Lock, At
  <2> QED
    BY <1>3, <2>1, <2>2, <2>3, <2>4 DEF Existing, Lock
<1>4. CASE Demote(s)
  BY <1>4 DEF TypeOK, Demote, Unset, UnsetRow, UnsetDone, At, Write, Goto
<1>5. CASE Commit(s) \/ Collect(s)
  BY <1>5 DEF TypeOK, Commit, Collect, Goto
<1>6. CASE Invoke(s)
  BY <1>6 DEF TypeOK, Invoke, Start, Goto
<1> QED
  BY <1>1, <1>2, <1>3, <1>4, <1>5, <1>6

LEMMA AllMove ==
  ASSUME TypeOK, [Next]_vars
  PROVE  \A v \in Sessions : Moves(v)
<1>1. CASE UNCHANGED vars
  BY <1>1 DEF Moves, Stays, vars
<1>2. ASSUME NEW s \in Sessions, Step(s) \/ Invoke(s)
      PROVE  \A v \in Sessions : Moves(v)
  BY <1>2, LastWriteMoves, ReadMoves, OtherMoves DEF Step, Work, Create, Get, Update
<1>3. ASSUME NEW s \in Sessions, Fault(s)
      PROVE  \A v \in Sessions : Moves(v)
  <2>1. CASE CommitUnacknowledged(s)
    BY <2>1 DEF TypeOK, CommitUnacknowledged, Goto, Moves, Stays
  <2> QED
    BY <1>3, <2>1, FailMoves DEF Fault, DbError, DeadlockAbort, Outcomes
<1>4. ASSUME NEW S \in SUBSET Sessions, Drop(S)
      PROVE  \A v \in Sessions : Moves(v)
  BY <1>4 DEF Drop, Moves, Stays
<1> QED
  BY <1>1, <1>2, <1>3, <1>4 DEF Next, Abandon, Crash

LEMMA DoneStep == IInv /\ DoneInv /\ [Next]_vars => DoneInv'
<1> SUFFICES ASSUME IInv, DoneInv, [Next]_vars, NEW v \in Sessions
             PROVE  CommitHolds(v)' /\ Answered(v)'
  BY DEF DoneInv
<1>1. Moves(v)
  BY AllMove DEF IInv
<1>2. CASE Stays(v)
  <2>1. CommitHolds(v)'
    BY <1>2 DEF Stays, DoneInv, CommitHolds, Locks
  <2>2. Answered(v)'
    <3> SUFFICES ASSUME pc[v] = "ok", call[v].op \in {"create", "setVerified"}
                 PROVE  OfTenant(v, db[call[v].id])'
      BY <1>2 DEF Stays, Answered
    <3>1. OfTenant(v, db[call[v].id]) /\ call[v].id \in Ids
      BY DEF DoneInv, Answered, IInv, TypeOK, PlaceOK
    <3> QED
      BY <1>2, <3>1, RowsStay DEF Stays, OfTenant
  <2> QED
    BY <2>1, <2>2
<1>3. CASE pc'[v] \notin {"commit", "ok"}
  BY <1>3 DEF CommitHolds, Answered
<1>4. CASE Commit(v)
  <2>1. pc[v] = "commit" /\ pc'[v] = "ok" /\ call' = call /\ db' = Merged(v)
    BY <1>4 DEF Commit, Goto, IInv, TypeOK
  <2>2. ASSUME call[v].op \in {"create", "setVerified"}
        PROVE  OfTenant(v, db[call[v].id])'
    <3>1. call[v].id \in Locks(v) /\ call[v].id \in Ids
      BY <2>1, <2>2 DEF DoneInv, CommitHolds, IInv, TypeOK, PlaceOK
    <3>2. db'[call[v].id] = pending[v][call[v].id]
      BY <2>1, <3>1 DEF Merged, Current, Locks
    <3>3. OfTenant(v, pending[v][call[v].id])
      BY <3>1 DEF IInv, LockInv, VersionsOK, OwnVersion
    <3> QED
      BY <2>1, <3>2, <3>3 DEF OfTenant
  <2> QED
    BY <2>1, <2>2 DEF CommitHolds, Answered
<1>5. CASE Arrives(v)
  <2>1. call[v].id \in Ids
    <3>1. TypeOK'
      BY TypeStep DEF IInv
    <3> QED
      BY <1>5, <3>1 DEF TypeOK, PlaceOK, Arrives
  <2> QED
    BY <1>5, <2>1 DEF Arrives, CommitHolds, Answered, Locks
<1> QED
  BY <1>1, <1>2, <1>3, <1>4, <1>5 DEF Moves

\* A transaction commits what its call asked for, and the row that a creation
\* or a verdict answers with is in the table, under the caller's tenant.
THEOREM Done == Spec => []DoneInv
<1>1. Init => DoneInv
  BY DEF Init, DoneInv, CommitHolds, Answered
<1> QED
  BY <1>1, Invariant, DoneStep, PTL DEF Spec

-----------------------------------------------------------------------------
\* A session that the repository works for is under way and stays so.
UnderWay(s) ==
  /\ pc[s] # "idle" /\ pc'[s] # "idle"
  /\ call' = call
  /\ \A v \in Sessions \ {s} : pc'[v] = pc[v]

LEMMA FailUnderWay ==
  ASSUME TypeOK, NEW s \in Sessions, NEW o \in Outcomes, pc[s] # "idle", Fail(s, o)
  PROVE  UnderWay(s)
BY DEF TypeOK, Fail, Goto, UnderWay, Outcomes

LEMMA WorkUnderWay ==
  ASSUME TypeOK, NEW s \in Sessions, Work(s) \/ Fault(s)
  PROVE  UnderWay(s)
<1>1. ASSUME pc[s] # "idle", NEW o \in Outcomes, Fail(s, o)
      PROVE  UnderWay(s)
  BY <1>1, FailUnderWay
<1>2. ASSUME pc[s] # "idle", call' = call,
             NEW p \in Statements \cup Outcomes, Goto(s, p) \/ pc' = pc
      PROVE  UnderWay(s)
  BY <1>2 DEF TypeOK, Goto, UnderWay, Statements, Outcomes
<1>3. CASE Begin(s)
  <2>1. call[s].op \in Ops
    BY <1>3 DEF TypeOK, PlaceOK, Begin, Call, Arguments
  <2>2. FirstStatement(call[s]) \in Statements
    BY <2>1 DEF FirstStatement, Ops, Statements
  <2> QED
    BY <1>2, <1>3, <2>2 DEF Begin
<1>4. CASE Create(s)
  BY <1>1, <1>2, <1>4 DEF Create, Count, Insert, At, Statements, Outcomes
<1>5. CASE Get(s)
  BY <1>1, <1>2, <1>5 DEF Get, Select, SelectConfig, SelectSecret, Read, Statements, Outcomes
<1>6. CASE Update(s)
  BY <1>1, <1>2, <1>6 DEF Update, Existing, Lock, WriteRow, At, Statements, Outcomes
<1>7. CASE Demote(s)
  BY <1>2, <1>7 DEF Demote, Unset, UnsetRow, UnsetDone, At, Statements
<1>8. CASE SoftDelete(s) \/ SetVerified(s)
  BY <1>1, <1>2, <1>8 DEF SoftDelete, SetVerified, At, Statements, Outcomes
<1>9. CASE Commit(s) \/ CommitUnacknowledged(s)
  BY <1>2, <1>9 DEF Commit, CommitUnacknowledged, Outcomes
<1>10. CASE DbError(s) \/ DeadlockAbort(s)
  BY <1>1, <1>10, DeadlockedInTx DEF DbError, DeadlockAbort, InTx, Statements, Outcomes
<1> QED
  BY <1>3, <1>4, <1>5, <1>6, <1>7, <1>8, <1>9, <1>10 DEF Work, Fault

-----------------------------------------------------------------------------
(* Progress: of the transactions waited for, one can go on.                *)

\* Only a transaction is waited for: one that holds a row is open.
LEMMA WaitedForInTx ==
  ASSUME IInv, NEW s \in Sessions, NEW v \in WaitsFor(s)
  PROVE  v \in Sessions /\ InTx(v)
BY DEF IInv, LockInv, HoldsNothing, WaitsFor, InTx, Statements

\* A set of open transactions that holds all those they wait for has a least
\* such part; whoever in it waits, waits for itself.
LEMMA LeastWaits ==
  ASSUME IInv, NEW s \in Sessions, InTx(s), NEW S \in SUBSET Sessions, s \in S,
         \A v \in S : WaitsFor(v) \subseteq S
  PROVE  \E v \in S : InTx(v) /\ (WaitsFor(v) = {} \/ Deadlocked(v))
<1> DEFINE Closed(T) == \A v \in T : WaitsFor(v) \subseteq T
           Open == {v \in S : InTx(v)}
           Parts == {T \in SUBSET Open : T # {} /\ Closed(T)}
           Less == StrictSubsetOrdering(Sessions)
<1>1. Open \in Parts
  BY WaitedForInTx
<1>2. PICK T \in Parts : \A U \in Parts : ~(<<U, T>> \in Less)
  <2>1. IsWellFoundedOn(Less, SUBSET Sessions)
    BY SessionsAssumption, FS_FiniteSubsetsOfFinite, FS_StrictSubsetOrderingWellFounded
  <2> HIDE DEF Less
  <2>2. Parts \subseteq SUBSET Sessions /\ Parts # {}
    BY <1>1
  <2> HIDE DEF Parts
  <2> QED
    BY <2>1, <2>2, WFMin
<1>3. PICK v \in T : TRUE
  OBVIOUS
<1>4. ASSUME WaitsFor(v) # {}
      PROVE  Deadlocked(v)
  <2> SUFFICES ASSUME NEW U \in SUBSET Sessions, WaitsFor(v) \subseteq U,
                      \A w \in U : WaitsFor(w) \subseteq U, v \notin U
               PROVE  FALSE
    BY DEF Deadlocked
  <2>1. T \cap U \in Parts
    <3>1. WaitsFor(v) \subseteq T \cap U
      BY <1>3
    <3> QED
      BY <1>4, <3>1
  <2>2. <<T \cap U, T>> \in Less
    BY <1>3 DEF StrictSubsetOrdering
  <2> QED
    BY <1>2, <2>1, <2>2
<1> QED
  BY <1>3, <1>4

\* However many transactions wait for each other, one among those waited for
\* can go on, or is in a cycle that the lock manager breaks: no row and no
\* name is waited for in vain.
THEOREM WaitsEnd == Spec => []NothingStalls
<1>1. IInv => NothingStalls
  BY LeastWaits DEF NothingStalls
<1> QED
  BY <1>1, Invariant, PTL

=============================================================================
