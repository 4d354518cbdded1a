------------------------ MODULE MailConfigRepository ------------------------
(***************************************************************************)
(* The mail configuration repository, src/repository/mail_config.rs, one   *)
(* SQL statement per step.  A session is one call of a repository method:  *)
(* it takes a pooled connection, opens a transaction, runs the method's    *)
(* statements in order and commits, or returns early, which drops the      *)
(* transaction and rolls it back.                                          *)
(*                                                                         *)
(* The service never sets an isolation level, so transactions run under    *)
(* PostgreSQL's default, READ COMMITTED: a statement sees what is          *)
(* committed when it starts and what its own transaction wrote; a writer   *)
(* waits for the transaction holding the row and then looks at the row's   *)
(* latest version again; a unique index waits for a transaction that may   *)
(* still free, or take, the key.  A circle of waiting transactions is      *)
(* broken by aborting one of them.                                         *)
(***************************************************************************)
EXTENDS MailConfigs, SequencesExt

CONSTANTS
  Sessions,   \* calls that may be in progress at the same time
  PoolSize    \* connections of the pool

ASSUME SessionsAssumption == IsFiniteSet(Sessions)

ASSUME PoolAssumption == PoolSize \in Nat \ {0}

\* Where a session may be: outside, waiting for a connection, before the
\* statement of that name, or answered.
Statements == {"unset", "unsetting", "count", "insert", "select", "config",
               "secret", "existing", "lock", "write", "delete", "flag", "commit"}
Outcomes == {"ok", "notFound", "conflict", "internal"}

VARIABLES
  db,       \* the committed version of every row
  pending,  \* the versions each transaction wrote; such a row is locked by it
  pc,       \* where each session is
  call,     \* its arguments
  row,      \* the row it builds or answers with
  queue     \* the rows a multi-row UPDATE has not reached yet

vars == <<db, pending, pc, call, row, queue>>

\* Where a session is decides its method, and what it has at hand.
PlaceOK(s) ==
  /\ pc[s] # "idle" => call[s] \in Call /\ call[s].id \in Ids
  /\ pc[s] \in {"count", "insert"} => call[s].op = "create"
  /\ pc[s] = "select" => call[s].op = "get"
  /\ pc[s] \in {"config", "secret"} => call[s].op = "getSecret"
  /\ pc[s] \in {"existing", "lock", "write"} => call[s].op = "update"
  /\ pc[s] = "delete" => call[s].op = "delete"
  /\ pc[s] = "flag" => call[s].op = "setVerified"
  /\ pc[s] \in {"unset", "unsetting"} =>
       \/ call[s].op = "update" /\ row[s] \in Row
       \/ call[s].op = "create" /\ call[s].isDefault
  /\ pc[s] \in {"secret", "lock", "insert", "write"} => row[s] \in Row
  /\ pc[s] \in {"commit", "ok"} => call[s].op = "delete" \/ row[s] \in Row

TypeOK ==
  /\ db \in [Ids -> Row \cup {None}]
  /\ pending \in [Sessions -> [Ids -> Row \cup {None}]]
  /\ pc \in [Sessions -> {"idle", "begin"} \cup Statements \cup Outcomes]
  /\ call \in [Sessions -> Call \cup {None}]
  /\ row \in [Sessions -> Row \cup {None}]
  /\ queue \in [Sessions -> Seq(Ids)]
  /\ \A s \in Sessions : PlaceOK(s)

Init ==
  /\ db = NoRows
  /\ pending = [s \in Sessions |-> NoRows]
  /\ pc = [s \in Sessions |-> "idle"]
  /\ call = [s \in Sessions |-> None]
  /\ row = [s \in Sessions |-> None]
  /\ queue = [s \in Sessions |-> <<>>]

-----------------------------------------------------------------------------
(* What a statement of a session sees, and whom it waits for.              *)

InTx(s) == pc[s] \in Statements

Locks(s) == {i \in Ids : pending[s][i] # None}

Current(s, i) == IF pending[s][i] # None THEN pending[s][i] ELSE db[i]

\* Mutant of LiveRows: without WHERE tenant_id = $1, nor the row policy.
RowsOfAll(s) == {i \in Ids : Live(Current(s, i))}

\* WHERE tenant_id = $1 AND deleted_at IS NULL
LiveRows(s) ==
  {i \in Ids : Live(Current(s, i)) /\ Current(s, i).tenant = call[s].tenant}

\* ... AND id = $2
Found(s) == call[s].id \in LiveRows(s)

\* Mutant of KeyHolders: the names are compared with the snapshot.
CommittedKeyHolders(s) == {i \in Ids \ {call[s].id} : SameKey(db[i], row[s])}

\* What the unique index finds: the other rows a version of which, committed
\* or not, bears the key of the row about to be written.
KeyHolders(s) ==
  {i \in Ids \ {call[s].id} :
     \/ SameKey(db[i], row[s])
     \/ \E v \in Sessions : SameKey(pending[v][i], row[s])}

\* The rows the statement of s cannot go past while another session holds them.
Wanted(s) ==
  CASE pc[s] = "unsetting" /\ queue[s] # <<>>            -> {Head(queue[s])}
    [] pc[s] \in {"lock", "delete", "flag"} /\ Found(s)  -> {call[s].id}
    [] pc[s] \in {"insert", "write"}                     -> KeyHolders(s)
    [] OTHER                                             -> {}

WaitsFor(s) == {v \in Sessions \ {s} : Locks(v) \cap Wanted(s) # {}}

\* s waits, through others, for itself: it is in every set of sessions that
\* holds those it waits for and those that its members wait for.
Deadlocked(s) ==
  \A S \in SUBSET Sessions :
    /\ WaitsFor(s) \subseteq S
    /\ \A v \in S : WaitsFor(v) \subseteq S
    => s \in S

At(s, where) == pc[s] = where /\ WaitsFor(s) = {}

Goto(s, where) == pc' = [pc EXCEPT ![s] = where]

Write(s, i, r) == pending' = [pending EXCEPT ![s][i] = r]

\* Mutant of Fail: the connection goes back with its transaction open.
FailOpen(s, outcome) ==
  /\ Goto(s, outcome)
  /\ queue' = [queue EXCEPT ![s] = <<>>]
  /\ row' = [row EXCEPT ![s] = None]
  /\ UNCHANGED <<db, pending, call>>

\* An early return: the transaction is dropped, and rolled back.
Fail(s, outcome) ==
  /\ Goto(s, outcome)
  /\ pending' = [pending EXCEPT ![s] = NoRows]
  /\ queue' = [queue EXCEPT ![s] = <<>>]
  /\ row' = [row EXCEPT ![s] = None]
  /\ UNCHANGED <<db, call>>

-----------------------------------------------------------------------------
(* The steps every method takes.                                           *)

Creating(s) == pc[s] \in Statements \cup {"begin"} /\ call[s].op = "create"

\* No row has the identifier, and no creation under way drew it.
Fresh(i) ==
  /\ db[i] = None
  /\ \A s \in Sessions : Creating(s) => call[s].id # i

\* A method is called; the database will draw the identifier of a new row.
Start(s, c) ==
  /\ pc[s] = "idle"
  /\ \/ c.op # "create" /\ call' = [call EXCEPT ![s] = c]
     \/ /\ c.op = "create"
        /\ \E i \in Ids : Fresh(i) /\ call' = [call EXCEPT ![s] = [c EXCEPT !.id = i]]
  /\ Goto(s, "begin")
  /\ UNCHANGED <<db, pending, row, queue>>

Invoke(s) == \E c \in Requests : Start(s, c)

\* Mutant of FirstStatement: every creation unsets the default.
UnsetFirst(c) ==
  CASE c.op = "create"      -> "unset"
    [] c.op = "get"         -> "select"
    [] c.op = "getSecret"   -> "config"
    [] c.op = "update"      -> "existing"
    [] c.op = "delete"      -> "delete"
    [] c.op = "setVerified" -> "flag"

FirstStatement(c) ==
  CASE c.op = "create"      -> IF c.isDefault THEN "unset" ELSE "count"
    [] c.op = "get"         -> "select"
    [] c.op = "getSecret"   -> "config"
    [] c.op = "update"      -> "existing"
    [] c.op = "delete"      -> "delete"
    [] c.op = "setVerified" -> "flag"

\* begin_tenant_tx: a connection of the pool, kept until the method returns.
Begin(s) ==
  /\ pc[s] = "begin"
  /\ Cardinality({v \in Sessions : InTx(v)}) < PoolSize
  /\ Goto(s, FirstStatement(call[s]))
  /\ UNCHANGED <<db, pending, call, row, queue>>

\* What a commit makes of the table.
Merged(s) == [i \in Ids |-> Current(s, i)]

Commit(s) ==
  /\ pc[s] = "commit"
  /\ db' = Merged(s)
  /\ pending' = [pending EXCEPT ![s] = NoRows]
  /\ Goto(s, "ok")
  /\ UNCHANGED <<call, row, queue>>

\* Any statement may fail for a reason of the database or the network, and
\* so may waiting for a connection.
DbError(s) == (InTx(s) \/ pc[s] = "begin") /\ Fail(s, "internal")

\* The connection is lost after the server committed, before it answered.
CommitUnacknowledged(s) ==
  /\ pc[s] = "commit"
  /\ db' = Merged(s)
  /\ pending' = [pending EXCEPT ![s] = NoRows]
  /\ Goto(s, "internal")
  /\ UNCHANGED <<call, row, queue>>

DeadlockAbort(s) == Deadlocked(s) /\ Fail(s, "internal")

Collect(s) ==
  /\ pc[s] \in Outcomes
  /\ Goto(s, "idle")
  /\ call' = [call EXCEPT ![s] = None]
  /\ row' = [row EXCEPT ![s] = None]
  /\ UNCHANGED <<db, pending, queue>>

\* The futures of these sessions are dropped where they are, and with them
\* their transactions: nobody waits for their answer any more.
Drop(S) ==
  /\ pending' = [s \in Sessions |-> IF s \in S THEN NoRows ELSE pending[s]]
  /\ pc' = [s \in Sessions |-> IF s \in S THEN "idle" ELSE pc[s]]
  /\ call' = [s \in Sessions |-> IF s \in S THEN None ELSE call[s]]
  /\ row' = [s \in Sessions |-> IF s \in S THEN None ELSE row[s]]
  /\ queue' = [s \in Sessions |-> IF s \in S THEN <<>> ELSE queue[s]]
  /\ UNCHANGED db

\* The client hangs up.
Abandon(s) == Drop({s})

\* The process ends and starts again.
Crash == Drop(Sessions)

-----------------------------------------------------------------------------
(* UPDATE ... SET is_default = false WHERE tenant_id = $1 AND deleted_at   *)
(* IS NULL, with AND id != $2 in update.  The statement's snapshot decides *)
(* which rows it visits, in an order of the plan's choosing; each is       *)
(* locked in turn.  A row that died since the snapshot stays as it is, but *)
(* locked.                                                                 *)

\* Mutant of UnsetScope: id = $2 for id != $2.
UnsetOwn(s) == LiveRows(s) \cap {call[s].id}

UnsetScope(s) ==
  IF call[s].op = "update" THEN LiveRows(s) \ {call[s].id} ELSE LiveRows(s)

Unset(s) ==
  /\ pc[s] = "unset"
  /\ \E q \in SetToSeqs(UnsetScope(s)) : queue' = [queue EXCEPT ![s] = q]
  /\ Goto(s, "unsetting")
  /\ UNCHANGED <<db, pending, call, row>>

UnsetRow(s) ==
  /\ At(s, "unsetting")
  /\ queue[s] # <<>>
  /\ LET i == Head(queue[s]) IN Write(s, i, Demoted(Current(s, i)))
  /\ queue' = [queue EXCEPT ![s] = Tail(@)]
  /\ UNCHANGED <<db, pc, call, row>>

UnsetDone(s) ==
  /\ pc[s] = "unsetting"
  /\ queue[s] = <<>>
  /\ Goto(s, IF call[s].op = "create" THEN "count" ELSE "lock")
  /\ UNCHANGED <<db, pending, call, row, queue>>

-----------------------------------------------------------------------------
(* create                                                                  *)

\* Mutant of Count: the first configuration is the default only if asked.
CountIgnored(s) ==
  /\ pc[s] = "count"
  /\ row' = [row EXCEPT ![s] = NewRow(call[s], call[s].isDefault)]
  /\ Goto(s, "insert")
  /\ UNCHANGED <<db, pending, call, queue>>

Count(s) ==
  /\ pc[s] = "count"
  /\ row' = [row EXCEPT ![s] = NewRow(call[s], call[s].isDefault \/ LiveRows(s) = {})]
  /\ Goto(s, "insert")
  /\ UNCHANGED <<db, pending, call, queue>>

Insert(s) ==
  /\ At(s, "insert")
  /\ \/ /\ KeyHolders(s) = {}
        /\ Write(s, call[s].id, row[s])
        /\ Goto(s, "commit")
        /\ UNCHANGED <<db, call, row, queue>>
     \/ KeyHolders(s) # {} /\ Fail(s, "conflict")

-----------------------------------------------------------------------------
(* get_by_id, and get_with_smtp_password, which reads the row and then its *)
(* password: two statements, two snapshots.  What the error of the second, *)
(* a row that is no longer there, becomes is up to a library.              *)

Read(s, where) ==
  \/ /\ Found(s)
     /\ row' = [row EXCEPT ![s] = Current(s, call[s].id)]
     /\ Goto(s, where)
     /\ UNCHANGED <<db, pending, call, queue>>
  \/ ~Found(s) /\ Fail(s, "notFound")

Select(s) == pc[s] = "select" /\ Read(s, "commit")

SelectConfig(s) == pc[s] = "config" /\ Read(s, "secret")

SelectSecret(s) ==
  /\ pc[s] = "secret"
  /\ \/ /\ Found(s)
        /\ row' = [row EXCEPT ![s].secret = Current(s, call[s].id).secret]
        /\ Goto(s, "commit")
        /\ UNCHANGED <<db, pending, call, queue>>
     \/ ~Found(s) /\ \E o \in {"notFound", "internal"} : Fail(s, o)

-----------------------------------------------------------------------------
(* update                                                                  *)

Existing(s) ==
  /\ pc[s] = "existing"
  /\ \/ /\ Found(s)
        /\ LET existing == Current(s, call[s].id)
               merged   == Merge(call[s], existing)
           IN /\ row' = [row EXCEPT ![s] = merged]
              /\ Goto(s, IF merged.isDefault /\ ~existing.isDefault THEN "unset" ELSE "lock")
        /\ UNCHANGED <<db, pending, call, queue>>
     \/ ~Found(s) /\ Fail(s, "notFound")

\* The UPDATE of the row itself first waits for the row ...
Lock(s) ==
  /\ At(s, "lock")
  /\ \/ /\ Found(s)
        /\ LET now == Current(s, call[s].id)
           IN /\ Write(s, call[s].id, now)
              /\ row' = [row EXCEPT ![s] = Kept(call[s], @, now)]
        /\ Goto(s, "write")
        /\ UNCHANGED <<db, call, queue>>
     \/ ~Found(s) /\ Fail(s, "internal")

\* ... and then for the unique index.
WriteRow(s) ==
  /\ At(s, "write")
  /\ \/ /\ KeyHolders(s) = {}
        /\ Write(s, call[s].id, row[s])
        /\ Goto(s, "commit")
        /\ UNCHANGED <<db, call, row, queue>>
     \/ KeyHolders(s) # {} /\ Fail(s, "conflict")

-----------------------------------------------------------------------------
(* soft_delete and set_verified                                            *)

SoftDelete(s) ==
  /\ At(s, "delete")
  /\ \/ /\ Found(s)
        /\ Write(s, call[s].id, Deleted(Current(s, call[s].id)))
        /\ Goto(s, "commit")
        /\ UNCHANGED <<db, call, row, queue>>
     \/ ~Found(s) /\ Fail(s, "notFound")

SetVerified(s) ==
  /\ At(s, "flag")
  /\ \/ /\ Found(s)
        /\ LET flagged == Flagged(Current(s, call[s].id), call[s].verified)
           IN /\ Write(s, call[s].id, flagged)
              /\ row' = [row EXCEPT ![s] = flagged]
        /\ Goto(s, "commit")
        /\ UNCHANGED <<db, call, queue>>
     \/ ~Found(s) /\ Fail(s, "notFound")

-----------------------------------------------------------------------------
Create(s) == Count(s) \/ Insert(s)

Get(s) == Select(s) \/ SelectConfig(s) \/ SelectSecret(s)

Update(s) == Existing(s) \/ Lock(s) \/ WriteRow(s)

Demote(s) == Unset(s) \/ UnsetRow(s) \/ UnsetDone(s)

\* What the program and the database do of their own accord.
Work(s) ==
  \/ Begin(s) \/ Create(s) \/ Get(s) \/ Update(s) \/ Demote(s)
  \/ SoftDelete(s) \/ SetVerified(s) \/ Commit(s)

Step(s) == Work(s) \/ Collect(s)

Fault(s) == DbError(s) \/ CommitUnacknowledged(s) \/ DeadlockAbort(s)

Next ==
  \/ \E s \in Sessions : Step(s) \/ Invoke(s) \/ Fault(s) \/ Abandon(s)
  \/ Crash

Spec == Init /\ [][Next]_vars

\* The pool serves its waiters in order and so does a row's lock queue, so a
\* session whose turn keeps coming takes it; the lock manager breaks a cycle
\* of waiters; the caller of a method does not leave it unanswered.
Fairness ==
  \A s \in Sessions : SF_vars(Step(s)) /\ WF_vars(DeadlockAbort(s))

FairSpec == Spec /\ Fairness

Writing(s) == InTx(s) /\ call[s].op \notin {"get", "getSecret"}

\* No two transactions that may write are open for the same tenant.
WritersInTurn ==
  \A s, v \in Sessions :
    Writing(s) /\ Writing(v) /\ call[s].tenant = call[v].tenant => s = v

\* No writer of the tenant is open between the two reads of a pair.
PairsUndisturbed ==
  \A s, v \in Sessions :
    pc[s] = "secret" /\ Writing(v) => call[s].tenant # call[v].tenant

\* The behaviours in which the writers of each tenant happen to take turns,
\* which nothing in the code makes them do unless the pool has one connection.
TurnsSpec == Init /\ [][Next /\ WritersInTurn']_vars

-----------------------------------------------------------------------------
(* Properties.                                                             *)

\* The live configurations of a tenant have different names, whatever
\* creations and renames ran together.
NamesUnique == \A i, j \in Ids : SameKey(db[i], db[j]) => i = j

\* What one committed transaction may do to the table: its own call's row as
\* the call says, and other live rows of the same tenant lose is_default.
Footprint(s, i) ==
  /\ pc[s] = "commit"
  /\ \/ i = call[s].id
     \/ /\ call[s].op \in {"create", "update"}
        /\ Live(db[i])
        /\ db[i].tenant = call[s].tenant
        /\ db'[i] = Demoted(db[i])

IsolatedStep ==
  \E s \in Sessions : \A i \in Ids :
    db'[i] # db[i] => Footprint(s, i) /\ db'[i].tenant = call[s].tenant

\* A call changes rows of its own tenant only, and of the other rows of the
\* tenant only is_default, however long its statements waited in between.
TenantsIsolated == [][IsolatedStep]_db

FrozenStep == \A i \in Ids : db[i] # None /\ db[i].deleted => db'[i] = db[i]

\* A deleted configuration never changes again: no update, default switch or
\* verdict that began before the deletion writes to it, or brings it back.
TombstonesFrozen == [][FrozenStep]_db

KeepingStep ==
  \E s \in Sessions :
    /\ pc[s] = "commit"
    /\ \A i \in Ids : db[i] # None =>
         /\ db'[i].secret # db[i].secret =>
              call[s].op = "update" /\ i = call[s].id /\ db'[i].secret = call[s].secret
         /\ db'[i].verified # db[i].verified =>
              /\ call[s].op = "setVerified"
              /\ i = call[s].id
              /\ db'[i].verified = call[s].verified

\* The password of a configuration changes only by an update that names one,
\* and its verified flag only by a verdict: concurrent updates that rewrite
\* every other column from an earlier read never restore an old one.
SecretAndFlagKept == [][KeepingStep]_db

\* get_with_smtp_password reads the row and its password from one snapshot:
\* the password it answers with is that of the row it answers with.
SecretOfSameRow ==
  [][\A s \in Sessions :
       pc[s] = "secret" /\ pc'[s] = "commit" => row'[s] = row[s]]_vars

\* Only a method that locks a second row can be in a lock cycle, and so be
\* aborted: an update, or the creation of a default.  Reads, deletions and
\* the verdict of a verification never are.
VictimsHoldMany ==
  \A s \in Sessions :
    Deadlocked(s) => \/ call[s].op = "update"
                     \/ call[s].op = "create" /\ call[s].isDefault

\* Whoever a transaction waits for, directly or through others, waits are not
\* for ever: among them all there is an open transaction that waits for nobody
\* or is in a cycle, which the lock manager breaks.  No call that has returned
\* has left a row locked.
NothingStalls ==
  \A s \in Sessions : InTx(s) =>
    \A S \in SUBSET Sessions :
      /\ s \in S
      /\ \A v \in S : WaitsFor(v) \subseteq S
      => \E v \in S : InTx(v) /\ (WaitsFor(v) = {} \/ Deadlocked(v))

\* A tenant has at most one default configuration.
AtMostOneDefault ==
  \A i, j \in Ids :
    /\ Live(db[i]) /\ db[i].isDefault
    /\ Live(db[j]) /\ db[j].isDefault
    /\ db[i].tenant = db[j].tenant
    => i = j

HasDefault(tenant) ==
  \E i \in Ids : Live(db[i]) /\ db[i].isDefault /\ db[i].tenant = tenant

\* A tenant that has a default keeps one until a call deletes a configuration
\* or gives the default up: an update that only touches other columns does
\* not make the default disappear.
DefaultKept ==
  [][\A t \in Tenants :
       HasDefault(t) /\ ~HasDefault(t)' =>
         \E s \in Sessions :
           /\ pc[s] = "commit"
           /\ call[s].tenant = t
           /\ \/ call[s].op = "delete"
              \/ call[s].op = "update" /\ call[s].isDefault = FALSE]_db

\* Every call is answered, unless its client hangs up first: no wait for a
\* connection, a row or a name is for ever.
EveryCallAnswered ==
  \A s \in Sessions : pc[s] = "begin" ~> pc[s] \in Outcomes \cup {"idle"}

\* Whatever calls run together, each is one atomic change of the table.
Table == INSTANCE MailConfigTable WITH configs <- db

ImplementsTable == Table!TableSpec

\* One writer of a tenant at a time, the repository is the atomic store.
Store == INSTANCE MailConfigStore WITH configs <- db

ImplementsStore == Store!StoreSpec

-----------------------------------------------------------------------------
(* Why the properties hold: an inductive invariant, in parts.              *)

\* No two transactions hold a version of the same row.
LocksExclusive ==
  \A s, v \in Sessions : s # v => Locks(s) \cap Locks(v) = {}

\* A transaction holds rows only from the statement that takes the first to
\* its end; the creation of a configuration that is not to be the default
\* holds none before its INSERT.
HoldsNothing(s) ==
  /\ pc[s] \notin {"unsetting", "count", "insert", "lock", "write", "commit"} =>
       Locks(s) = {}
  /\ pc[s] \in {"count", "insert"} /\ ~call[s].isDefault => Locks(s) = {}

\* The identifier of a creation is nobody else's.
Reserved(s) ==
  Creating(s) =>
    /\ db[call[s].id] = None
    /\ pc[s] # "commit" => call[s].id \notin Locks(s)
    /\ \A v \in Sessions \ {s} :
         /\ call[s].id \notin Locks(v)
         /\ Creating(v) => call[v].id # call[s].id

OfTenant(s, r) == r # None /\ r.tenant = call[s].tenant

\* The rows an UPDATE has still to visit are other rows of the call's tenant.
QueueOK(s) ==
  /\ pc[s] # "unsetting" => queue[s] = <<>>
  /\ \A k \in DOMAIN queue[s] :
       queue[s][k] # call[s].id /\ OfTenant(s, db[queue[s][k]])

\* What a version is, next to the committed row that it will replace.
OtherVersion(s, r, new) ==
  /\ call[s].op \in {"create", "update"}
  /\ OfTenant(s, r)
  /\ new = Demoted(r)

OwnVersion(s, r, new) ==
  /\ call[s].op \in {"create", "update", "delete", "setVerified"}
  /\ OfTenant(s, new)
  /\ call[s].op = "create" => r = None /\ Live(new) /\ ~new.verified
  /\ call[s].op # "create" => Live(r) /\ OfTenant(s, r)
  /\ call[s].op = "update" =>
       /\ Live(new)
       /\ new.secret = r.secret \/ new.secret = call[s].secret
       /\ new.verified = r.verified
  /\ call[s].op = "delete" => new = Deleted(r)
  /\ call[s].op = "setVerified" => new = Flagged(r, call[s].verified)

VersionsOK(s) ==
  \A i \in Locks(s) :
    IF i = call[s].id THEN OwnVersion(s, db[i], pending[s][i])
                      ELSE OtherVersion(s, db[i], pending[s][i])

\* The row that an INSERT or an UPDATE is about to write is one that may be
\* written.
RowOK(s) ==
  /\ pc[s] \in {"unset", "unsetting", "lock"} /\ call[s].op = "update" =>
       OfTenant(s, row[s]) /\ Live(row[s])
  /\ pc[s] = "insert" => OwnVersion(s, None, row[s])
  /\ pc[s] = "write" =>
       call[s].id \in Locks(s) /\ OwnVersion(s, db[call[s].id], row[s])

\* No two rows have versions, committed or not, that bear the same key.
KeysApart ==
  \A i, j \in Ids : i # j =>
    /\ ~SameKey(db[i], db[j])
    /\ \A s \in Sessions : ~SameKey(pending[s][i], db[j])
    /\ \A s, v \in Sessions : ~SameKey(pending[s][i], pending[v][j])

\* A transaction about to commit a change holds the row of its call.
CommitHolds(s) ==
  pc[s] = "commit" /\ call[s].op \notin {"get", "getSecret"} => call[s].id \in Locks(s)

\* The row that a successful creation or verdict answers with is in the table.
Answered(s) ==
  pc[s] = "ok" /\ call[s].op \in {"create", "setVerified"} => OfTenant(s, db[call[s].id])

DoneInv == \A s \in Sessions : CommitHolds(s) /\ Answered(s)

LockInv ==
  /\ LocksExclusive
  /\ \A s \in Sessions : /\ HoldsNothing(s)
                         /\ Reserved(s)
                         /\ QueueOK(s)
                         /\ VersionsOK(s)
                         /\ RowOK(s)

IInv == TypeOK /\ LockInv /\ KeysApart

-----------------------------------------------------------------------------
(* And while writers take turns: what a transaction has made so far of its *)
(* tenant's part of the table.                                             *)

\* With one connection they do: no two transactions are open at all.
Alone == \A s, v \in Sessions : InTx(s) /\ InTx(v) => s = v

\* A call is made from a request of a client.
Asked(s) ==
  pc[s] # "idle" =>
    \E c \in Requests :
      \/ c.op # "create" /\ call[s] = c
      \/ c.op = "create" /\ call[s] = [c EXCEPT !.id = call[s].id]

OwnFound(s) == Live(db[call[s].id]) /\ OfTenant(s, db[call[s].id])

\* The other configurations of the tenant.
Siblings(s) ==
  {i \in Ids \ {call[s].id} : Live(db[i]) /\ db[i].tenant = call[s].tenant}

\* The call takes the default from them.
Demoting(s) ==
  \/ call[s].op = "create" /\ call[s].isDefault
  \/ /\ call[s].op = "update"
     /\ Merge(call[s], db[call[s].id]).isDefault
     /\ ~db[call[s].id].isDefault

Demotions(s) ==
  \A i \in Ids \ {call[s].id} :
    Current(s, i) = IF Demoting(s) /\ i \in Siblings(s) THEN Demoted(db[i]) ELSE db[i]

\* The version that the call makes of its own row.
VersionMade(s, r) ==
  LET c   == call[s]
      old == db[c.id]
  IN /\ c.op = "create" => r = NewRow(c, c.isDefault \/ Siblings(s) = {})
     /\ c.op = "update" => r = Kept(c, Merge(c, old), old)
     /\ c.op = "delete" => r = Deleted(old)
     /\ c.op = "setVerified" => r = Flagged(old, c.verified)

SerialOK(s) ==
  /\ pc[s] \in {"unset", "unsetting"} => Demoting(s)
  /\ pc[s] \in {"unset", "unsetting", "lock"} /\ call[s].op = "update" =>
       row[s] = Merge(call[s], db[call[s].id])
  /\ pc[s] \in {"unset", "unsetting", "lock", "write", "commit"}
       /\ call[s].op \in {"update", "delete", "setVerified"} => OwnFound(s)
  /\ pc[s] \in {"unsetting", "count", "insert", "lock", "write"} =>
       Current(s, call[s].id) = db[call[s].id]
  /\ pc[s] = "unsetting" =>
       \A i \in Siblings(s) :
         (\E k \in DOMAIN queue[s] : queue[s][k] = i) \/ Current(s, i) = Demoted(db[i])
  /\ pc[s] \in {"count", "insert", "lock", "write", "commit"} => Demotions(s)
  /\ pc[s] \in {"insert", "write"} => VersionMade(s, row[s])
  /\ pc[s] = "commit" => VersionMade(s, Current(s, call[s].id))

\* The version that an INSERT or an UPDATE writes, whatever ran meanwhile: what
\* the caller gave is as given, and the password and the verdict as they were.
Made(s, r) ==
  /\ call[s].op = "create" =>
       r = NewRow(call[s], r.isDefault) /\ (call[s].isDefault => r.isDefault)
  /\ call[s].op = "update" =>
       r = Kept(call[s], Merge(call[s], r), db[call[s].id])

\* A transaction does to the table what its caller asked for.
AsAsked(s) ==
  /\ pc[s] \in {"unset", "unsetting"} => call[s].isDefault = TRUE
  /\ pc[s] \in {"unset", "unsetting", "lock"} /\ call[s].op = "update" =>
       row[s] = Merge(call[s], row[s])
  /\ pc[s] \in {"insert", "write"} => Made(s, row[s])
  /\ pc[s] = "commit" => Made(s, pending[s][call[s].id])
  /\ \A i \in Locks(s) : i # call[s].id => call[s].isDefault = TRUE

AskedInv == \A s \in Sessions : Asked(s) /\ AsAsked(s)

SerialInv == \A s \in Sessions : Asked(s) /\ SerialOK(s)

=============================================================================
