# ods-securemail, verified

TLA+ modules, model-checking runs and machine-checked proofs for the mail
configuration service in `src/`: a Rust service (actix-web, sqlx, PostgreSQL)
in which tenants keep the settings of their mail servers, one of them the
default, and have them verified by a real SMTP dial.

## 1. Inventory

| Component | State | Operations | Interacts by |
|---|---|---|---|
| Repository, `src/repository/mail_config.rs` | the table `securemail.mail_configs`, one transaction per call, a pool of 20 connections | `create`, `get_by_id`, `get_with_smtp_password`, `list`, `update`, `soft_delete`, `set_verified` | SQL statements; row locks and a partial unique index shared by concurrent transactions |
| Service, `src/service/mail_config_service.rs` | the master key; per request: the configuration read, the verdict | `create`, `get_by_id`, `list`, `update`, `delete`, `verify`; encryption, validation | awaits the repository, the verifier, the event producer |
| SMTP verifier, `src/service/smtp_verifier.rs` | none across calls | `tls_policy`, `verify` under a timeout, `classify` | a TCP/TLS/SMTP dialogue with the tenant's server |
| HTTP handlers, `src/api/mail_configs.rs`, and DTOs, `src/domain/mail_config.rs` | none | six routes | call the service, map results to statuses |
| Events, `src/events/producer.rs` | the broker's topic | `publish` (ods-common) | the service ignores its result |
| Start-up, `src/main.rs`, `src/config.rs` | the configuration | `from_env`, pool, migrations, key, routes | builds everything once |
| Health, `src/api/health.rs` | none | `/health`, `/ready` | one `SELECT 1` on the same pool |
| Migrations, `migrations/` | the schema | 001 to 006 | the unique index and the row policy of 002 |

What is hard here, and what makes each component correct:

* **Repository.** Methods are several statements long and run concurrently
  under READ COMMITTED. Names must stay unique among a tenant's live rows, a
  tenant should have one default, a call must touch its own tenant only, a
  deleted row must not come back, a read-modify-write `update` must not restore
  a password or a verdict, and no wait (pool, row, name) may last for ever.
* **Service.** `verify` reads, dials for up to 60 s without a connection, and
  records: everything may change in between, the process may restart with
  another key, requests may be abandoned. The flag and the events must never
  tell of a success that did not happen.
* **Verifier.** Every phase of the dialogue may fail or hang; it must end
  within the timeout with a verdict of the right family.
* **Start-up.** What is checked should be what is used, and nothing may be
  served over a schema that an earlier attempt left half migrated.
* **Listing.** Two statements, two snapshots, 64-bit arithmetic, and pages cut
  from a list that changes between two requests.
* **Readiness.** The probe needs a connection of the pool that the requests may
  hold entirely, and must be answered all the same.

`PROJECT.json` lists the hazards line by line.

## 2. Modules

| Module | What it models |
|---|---|
| `MailConfigs` | rows, calls, and what one SQL statement makes of one row |
| `MailConfigStore` | the abstract store: each method one atomic change of the table, made from the table as it is |
| `MailConfigTable` | the weaker promise that holds however calls overlap: each method one atomic change of the table, some of it made from what was read earlier: `EXTENDS MailConfigStore` |
| `MailConfigRepository` | the repository, one SQL statement per step, over a model of PostgreSQL's transactions |
| `MailConfigService` | the service over the repository: requests, validation, encryption, the dial, the record, the events, hang-ups and restarts |
| `SmtpDial` | one dial: TLS policy, the phases of the SMTP dialogue, the time limit, the classification of errors |
| `MailConfigReads` | the listing, page after page, next to the calls that write: `EXTENDS MailConfigRepository` |
| `Process` | the life of one process: start-up, migrations, restarts, the dial, the readiness probe: `EXTENDS SmtpDial` |
| `MCMailConfigRepository`, `MCMailConfigService`, `MCMailConfigReads`, `MCSmtpDial`, `MCProcess` | instances for TLC: the requests of each run, symmetry, ports, keys |
| `MailConfigRepositoryProofs` | lemmas on the helpers; type correctness |
| `MailConfigRepositorySafety` | the inductive invariant and the safety theorems of the repository |
| `MailConfigStoreProofs` | the abstract store has one default per tenant, and implements the table |
| `MailConfigRepositoryRefinement` | the repository implements the table; while writers take turns, the store |
| `MailConfigServiceProofs` | the service only ever takes steps of the repository; what its flags, events and stored targets mean |
| `MailConfigReadsProofs` | the listing leaves the repository alone; what a page shows, and what a client that reads on may miss or see twice |
| `SmtpDialProofs` | safety of the dial |
| `ProcessProofs` | a process implements the dial; safety of the start-up |

### State and actions against the code

*Repository.* A session is one call of a method. `pc` is the statement it is
about to run, `call` its arguments, `row` the local it builds (`existing`
merged with the command, the row to insert, the result). `db` is the committed
table; `pending[s]` the row versions written by the open transaction of `s`,
which is also the set of its row locks. `Begin` is `begin_tenant_tx`; each
statement is an action (`Unset`/`UnsetRow`/`UnsetDone` for the multi-row
UPDATE, `Count`, `Insert`, `Select`, `SelectConfig`, `SelectSecret`,
`Existing`, `Lock` and `WriteRow` for the UPDATE of `update`, `SoftDelete`,
`SetVerified`); `Commit` is `tx.commit()`. An early return (`?`, `ok_or_else`,
`rows_affected() == 0`) is `Fail`: the transaction is dropped and rolled back.
`DbError` lets any statement fail, `CommitUnacknowledged` loses the answer of a
commit, `Abandon` drops one handler's future, `Crash` ends the process.

*Service.* A session is one HTTP request; `stage` is the `await` it is at.
`Receive` validates and encrypts and calls the repository, `Finish`, `Open` and
`Recorded` take a call's result, `Dial` gets the verdict and calls
`set_verified`, `Publish` hands the event to the broker, `Respond` answers.
`config` is the local variable of that name, `dial` the verdict. `vouched` and
`lastDial` record what mail servers said; only properties read them.

*Dial.* `SmtpDial` opens up the service's `Dial`: `target` is what is dialled,
`phase` how far the dialogue is, `left` the seconds before the time limit of
`tokio::time::timeout`, `verdict` the result by its `kind()`. `CheckPort` is
the narrowing of the port in the service's `verify`, `ChoosePolicy` is
`tls_policy`, `Tested` and `Fails` the arms of the final `match`, `Classify`
is `classify`. `secure`, `opened`, `presented` and `accepted` record what
happened on the wire; only properties read them, `secure` apart, which the library
knows too. The service depends on the verdict only, and takes any.

*Listing.* `reading` is the statement a `list` request is at: `List` is the
handler's defaults and the service's bounds (`Bounded`), `ListBegin` the
transaction, `CountRows` and `SelectPage` the two statements, each over what is
committed when it runs, `ListCommit` the commit; `ListFails` is every error on
the way, a negative offset among them. `Offset` wraps at 64 bits (`MaxInt`) as
the release build's product does. `older` is the order of `created_at`, which
is `now()`, the time the transaction *began*, so that a row can appear in the
middle of the list. The listing's connection is one of the pool that the writers
use (`Connections`). `quiet` (nothing was committed since the count) and `walk`
(what a client that reads from page 1 to the first page that is not full has
been shown) are history variables that only properties read.

*Process.* `at` is the line of `main` that the process has reached, `env` its
environment by what `from_env`, `JwtConfig::from_env` and the choice of the
producer ask of it, `cause` the stage that an exit happened at. A key is its
trimmed length, whether it is zeros, whether it is hex digits, and whether
white space was trimmed: `Acceptable` is what `from_env` checks of the trimmed
key, `ParseKey` is `hex::decode` of the untrimmed one that it stored.
`Migrate` applies one file; `StartAgain` starts an exited process in the same
environment over the same database. While it serves, the process dials as
`SmtpDial` says, and `probe` is where `/ready` is: waiting for a connection,
at its `SELECT 1`, answered. `held` and `dbUp` are what goes on around it.

### What is assumed of code that is not in `src/`

PostgreSQL under READ COMMITTED (no isolation level is ever set): a statement
sees what was committed when it started plus its own writes; a writer waits
for the holder of a row and then looks at the row's latest version again; a
unique index waits for an uncommitted holder of the key; a multi-row UPDATE
locks the rows of its snapshot one at a time in an order the planner chooses;
the deadlock detector aborts one transaction of a cycle. The pool hands out
connections in order. Dropping a `sqlx` transaction rolls it back. actix-web
drops the future of a request whose connection is closed. AES-GCM opens a
secret only under the key that closed it. lettre connects, does the TLS
handshake first under `Tls::Wrapper` and after a STARTTLS it insists on under
`Tls::Required`, authenticates when it is given credentials, and tests the
connection; it bounds the TCP connection only. `publish` may fail, and then loses
the event. `now()` is the time a transaction began, and two of them differ. The
wait for one of the pool's connections is limited by sqlx, and a query over a
lost connection ends with an error. sqlx applies each migration in a
transaction that also records it. An orchestrator starts an exited process
again in the same environment.

### Abstractions

Host, port, user name and encryption mode are one value, `target`; the sender
columns behave as it does; the IMAP columns behave as `secret` does.
Timestamps, messages and logging are left out. Row identifiers are a finite set
and bound the number of creations of a run.

## 3. Runs

| Run | Question | Instance |
|---|---|---|
| `repo_concurrent` | do names stay unique, tenants isolated, tombstones frozen, can an update restore an old password or verdict, and is each call one atomic change? | 2 sessions, 2 rows, 2 tenants, 2 connections |
| `repo_turns` | is the repository the atomic store when the writers of a tenant do not overlap? | 2 sessions, 2 rows, 2 tenants, 2 connections |
| `repo_cycles` | who can be the victim of a lock cycle, and can transactions wait for each other with nobody to go on? | 2 sessions, 3 rows |
| `repo_liveness` | is every call answered? | 3 sessions, 2 connections, calls that wait for each other |
| `service_safety` | do flags and events tell the truth, and are stored servers validated, whatever overtakes a verification? | 2 requests, 1 row, 2 tenants, 2 keys, all faults |
| `service_liveness` | does a silent mail server or broker stop others? | 2 requests, 1 connection |
| `process` | is what is served what was checked, are credentials safe, does a dial end, is the probe answered? | 9 kinds of key, every environment, 2 migrations, 2 connections; 4 modes and an unknown one, 5 ports, 5 refusal codes, a limit of 3 ticks |
| `reads` | what may a client that reads page by page miss or see twice? | 2 writing sessions, 2 rows, 2 tenants, 7 as the largest integer |
| `auth_reason` | (violated) `auth` means that credentials were refused | one dial, as in `process` |
| `default_race` | (violated) at most one default per tenant | 2 sessions, 2 connections |
| `last_dial` | (violated) the flag is the verdict of the last dial | 3 requests, no faults |
| `snapshot` | (violated) a password is read together with its row | 2 sessions, 1 row |

**Bounds.** Two sessions make every pairwise interleaving of two methods; a
third is added where a pattern needs two waiters behind one holder
(`repo_liveness`) or a deletion or creation besides two verifications
(`last_dial`). Two rows are what a switch of the default, a lock cycle of two
updates and a name conflict need; a creation in a lock cycle needs a third
(`repo_cycles`). Every request set contains both sides of each race. A row
identifier is used once, so a run has as many creations as identifiers;
sessions are reused without bound.

The listing's instance is small so that its boundaries are near: a page of one
row over two rows makes every walk of one, two and three pages; page numbers
below 1, in the middle and at the largest integer, and a page size of 0, one
beyond the limit of 3 and none at all make every branch of the bounds; with
`MaxInt` 7 an offset fits, is negative, and wraps round to a small one.

A process takes one kind of key for each check that `from_env` makes (absent,
empty, zeros, other digits, too short, too long, odd, padded, good), each with
and without every other variable, so every exit happens; two migrations leave
one done and one not. A dial is sequential. Its run takes every mode and an
unknown one, ports on both sides of what a `u16` holds, codes in and out of the
list of authentication codes, every kind of error of the library, and a limit
short enough to run out at any phase. With two connections the requests can
hold one or all of them while the probe waits.

**Symmetry** of sessions, and of rows where requests are closed under it, is
used in safety runs only.

**Fairness.** `Step` is strongly fair for each session: the pool and the lock
queues are first-come, first-served, so a session whose turn keeps coming gets
it; the deadlock detector is weakly fair. In the service nothing is asked of
the mail server or of the broker: no fairness on `Dial` and `Publish`. In a
process the clock and the client's own steps of a dial are weakly fair while it
serves, the server's answers are not: `VerificationEnds` holds because of the
time limit alone. The probe's own steps are weakly fair, since its wait and its
query each end; the requests need not give back a connection nor the database
come back, and `ProbeAnswered` holds because the wait is limited. No run relies
on a fault, a hang-up or a restart not happening, except the violation run
`last_dial`, which excludes them so that the trace shows the race alone.
`snapshot` is checked under `FairSpec`, so that its trace is one of a system
that goes on.

### What the violations show

* `default_race`: the statement that unsets the other defaults cannot see a
  row that another transaction has not committed yet, and
  `idx_mail_configs_tenant_default` is not unique. A snapshot isolation level
  would not help, since each transaction only inserts or changes its own row. While
  the writers of a tenant take turns (`repo_turns`) the property holds. The same read of `existing.is_default` before the row is locked can
  leave a tenant without a default.
* `last_dial`: the order of two verdicts is that of their `set_verified`
  transactions, not that of the dials. Section 5 says what it takes for the flag
  to follow the last dial.
* `auth_reason`: the code of a reply is looked up whatever command it answers;
  454 to STARTTLS or 530 to EHLO comes before any credentials.
* `snapshot`: the two reads of `get_with_smtp_password` are one transaction, but
  under READ COMMITTED each statement has a snapshot of its own. An update of
  the server and its password that commits in between makes a verification send
  the new password to the old server. `last_dial`'s property would not notice:
  the verdict is that of the dial.

Things seen while modelling that no run is about:

* A key with white space around it passes `from_env` and panics in
  `hex::decode`, after the migrations ran, though `main.rs:71` says "validated
  at startup". The process fails closed, which `KeyServed` and
  `DecodeRefusesPaddingOnly` state.
* `/ready` always reports `redpanda: true`; the comment at `api/health.rs:15`
  speaks of a handler that checks both and calls this one a fallback.
* A configuration that is deleted while its verification dials is answered 404
  by `set_verified`, though `domain/mail_config.rs:146` says that a conducted
  verification always answers 200.
* A page number near the largest integer makes an offset that is negative (500),
  panics in a build with overflow checks, or wraps to the page of another
  number. `QuietListingExact` therefore speaks of offsets that fit.
* A client that stops after `total` rows can miss some that creations pushed to
  later pages; one that reads until a page is not full does not.

## 4. Proofs

All theorems hold for every finite set of sessions and of identifiers, every
set of tenants, names, targets, secrets and requests, and every pool size.
The assumptions are those the modules state: `None` is not a value, the sets of
sessions and identifiers are finite, requests are well formed.

* `TypeCorrect`: `TypeOK` is inductive by itself. Its part `PlaceOK` ties the
  statement a session has reached to its method and to what it has at hand.
* `Invariant`: `IInv` is `TypeOK`, `LockInv` and `KeysApart`. The properties are
  not inductive: that names are unique in the committed table depends on what
  the uncommitted versions may be (`KeysApart` speaks of both), and that
  depends on locks: two transactions never hold the same row
  (`LocksExclusive`), a version differs from the committed row it will replace
  only as its method says (`VersionsOK`), which stays true because nobody else
  can commit over a locked row, and the identifier of a creation is nobody
  else's (`Reserved`).
* `NamesStayUnique`, `VictimsHold`, `Isolation`, `Tombstones`, `ColumnsKept`
  follow: the table changes only by a commit, and what a commit installs is
  what `VersionsOK` allows.
* `WaitsEnd`: `NothingStalls` is the safety half of `EveryCallAnswered`. Only an
  open transaction holds a row (`HoldsNothing`), so whoever is waited for is
  open. A closed set of waiters has a least closed part, since the sessions are
  finitely many; a member of it that waits cannot be left out of the part, and
  so waits for itself: it is in a cycle that `DeadlockAbort` breaks.
* `StoreOneDefault`: in the abstract store a tenant never has two defaults.
* `ConcurrentIsTable`: the repository implements `MailConfigTable` under `Spec`
  as it is, with every fault and any number of connections. Most of a call's
  work is invisible: only its commit changes `db`, and the proof shows that a
  commit is one step of the table for the call's own request. `AskedInv` is the
  part of the invariant that this needs: a call is one that a client asked for,
  the version it makes is made from its arguments whatever was read before
  (`Made`), and it holds versions of other rows only if it takes the default.
  `VersionsOK` then says what those versions are, `KeysApart` that the name is
  free. What is read early and used late shows in the abstract module: an
  update may write back columns as they were at an earlier time, and which
  others lose the default is decided by what the statement saw.
* `StoreIsTable`: the store implements the table, so nothing is promised by the
  table that the store does not promise.
* `TurnsAreStore`: in the behaviours of `Spec` in which the writing transactions
  of each tenant take turns, the repository implements the store. `TurnsSpec` is
  `Spec` restricted to them. This is a restriction on the environment that
  nothing in the code enforces, unless the pool has one connection
  (`OneConnectionTakesTurns`); `default_race` shows what happens without it. It
  is weaker than one connection: reads, dials and the writers of other tenants
  overlap as they like. `SerialInv` says how far each transaction has got with
  its tenant's part of the table: the siblings demoted so far, the version made
  of its own row from what is still committed. It stays true while others
  commit because they are readers or of another tenant (`CommittedElsewhere`).
  `TurnsOneDefault` carries `StoreOneDefault` over the refinement;
  `TurnsKeepDefault` follows from `SerialInv`.
* `UndisturbedPairs`: `SecretOfSameRow` holds in the behaviours in which no
  writer of the tenant is open between the two reads; `snapshot` has such a
  writer. `PairInv` says that between them the row is as it was read.
* `OneConnection`: with `PoolSize = 1` all four properties hold under `Spec`.
* `ReadsAreRepository`: a listing changes no row and holds no lock, so the
  theorems above hold with listings among the calls
  (`ListedTableIsTable`). `PagesTrue` follows from
  `NamesStayUnique` and the fact that a page is one statement's result.
* `ReadsInvariant`: `created_at` orders the rows strictly (`InOrder`, because at
  most one creation begins in a step), so that ranks are a bijection onto
  `0 .. n - 1` (`RankInjective`, `RankOnto`) and a page has as many rows as the
  ranks it asks for and there are (`RowsBetween`). Deletions only lower a row's
  rank and creations only raise it (`RankShrinks`, `RankGrows`). Hence without
  creations what a client was shown stays before its next page (`ShownBefore`),
  and without deletions what it is still owed stays behind (`DueBehind`); both
  also bound the page number, so a walk's offset never overflows as long as
  there are fewer rows than an `i64` counts, which `ReadsAssumption` says. From
  it follow `QuietPagesExact`, `WalksSkipNone` and `WalksRepeatNone`.
* `ProcessDials`: a process implements `DialSpec`; so the dial's theorems hold
  in every process (`ProcessDialsSafely`). `ProcessTypeOK` and `ProcessInv` are
  inductive together only: that decoding a key is defined rests on its having
  been accepted two stages earlier. From them follow `ServesWithItsKey`,
  `DecodesWhatItAccepts` and `ServesMigrated`, for every set of keys, length of
  a key, number of migrations and size of the pool.
* `SmtpDialProofs`: `DialInv` says what each phase presupposes (TLS, a known mode,
  an accepted authentication); it is inductive, and `Covers`, `Succeeds` and
  `Undialled` are parts of it. They hold for every set of modes, ports and
  codes and every setting of the limit, which `TimeoutRange` puts between 1 and
  60.
* `ServiceIsRepository`, and what follows from it: see section 5.

## 5. The service's proofs

`StageOK` ties the stage of a request to the statement its call of the
repository has reached; with it `ServiceTypeOK` is inductive
(`ServiceTypeCorrect`), and every step of the service is a step of the
repository or leaves it alone (`ServiceIsRepository`: `ServiceSpec => Spec`). So
the theorems of section 4 hold under the service too: `ServiceIsTable`, and
`ServiceInTurns` for the behaviours in which writers take turns. `Done` adds to them that
a commit holds the row of its call and that what a caller is answered is in the
table.

On these rests `ServiceInv`: a request that dials or records opened its
password with the present key; a good verdict about to be recorded is one a
mail server gave; what is about to be published is true. It is inductive
because a flag moves only at the commit of a `set_verified` whose session is at
the stage "recording" (`FlagMoves`), rows never disappear nor change hands
(`RowsStay`), and the key changes only when no request survives. From it
follow `Verified`, `Announced` and `FlagByVerdict`, for any number of
concurrent requests, configurations, keys and passwords. The assumptions are
those of section 4 and that requests and secrets are well formed.

`Validated` (`StoredTargetsValid`) has an invariant of its own: every version,
committed or not, every row being built and every call and request under way
has a target that is valid or, in an update, absent (`RowsUsable`, `CallsValid`,
`RequestsValid`). An update merges its own fields with those of the row it read,
so validity of the stored target needs that of the uncommitted ones.

`FlagFollows` is the counterpart of the run `last_dial`. The flag is the verdict
of the last dial in every behaviour in which no two verifications of a
configuration overlap between dial and record (`VerificationsApart`) and no
record is broken off by an error, a hang-up or a restart (`VerdictsKept`);
everything else that may happen next to a verification, updates, deletions,
other verifications, faults of other requests, is allowed. `CalmFlagFollows`
is the same without faults, where only the first condition is left
(`CalmKeepsVerdicts`: without faults a `set_verified` is recorded or finds no
row). Neither condition is enforced by the code. The invariant has two parts.
`FoundInv`: what a verification dials was found under its tenant, and so is
still in the table, dead or alive. `LastDialInv`: the dial a request records is
the last one of its configuration, and once its call is answered the flag is
that verdict, or the row is deleted, which is for good (`DeadStay`).

## 6. What is only model-checked, and what is not modelled

Liveness under fairness (`EveryCallAnswered`, `OthersServed`,
`VerificationEnds`, `ProbeAnswered`, `CutIsTold`) is out of the prover's reach.
Every invariant, action property and refinement of the passing runs is also
proved, `AtMostOneDefault`, `DefaultKept` and `ImplementsStore` for the
behaviours in which writers take turns, as in their run. Four properties are violated by the code and have a
run that shows it; of three of them a theorem says under which condition they
hold (`TurnsOneDefault`, `UndisturbedPairs`, `FlagFollows`).

Not modelled, and why:

* `/health` answers a constant.
* Authentication and the tenant of a request come from `ods-common`'s
  middleware, JSON from actix-web; field lengths only bound strings.
* The host, the port, CORS, log level and body limit are passed on as they are.
* The tables of migrations 003 to 006 are used by no code.
* The configuration may be updated between the dial and the record: the verdict
  on the old server then marks the new one. No document says which the flag is
  about, so no property does.
* The order of the events of two verifications, the list in memory that the
  development producer fills: nothing in `src/` promises or reads either.

## 7. What could follow

1. A listing instance of three rows with updates, when a run of several minutes
   more is acceptable.
2. The dial composed with the service, its verdict being the service's `Dial`;
   today the service takes any verdict, which covers every dial.
3. A fault model of the broker and of a consumer, should the events get one.
