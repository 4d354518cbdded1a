-------------------------- MODULE MailConfigReads --------------------------
(***************************************************************************)
(* The listing of a tenant's configurations, next to the calls that write  *)
(* them: list_mail_configs of src/api/mail_configs.rs, list of             *)
(* src/service/mail_config_service.rs and of src/repository/mail_config.rs.*)
(* A client asks for page after page, one transaction each, of two         *)
(* statements that see what is committed when each of them starts.         *)
(***************************************************************************)
EXTENDS MailConfigRepository

CONSTANTS
  Reader,       \* the tenant whose configurations are listed
  Pages,        \* values of the query parameter page, an i64
  Sizes,        \* values of the query parameter per_page
  DefaultSize,  \* 20 in the source
  SizeLimit,    \* 100 in the source
  MaxInt        \* i64::MAX

ASSUME ReadsAssumption ==
  /\ Reader \in Tenants
  /\ \A p \in Pages \ {None} : p \in Int /\ p <= MaxInt
  /\ Sizes \subseteq Int \cup {None}
  /\ MaxInt \in Nat /\ Cardinality(Ids) <= MaxInt
  /\ SizeLimit \in 1..MaxInt /\ DefaultSize \in 1..SizeLimit
  /\ None \notin Int

VARIABLES
  older,       \* for each row, the rows whose created_at is before its own
  reading,     \* where the listing is
  asked,       \* the page it is about, within bounds
  total,       \* what COUNT(*) gave
  page,        \* the rows of the page, by identifier
  quiet,       \* history: the table is as it was at the COUNT(*)
  walk         \* history: what a client that goes from page to page got

listing == <<reading, asked, total, page, walk>>
readsVars == <<vars, older, quiet, listing>>

NoPage == <<>>

ReadsTypeOK ==
  /\ older \in [Ids -> SUBSET Ids]
  /\ reading \in {"idle", "begin", "count", "page", "commit", "ok", "internal"}
  /\ IF reading = "idle" THEN asked = None
     ELSE asked \in [page : 1..MaxInt, perPage : 1..SizeLimit]
  /\ total \in Nat
  /\ DOMAIN page \subseteq Ids /\ \A i \in DOMAIN page : page[i] \in Row
  /\ quiet \in BOOLEAN

ReadsInit ==
  /\ Init
  /\ older = [i \in Ids |-> {}]
  /\ reading = "idle" /\ asked = None
  /\ total = 0 /\ page = NoPage
  /\ quiet = TRUE /\ walk = None

-----------------------------------------------------------------------------
(* The writers.  created_at is now(), the time the transaction began.      *)

\* The row exists, or its creation has begun.
Placed(i) ==
  db[i] # None \/ \E s \in Sessions : InTx(s) /\ call[s].op = "create" /\ call[s].id = i

\* A row that is placed now is the newest.
Timestamp ==
  older' = [i \in Ids |-> {j \in Ids :
              /\ Placed(i)' /\ Placed(j)'
              /\ IF Placed(i) THEN j \in older[i] ELSE Placed(j)}]

Observed == quiet' = (quiet /\ (reading = "page" => db' = db))

\* The connection of the listing is one of the pool's.
ListingHolds == reading \in {"count", "page", "commit"}

Connections == Cardinality({s \in Sessions : InTx(s)}) + IF ListingHolds THEN 1 ELSE 0

LiveOf(t) == {i \in Ids : Live(db[i]) /\ db[i].tenant = t}

\* What a commit does to a walk under way.
Passed(w) ==
  IF w = None THEN None
  ELSE [w EXCEPT !.grew = @ \/ ~(LiveOf(Reader)' \subseteq LiveOf(Reader)),
                 !.shrank = @ \/ ~(LiveOf(Reader) \subseteq LiveOf(Reader)')]

Writers ==
  /\ \E s \in Sessions : Step(s) \/ Invoke(s) \/ Fault(s) \/ Abandon(s)
  /\ UNCHANGED <<reading, asked, total, page>>
  /\ Connections' <= PoolSize
  /\ Timestamp /\ Observed
  /\ walk' = Passed(walk)

-----------------------------------------------------------------------------
(* One request.                                                            *)

Idle ==
  /\ reading' = "idle" /\ asked' = None
  /\ total' = 0 /\ page' = NoPage /\ quiet' = TRUE

\* Mutant of Bounded: per_page is bounded from below only, as page is.
BoundedBelow(p, n) ==
  [page |-> Max({Given(p, 1), 1}), perPage |-> Max({Given(n, DefaultSize), 1})]

\* unwrap_or, then page.max(1) and per_page.clamp(1, 100)
Bounded(p, n) ==
  [page |-> Max({Given(p, 1), 1}),
   perPage |-> Min({Max({Given(n, DefaultSize), 1}), SizeLimit})]

\* The request is for the next page of a walk that goes on.
OnWalk(w, request) ==
  request.page = w.next /\ request.perPage = w.perPage

List ==
  /\ reading = "idle"
  /\ reading' = "begin"
  /\ \E p \in Pages, n \in Sizes : asked' = Bounded(p, n)
  /\ walk' = IF walk # None /\ OnWalk(walk, asked') THEN walk ELSE None
  /\ UNCHANGED <<vars, older, quiet, total, page>>

ListBegin ==
  /\ reading = "begin"
  /\ Connections < PoolSize
  /\ reading' = "count"
  /\ UNCHANGED <<vars, older, quiet, asked, total, page, walk>>

\* Mutant of Listed: without WHERE tenant_id = $1, nor the row policy.
ListedAll == {i \in Ids : Live(db[i])}

\* WHERE tenant_id = $1 AND deleted_at IS NULL
Listed == LiveOf(Reader)

\* Mutant of CountRows: the deleted rows count.
CountDeleted ==
  /\ reading = "count"
  /\ total' = Cardinality({i \in Ids : db[i] # None /\ db[i].tenant = Reader})
  /\ reading' = "page"
  /\ quiet' = TRUE
  /\ UNCHANGED <<vars, older, asked, page, walk>>

CountRows ==
  /\ reading = "count"
  /\ total' = Cardinality(Listed)
  /\ reading' = "page"
  /\ quiet' = TRUE
  /\ UNCHANGED <<vars, older, asked, page, walk>>

\* 64 bits in two's complement
Wrapped(x) == ((x + MaxInt + 1) % (2 * (MaxInt + 1))) - (MaxInt + 1)

\* Mutant of Offset: pages counted from 0.
OffsetFromZero == Wrapped(asked.page * asked.perPage)

Offset == Wrapped((asked.page - 1) * asked.perPage)

\* ORDER BY created_at DESC
Rank(i) == Cardinality({j \in Listed : i \in older[j]})

\* Mutant of Slice: one row more, to know whether there is a next page.
SliceAndNext == {i \in Listed : Rank(i) \in Offset .. Offset + asked.perPage}

\* LIMIT $2 OFFSET $3
Slice == {i \in Listed : Rank(i) \in Offset .. Offset + asked.perPage - 1}

\* The first page starts a walk.
Started ==
  [perPage |-> asked.perPage, next |-> 1, due |-> Listed, shown |-> {},
   grew |-> FALSE, shrank |-> FALSE, repeated |-> FALSE, ended |-> FALSE]

\* A product past 64 bits wraps or, in a build that checks, is a panic.
SelectPage ==
  /\ reading = "page"
  /\ Offset >= 0   \* PostgreSQL refuses a negative one
  /\ page' = [i \in Slice |-> db[i]]
  /\ reading' = "commit"
  /\ walk' = IF asked.page = 1 THEN Started ELSE walk
  /\ UNCHANGED <<vars, older, quiet, asked, total>>

\* The client asks for the next page until one is not full.
Delivered ==
  [walk EXCEPT !.next = @ + 1,
               !.shown = @ \cup DOMAIN page,
               !.repeated = @ \/ walk.shown \cap DOMAIN page # {},
               !.ended = Cardinality(DOMAIN page) < asked.perPage]

ListCommit ==
  /\ reading = "commit"
  /\ reading' = "ok"
  /\ walk' = IF walk # None THEN Delivered ELSE None
  /\ UNCHANGED <<vars, older, quiet, asked, total, page>>

\* A statement fails, the wait for a connection is too long, the OFFSET is
\* negative, or the client hangs up.
ListFails ==
  /\ reading \in {"begin", "count", "page", "commit"}
  /\ reading' = "internal"
  /\ total' = 0 /\ page' = NoPage
  /\ UNCHANGED <<vars, older, quiet, asked, walk>>

\* A client that has the last page is done.
Left(w) == IF w # None /\ w.ended THEN None ELSE w

ListCollected ==
  /\ reading \in {"ok", "internal"}
  /\ Idle
  /\ walk' = Left(walk)
  /\ UNCHANGED <<vars, older>>

\* The process ends and starts again.
Restart ==
  /\ Crash
  /\ Idle
  /\ Timestamp
  /\ walk' = Left(walk)

Listing ==
  List \/ ListBegin \/ CountRows \/ SelectPage \/ ListCommit \/ ListFails \/ ListCollected

ReadsNext == Writers \/ Listing \/ Restart

ReadsSpec == ReadsInit /\ [][ReadsNext]_readsVars

-----------------------------------------------------------------------------
(* Properties.                                                             *)

\* A page shows live configurations of the tenant that asks, and no name
\* twice, whatever is being created, renamed and deleted meanwhile.
PageTrue ==
  \A i \in DOMAIN page :
    /\ Live(page[i]) /\ page[i].tenant = Reader
    /\ \A j \in DOMAIN page : SameKey(page[i], page[j]) => i = j

\* When nothing is committed between the two statements and the offset fits
\* in 64 bits, the page has the rows that its total promises.
QuietListingExact ==
  LET before == (asked.page - 1) * asked.perPage
  IN  reading = "ok" /\ quiet /\ before <= MaxInt =>
        Cardinality(DOMAIN page) = Min({asked.perPage, Max({0, total - before})})

\* A client that reads page after page until one is not full has seen every
\* configuration that was there when it began, whatever was created
\* meanwhile, if none was deleted.
NoneSkipped == walk # None /\ walk.ended /\ ~walk.shrank => walk.due \subseteq walk.shown

\* It sees none twice, whatever was deleted or updated meanwhile, if none was
\* created.
NoneTwice == walk # None /\ walk.repeated => walk.grew

-----------------------------------------------------------------------------
(* Why they hold: an inductive invariant, next to the repository's.        *)

\* created_at is a strict total order of the rows and of those being created.
InOrder ==
  /\ \A i, j \in Ids : i \in older[j] => i # j /\ Placed(i) /\ Placed(j)
  /\ \A i, j \in Ids :
       Placed(i) /\ Placed(j) /\ i # j => (i \in older[j] <=> j \notin older[i])
  /\ \A i, j, k \in Ids : i \in older[j] /\ j \in older[k] => i \in older[k]

\* Of the rows before the first of page n.
Before(n, perPage) == (n - 1) * perPage

CountOK == reading = "page" /\ quiet => total = Cardinality(Listed)

QuietOK ==
  reading \in {"commit", "ok"} /\ quiet /\ Before(asked.page, asked.perPage) <= MaxInt =>
    Cardinality(DOMAIN page) =
      Min({asked.perPage, Max({0, total - Before(asked.page, asked.perPage)})})

Walk == [perPage : 1..SizeLimit, next : Nat \ {0}, due : SUBSET Ids, shown : SUBSET Ids,
         grew : BOOLEAN, shrank : BOOLEAN, repeated : BOOLEAN, ended : BOOLEAN]

WalkOK ==
  walk # None =>
    /\ walk \in Walk
    /\ walk.ended => reading = "ok"
    /\ reading \in {"begin", "count", "page", "commit"} => OnWalk(walk, asked)

\* Without creations the rows shown stay before the next page, and are enough
\* to fill the pages so far.
ShownBefore ==
  walk # None /\ ~walk.grew =>
    /\ ~walk.repeated
    /\ ~walk.ended => Before(walk.next, walk.perPage) <= Cardinality(walk.shown)
    /\ \A i \in walk.shown \cap Listed : Rank(i) < Before(walk.next, walk.perPage)
    /\ reading = "commit" =>
         /\ walk.shown \cap DOMAIN page = {}
         /\ \A i \in DOMAIN page \cap Listed :
              Rank(i) < Before(walk.next + 1, walk.perPage)

\* Without deletions the rows still due stay at or behind the next page.
DueBehind ==
  walk # None /\ ~walk.shrank =>
    /\ walk.due \subseteq Listed
    /\ walk.ended => walk.due \subseteq walk.shown
    /\ \A i \in walk.due \ walk.shown :
         /\ Rank(i) >= Before(walk.next, walk.perPage)
         /\ reading = "commit" /\ i \notin DOMAIN page =>
              /\ Rank(i) >= Before(walk.next + 1, walk.perPage)
              /\ Cardinality(DOMAIN page) >= walk.perPage

ReadsInv == InOrder /\ CountOK /\ QuietOK /\ WalkOK /\ ShownBefore /\ DueBehind

=============================================================================
