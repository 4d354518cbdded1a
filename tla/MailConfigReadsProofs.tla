----------------------- MODULE MailConfigReadsProofs -----------------------
(***************************************************************************)
(* The listing, for every set of tenants, rows, sessions and page sizes:   *)
(* it leaves the repository alone, a page is never torn, and what a client *)
(* that goes from page to page may miss or see twice.                      *)
(***************************************************************************)
EXTENDS MailConfigReads, MailConfigRepositoryRefinement

LEMMA ListingReadsOnly == Listing => UNCHANGED vars
  BY DEF Listing, List, ListBegin, CountRows, SelectPage, ListCommit, ListFails,
         ListCollected

LEMMA ReadsStepIsNext == [ReadsNext]_readsVars => [Next]_vars
<1> SUFFICES ASSUME [ReadsNext]_readsVars PROVE [Next]_vars
  OBVIOUS
<1>1. CASE UNCHANGED readsVars
  BY <1>1 DEF readsVars
<1>2. CASE Writers
  BY <1>2 DEF Writers, Next
<1>3. CASE Listing
  BY <1>3, ListingReadsOnly
<1>4. CASE Restart
  BY <1>4 DEF Restart, Next
<1> QED
  BY <1>1, <1>2, <1>3, <1>4 DEF ReadsNext

\* A listing changes no row and holds none: with listings among its calls the
\* repository still does only what its specification says.
THEOREM ReadsAreRepository == ReadsSpec => Spec
<1>1. ReadsInit => Init
  BY DEF ReadsInit
<1> QED
  BY <1>1, ReadsStepIsNext, PTL DEF ReadsSpec, Spec

\* So a page shows a table that atomic changes made, whatever writes next to it.
THEOREM ListedTableIsTable == ReadsSpec => ImplementsTable
  BY ReadsAreRepository, ConcurrentIsTable, PTL

\* What one statement returns: rows of one committed state.
LEMMA SelectedPage ==
  ASSUME NamesUnique, SelectPage
  PROVE  PageTrue'
<1>1. page' = [i \in Slice |-> db[i]]
  BY DEF SelectPage
<1>2. \A i \in Slice : i \in Ids /\ Live(db[i]) /\ db[i].tenant = Reader
  BY DEF Slice, Listed, LiveOf
<1>3. DOMAIN page' = Slice /\ \A i \in Slice : page'[i] = db[i]
  BY <1>1
<1>4. \A i, j \in Slice : SameKey(page'[i], page'[j]) => i = j
  BY <1>2, <1>3 DEF NamesUnique
<1> QED
  BY <1>2, <1>3, <1>4 DEF PageTrue

LEMMA PageTrueStep == NamesUnique /\ PageTrue /\ [ReadsNext]_readsVars => PageTrue'
<1> SUFFICES ASSUME NamesUnique, PageTrue, [ReadsNext]_readsVars PROVE PageTrue'
  OBVIOUS
<1>1. CASE UNCHANGED page
  BY <1>1 DEF PageTrue
<1>2. CASE page' = NoPage
  BY <1>2 DEF PageTrue, NoPage
<1>3. CASE SelectPage
  BY <1>3, SelectedPage
<1>4. UNCHANGED page \/ page' = NoPage \/ SelectPage
  BY DEF ReadsNext, readsVars, listing, Writers, Restart, Listing, List, ListBegin,
         CountRows, ListCommit, ListFails, ListCollected, Idle
<1> QED
  BY <1>1, <1>2, <1>3, <1>4

\* A page never mixes tenants, shows a deleted configuration or a name twice.
THEOREM PagesTrue == ReadsSpec => []PageTrue
<1>1. ReadsInit => PageTrue
  BY DEF ReadsInit, PageTrue, NoPage
<1>2. ReadsSpec => []NamesUnique
  BY ReadsAreRepository, NamesStayUnique, PTL
<1> QED
  BY <1>1, <1>2, PageTrueStep, PTL DEF ReadsSpec

-----------------------------------------------------------------------------
(* Types.                                                                  *)

LEMMA MaxOfTwo ==
  ASSUME NEW a \in Int, NEW b \in Int
  PROVE  Max({a, b}) = IF a >= b THEN a ELSE b
BY DEF Max

LEMMA MinOfTwo ==
  ASSUME NEW a \in Int, NEW b \in Int
  PROVE  Min({a, b}) = IF a <= b THEN a ELSE b
BY DEF Min

\* Whatever the query asks for, the page and its size are within bounds.
LEMMA BoundedType ==
  ASSUME NEW p \in Pages, NEW n \in Sizes
  PROVE  Bounded(p, n) \in [page : 1..MaxInt, perPage : 1..SizeLimit]
<1>1. Given(p, 1) \in Int /\ Given(p, 1) <= MaxInt /\ Given(n, DefaultSize) \in Int
  BY ReadsAssumption DEF Given
<1>2. Max({Given(p, 1), 1}) \in 1..MaxInt
  BY <1>1, MaxOfTwo, ReadsAssumption
<1>3. Max({Given(n, DefaultSize), 1}) \in Nat \ {0}
  BY <1>1, MaxOfTwo
<1>4. Min({Max({Given(n, DefaultSize), 1}), SizeLimit}) \in 1..SizeLimit
  BY <1>3, MinOfTwo, ReadsAssumption
<1> QED
  BY <1>2, <1>4 DEF Bounded

LEMMA ListedType == IsFiniteSet(Listed) /\ Cardinality(Listed) \in 0..Cardinality(Ids) /\ Cardinality(Ids) \in Nat
<1>1. Listed \in SUBSET Ids
  BY DEF Listed, LiveOf
<1> QED
  BY <1>1, IdsAssumption, FS_Subset, FS_CardinalityType

LEMMA ReadsTypeStep ==
  ASSUME TypeOK, ReadsTypeOK, [ReadsNext]_readsVars
  PROVE  ReadsTypeOK'
<1>1. older' \in [Ids -> SUBSET Ids]
  BY DEF ReadsTypeOK, ReadsNext, readsVars, listing, Writers, Restart, Listing, List, ListBegin,
         CountRows, SelectPage, ListCommit, ListFails, ListCollected, Timestamp
<1>2. CASE UNCHANGED <<older, listing, quiet>>
  BY <1>2 DEF ReadsTypeOK, listing
<1>3. CASE Writers
  BY <1>1, <1>3 DEF ReadsTypeOK, Writers, Observed
<1>4. CASE Restart
  BY <1>1, <1>4 DEF ReadsTypeOK, Restart, Idle, NoPage
<1>5. CASE List
  BY <1>1, <1>5, BoundedType DEF ReadsTypeOK, List
<1>6. CASE CountRows
  BY <1>1, <1>6, ListedType DEF ReadsTypeOK, CountRows
<1>7. CASE SelectPage
  <2>1. Slice \subseteq Ids /\ \A i \in Slice : db[i] \in Row
    BY DEF Slice, Listed, LiveOf, Live, TypeOK
  <2>2. DOMAIN page' = Slice /\ \A i \in Slice : page'[i] = db[i]
    BY <1>7 DEF SelectPage
  <2> QED
    BY <1>1, <1>7, <2>1, <2>2 DEF ReadsTypeOK, SelectPage
<1>8. CASE ListBegin \/ ListCommit
  BY <1>1, <1>8 DEF ReadsTypeOK, ListBegin, ListCommit
<1>9. DOMAIN NoPage = {}
  BY DEF NoPage
<1>10. CASE ListFails
  BY <1>1, <1>9, <1>10 DEF ReadsTypeOK, ListFails
<1>11. CASE ListCollected
  BY <1>1, <1>9, <1>11 DEF ReadsTypeOK, ListCollected, Idle
<1> QED
  BY <1>2, <1>3, <1>4, <1>5, <1>6, <1>7, <1>8, <1>10, <1>11 DEF ReadsNext, readsVars, Listing

\* The page asked for is within bounds, and what is at hand is what the stage
\* calls for.
THEOREM ReadsTypeCorrect == ReadsSpec => []ReadsTypeOK
<1>1. ReadsInit => ReadsTypeOK
  BY DEF ReadsInit, ReadsTypeOK, NoPage
<1>2. ReadsSpec => []TypeOK
  BY ReadsAreRepository, TypeCorrect, PTL
<1> QED
  BY <1>1, <1>2, ReadsTypeStep, PTL DEF ReadsSpec

-----------------------------------------------------------------------------
(* The order of creation.                                                  *)

\* At most one creation begins at a time.
LEMMA NewlyPlaced ==
  ASSUME IInv, [Next]_vars
  PROVE  \A i, j \in Ids :
           ~Placed(i) /\ Placed(i)' /\ ~Placed(j) /\ Placed(j)' => i = j
<1>1. TypeOK
  BY DEF IInv, Inv
<1>2. CASE UNCHANGED vars
  BY <1>2 DEF vars, Placed, InTx
<1>3. ASSUME NEW s \in Sessions, Work(s) \/ Fault(s)
      PROVE  \A i \in Ids : ~Placed(i) /\ Placed(i)' => i = call[s].id
  <2> SUFFICES ASSUME NEW i \in Ids, ~Placed(i), Placed(i)'
               PROVE  i = call[s].id
    OBVIOUS
  <2>1. UnderWay(s)
    BY <1>1, <1>3, WorkUnderWay
  <2>2. CASE db'[i] # None
    <3>1. db'[i] # db[i]
      BY <2>2 DEF Placed
    <3>2. PICK v \in Sessions : pc[v] = "commit" /\ db' = Merged(v)
      BY <3>1, OnlyCommits
    <3>3. i = call[v].id
      BY <3>1, <3>2, CommittedVersion DEF Placed, OtherVersion, OfTenant, Live
    <3>4. CASE v = s
      BY <3>3, <3>4
    <3>5. CASE call[v].op = "create"
      BY <3>2, <3>3, <3>5 DEF Placed, InTx, Statements
    <3> QED
      BY <3>1, <3>2, <3>3, <3>4, <3>5, CommittedVersion DEF Placed, OwnVersion, Live
  <2>3. CASE db'[i] = None
    <3>1. PICK v \in Sessions : InTx(v)' /\ call'[v].op = "create" /\ call'[v].id = i
      BY <2>3 DEF Placed
    <3> QED
      BY <2>1, <3>1 DEF UnderWay, Placed, InTx
  <2> QED
    BY <2>2, <2>3
<1>4. ASSUME NEW s \in Sessions, Invoke(s) \/ Collect(s)
      PROVE  \A i \in Ids : Placed(i)' => Placed(i)
  <2>1. db' = db /\ \A v \in Sessions : InTx(v)' => InTx(v) /\ call'[v] = call[v]
    BY <1>1, <1>4 DEF Invoke, Start, Collect, Goto, InTx, TypeOK, Statements
  <2> QED
    BY <2>1 DEF Placed
<1>5. ASSUME NEW S \in SUBSET Sessions, Drop(S)
      PROVE  \A i \in Ids : Placed(i)' => Placed(i)
  <2>1. db' = db /\ \A v \in Sessions : InTx(v)' => InTx(v) /\ call'[v] = call[v]
    BY <1>5 DEF Drop, InTx, Statements
  <2> QED
    BY <2>1 DEF Placed
<1> QED
  BY <1>2, <1>3, <1>4, <1>5 DEF Next, Step, Abandon, Crash

LEMMA OlderSame ==
  ASSUME Timestamp, NEW i \in Ids, NEW j \in Ids,
         Placed(i), Placed(j), Placed(i)', Placed(j)'
  PROVE  i \in older'[j] <=> i \in older[j]
BY DEF Timestamp

LEMMA InOrderStamp ==
  ASSUME IInv, InOrder, [Next]_vars, Timestamp
  PROVE  InOrder'
<1>1. \A i, j \in Ids :
        i \in older'[j] <=> /\ Placed(i)' /\ Placed(j)'
                            /\ IF Placed(j) THEN i \in older[j] ELSE Placed(i)
  BY DEF Timestamp
<1> QED
  BY <1>1, NewlyPlaced DEF InOrder

LEMMA InOrderStep ==
  ASSUME IInv, InOrder, [ReadsNext]_readsVars
  PROVE  InOrder'
<1>1. CASE UNCHANGED <<vars, older>>
  BY <1>1 DEF InOrder, Placed, InTx, vars
<1>2. CASE Writers \/ Restart
  BY <1>2, InOrderStamp, ReadsStepIsNext DEF Writers, Restart
<1> QED
  BY <1>1, <1>2 DEF ReadsNext, readsVars, Listing, List, ListBegin, CountRows, SelectPage,
                    ListCommit, ListFails, ListCollected

-----------------------------------------------------------------------------
(* Ranks: how many rows come before one on the list.                       *)

LEMMA RankType ==
  ASSUME InOrder, NEW i \in Listed
  PROVE  Rank(i) \in 0 .. Cardinality(Listed) - 1
<1> DEFINE newer == {j \in Listed : i \in older[j]}
<1>1. newer \in SUBSET Listed /\ i \notin newer
  BY DEF InOrder, Listed, LiveOf
<1>2. IsFiniteSet(newer) /\ Cardinality(newer) <= Cardinality(Listed)
      /\ Cardinality(newer) # Cardinality(Listed)
  BY <1>1, ListedType, FS_Subset
<1> QED
  BY <1>2, ListedType, FS_CardinalityType DEF Rank

LEMMA RankBelow ==
  ASSUME InOrder, NEW i \in Listed, NEW j \in Listed, i \in older[j]
  PROVE  Rank(j) < Rank(i)
<1> DEFINE A == {k \in Listed : j \in older[k]}
           B == {k \in Listed : i \in older[k]}
<1>1. A \in SUBSET B /\ j \in B /\ j \notin A
  BY DEF InOrder, Listed, LiveOf
<1>2. B \in SUBSET Listed /\ A \in SUBSET Listed
  OBVIOUS
<1>3. IsFiniteSet(B) /\ IsFiniteSet(A)
  BY <1>2, ListedType, FS_Subset
<1>4. Cardinality(A) <= Cardinality(B) /\ Cardinality(A) # Cardinality(B)
  BY <1>1, <1>3, FS_Subset
<1> QED
  BY <1>3, <1>4, FS_CardinalityType DEF Rank

\* Different rows have different ranks.
LEMMA RankInjective ==
  ASSUME InOrder, NEW i \in Listed, NEW j \in Listed, i # j
  PROVE  Rank(i) # Rank(j)
<1>1. Placed(i) /\ Placed(j) /\ i \in Ids /\ j \in Ids
  BY DEF Listed, LiveOf, Live, Placed
<1>2. i \in older[j] \/ j \in older[i]
  BY <1>1 DEF InOrder
<1> QED
  BY <1>2, RankBelow, RankType

\* Every rank below the number of rows is some row's.
LEMMA RankOnto ==
  ASSUME InOrder, NEW r \in 0 .. Cardinality(Listed) - 1
  PROVE  \E i \in Listed : Rank(i) = r
<1> DEFINE n == Cardinality(Listed)
           f == [i \in Listed |-> Rank(i)]
<1>1. n \in Nat
  BY ListedType
<1>2. f \in Injection(Listed, 0 .. n - 1)
  BY RankType, RankInjective DEF Injection, IsInjective
<1>3. IsFiniteSet(0 .. n - 1) /\ Cardinality(0 .. n - 1) = n
  BY <1>1, FS_Interval
<1>4. f \in Surjection(Listed, 0 .. n - 1)
  <2> HIDE DEF f
  <2> QED
    BY <1>2, <1>3, FS_Injection
<1> QED
  BY <1>4 DEF Surjection

\* The rows of a page are as many as the ranks it asks for and there are.
LEMMA RowsBetween ==
  ASSUME InOrder, NEW k \in Nat, NEW p \in Nat \ {0}
  PROVE  LET n    == Cardinality(Listed)
             rows == {i \in Listed : Rank(i) \in k .. k + p - 1}
         IN  /\ IsFiniteSet(rows)
             /\ Cardinality(rows) = IF n >= k + p THEN p ELSE IF n > k THEN n - k ELSE 0
<1> DEFINE n == Cardinality(Listed)
           rows == {i \in Listed : Rank(i) \in k .. k + p - 1}
           last == IF n >= k + p THEN k + p - 1 ELSE n - 1
           f == [i \in rows |-> Rank(i)]
<1>1. n \in Nat /\ last \in Int
  BY ListedType
<1>2. \A i \in rows : Rank(i) \in k .. last
  BY <1>1, RankType
<1>3. \A r \in k .. last : \E i \in rows : Rank(i) = r
  <2> SUFFICES ASSUME NEW r \in k .. last PROVE \E i \in rows : Rank(i) = r
    OBVIOUS
  <2>1. r \in 0 .. n - 1 /\ r \in k .. k + p - 1
    BY <1>1
  <2> QED
    BY <2>1, RankOnto
<1>4. f \in Bijection(rows, k .. last)
  <2>1. f \in [rows -> k .. last]
    BY <1>2
  <2>2. \A i, j \in rows : f[i] = f[j] => i = j
    BY RankInjective
  <2>3. \A r \in k .. last : \E i \in rows : f[i] = r
    BY <1>3
  <2> HIDE DEF f, rows, last
  <2> QED
    BY <2>1, <2>2, <2>3 DEF Bijection, Injection, Surjection, IsInjective
<1>5. IsFiniteSet(rows)
  <2>1. rows \in SUBSET Listed
    OBVIOUS
  <2> QED
    BY <2>1, ListedType, FS_Subset
<1>6. Cardinality(rows) = Cardinality(k .. last)
  <2>1. ExistsBijection(rows, k .. last)
    BY <1>4 DEF ExistsBijection
  <2> HIDE DEF rows, last
  <2> QED
    BY <2>1, <1>5, FS_Bijection
<1>7. Cardinality(k .. last) = IF k > last THEN 0 ELSE last - k + 1
  <2> HIDE DEF last
  <2> QED
    BY <1>1, FS_Interval
<1> QED
  BY <1>1, <1>5, <1>6, <1>7

\* Commits that bring no row forward leave no row with a higher rank.
LEMMA RankShrinks ==
  ASSUME InOrder, Timestamp, Listed' \subseteq Listed, NEW i \in Listed, i \in Listed'
  PROVE  Rank(i)' \in Nat /\ Rank(i)' <= Rank(i)
<1> DEFINE now == {j \in Listed : i \in older[j]}
           then == {j \in Listed' : i \in older'[j]}
<1>1. \A j \in Listed' : Placed(j) /\ Placed(j)' /\ j \in Ids
  BY DEF Listed, LiveOf, Live, Placed
<1>2. then \in SUBSET now
  BY <1>1, OlderSame
<1>3. IsFiniteSet(now)
  <2>1. now \in SUBSET Listed
    OBVIOUS
  <2> QED
    BY <2>1, ListedType, FS_Subset
<1>4. Cardinality(then) <= Cardinality(now) /\ Cardinality(then) \in Nat
  BY <1>2, <1>3, FS_Subset, FS_CardinalityType
<1> QED
  BY <1>4 DEF Rank

\* Commits that take no row away leave no row with a lower rank.
LEMMA RankGrows ==
  ASSUME InOrder, Timestamp, Listed \subseteq Listed', NEW i \in Listed
  PROVE  Rank(i)' \in Nat /\ Rank(i)' >= Rank(i)
<1> DEFINE now == {j \in Listed : i \in older[j]}
           then == {j \in Listed' : i \in older'[j]}
<1>1. \A j \in Listed : Placed(j) /\ Placed(j)' /\ j \in Ids
  BY DEF Listed, LiveOf, Live, Placed
<1>2. now \in SUBSET then
  BY <1>1, OlderSame
<1>3. IsFiniteSet(then)
  <2>1. then \in SUBSET Ids
    BY DEF Listed, LiveOf
  <2> QED
    BY <2>1, IdsAssumption, FS_Subset
<1>4. Cardinality(now) <= Cardinality(then) /\ IsFiniteSet(now)
  BY <1>2, <1>3, FS_Subset
<1>5. Cardinality(now) \in Nat /\ Cardinality(then) \in Nat
  BY <1>3, <1>4, FS_CardinalityType
<1> QED
  BY <1>4, <1>5 DEF Rank

-----------------------------------------------------------------------------
(* Offsets.                                                                *)

LEMMA InWidth ==
  ASSUME NEW x \in 0 .. MaxInt
  PROVE  Wrapped(x) = x
<1> DEFINE m == 2 * (MaxInt + 1)
<1>1. MaxInt \in Nat /\ m \in Nat \ {0} /\ x + MaxInt + 1 \in 0 .. m - 1
  BY ReadsAssumption
<1>2. \A y \in 0 .. m - 1 : y % m = y
  <2> HIDE DEF m
  <2> QED
    BY <1>1
<1> QED
  BY <1>1, <1>2 DEF Wrapped

LEMMA BeforeType ==
  ASSUME NEW n \in Nat \ {0}, NEW p \in Nat \ {0}
  PROVE  /\ Before(n, p) \in Nat
         /\ Before(n + 1, p) = Before(n, p) + p
         /\ Before(1, p) = 0
BY DEF Before

\* The page that is asked for is between two ranks, if its offset fits.
LEMMA SliceBetween ==
  ASSUME ReadsTypeOK, reading # "idle", Before(asked.page, asked.perPage) <= MaxInt
  PROVE  LET k == Before(asked.page, asked.perPage)
         IN  Slice = {i \in Listed : Rank(i) \in k .. k + asked.perPage - 1}
<1>1. asked.page \in Nat \ {0} /\ asked.perPage \in Nat \ {0} /\ MaxInt \in Nat
  BY ReadsAssumption DEF ReadsTypeOK
<1>2. Before(asked.page, asked.perPage) \in 0 .. MaxInt
  <2>1. Before(asked.page, asked.perPage) \in Nat
    BY <1>1, BeforeType
  <2> QED
    BY <1>1, <2>1
<1>3. Offset = Before(asked.page, asked.perPage)
  BY <1>2, InWidth DEF Offset, Before
<1> QED
  BY <1>3 DEF Slice

-----------------------------------------------------------------------------
(* A client that goes from page to page.                                   *)

LEMMA RankSame ==
  ASSUME UNCHANGED <<db, older>>
  PROVE  Listed' = Listed /\ \A i \in Ids : Rank(i)' = Rank(i)
BY DEF Listed, LiveOf, Rank

LEMMA ListedIds == Listed \subseteq Ids
BY DEF Listed, LiveOf

\* Steps that show the client nothing.
LEMMA WalkKept ==
  ASSUME WalkOK, ShownBefore, DueBehind,
         Listed' = Listed, \A i \in Listed : Rank(i)' = Rank(i),
         reading' # "commit",
         walk' # None => walk' = walk /\ ~walk.ended,
         walk' # None /\ reading' \in {"begin", "count", "page"} => OnWalk(walk, asked)'
  PROVE  WalkOK' /\ ShownBefore' /\ DueBehind'
<1>1. CASE walk' = None
  BY <1>1 DEF WalkOK, ShownBefore, DueBehind
<1>2. CASE walk' # None
  <2>1. walk' = walk /\ walk # None /\ walk \in Walk /\ ~walk.ended
    BY <1>2 DEF WalkOK
  <2>2. WalkOK'
    BY <1>2, <2>1 DEF WalkOK
  <2>3. ShownBefore'
    BY <1>2, <2>1 DEF ShownBefore
  <2>4. DueBehind'
    BY <1>2, <2>1 DEF DueBehind
  <2> QED
    BY <2>2, <2>3, <2>4
<1> QED
  BY <1>1, <1>2

LEMMA WalkWriters ==
  ASSUME ReadsTypeOK, ReadsInv, Writers
  PROVE  WalkOK' /\ ShownBefore' /\ DueBehind'
<1>1. UNCHANGED <<reading, asked, page>> /\ walk' = Passed(walk) /\ Timestamp
  BY DEF Writers
<1>2. CASE walk = None
  BY <1>1, <1>2 DEF Passed, WalkOK, ShownBefore, DueBehind
<1>3. CASE walk # None
  <2>1. walk \in Walk
    BY <1>3 DEF ReadsInv, WalkOK
  <2>2. walk' = [walk EXCEPT !.grew = walk.grew \/ ~(Listed' \subseteq Listed),
                             !.shrank = walk.shrank \/ ~(Listed \subseteq Listed')]
    BY <1>1, <1>3 DEF Passed, Listed
  <2>3. /\ walk' \in Walk
        /\ walk'.perPage = walk.perPage /\ walk'.next = walk.next
        /\ walk'.due = walk.due /\ walk'.shown = walk.shown
        /\ walk'.repeated = walk.repeated /\ walk'.ended = walk.ended
        /\ ~walk'.grew => ~walk.grew /\ Listed' \subseteq Listed
        /\ ~walk'.shrank => ~walk.shrank /\ Listed \subseteq Listed'
    BY <2>1, <2>2 DEF Walk
  <2>4. Before(walk.next, walk.perPage) \in Nat /\ Before(walk.next + 1, walk.perPage) \in Nat
    <3>1. walk.next \in Nat \ {0} /\ walk.next + 1 \in Nat \ {0} /\ walk.perPage \in Nat \ {0}
      BY <2>1, ReadsAssumption DEF Walk
    <3> QED
      BY <3>1, BeforeType
  <2>5. WalkOK'
    BY <1>1, <1>3, <2>3 DEF ReadsInv, WalkOK, OnWalk
  <2>6. ShownBefore'
    <3> SUFFICES ASSUME ~walk'.grew PROVE ShownBefore'
      BY DEF ShownBefore
    <3>1. \A i \in Listed' : Rank(i) \in Nat /\ Rank(i)' \in Nat /\ Rank(i)' <= Rank(i) /\ i \in Listed
      BY <1>1, <2>3, RankShrinks, RankType DEF ReadsInv
    <3>2. ShownBefore
      BY DEF ReadsInv
    <3>3. \A i \in walk.shown \cap Listed' : Rank(i)' < Before(walk.next, walk.perPage)
      BY <1>3, <2>3, <2>4, <3>1, <3>2 DEF ShownBefore
    <3>4. reading = "commit" => \A i \in DOMAIN page \cap Listed' :
                                  Rank(i)' < Before(walk.next + 1, walk.perPage)
      BY <1>3, <2>3, <2>4, <3>1, <3>2 DEF ShownBefore
    <3> QED
      BY <1>1, <1>3, <2>3, <3>2, <3>3, <3>4 DEF ShownBefore
  <2>7. DueBehind'
    <3> SUFFICES ASSUME ~walk'.shrank PROVE DueBehind'
      BY DEF DueBehind
    <3>1. \A i \in Listed : Rank(i) \in Nat /\ Rank(i)' \in Nat /\ Rank(i)' >= Rank(i)
      BY <1>1, <2>3, RankGrows, RankType DEF ReadsInv
    <3>2. DueBehind
      BY DEF ReadsInv
    <3>3. \A i \in walk.due \ walk.shown :
            /\ Rank(i)' >= Before(walk.next, walk.perPage)
            /\ reading = "commit" /\ i \notin DOMAIN page =>
                 /\ Rank(i)' >= Before(walk.next + 1, walk.perPage)
                 /\ Cardinality(DOMAIN page) >= walk.perPage
      BY <1>3, <2>3, <2>4, <3>1, <3>2 DEF DueBehind
    <3> QED
      BY <1>1, <1>3, <2>3, <3>2, <3>3 DEF DueBehind
  <2> QED
    BY <2>5, <2>6, <2>7
<1> QED
  BY <1>2, <1>3

\* The rows of a page that fits, and the rows behind it.
LEMMA SelectedRanks ==
  ASSUME ReadsTypeOK, InOrder, SelectPage, Before(asked.page, asked.perPage) <= MaxInt
  PROVE  LET k == Before(asked.page, asked.perPage)
             n == Cardinality(Listed)
         IN  /\ DOMAIN page' \subseteq Listed
             /\ \A i \in DOMAIN page' : Rank(i) >= k /\ Rank(i) < k + asked.perPage
             /\ \A i \in Listed \ DOMAIN page' : Rank(i) < k \/ Rank(i) >= k + asked.perPage
             /\ Cardinality(DOMAIN page') =
                  IF n >= k + asked.perPage THEN asked.perPage ELSE IF n > k THEN n - k ELSE 0
<1>0. InOrder
  OBVIOUS
<1>1. asked.page \in Nat \ {0} /\ asked.perPage \in Nat \ {0} /\ reading = "page"
  BY ReadsAssumption DEF ReadsTypeOK, SelectPage
<1>2. Before(asked.page, asked.perPage) \in Nat
  BY <1>1, BeforeType
<1> DEFINE k == Before(asked.page, asked.perPage)
<1>3. DOMAIN page' = {i \in Listed : Rank(i) \in k .. k + asked.perPage - 1}
  BY <1>1, SliceBetween DEF SelectPage
<1>4. \A i \in Listed : Rank(i) \in Nat
  BY RankType
<1>5. Cardinality(DOMAIN page') =
        IF Cardinality(Listed) >= k + asked.perPage THEN asked.perPage
        ELSE IF Cardinality(Listed) > k THEN Cardinality(Listed) - k ELSE 0
  <2> DEFINE p == asked.perPage
  <2>1. k \in Nat /\ p \in Nat \ {0} /\ DOMAIN page' = {i \in Listed : Rank(i) \in k .. k + p - 1}
    BY <1>1, <1>2, <1>3
  <2> HIDE DEF k, p
  <2>2. Cardinality(DOMAIN page') =
          IF Cardinality(Listed) >= k + p THEN p
          ELSE IF Cardinality(Listed) > k THEN Cardinality(Listed) - k ELSE 0
    <3>1. Cardinality({i \in Listed : Rank(i) \in k .. k + p - 1}) =
            IF Cardinality(Listed) >= k + p THEN p
            ELSE IF Cardinality(Listed) > k THEN Cardinality(Listed) - k ELSE 0
      BY <1>0, <2>1, RowsBetween, Zenon
    <3> QED
      BY <2>1, <3>1, Zenon
  <2> QED
    BY <2>2 DEF p
<1> QED
  BY <1>1, <1>2, <1>3, <1>4, <1>5

LEMMA WalkSelect ==
  ASSUME ReadsTypeOK, ReadsInv, SelectPage
  PROVE  WalkOK' /\ ShownBefore' /\ DueBehind'
<1>1. /\ asked.page \in Nat \ {0} /\ asked.perPage \in 1..SizeLimit /\ asked.perPage \in Nat \ {0}
      /\ reading = "page" /\ reading' = "commit"
      /\ UNCHANGED <<db, older, asked>>
      /\ MaxInt \in Nat /\ Cardinality(Ids) <= MaxInt
  BY ReadsAssumption DEF ReadsTypeOK, SelectPage, vars
<1>2. InOrder
  BY DEF ReadsInv
<1>3. Listed' = Listed /\ \A i \in Ids : Rank(i)' = Rank(i)
  BY <1>1, RankSame
<1>4. Cardinality(Listed) \in Nat /\ Cardinality(Listed) <= MaxInt /\ \A i \in Listed : Rank(i) \in Nat /\ Rank(i) < Cardinality(Listed)
  BY <1>1, <1>2, ListedType, RankType
<1> DEFINE k == Before(asked.page, asked.perPage)
<1>5. k \in Nat /\ Before(asked.page + 1, asked.perPage) = k + asked.perPage
  BY <1>1, BeforeType
<1>6. CASE asked.page = 1
  <2>1. walk' = Started
    BY <1>6 DEF SelectPage
  <2>2. /\ walk' \in Walk /\ ~walk'.ended /\ ~walk'.repeated
        /\ walk'.perPage = asked.perPage /\ walk'.next = 1
        /\ walk'.due = Listed /\ walk'.shown = {}
    BY <2>1, <1>1, ListedIds DEF Started, Walk
  <2>3. k = 0
    BY <1>1, <1>6, BeforeType
  <2>4. /\ DOMAIN page' \subseteq Listed
        /\ \A i \in DOMAIN page' : Rank(i) < asked.perPage
        /\ \A i \in Listed \ DOMAIN page' :
             /\ Rank(i) >= asked.perPage
             /\ Cardinality(DOMAIN page') >= asked.perPage
    BY <1>1, <1>2, <1>4, <2>3, SelectedRanks
  <2>5. Cardinality({}) = 0
    BY FS_EmptySet
  <2>6. WalkOK'
    BY <1>1, <1>6, <2>2 DEF WalkOK, OnWalk
  <2>7. ShownBefore'
    BY <1>1, <1>3, <1>5, <1>6, <2>2, <2>3, <2>4, <2>5, ListedIds DEF ShownBefore
  <2>8. DueBehind'
    BY <1>1, <1>3, <1>4, <1>5, <1>6, <2>2, <2>3, <2>4, ListedIds DEF DueBehind
  <2> QED
    BY <2>6, <2>7, <2>8
<1>7. CASE asked.page # 1 /\ walk = None
  BY <1>7 DEF SelectPage, WalkOK, ShownBefore, DueBehind
<1>8. CASE asked.page # 1 /\ walk # None
  <2>1. walk' = walk
    BY <1>8 DEF SelectPage
  <2>2. walk \in Walk /\ ~walk.ended /\ walk.next = asked.page /\ walk.perPage = asked.perPage
    BY <1>1, <1>8 DEF ReadsInv, WalkOK, OnWalk
  <2>3. WalkOK'
    BY <1>1, <2>1, <2>2 DEF WalkOK, OnWalk
  <2>4. ShownBefore'
    <3> SUFFICES ASSUME ~walk.grew PROVE ShownBefore'
      BY <2>1 DEF ShownBefore
    <3>1. /\ ~walk.repeated
          /\ k <= Cardinality(walk.shown)
          /\ \A i \in walk.shown \cap Listed : Rank(i) < k
      BY <1>8, <2>2 DEF ReadsInv, ShownBefore
    <3>2. Cardinality(walk.shown) \in Nat /\ Cardinality(walk.shown) <= Cardinality(Ids)
          /\ Cardinality(Ids) \in Nat
      BY <2>2, IdsAssumption, FS_Subset, FS_CardinalityType DEF Walk
    <3>3. k <= MaxInt
      BY <1>1, <1>5, <3>1, <3>2
    <3>4. /\ DOMAIN page' \subseteq Listed
          /\ \A i \in DOMAIN page' : Rank(i) >= k /\ Rank(i) < k + asked.perPage
      BY <1>2, <3>3, SelectedRanks
    <3>5. walk.shown \cap DOMAIN page' = {}
      BY <1>4, <1>5, <3>1, <3>4
    <3> QED
      BY <1>1, <1>3, <1>5, <2>1, <2>2, <3>1, <3>4, <3>5, ListedIds DEF ShownBefore
  <2>5. DueBehind'
    <3> SUFFICES ASSUME ~walk.shrank PROVE DueBehind'
      BY <2>1 DEF DueBehind
    <3>1. walk.due \subseteq Listed /\ \A i \in walk.due \ walk.shown : Rank(i) >= k
      BY <1>8, <2>2 DEF ReadsInv, DueBehind
    <3>2. ASSUME NEW i \in walk.due \ walk.shown, i \notin DOMAIN page'
          PROVE  Rank(i) >= k + asked.perPage /\ Cardinality(DOMAIN page') >= asked.perPage
      <4>1. i \in Listed /\ Rank(i) >= k /\ k <= MaxInt
        BY <1>1, <1>4, <1>5, <3>1, <3>2
      <4>2. Rank(i) >= k + asked.perPage
        BY <1>2, <1>4, <1>5, <3>2, <4>1, SelectedRanks
      <4>3. Cardinality(Listed) >= k + asked.perPage
        BY <1>1, <1>4, <1>5, <4>1, <4>2
      <4> QED
        BY <1>1, <1>2, <4>1, <4>2, <4>3, SelectedRanks
    <3> QED
      BY <1>1, <1>3, <1>5, <2>1, <2>2, <3>1, <3>2, ListedIds DEF DueBehind
  <2> QED
    BY <2>3, <2>4, <2>5
<1> QED
  BY <1>6, <1>7, <1>8

LEMMA WalkCommit ==
  ASSUME ReadsTypeOK, ReadsInv, ListCommit
  PROVE  WalkOK' /\ ShownBefore' /\ DueBehind'
<1>1. /\ reading = "commit" /\ reading' = "ok"
      /\ UNCHANGED <<db, older, asked, page>>
      /\ DOMAIN page \in SUBSET Ids
  BY DEF ReadsTypeOK, ListCommit, vars
<1>2. Listed' = Listed /\ \A i \in Ids : Rank(i)' = Rank(i)
  BY <1>1, RankSame
<1>3. CASE walk = None
  BY <1>3 DEF ListCommit, WalkOK, ShownBefore, DueBehind
<1>4. CASE walk # None
  <2>1. walk \in Walk /\ ~walk.ended /\ walk.perPage = asked.perPage /\ asked.perPage \in Nat \ {0}
        /\ walk.next \in Nat \ {0} /\ walk.shown \in SUBSET Ids
    BY <1>1, <1>4, ReadsAssumption DEF ReadsInv, WalkOK, OnWalk, Walk, ReadsTypeOK
  <2>2. walk' = Delivered
    BY <1>4 DEF ListCommit
  <2>3. /\ walk' \in Walk
        /\ walk'.perPage = walk.perPage /\ walk'.next = walk.next + 1 /\ walk'.due = walk.due
        /\ walk'.shown = walk.shown \cup DOMAIN page
        /\ walk'.grew = walk.grew /\ walk'.shrank = walk.shrank
        /\ walk'.repeated <=> walk.repeated \/ walk.shown \cap DOMAIN page # {}
        /\ walk'.ended <=> Cardinality(DOMAIN page) < asked.perPage
    <3> DEFINE all == walk.shown \cup DOMAIN page
    <3>1. PICK again \in BOOLEAN : again = (walk.repeated \/ walk.shown \cap DOMAIN page # {})
      OBVIOUS
    <3>2. PICK last \in BOOLEAN : last = (Cardinality(DOMAIN page) < asked.perPage)
      <4>1. (Cardinality(DOMAIN page) < asked.perPage) \in BOOLEAN
        OBVIOUS
      <4> QED
        BY <4>1, Zenon
    <3>3. walk' = [walk EXCEPT !.next = walk.next + 1, !.shown = all, !.repeated = again, !.ended = last]
      BY <2>2, <3>1, <3>2 DEF Delivered
    <3>4. walk.next + 1 \in Nat \ {0} /\ all \in SUBSET Ids /\ walk \in Walk
      BY <1>1, <2>1
    <3>5. /\ walk' \in Walk
          /\ walk'.perPage = walk.perPage /\ walk'.next = walk.next + 1 /\ walk'.due = walk.due
          /\ walk'.shown = all
          /\ walk'.grew = walk.grew /\ walk'.shrank = walk.shrank
          /\ walk'.repeated = again /\ walk'.ended = last
      <4> HIDE DEF all
      <4> QED
        <5> DEFINE n == walk.next + 1
        <5>1. walk' = [walk EXCEPT !.next = n, !.shown = all, !.repeated = again, !.ended = last]
          BY <3>3
        <5>2. n \in Nat \ {0}
          BY <3>4
        <5>3. again \in BOOLEAN /\ last \in BOOLEAN
          BY <3>1, <3>2
        <5> HIDE DEF n
        <5>4. /\ walk' \in Walk
              /\ walk'.perPage = walk.perPage /\ walk'.next = n /\ walk'.due = walk.due
              /\ walk'.shown = all
              /\ walk'.grew = walk.grew /\ walk'.shrank = walk.shrank
              /\ walk'.repeated = again /\ walk'.ended = last
          BY <3>4, <5>1, <5>2, <5>3 DEF Walk
        <5> QED
          BY <5>4 DEF n
    <3> QED
      BY <3>1, <3>2, <3>5
  <2> DEFINE k == Before(walk.next, walk.perPage)
  <2>4. k \in Nat /\ Before(walk.next + 1, walk.perPage) = k + walk.perPage
    BY <2>1, BeforeType
  <2>5. /\ IsFiniteSet(DOMAIN page) /\ Cardinality(DOMAIN page) \in Nat
        /\ IsFiniteSet(walk.shown) /\ Cardinality(walk.shown) \in Nat
    BY <1>1, <2>1, IdsAssumption, FS_Subset, FS_CardinalityType
  <2>6. \A i \in Listed : Rank(i) \in Nat
    BY RankType DEF ReadsInv
  <2>7. WalkOK'
    BY <1>1, <2>3 DEF WalkOK
  <2>8. ShownBefore'
    <3> SUFFICES ASSUME ~walk.grew PROVE ShownBefore'
      BY <2>3 DEF ShownBefore
    <3>1. /\ ~walk.repeated /\ k <= Cardinality(walk.shown)
          /\ \A i \in walk.shown \cap Listed : Rank(i) < k
          /\ walk.shown \cap DOMAIN page = {}
          /\ \A i \in DOMAIN page \cap Listed : Rank(i) < k + walk.perPage
      BY <1>1, <1>4, <2>1, <2>4 DEF ReadsInv, ShownBefore
    <3>2. Cardinality(walk'.shown) = Cardinality(walk.shown) + Cardinality(DOMAIN page)
      <4>1. Cardinality(walk.shown \cap DOMAIN page) = 0
        BY <3>1, FS_EmptySet
      <4>2. Cardinality(walk.shown \cup DOMAIN page) =
              Cardinality(walk.shown) + Cardinality(DOMAIN page)
                - Cardinality(walk.shown \cap DOMAIN page)
        BY <2>5, FS_Union
      <4> QED
        BY <2>3, <2>5, <4>1, <4>2
    <3>3. ~walk'.ended => k + walk.perPage <= Cardinality(walk'.shown)
      BY <2>1, <2>3, <2>4, <2>5, <3>1, <3>2
    <3>4. \A i \in walk'.shown \cap Listed : Rank(i) < k + walk.perPage
      BY <2>1, <2>3, <2>4, <2>6, <3>1
    <3> QED
      BY <1>1, <1>2, <2>3, <2>4, <3>1, <3>3, <3>4, ListedIds DEF ShownBefore
  <2>9. DueBehind'
    <3> SUFFICES ASSUME ~walk.shrank PROVE DueBehind'
      BY <2>3 DEF DueBehind
    <3>1. /\ walk.due \subseteq Listed
          /\ \A i \in walk.due \ (walk.shown \cup DOMAIN page) :
               Rank(i) >= k + walk.perPage /\ Cardinality(DOMAIN page) >= walk.perPage
      BY <1>1, <1>4, <2>1, <2>4 DEF ReadsInv, DueBehind
    <3>2. walk'.ended => walk.due \subseteq walk'.shown
      BY <2>1, <2>3, <2>5, <3>1
    <3> QED
      BY <1>1, <1>2, <2>3, <2>4, <3>1, <3>2, ListedIds DEF DueBehind
  <2> QED
    BY <2>7, <2>8, <2>9
<1> QED
  BY <1>3, <1>4

LEMMA WalkStep ==
  ASSUME ReadsTypeOK, ReadsInv, [ReadsNext]_readsVars
  PROVE  WalkOK' /\ ShownBefore' /\ DueBehind'
<1>1. WalkOK /\ ShownBefore /\ DueBehind /\ InOrder
  BY DEF ReadsInv
<1>2. CASE UNCHANGED readsVars
  <2>1. UNCHANGED <<db, older, reading, asked, page, walk>>
    BY <1>2 DEF readsVars, listing, vars
  <2> QED
    BY <1>1, <2>1, RankSame, ListedIds DEF WalkOK, ShownBefore, DueBehind, OnWalk
<1>3. CASE Writers
  BY <1>3, WalkWriters
<1>4. CASE Restart
  <2>1. Timestamp /\ db' = db /\ reading' = "idle" /\ walk' = Left(walk)
    BY <1>4 DEF Restart, Crash, Drop, Idle
  <2>2. Listed' = Listed
    BY <2>1 DEF Listed, LiveOf
  <2>3. \A i \in Listed : Rank(i)' = Rank(i)
    BY <1>1, <2>1, <2>2, RankShrinks, RankGrows, RankType
  <2>4. walk' # None => walk' = walk /\ ~walk.ended
    BY <2>1 DEF Left
  <2> QED
    BY <1>1, <2>1, <2>2, <2>3, <2>4, WalkKept
<1>5. CASE List \/ ListBegin \/ CountRows \/ ListFails \/ ListCollected
  <2>1. UNCHANGED <<db, older>> /\ reading' # "commit"
    BY <1>5 DEF List, ListBegin, CountRows, ListFails, ListCollected, Idle, vars
  <2>2. walk' # None => walk' = walk /\ ~walk.ended
    BY <1>1, <1>5 DEF WalkOK, List, ListBegin, CountRows, ListFails, ListCollected, Left
  <2>3. walk' # None /\ reading' \in {"begin", "count", "page"} => OnWalk(walk, asked)'
    BY <1>1, <1>5 DEF WalkOK, OnWalk, List, ListBegin, CountRows, ListFails, ListCollected, Idle
  <2> QED
    BY <1>1, <2>1, <2>2, <2>3, RankSame, ListedIds, WalkKept
<1>6. CASE SelectPage
  BY <1>6, WalkSelect
<1>7. CASE ListCommit
  BY <1>7, WalkCommit
<1> QED
  BY <1>2, <1>3, <1>4, <1>5, <1>6, <1>7 DEF ReadsNext, Listing

-----------------------------------------------------------------------------
(* A page and its total.                                                   *)

LEMMA CountStep ==
  ASSUME ReadsInv, [ReadsNext]_readsVars
  PROVE  CountOK'
<1>1. CountOK
  BY DEF ReadsInv
<1>2. CASE UNCHANGED readsVars
  BY <1>1, <1>2 DEF CountOK, readsVars, listing, vars, Listed, LiveOf
<1>3. CASE Writers
  BY <1>1, <1>3 DEF CountOK, Writers, Observed, Listed, LiveOf
<1>4. CASE CountRows
  BY <1>4 DEF CountOK, CountRows, Listed, LiveOf, vars
<1>5. CASE reading' # "page"
  BY <1>5 DEF CountOK
<1> QED
  BY <1>2, <1>3, <1>4, <1>5
  DEF ReadsNext, Restart, Listing, List, ListBegin, SelectPage, ListCommit, ListFails,
      ListCollected, Idle

LEMMA QuietSelect ==
  ASSUME ReadsTypeOK, ReadsInv, SelectPage
  PROVE  QuietOK'
<1> DEFINE k == Before(asked.page, asked.perPage)
<1>1. /\ reading = "page" /\ UNCHANGED <<asked, total, quiet>>
      /\ asked.page \in Nat \ {0} /\ asked.perPage \in Nat \ {0}
  BY ReadsAssumption DEF SelectPage, ReadsTypeOK
<1> SUFFICES ASSUME quiet, k <= MaxInt
             PROVE  Cardinality(DOMAIN page') = Min({asked.perPage, Max({0, total - k})})
  BY <1>1 DEF QuietOK, Before
<1>2. k \in Nat
  BY <1>1, BeforeType
<1>3. total = Cardinality(Listed) /\ total \in Nat
  BY <1>1, ListedType DEF ReadsInv, CountOK
<1>4. Max({0, total - k}) = IF total > k THEN total - k ELSE 0
  BY <1>2, <1>3, MaxOfTwo
<1>5. Min({asked.perPage, Max({0, total - k})}) =
        IF total >= k + asked.perPage THEN asked.perPage ELSE IF total > k THEN total - k ELSE 0
  <2> DEFINE m == IF total > k THEN total - k ELSE 0
  <2>1. m \in Nat /\ (m >= asked.perPage <=> total >= k + asked.perPage)
    BY <1>1, <1>2, <1>3
  <2>2. Min({asked.perPage, m}) = IF asked.perPage <= m THEN asked.perPage ELSE m
    BY <1>1, <2>1, MinOfTwo
  <2> QED
    BY <1>1, <1>4, <2>1, <2>2
<1>6. InOrder
  BY DEF ReadsInv
<1> QED
  BY <1>3, <1>5, <1>6, SelectedRanks

LEMMA QuietStep ==
  ASSUME ReadsTypeOK, ReadsInv, [ReadsNext]_readsVars
  PROVE  QuietOK'
<1>1. QuietOK
  BY DEF ReadsInv
<1>2. CASE UNCHANGED <<asked, total, page>> /\ (reading' \in {"commit", "ok"} => reading \in {"commit", "ok"}) /\ (quiet' => quiet)
  BY <1>1, <1>2 DEF QuietOK
<1>3. CASE SelectPage
  BY <1>3, QuietSelect
<1>4. CASE reading' \notin {"commit", "ok"}
  BY <1>4 DEF QuietOK
<1>5. CASE UNCHANGED readsVars
  BY <1>2, <1>5 DEF readsVars, listing
<1>6. CASE Writers
  BY <1>2, <1>6 DEF Writers, Observed
<1>7. CASE ListCommit
  BY <1>2, <1>7 DEF ListCommit
<1>8. CASE Restart \/ List \/ ListBegin \/ CountRows \/ ListFails \/ ListCollected
  BY <1>4, <1>8 DEF Restart, List, ListBegin, CountRows, ListFails, ListCollected, Idle
<1> QED
  BY <1>3, <1>5, <1>6, <1>7, <1>8 DEF ReadsNext, Listing

-----------------------------------------------------------------------------
(* The theorems.                                                           *)

LEMMA ReadsInvInit == ReadsInit => ReadsInv
<1> SUFFICES ASSUME ReadsInit PROVE ReadsInv
  OBVIOUS
<1>1. InOrder
  BY DEF ReadsInit, InOrder, Placed, Init, NoRows, InTx, Statements
<1>2. CountOK /\ QuietOK /\ WalkOK /\ ShownBefore /\ DueBehind
  BY DEF ReadsInit, CountOK, QuietOK, WalkOK, ShownBefore, DueBehind
<1> QED
  BY <1>1, <1>2 DEF ReadsInv

LEMMA ReadsInvStep ==
  IInv /\ ReadsTypeOK /\ ReadsInv /\ [ReadsNext]_readsVars => ReadsInv'
<1> SUFFICES ASSUME IInv, ReadsTypeOK, ReadsInv, [ReadsNext]_readsVars PROVE ReadsInv'
  OBVIOUS
<1>1. InOrder'
  BY InOrderStep DEF ReadsInv
<1> QED
  BY <1>1, CountStep, QuietStep, WalkStep DEF ReadsInv

\* What a walk has shown is before its next page and what it still owes is not.
THEOREM ReadsInvariant == ReadsSpec => []ReadsInv
<1>1. ReadsSpec => []IInv
  BY ReadsAreRepository, Invariant, PTL
<1> QED
  BY <1>1, ReadsTypeCorrect, ReadsInvInit, ReadsInvStep, PTL DEF ReadsSpec

\* A page has the rows that its total promises, if no commit came between the
\* two statements and the offset fits in an i64.
THEOREM QuietPagesExact == ReadsSpec => []QuietListingExact
<1>1. ReadsInv => QuietListingExact
  BY DEF ReadsInv, QuietOK, QuietListingExact, Before
<1> QED
  BY <1>1, ReadsInvariant, PTL

\* A client that reads to the last page misses no configuration that was there
\* when it began, unless one is deleted meanwhile.
THEOREM WalksSkipNone == ReadsSpec => []NoneSkipped
<1>1. ReadsInv => NoneSkipped
  BY DEF ReadsInv, DueBehind, NoneSkipped
<1> QED
  BY <1>1, ReadsInvariant, PTL

\* It is shown none twice, unless one is created meanwhile.
THEOREM WalksRepeatNone == ReadsSpec => []NoneTwice
<1>1. ReadsInv => NoneTwice
  BY DEF ReadsInv, ShownBefore, NoneTwice
<1> QED
  BY <1>1, ReadsInvariant, PTL

=============================================================================
