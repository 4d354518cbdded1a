------------------------ MODULE MailConfigStoreProofs -----------------------
(***************************************************************************)
(* The atomic store keeps at most one default per tenant, and promises no  *)
(* less than the table does.                                               *)
(***************************************************************************)
EXTENDS MailConfigTable, TLAPS

StoreInv == StoreTypeOK /\ OneDefault

IsDefaultOf(i, tenant) ==
  Live(configs[i]) /\ configs[i].isDefault /\ configs[i].tenant = tenant

\* Put keeps the invariant when the row it puts may be a default.
LEMMA PutKeeps ==
  ASSUME StoreInv, NEW i \in Ids, NEW r \in Row, NEW takesDefault \in BOOLEAN,
         Put(i, r, takesDefault),
         ~r.deleted /\ r.isDefault =>
           takesDefault \/ \A j \in Ids \ {i} : ~IsDefaultOf(j, r.tenant)
  PROVE  StoreInv'
<1> DEFINE demoted(j) == takesDefault /\ j \in LiveOf(r.tenant)
<1>1. configs' = [j \in Ids |-> IF j = i THEN r
                                ELSE IF demoted(j) THEN Demoted(configs[j]) ELSE configs[j]]
  BY DEF Put
<1>2. \A j \in Ids : configs[j] \in Row \cup {None}
  BY DEF StoreInv, StoreTypeOK
<1>3. \A j \in Ids : demoted(j) => /\ Demoted(configs[j]) \in Row
                                   /\ ~Demoted(configs[j]).isDefault
  BY <1>2 DEF LiveOf, Live, Demoted, Row
<1>4. StoreTypeOK'
  BY <1>1, <1>2, <1>3 DEF StoreTypeOK
\* Another row that is a default afterwards was one before, of a tenant that
\* does not have r as its default.
<1>5. ASSUME NEW j \in Ids \ {i}, Live(configs'[j]), configs'[j].isDefault
      PROVE  configs'[j] = configs[j] /\ ~demoted(j)
  BY <1>1, <1>3, <1>5
<1>6. ASSUME NEW j \in Ids \ {i}, Live(configs'[j]), configs'[j].isDefault,
             Live(r), r.isDefault, configs'[j].tenant = r.tenant
      PROVE  FALSE
  <2>1. configs'[j] = configs[j] /\ ~demoted(j)
    BY <1>5, <1>6
  <2>2. takesDefault
    BY <1>6, <2>1 DEF IsDefaultOf, Live
  <2> QED
    BY <1>6, <2>1, <2>2 DEF LiveOf
<1>7. OneDefault'
  <2> SUFFICES ASSUME NEW j \in Ids, NEW k \in Ids, j # k,
                      Live(configs'[j]), configs'[j].isDefault,
                      Live(configs'[k]), configs'[k].isDefault,
                      configs'[j].tenant = configs'[k].tenant
               PROVE  FALSE
    BY DEF OneDefault, Live
  <2>1. configs'[i] = r
    BY <1>1
  <2>2. CASE j = i
    BY <1>6, <2>1, <2>2
  <2>3. CASE k = i
    BY <1>6, <2>1, <2>3
  <2>4. CASE j # i /\ k # i
    <3>1. configs'[j] = configs[j] /\ configs'[k] = configs[k]
      BY <1>5, <2>4
    <3> QED
      BY <3>1 DEF StoreInv, OneDefault
  <2> QED
    BY <2>2, <2>3, <2>4
<1> QED
  BY <1>4, <1>7 DEF StoreInv

LEMMA StoreInvInit == StoreInit => StoreInv
  BY DEF StoreInit, StoreInv, StoreTypeOK, OneDefault, NoRows, Live

LEMMA StoreInvStep == StoreInv /\ [StoreNext]_configs => StoreInv'
<1> SUFFICES ASSUME StoreInv, [StoreNext]_configs PROVE StoreInv'
  OBVIOUS
<1>1. CASE UNCHANGED configs
  BY <1>1 DEF StoreInv, StoreTypeOK, OneDefault, Live
<1>2. ASSUME NEW c \in Requests, c.op = "create", StoreCreate(c)
      PROVE  StoreInv'
  <2> DEFINE r == NewRow(c, c.isDefault \/ LiveOf(c.tenant) = {})
  <2>1. c \in Call /\ c.isDefault \in BOOLEAN
    BY <1>2, RequestsAssumption DEF Call, Arguments
  <2>2. r \in Row /\ r.tenant = c.tenant /\ r.isDefault = (c.isDefault \/ LiveOf(c.tenant) = {})
    BY <1>2, <2>1 DEF NewRow, Call, Arguments, Row
  <2> HIDE DEF r
  <2>3. PICK i \in Ids : Put(i, r, c.isDefault)
    BY <1>2 DEF StoreCreate, r
  <2>4. LiveOf(c.tenant) = {} => \A j \in Ids : ~IsDefaultOf(j, r.tenant)
    BY <2>2 DEF LiveOf, IsDefaultOf
  <2> QED
    BY <2>1, <2>2, <2>3, <2>4, PutKeeps
<1>3. ASSUME NEW c \in Requests, c.op # "create", c.id \in LiveOf(c.tenant)
      PROVE  /\ c \in Call /\ c.id \in Ids
             /\ configs[c.id] \in Row /\ Live(configs[c.id])
             /\ configs[c.id].isDefault =>
                  \A j \in Ids \ {c.id} : ~IsDefaultOf(j, configs[c.id].tenant)
  BY <1>3, RequestsAssumption DEF LiveOf, Live, StoreInv, StoreTypeOK, OneDefault, IsDefaultOf
<1>4. ASSUME NEW c \in Requests, c.op = "update", StoreUpdate(c)
      PROVE  StoreInv'
  <2> DEFINE old == configs[c.id]
             merged == Merge(c, old)
             r == Kept(c, merged, old)
  <2>1. /\ c \in Call /\ c.id \in Ids /\ old \in Row
        /\ old.isDefault => \A j \in Ids \ {c.id} : ~IsDefaultOf(j, old.tenant)
    BY <1>3, <1>4 DEF StoreUpdate
  <2>2. Put(c.id, r, merged.isDefault /\ ~old.isDefault)
    BY <1>4 DEF StoreUpdate
  <2> HIDE DEF old
  <2>3. merged \in Row /\ merged.tenant = old.tenant
    BY <2>1 DEF Call, Arguments, Merge, Given, Row
  <2> HIDE DEF merged
  <2>4. r \in Row /\ r.tenant = old.tenant /\ r.isDefault = merged.isDefault
    BY <2>1, <2>3 DEF Call, Arguments, Kept, Given, Row
  <2> HIDE DEF r
  <2>5. (merged.isDefault /\ ~old.isDefault) \in BOOLEAN
    OBVIOUS
  <2> QED
    BY <2>1, <2>2, <2>4, <2>5, PutKeeps
<1>5. ASSUME NEW c \in Requests, c.op = "delete", StoreDelete(c)
      PROVE  StoreInv'
  <2>1. c.id \in Ids /\ configs[c.id] \in Row
    BY <1>3, <1>5 DEF StoreDelete
  <2>2. Deleted(configs[c.id]) \in Row /\ Deleted(configs[c.id]).deleted
    BY <2>1 DEF Deleted, Row
  <2> QED
    BY <1>5, <2>1, <2>2, PutKeeps DEF StoreDelete
<1>6. ASSUME NEW c \in Requests, c.op = "setVerified", StoreSetVerified(c)
      PROVE  StoreInv'
  <2> DEFINE old == configs[c.id]
             r == Flagged(old, c.verified)
  <2>1. /\ c \in Call /\ c.id \in Ids /\ old \in Row
        /\ old.isDefault => \A j \in Ids \ {c.id} : ~IsDefaultOf(j, old.tenant)
    BY <1>3, <1>6 DEF StoreSetVerified
  <2>2. Put(c.id, r, FALSE)
    BY <1>6 DEF StoreSetVerified
  <2> HIDE DEF old
  <2>3. r \in Row /\ r.tenant = old.tenant /\ r.isDefault = old.isDefault
    BY <1>6, <2>1 DEF Call, Arguments, Flagged, Row
  <2> HIDE DEF r
  <2> QED
    BY <2>1, <2>2, <2>3, PutKeeps
<1> QED
  BY <1>1, <1>2, <1>4, <1>5, <1>6 DEF StoreNext

\* When calls take effect one at a time, no sequence of creations, updates,
\* verdicts and deletions leaves a tenant with two default configurations.
THEOREM StoreOneDefault == StoreSpec => []OneDefault
<1>1. StoreInv => OneDefault
  BY DEF StoreInv
<1> QED
  BY <1>1, StoreInvInit, StoreInvStep, PTL DEF StoreSpec

-----------------------------------------------------------------------------
\* A row that is put, with the default taken from all the others or none.
LEMMA PutIsPutSeen ==
  ASSUME NEW i \in Ids, NEW r \in Row, NEW takesDefault \in BOOLEAN, NEW mayTake \in BOOLEAN,
         Put(i, r, takesDefault), takesDefault => mayTake
  PROVE  PutSeen(i, r, mayTake)
<1> DEFINE seen == IF takesDefault THEN LiveOf(r.tenant) \ {i} ELSE {}
<1>1. seen \in SUBSET (LiveOf(r.tenant) \ {i}) /\ (seen # {} => mayTake)
  OBVIOUS
<1>2. configs' = [j \in Ids |-> CASE j = i      -> r
                                 [] j \in seen -> Demoted(configs[j])
                                 [] OTHER      -> configs[j]]
  BY DEF Put, LiveOf
<1> HIDE DEF seen
<1> QED
  BY <1>1, <1>2 DEF PutSeen

LEMMA StoreStepIsTable == StoreInv /\ StoreNext /\ configs' # configs => TableNext
<1> SUFFICES ASSUME StoreInv, configs' # configs, NEW c \in Requests,
                    \/ c.op = "create" /\ StoreCreate(c)
                    \/ c.op = "update" /\ StoreUpdate(c)
                    \/ c.op = "delete" /\ StoreDelete(c)
                    \/ c.op = "setVerified" /\ StoreSetVerified(c)
             PROVE  TableNext
  BY DEF StoreNext
<1>1. c \in Call /\ (c.op = "create" => c.isDefault \in BOOLEAN)
  BY RequestsAssumption DEF Call, Arguments
<1>2. CASE c.op = "create" /\ StoreCreate(c)
  <2> DEFINE first == LiveOf(c.tenant) = {}
             r == NewRow(c, c.isDefault \/ first)
  <2>1. PICK i \in Ids : configs[i] = None /\ KeyFree(i, r) /\ Put(i, r, c.isDefault)
    BY <1>2 DEF StoreCreate
  <2>2. r \in Row
    BY <1>1, <1>2 DEF NewRow, Call, Arguments, Row
  <2>3. PutSeen(i, r, c.isDefault)
    BY <1>1, <1>2, <2>1, <2>2, PutIsPutSeen
  <2>4. first \in BOOLEAN
    OBVIOUS
  <2>5. TableCreate(c)
    BY <2>1, <2>3, <2>4 DEF TableCreate
  <2> QED
    BY <1>2, <2>5 DEF TableNext
<1>3. CASE c.op = "update" /\ StoreUpdate(c)
  <2> DEFINE old == configs[c.id]
             merged == Merge(c, old)
             r == Kept(c, merged, old)
             read == [old EXCEPT !.name = old.name, !.target = old.target,
                                 !.isDefault = old.isDefault]
  <2>1. /\ c.id \in LiveOf(c.tenant) /\ KeyFree(c.id, r)
        /\ Put(c.id, r, merged.isDefault /\ ~old.isDefault)
    BY <1>3 DEF StoreUpdate
  <2>2. c.id \in Ids /\ old \in Row
    BY <2>1 DEF LiveOf, Live, StoreInv, StoreTypeOK
  <2>3. merged \in Row /\ merged.isDefault = Given(c.isDefault, old.isDefault)
    BY <1>1, <2>2 DEF Call, Arguments, Merge, Given, Row
  <2>4. read = old /\ old.name \in Names /\ old.target \in Targets /\ old.isDefault \in BOOLEAN
    BY <2>2 DEF Row
  <2>5. r \in Row
    <3> HIDE DEF merged, old
    <3> QED
      BY <1>1, <2>2, <2>3 DEF Call, Arguments, Kept, Given, Row
  <2>6. PutSeen(c.id, r, c.isDefault = TRUE)
    <3> HIDE DEF merged, old, r
    <3> DEFINE takes == merged.isDefault /\ ~old.isDefault
               may == c.isDefault = TRUE
    <3>1. takes => may
      BY <1>1, <2>2, <2>3 DEF Given, Call, Arguments, Row
    <3>2. takes \in BOOLEAN /\ may \in BOOLEAN /\ Put(c.id, r, takes)
      BY <2>1
    <3> HIDE DEF takes
    <3> QED
      BY <2>2, <2>5, <3>1, <3>2, PutIsPutSeen
  <2>7. r = Kept(c, Merge(c, read), old)
    BY <2>4
  <2>8. TableUpdate(c)
    <3> HIDE DEF r
    <3> QED
      BY <2>1, <2>4, <2>6, <2>7 DEF TableUpdate
  <2> QED
    BY <1>3, <2>8 DEF TableNext
<1>4. CASE c.op = "delete" /\ StoreDelete(c)
  BY <1>4 DEF TableNext
<1>5. CASE c.op = "setVerified" /\ StoreSetVerified(c)
  BY <1>5 DEF TableNext
<1> QED
  BY <1>2, <1>3, <1>4, <1>5

\* What holds of every behaviour that the table allows holds of a repository
\* whose calls run one at a time: the store is the stronger promise.
THEOREM StoreIsTable == StoreSpec => TableSpec
<1>1. StoreInv /\ [StoreNext]_configs => [TableNext]_configs
  BY StoreStepIsTable
<1> QED
  BY <1>1, StoreInvInit, StoreInvStep, PTL DEF StoreSpec, TableSpec

=============================================================================
