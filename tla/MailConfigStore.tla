-------------------------- MODULE MailConfigStore ---------------------------
(***************************************************************************)
(* What the repository promises when its calls run one at a time: every    *)
(* method is one atomic change of the table, or none.                      *)
(***************************************************************************)
EXTENDS MailConfigs

VARIABLE configs

StoreTypeOK == configs \in [Ids -> Row \cup {None}]

StoreInit == configs = NoRows

LiveOf(tenant) == {i \in Ids : Live(configs[i]) /\ configs[i].tenant = tenant}

\* The row i becomes r; if r takes the default, every other row of its tenant
\* gives it up.
Put(i, r, takesDefault) ==
  configs' = [j \in Ids |->
                CASE j = i -> r
                  [] j # i /\ takesDefault /\ j \in LiveOf(r.tenant) -> Demoted(configs[j])
                  [] OTHER -> configs[j]]

KeyFree(i, r) == \A j \in Ids \ {i} : ~SameKey(configs[j], r)

\* The first configuration of a tenant is its default.
StoreCreate(c) ==
  \E i \in Ids :
    LET r == NewRow(c, c.isDefault \/ LiveOf(c.tenant) = {})
    IN configs[i] = None /\ KeyFree(i, r) /\ Put(i, r, c.isDefault)

StoreUpdate(c) ==
  /\ c.id \in LiveOf(c.tenant)
  /\ LET old    == configs[c.id]
         merged == Merge(c, old)
         r      == Kept(c, merged, old)
     IN KeyFree(c.id, r) /\ Put(c.id, r, merged.isDefault /\ ~old.isDefault)

StoreDelete(c) ==
  c.id \in LiveOf(c.tenant) /\ Put(c.id, Deleted(configs[c.id]), FALSE)

StoreSetVerified(c) ==
  c.id \in LiveOf(c.tenant) /\ Put(c.id, Flagged(configs[c.id], c.verified), FALSE)

StoreNext ==
  \E c \in Requests :
    \/ c.op = "create" /\ StoreCreate(c)
    \/ c.op = "update" /\ StoreUpdate(c)
    \/ c.op = "delete" /\ StoreDelete(c)
    \/ c.op = "setVerified" /\ StoreSetVerified(c)

StoreSpec == StoreInit /\ [][StoreNext]_configs

-----------------------------------------------------------------------------
\* A tenant has at most one default configuration.
OneDefault ==
  \A i, j \in Ids :
    /\ Live(configs[i]) /\ configs[i].isDefault
    /\ Live(configs[j]) /\ configs[j].isDefault
    /\ configs[i].tenant = configs[j].tenant
    => i = j

=============================================================================
