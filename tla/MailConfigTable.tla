-------------------------- MODULE MailConfigTable ---------------------------
(***************************************************************************)
(* What the repository promises however its calls run together: each takes *)
(* effect at one instant, whole or not at all, and leaves the              *)
(* configurations of a tenant different names.  It promises less than the  *)
(* store does: an update may write back a column as it was before somebody *)
(* else changed it, and a call that takes the default takes it from those  *)
(* it saw.                                                                 *)
(***************************************************************************)
EXTENDS MailConfigStore

\* The row i becomes r; if r takes the default, some others of its tenant
\* give it up.
PutSeen(i, r, takesDefault) ==
  \E seen \in SUBSET (LiveOf(r.tenant) \ {i}) :
    /\ seen # {} => takesDefault
    /\ configs' = [j \in Ids |->
                     CASE j = i       -> r
                       [] j \in seen  -> Demoted(configs[j])
                       [] OTHER       -> configs[j]]

\* Whether a configuration is its tenant's first was counted earlier.
TableCreate(c) ==
  \E i \in Ids, first \in BOOLEAN :
    LET r == NewRow(c, c.isDefault \/ first)
    IN configs[i] = None /\ KeyFree(i, r) /\ PutSeen(i, r, c.isDefault)

\* So were the columns read that the caller leaves out, but for the password
\* and the verdict.
TableUpdate(c) ==
  /\ c.id \in LiveOf(c.tenant)
  /\ \E name \in Names, target \in Targets, isDefault \in BOOLEAN :
       LET old  == configs[c.id]
           read == [old EXCEPT !.name = name, !.target = target, !.isDefault = isDefault]
           r    == Kept(c, Merge(c, read), old)
       IN KeyFree(c.id, r) /\ PutSeen(c.id, r, c.isDefault = TRUE)

\* A call that leaves the table as it was is no step.
TableNext ==
  /\ configs' # configs
  /\ \E c \in Requests :
       \/ c.op = "create" /\ TableCreate(c)
       \/ c.op = "update" /\ TableUpdate(c)
       \/ c.op = "delete" /\ StoreDelete(c)
       \/ c.op = "setVerified" /\ StoreSetVerified(c)

TableSpec == StoreInit /\ [][TableNext]_configs

=============================================================================
