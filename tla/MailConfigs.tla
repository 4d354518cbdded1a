---------------------------- MODULE MailConfigs -----------------------------
(***************************************************************************)
(* The data every part of the service shares: the rows of the table        *)
(* securemail.mail_configs, the calls of the repository's methods, and     *)
(* what one statement makes of one row.                                    *)
(***************************************************************************)
EXTENDS Integers, FiniteSets, Sequences

CONSTANTS
  Tenants,
  Ids,        \* row identifiers (gen_random_uuid); they bound the creations
  Names,
  Targets,    \* smtp_host, smtp_port, smtp_username, smtp_encryption as one
  Secrets,    \* smtp_password_encrypted
  Requests,   \* the calls the clients may make
  None        \* SQL NULL, an absent Option, a row that does not exist

ASSUME NoneAssumption ==
  /\ None \notin Ids /\ None \notin Names /\ None \notin Targets
  /\ None \notin Secrets /\ None \notin BOOLEAN

ASSUME IdsAssumption == IsFiniteSet(Ids)

Ops == {"create", "get", "getSecret", "update", "delete", "setVerified"}

\* The arguments of every method in one record: an argument the method does
\* not take, and an Option that is not given, is None.
Arguments ==
  [op: Ops, tenant: Tenants, id: Ids \cup {None},
   name: Names \cup {None}, target: Targets \cup {None},
   secret: Secrets \cup {None}, isDefault: BOOLEAN \cup {None},
   verified: BOOLEAN \cup {None}]

\* Those that are not optional are there.  The identifier of a row to create
\* is drawn when the call is made.
Call ==
  {c \in Arguments :
     /\ c.op # "create" => c.id # None
     /\ c.op = "create" => None \notin {c.name, c.target, c.secret, c.isDefault}
     /\ c.op = "setVerified" => c.verified # None}

ASSUME RequestsAssumption ==
  \A c \in Requests : c \in Call /\ (c.op = "create" => c.id = None)

\* A row.  The IMAP columns behave as secret does, from_address and from_name
\* as target does.
Row == [tenant: Tenants, name: Names, target: Targets, secret: Secrets,
        isDefault: BOOLEAN, verified: BOOLEAN, deleted: BOOLEAN]

ASSUME NoneIsNoRow == None \notin Row

NoRows == [i \in Ids |-> None]

Live(r) == r # None /\ ~r.deleted

\* mail_configs_tenant_id_name_key, UNIQUE (tenant_id, name) WHERE deleted_at
\* IS NULL.
SameKey(r, q) == Live(r) /\ Live(q) /\ r.tenant = q.tenant /\ r.name = q.name

NewRow(c, isDefault) ==
  [tenant |-> c.tenant, name |-> c.name, target |-> c.target, secret |-> c.secret,
   isDefault |-> isDefault, verified |-> FALSE, deleted |-> FALSE]

Given(option, otherwise) == IF option = None THEN otherwise ELSE option

\* Mutants of Merge: an absent option taken as NULL, or as its type's default.
MergeNulls(c, r) ==
  [r EXCEPT !.name = c.name, !.target = c.target, !.isDefault = c.isDefault]

MergeDefaults(c, r) ==
  [r EXCEPT !.name = Given(c.name, @), !.target = Given(c.target, @),
            !.isDefault = Given(c.isDefault, FALSE)]

\* The columns an update reads first and writes back when the command leaves
\* them out.
Merge(c, r) ==
  [r EXCEPT !.name = Given(c.name, @), !.target = Given(c.target, @),
            !.isDefault = Given(c.isDefault, @)]

\* Mutant of Kept: every column is written back as it was first read.
KeptAsRead(c, merged, r) == [merged EXCEPT !.secret = Given(c.secret, @)]

\* The columns its UPDATE keeps in place: the password, by COALESCE, and
\* verified, which it does not mention.  r is the row as it is by then.
Kept(c, merged, r) ==
  [merged EXCEPT !.secret = Given(c.secret, r.secret), !.verified = r.verified]

\* Mutant of Demoted: without AND deleted_at IS NULL.
DemotedAnyway(r) == [r EXCEPT !.isDefault = FALSE]

\* SET is_default = false ... WHERE deleted_at IS NULL
Demoted(r) == IF Live(r) THEN [r EXCEPT !.isDefault = FALSE] ELSE r

Deleted(r) == [r EXCEPT !.deleted = TRUE]

Flagged(r, verified) == [r EXCEPT !.verified = verified]

=============================================================================
