----------------------- MODULE MCMailConfigRepository -----------------------
(***************************************************************************)
(* Instances of MailConfigRepository for TLC: the calls its clients make   *)
(* and the symmetry of its model values.                                   *)
(***************************************************************************)
EXTENDS MailConfigRepository, TLC

CONSTANTS t1, t2, n1, n2, h1, h2, p1, p2

Blank == [op |-> "get", tenant |-> t1, id |-> None, name |-> None, target |-> None,
          secret |-> None, isDefault |-> None, verified |-> None]

ACreate(t, n, default) ==
  [Blank EXCEPT !.op = "create", !.tenant = t, !.name = n, !.target = h1,
                !.secret = p1, !.isDefault = default]

On(t, op, i) == [Blank EXCEPT !.op = op, !.tenant = t, !.id = i]

Flag(t, i, v) == [On(t, "setVerified", i) EXCEPT !.verified = v]

\* What two tenants may do to each other and to themselves: create, rename,
\* take and give up the default, delete, and call each other's identifiers;
\* and the first one's updates of a password and verdicts in between.
SharingRequests ==
  {ACreate(t1, n1, TRUE), ACreate(t1, n2, FALSE), ACreate(t2, n1, TRUE)}
  \cup {[On(t1, "update", i) EXCEPT !.name = n2] : i \in Ids}
  \cup {[On(t, "update", i) EXCEPT !.isDefault = TRUE] : t \in {t1, t2}, i \in Ids}
  \cup {[On(t1, "update", i) EXCEPT !.isDefault = FALSE, !.secret = p2] : i \in Ids}
  \cup {On(t, "delete", i) : t \in {t1, t2}, i \in Ids}
  \cup {Flag(t1, i, TRUE) : i \in Ids}

\* One tenant's calls of every kind, updates of several columns at once among
\* them, next to another tenant's configuration.
SerialRequests ==
  {ACreate(t1, n1, TRUE), ACreate(t1, n2, FALSE), ACreate(t2, n1, FALSE)}
  \cup {[On(t, "update", i) EXCEPT !.isDefault = TRUE] : i \in Ids, t \in {t1, t2}}
  \cup {[On(t1, "update", i) EXCEPT !.isDefault = FALSE] : i \in Ids}
  \cup {[On(t1, "update", i) EXCEPT !.name = n2, !.secret = p2] : i \in Ids}
  \cup {On(t1, op, i) : i \in Ids, op \in {"delete", "get"}}
  \cup {Flag(t1, i, TRUE) : i \in Ids}

\* Calls that wait for each other: for rows in opposite orders, and for a name.
WaitingRequests ==
  {ACreate(t1, n1, FALSE)}
  \cup {[On(t1, "update", i) EXCEPT !.name = n2, !.isDefault = TRUE] : i \in Ids}

\* Those, next to the calls that hold one row at most, or none.
CycleRequests ==
  WaitingRequests
  \cup {ACreate(t1, n1, TRUE)}
  \cup {On(t1, op, i) : i \in Ids, op \in {"delete", "get", "getSecret"}}
  \cup {Flag(t1, i, TRUE) : i \in Ids}

\* A password that changes while a verification reads it.
PairRequests ==
  {ACreate(t1, n1, FALSE)}
  \cup {On(t1, "getSecret", i) : i \in Ids}
  \cup {[On(t1, "update", i) EXCEPT !.target = h2, !.secret = p2] : i \in Ids}

SessionSymmetry == Permutations(Sessions)

Symmetric == Permutations(Sessions) \cup Permutations(Ids)

=============================================================================
