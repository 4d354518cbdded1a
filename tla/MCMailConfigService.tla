------------------------ MODULE MCMailConfigService -------------------------
(***************************************************************************)
(* Instances of MailConfigService for TLC.                                 *)
(***************************************************************************)
EXTENDS MailConfigService, TLC

CONSTANTS t1, t2, n1, n2, h1, h2, bad, w1, w2

Blank == [op |-> "get", tenant |-> t1, id |-> None, name |-> None, target |-> None,
          secret |-> None, isDefault |-> None, verified |-> None]

ACreate(t, n, target) ==
  [Blank EXCEPT !.op = "create", !.tenant = t, !.name = n, !.target = target,
                !.secret = w1, !.isDefault = FALSE]

On(t, op, i) == [Blank EXCEPT !.op = op, !.tenant = t, !.id = i]

\* Two tenants: verifications, by the tenant and by the other one, next to the
\* updates and the deletion that may overtake them, and refused requests.
VerifyingRequests ==
  {ACreate(t1, n1, h1), ACreate(t1, n1, bad)}
  \cup {On(t, "verify", i) : t \in {t1, t2}, i \in Ids}
  \cup {[On(t1, "update", i) EXCEPT !.target = h] : i \in Ids, h \in {h2, bad}}
  \cup {[On(t1, "update", i) EXCEPT !.secret = w2] : i \in Ids}
  \cup {On(t1, "delete", i) : i \in Ids}

\* One configuration, verified and deleted.
DialRequests ==
  {ACreate(t1, n1, h1)} \cup {On(t1, op, i) : i \in Ids, op \in {"verify", "delete"}}

SecretsOf == {Encrypt(p, k) : p \in Passwords, k \in Keys}

\* The calls of the repository that the requests of the run make.
CallsOf ==
  {RepositoryCall(r, k) : r \in ClientRequests, k \in Keys}
  \cup {RecordCall(r, v) : r \in {q \in ClientRequests : q.op = "verify"}, v \in BOOLEAN}

SessionSymmetry == Permutations(Sessions)

=============================================================================
