------------------------- MODULE MCMailConfigReads -------------------------
(***************************************************************************)
(* An instance of MailConfigReads for TLC: creations and deletions of the  *)
(* tenant whose configurations are listed, next to another tenant's, and   *)
(* an integer width in which a page number can be too large.               *)
(***************************************************************************)
EXTENDS MailConfigReads, TLC

CONSTANTS t1, t2, n1, n2, h1, p1

Blank == [op |-> "get", tenant |-> t1, id |-> None, name |-> None, target |-> None,
          secret |-> None, isDefault |-> None, verified |-> None]

ACreate(t, n) ==
  [Blank EXCEPT !.op = "create", !.tenant = t, !.name = n, !.target = h1,
                !.secret = p1, !.isDefault = FALSE]

ListedRequests ==
  {ACreate(t1, n1), ACreate(t1, n2), ACreate(t2, n1)}
  \cup {[Blank EXCEPT !.op = "delete", !.id = i] : i \in Ids}

Symmetric == Permutations(Sessions) \cup Permutations(Ids)

=============================================================================
