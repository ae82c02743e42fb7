---------------------------- MODULE ContactTable ----------------------------
(***************************************************************************)
(* The tables dird_contact and dird_contact_fields as the transactions of  *)
(* PostgreSQL see them at the READ COMMITTED level, for the contacts of    *)
(* one owner, a user or a phonebook (models.py: unique (user_uuid, hash),  *)
(* unique (phonebook_uuid, hash)).  A request runs one transaction.        *)
(*                                                                         *)
(* The tables are sets of row versions: by is the transaction that wrote a *)
(* version and del the one that is deleting it, None once it has committed *)
(* or when there is none.  In fields, the rows one request writes for one  *)
(* contact are a single element, whose hash is that of the values.         *)
(***************************************************************************)
EXTENDS Integers, FiniteSets

CONSTANTS
  Requests,   \* numbers, for NewUuid
  Hashes,     \* numbers below Radix, for NewUuid
  Radix,
  None

ASSUME TableAssumption ==
  /\ Requests \subseteq Nat \ {0}
  /\ Radix \in Nat \ {0}
  /\ Hashes \subseteq 0 .. Radix - 1
  /\ None \notin Requests

VARIABLES
  rows,     \* versions of contacts; id survives an UPDATE, not a DELETE and INSERT
  fields    \* versions of their fields

table == <<rows, fields>>

(* uuid_generate_v4(): never the same one twice.                           *)
NewUuid(r, h) == Radix * r + h

Version(r, u, h, by) == [id |-> <<r, u>>, uuid |-> u, hash |-> h, by |-> by, del |-> None]

TableInit(H) ==
  /\ rows = {Version(0, h, h, None) : h \in H}
  /\ fields = rows

TableTypeOK ==
  \A x \in rows \cup fields :
    /\ x.uuid \in Nat
    /\ x.hash \in Hashes
    /\ x.by \in Requests \cup {None}
    /\ x.del \in Requests \cup {None}

Committed(X) == {x \in X : x.by = None}

Contacts == {<<x.uuid, x.hash>> : x \in Committed(rows)}

(* What a query of r sees.                                                 *)
Visible(r, X) == {x \in X : x.by \in {None, r} /\ x.del # r}

(* The transactions r must wait for before it knows about the versions X.  *)
Holders(r, X) == ({x.by : x \in X} \cup {x.del : x \in X}) \ {None, r}

(* Versions that keep r from writing (u, h) in a new row, and in row i: the *)
(* unique indexes.                                                         *)
Clashing(r, u, h) == {x \in rows : x.del # r /\ (x.uuid = u \/ x.hash = h)}
Conflicting(r, i, u, h) == {x \in Clashing(r, u, h) : x.id # i}

Marked(r, X, D) == (X \ D) \cup {[x EXCEPT !.del = r] : x \in D}

(* INSERT of a contact and of its fields.                                  *)
Insert(r, u, h) ==
  /\ Clashing(r, u, h) = {}
  /\ rows' = rows \cup {Version(r, u, h, r)}
  /\ fields' = fields \cup {Version(r, u, h, r)}

(* DELETE of the fields with identifiers I, those that are still there.    *)
FieldsOf(I) == {g \in Committed(fields) : g.id \in I}

DeleteFields(r, I) ==
  /\ Holders(r, FieldsOf(I)) = {}
  /\ fields' = Marked(r, fields, FieldsOf(I))
  /\ UNCHANGED rows

(* DELETE of row i; ON DELETE CASCADE deletes its fields in a second step. *)
RowOf(i) == {x \in Committed(rows) : x.id = i}

DeleteRow(r, i) ==
  /\ RowOf(i) # {}
  /\ Holders(r, RowOf(i)) = {}
  /\ rows' = Marked(r, rows, RowOf(i))
  /\ UNCHANGED fields

Dependent(r, u) == {g \in Visible(r, fields) : g.uuid = u}

Cascade(r, u) ==
  /\ Holders(r, Dependent(r, u)) = {}
  /\ fields' = Marked(r, fields, Dependent(r, u))
  /\ UNCHANGED rows

(* COMMIT and ROLLBACK.                                                    *)
Kept(r, X) ==
  {[x EXCEPT !.by = IF x.by = r THEN None ELSE x.by] : x \in {y \in X : y.del # r}}

Undone(r, X) ==
  {[x EXCEPT !.del = IF x.del = r THEN None ELSE x.del] : x \in {y \in X : y.by # r}}

CommitTable(r) == rows' = Kept(r, rows) /\ fields' = Kept(r, fields)
RollbackTable(r) == rows' = Undone(r, rows) /\ fields' = Undone(r, fields)

(* r waits for itself: blockers[q] is the set of transactions q waits for. *)
InCycle(r, blockers) ==
  \A S \in SUBSET Requests :
    blockers[r] \subseteq S /\ (\A q \in S : blockers[q] \subseteq S) => r \in S

(* The fields of a contact are those its hash was computed from.  Edits    *)
(* replace the fields and the hash in several statements; the hash is what *)
(* duplicates are recognised by.                                           *)
HashMatchesFields ==
  \A x \in Committed(rows) :
    {g.hash : g \in {f \in Committed(fields) : f.uuid = x.uuid}} = {x.hash}
=============================================================================
