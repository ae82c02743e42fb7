----------------------- MODULE PersonalContactsProofs -----------------------
(***************************************************************************)
(* Proofs about personal contacts: for any requests and hashes, however    *)
(* their statements interleave and fail, a contact has the fields of its   *)
(* hash, one its owner was told of is not lost, one whose removal was      *)
(* acknowledged is gone, and the contacts change as those of ContactBook,  *)
(* whose requests take effect at once.                                     *)
(***************************************************************************)
EXTENDS PersonalContacts, FiniteSetTheorems, TLAPS

----------------------------------------------------------------------------
(* The inductive invariant.  First the tables, all their versions: rows    *)
(* and fields go together by their identifiers, and two rows share a       *)
(* unique value only when one is to replace the other.                     *)
Versions ==
  [id : Nat \X Nat, uuid : Nat, hash : Hashes,
   by : Requests \cup {None}, del : Requests \cup {None}]

Fits(x) == x.id[2] = x.uuid /\ (x.by # None => x.id[1] = x.by /\ x.del = None)
Share(x, y) == x.uuid = y.uuid \/ x.hash = y.hash
Replaces(x, y) == y.del # None /\ y.del = x.by
Alike(g, x) == g.id = x.id /\ g.hash = x.hash /\ g.by = x.by

Shapes == rows \subseteq Versions /\ fields \subseteq Versions
Fitting == \A x \in rows \cup fields : Fits(x)
Identified == \A x, y \in rows : x.id = y.id => x = y
Unique == \A x, y \in rows : x # y /\ Share(x, y) => Replaces(x, y) \/ Replaces(y, x)
Owned == \A g \in fields : \E x \in rows : Alike(g, x)
Complete == \A x \in rows : \E g \in fields : g.id = x.id

TableInv == Shapes /\ Fitting /\ Identified /\ Unique /\ Owned /\ Complete

(* Then each request: where it is, and what it has written and deleted.    *)
Types ==
  /\ TypeOK
  /\ left \in [Requests -> SUBSET Nat]
  /\ fieldsLeft \in [Requests -> SUBSET (Nat \X Nat)]
  /\ aim \in [Requests -> (Nat \X Nat) \cup {None}]
  /\ ids = [r \in Requests |-> ids[r]]
  /\ since \in [Requests -> SUBSET Nat]

Removing == {"load", "fields", "rows", "waitRow", "cascade"}
Writing == {"list", "user", "tenant", "addTenant", "addUser", "find", "insert"}

Stage(r) ==
  /\ pc[r] \in Removing => kind[r] \in {"edit", "remove", "purge"}
  /\ pc[r] = "check" => kind[r] = "edit"
  /\ pc[r] = "list" => kind[r] = "import"
  /\ pc[r] \in Writing => kind[r] \in {"create", "import", "edit"}
  /\ kind[r] \in {"edit", "remove"} => target[r] \in Nat /\ left[r] \subseteq {target[r]}
  /\ kind[r] = "edit" => \E h \in Hashes : bodies[r] = {h}
  /\ reply[r] # None => pc[r] = "done"
  /\ pc[r] = "idle" => left[r] = {}
  /\ pc[r] = "fields" => \A i \in fieldsLeft[r] : i[2] \in left[r]
  /\ pc[r] = "fields" /\ kind[r] = "remove" => left[r] # {}
  /\ pc[r] \in {"waitRow", "cascade"} => aim[r] \in Nat \X Nat /\ AimedUuid(r) \in left[r]

Inserts(r) ==
  /\ \A x \in rows : x.by = r =>
       pc[r] = "insert" /\ x.hash \in bodies[r] /\ x.uuid = UuidFor(r, x.hash)
  /\ \A x \in rows : x.id[1] = r /\ pc[r] # "done" => x.by = r
  /\ pc[r] = "insert" => \A i \in DOMAIN todo[r] : todo[r][i] \in bodies[r]

(* A row is deleted together with its fields, but for the steps between.   *)
Deletes(r) ==
  /\ \A x \in rows : x.del = r =>
       /\ pc[r] \notin {"idle", "load", "done"} /\ kind[r] \in {"edit", "remove", "purge"}
       /\ kind[r] # "purge" => x.uuid = target[r]
  /\ \A x \in rows, g \in fields : g.id = x.id /\ x.del = r =>
       g.del = r \/ (pc[r] = "cascade" /\ x.id = aim[r])
  /\ \A x \in rows, g \in fields : g.id = x.id /\ g.del = r =>
       \/ x.del = r
       \/ /\ pc[r] \in {"fields", "rows", "waitRow", "cascade"} /\ x.uuid \in left[r]
          /\ pc[r] \in {"waitRow", "cascade"} /\ x.uuid = AimedUuid(r) => x.id = aim[r]
  /\ pc[r] = "cascade" => \E x \in rows : x.id = aim[r] /\ x.del = r

(* A uuid that is known was not generated by a request under way, and who  *)
(* brings one back that was removed is noted.                              *)
Known(r) ==
  /\ \A x \in Committed(rows), h \in Hashes : x.uuid = NewUuid(r, h) => pc[r] = "done"
  /\ \A q \in Requests, h \in Hashes : target[r] = NewUuid(q, h) => pc[q] = "done"
  /\ \A q \in Requests, h \in Hashes, g \in bodies[r] :
       ids[r][g] = NewUuid(q, h) => pc[q] = "done"

Gone(r) ==
  kind[r] = "remove" =>
    /\ reply[r] = "ok" \/ (pc[r] = "rows" /\ left[r] = {}) =>
         \A x \in Committed(rows) : x.uuid = target[r] => x.del = r \/ target[r] \in since[r]
    /\ pc[r] \in {"waitRow", "cascade"} =>
         \A x \in Committed(rows) : x.uuid = target[r] => x.id = aim[r] \/ target[r] \in since[r]

RequestInv(r) == Stage(r) /\ Inserts(r) /\ Deletes(r) /\ Known(r) /\ Gone(r)

PersonalInv == Types /\ TableInv /\ NothingLost /\ \A r \in Requests : RequestInv(r)

----------------------------------------------------------------------------
(* What any statement of r does to the tables: a version keeps its         *)
(* identity and its content, the new ones are r's, and what others are     *)
(* inserting or deleting stays.                                            *)
Same(r, x, y) ==
  /\ y.id = x.id /\ y.uuid = x.uuid /\ y.hash = x.hash
  /\ y.by = x.by \/ (x.by = r /\ y.by = None)
  /\ y.del = x.del \/ {x.del, y.del} \subseteq {None, r}

New(r, y) == y.by = r /\ y.del = None /\ y.id[1] = r

From(r, X, Y) == \A y \in Y : New(r, y) \/ \E x \in X : Same(r, x, y)

Stepped(r) ==
  /\ From(r, rows, rows') /\ From(r, fields, fields')
  /\ \A x \in rows : x.del \notin {None, r} \/ x.by \notin {None, r} => x \in rows'

(* Nothing is committed by the step.                                       *)
NoCommit(r) ==
  /\ Contacts' = Contacts
  /\ \A y \in Committed(rows') : \E x \in Committed(rows) : Same(r, x, y)

TableStep(r) == Stepped(r) /\ NoCommit(r)

LEMMA NothingWritten ==
  ASSUME NEW r \in Requests, UNCHANGED table
  PROVE  TableStep(r)
  BY DEF TableStep, Stepped, NoCommit, From, Same, table, Contacts, Committed

LEMMA InsertTable ==
  ASSUME TableInv, NEW r \in Requests, NEW u \in Nat, NEW h \in Hashes,
         \A x \in rows : x.id # <<r, u>>,
         Insert(r, u, h)
  PROVE  TableInv' /\ TableStep(r)
<1> DEFINE n == Version(r, u, h, r)
<1>1. /\ rows' = rows \cup {n} /\ fields' = fields \cup {n}
      /\ Clashing(r, u, h) = {}
  BY DEF Insert
<1>2. n \in Versions /\ Fits(n) /\ New(r, n)
  BY TableAssumption DEF Version, Versions, Fits, New
<1>3. n.id = <<r, u>> /\ n.uuid = u /\ n.hash = h /\ n.by = r /\ n.del = None
  BY DEF Version
<1>4. r # None
  BY TableAssumption
<1> HIDE DEF n
<1>5. Shapes' /\ Fitting'
  BY <1>1, <1>2 DEF TableInv, Shapes, Fitting
<1>6. Identified'
  BY <1>1, <1>3 DEF TableInv, Identified
<1>7. \A x \in rows : Share(x, n) => Replaces(n, x)
  BY <1>1, <1>3, <1>4 DEF Clashing, Share, Replaces
<1>8. Unique'
  BY <1>1, <1>7 DEF TableInv, Unique, Share
<1>9. Alike(n, n)
  BY DEF Alike
<1>10. Owned' /\ Complete'
  BY <1>1, <1>9 DEF TableInv, Owned, Complete
<1>11. \A x : Same(r, x, x)
  BY DEF Same
<1>12. Stepped(r)
  BY <1>1, <1>2, <1>11 DEF Stepped, From
<1>13. Committed(rows') = Committed(rows)
  BY <1>1, <1>3, <1>4 DEF Committed
<1>14. NoCommit(r)
  BY <1>11, <1>13 DEF NoCommit, Contacts
<1> QED
  BY <1>5, <1>6, <1>8, <1>10, <1>12, <1>14 DEF TableInv, TableStep

(* A version marked as deleted by r.                                       *)
Mark(r, x) == [x EXCEPT !.del = r]

LEMMA MarkEffect ==
  ASSUME NEW r \in Requests, NEW x \in Versions
  PROVE  /\ Mark(r, x) \in Versions
         /\ Mark(r, x).id = x.id /\ Mark(r, x).uuid = x.uuid /\ Mark(r, x).hash = x.hash
         /\ Mark(r, x).by = x.by /\ Mark(r, x).del = r
  BY DEF Versions, Mark

LEMMA MarkedEffect ==
  ASSUME NEW r, NEW X, NEW D \in SUBSET X
  PROVE  /\ \A y \in Marked(r, X, D) : (y \in X /\ y \notin D) \/ \E x \in D : y = Mark(r, x)
         /\ \A x \in X : x \in D \/ x \in Marked(r, X, D)
         /\ \A x \in D : Mark(r, x) \in Marked(r, X, D)
  BY DEF Marked, Mark

(* Deleting fields, by their identifiers or by the key of a contact.       *)
LEMMA MarkFields ==
  ASSUME TableInv, NEW r \in Requests, NEW D \in SUBSET fields,
         \A g \in D : g.by = None /\ g.del \in {None, r},
         fields' = Marked(r, fields, D), UNCHANGED rows
  PROVE  TableInv' /\ TableStep(r)
<1>1. \A y \in fields' : \E x \in fields :
        /\ y \in Versions /\ Same(r, x, y) /\ y.by = x.by
        /\ y.del # x.del => x.by = None
  <2> SUFFICES ASSUME NEW y \in fields'
               PROVE  \E x \in fields :
                        /\ y \in Versions /\ Same(r, x, y) /\ y.by = x.by
                        /\ y.del # x.del => x.by = None
    OBVIOUS
  <2>1. CASE y \in fields
    BY <2>1 DEF TableInv, Shapes, Same
  <2>2. CASE \E x \in D : y = Mark(r, x)
    <3>1. PICK x \in D : y = Mark(r, x)
      BY <2>2
    <3>2. x \in Versions
      BY DEF TableInv, Shapes
    <3> QED
      BY <3>1, <3>2, MarkEffect DEF Same
  <2> QED
    BY <2>1, <2>2, MarkedEffect
<1>2. \A x \in fields : \E y \in fields' : y.id = x.id
  <2> SUFFICES ASSUME NEW x \in fields PROVE \E y \in fields' : y.id = x.id
    OBVIOUS
  <2>1. x \in Versions
    BY DEF TableInv, Shapes
  <2> QED
    BY <2>1, MarkEffect, MarkedEffect
<1>3. Shapes' /\ Fitting'
  BY <1>1 DEF TableInv, Shapes, Fitting, Fits, Same
<1>4. Identified' /\ Unique'
  BY DEF TableInv, Identified, Unique
<1>5. Owned'
  BY <1>1 DEF TableInv, Owned, Alike, Same
<1>6. Complete'
  BY <1>2 DEF TableInv, Complete
<1>7. Stepped(r)
  BY <1>1 DEF Stepped, From, Same
<1>8. NoCommit(r)
  BY DEF NoCommit, Contacts, Committed, Same
<1> QED
  BY <1>3, <1>4, <1>5, <1>6, <1>7, <1>8 DEF TableInv, TableStep

LEMMA DeleteRowTable ==
  ASSUME TableInv, NEW r \in Requests, NEW i \in Nat \X Nat, DeleteRow(r, i)
  PROVE  TableInv' /\ TableStep(r)
<1> DEFINE D == RowOf(i)
<1>1. /\ D \subseteq rows /\ rows' = Marked(r, rows, D) /\ fields' = fields
      /\ \A x \in D : x.id = i /\ x.by = None /\ x.del \in {None, r}
  BY DEF DeleteRow, RowOf, Committed, Holders
<1> HIDE DEF D
<1>2. \A y \in rows' : \E x \in rows :
        /\ y \in Versions /\ Same(r, x, y) /\ y.by = x.by
        /\ y.del # x.del => x.by = None /\ x.del = None
        /\ x \notin D => y = x
        /\ x \in D => y = Mark(r, x)
  <2> SUFFICES ASSUME NEW y \in rows'
               PROVE  \E x \in rows :
                        /\ y \in Versions /\ Same(r, x, y) /\ y.by = x.by
                        /\ y.del # x.del => x.by = None /\ x.del = None
                        /\ x \notin D => y = x
                        /\ x \in D => y = Mark(r, x)
    OBVIOUS
  <2>1. CASE y \in rows /\ y \notin D
    BY <2>1 DEF TableInv, Shapes, Same
  <2>2. CASE \E x \in D : y = Mark(r, x)
    <3>1. PICK x \in D : y = Mark(r, x)
      BY <2>2
    <3>2. x \in Versions
      BY <1>1 DEF TableInv, Shapes
    <3> QED
      BY <1>1, <3>1, <3>2, MarkEffect DEF Same
  <2> QED
    BY <1>1, <2>1, <2>2, MarkedEffect
<1>3. \A x \in rows : \E y \in rows' : Same(r, x, y) /\ y.by = x.by
  <2> SUFFICES ASSUME NEW x \in rows PROVE \E y \in rows' : Same(r, x, y) /\ y.by = x.by
    OBVIOUS
  <2>1. x \in Versions
    BY DEF TableInv, Shapes
  <2>2. CASE x \in D
    BY <1>1, <2>1, <2>2, MarkEffect, MarkedEffect DEF Same
  <2>3. CASE x \notin D
    BY <1>1, <2>3, MarkedEffect DEF Same
  <2> QED
    BY <2>2, <2>3
<1>4. Shapes' /\ Fitting'
  BY <1>1, <1>2 DEF TableInv, Shapes, Fitting, Fits, Same
<1>5. Identified'
  BY <1>2 DEF TableInv, Identified, Same
<1>6. Unique'
  <2> SUFFICES ASSUME NEW v \in rows', NEW w \in rows', v # w, Share(v, w)
               PROVE  Replaces(v, w) \/ Replaces(w, v)
    BY DEF Unique
  <2>1. PICK x \in rows : Same(r, x, v) /\ v.by = x.by
                          /\ (v.del # x.del => x.by = None /\ x.del = None)
    BY <1>2
  <2>2. PICK y \in rows : Same(r, y, w) /\ w.by = y.by
                          /\ (w.del # y.del => y.by = None /\ y.del = None)
    BY <1>2
  <2>3. x # y
    BY <1>5, <2>1, <2>2 DEF Identified, Same
  <2>4. Replaces(x, y) \/ Replaces(y, x)
    BY <2>1, <2>2, <2>3 DEF TableInv, Unique, Share, Same
  <2> QED
    BY <2>1, <2>2, <2>4 DEF Replaces
<1>7. Owned'
  BY <1>1, <1>3 DEF TableInv, Owned, Alike, Same
<1>8. Complete'
  BY <1>1, <1>2 DEF TableInv, Complete, Same
<1>9. Stepped(r)
  BY <1>1, <1>2, MarkedEffect DEF Stepped, From, Same
<1>10. Contacts' = Contacts
  BY <1>2, <1>3 DEF Contacts, Committed, Same
<1>11. NoCommit(r)
  BY <1>2, <1>10 DEF NoCommit, Committed
<1> QED
  BY <1>4, <1>5, <1>6, <1>7, <1>8, <1>9, <1>11 DEF TableInv, TableStep

(* What a ROLLBACK makes of the versions: those of r are gone, the others  *)
(* are there and not deleted by r.                                         *)
LEMMA UndoneEffect ==
  ASSUME NEW r \in Requests, NEW X \in SUBSET Versions
  PROVE  /\ \A y \in Undone(r, X) : \E x \in X :
              /\ y \in Versions /\ x.by # r
              /\ y.id = x.id /\ y.uuid = x.uuid /\ y.hash = x.hash /\ y.by = x.by
              /\ y.del = IF x.del = r THEN None ELSE x.del
         /\ \A x \in X : x.by # r => \E y \in Undone(r, X) :
              /\ y.id = x.id /\ y.uuid = x.uuid /\ y.hash = x.hash /\ y.by = x.by
              /\ y.del = IF x.del = r THEN None ELSE x.del
              /\ x.del # r => y = x
<1> DEFINE back(x) == [x EXCEPT !.del = IF x.del = r THEN None ELSE x.del]
<1>1. \A x \in X :
        LET y == back(x)
        IN /\ y \in Versions
           /\ y.id = x.id /\ y.uuid = x.uuid /\ y.hash = x.hash /\ y.by = x.by
           /\ y.del = IF x.del = r THEN None ELSE x.del
           /\ x.del # r => y = x
  BY DEF Versions
<1>2. Undone(r, X) = {back(x) : x \in {y \in X : y.by # r}}
  BY DEF Undone
<1> HIDE DEF back
<1> QED
  BY <1>1, <1>2

LEMMA RollbackEffect ==
  ASSUME TableInv, NEW r \in Requests, RollbackTable(r)
  PROVE  /\ TableInv' /\ TableStep(r)
         /\ \A x \in rows' \cup fields' : x.by # r /\ x.del # r
<1>1. /\ rows' = Undone(r, rows) /\ fields' = Undone(r, fields)
      /\ rows \in SUBSET Versions /\ fields \in SUBSET Versions
  BY DEF RollbackTable, TableInv, Shapes
<1>2. r # None
  BY TableAssumption
<1>3. Shapes' /\ \A x \in rows' \cup fields' : x.by # r /\ x.del # r
  BY <1>1, <1>2, UndoneEffect DEF Shapes
<1>4. Fitting'
  BY <1>1, UndoneEffect DEF TableInv, Fitting, Fits
<1>5. Identified'
  <2> SUFFICES ASSUME NEW v \in rows', NEW w \in rows', v.id = w.id
               PROVE  v = w
    BY DEF Identified
  <2>1. PICK x \in rows : /\ v.id = x.id /\ v.uuid = x.uuid /\ v.hash = x.hash /\ v.by = x.by
                          /\ v.del = IF x.del = r THEN None ELSE x.del
    BY <1>1, UndoneEffect
  <2>2. PICK y \in rows : /\ w.id = y.id /\ w.uuid = y.uuid /\ w.hash = y.hash /\ w.by = y.by
                          /\ w.del = IF y.del = r THEN None ELSE y.del
    BY <1>1, UndoneEffect
  <2>3. x = y
    BY <2>1, <2>2 DEF TableInv, Identified
  <2>4. v \in Versions /\ w \in Versions
    BY <1>3 DEF Shapes
  <2> QED
    BY <2>1, <2>2, <2>3, <2>4 DEF Versions
<1>6. Unique'
  <2> SUFFICES ASSUME NEW v \in rows', NEW w \in rows', v # w, Share(v, w)
               PROVE  Replaces(v, w) \/ Replaces(w, v)
    BY DEF Unique
  <2>1. PICK x \in rows : /\ x.by # r
                          /\ v.id = x.id /\ v.uuid = x.uuid /\ v.hash = x.hash /\ v.by = x.by
                          /\ v.del = IF x.del = r THEN None ELSE x.del
    BY <1>1, UndoneEffect
  <2>2. PICK y \in rows : /\ y.by # r
                          /\ w.id = y.id /\ w.uuid = y.uuid /\ w.hash = y.hash /\ w.by = y.by
                          /\ w.del = IF y.del = r THEN None ELSE y.del
    BY <1>1, UndoneEffect
  <2>3. x # y
    BY <1>5, <2>1, <2>2 DEF Identified
  <2>4. Replaces(x, y) \/ Replaces(y, x)
    BY <2>1, <2>2, <2>3 DEF TableInv, Unique, Share
  <2> QED
    BY <2>1, <2>2, <2>4 DEF Replaces
<1>7. Owned'
  <2> SUFFICES ASSUME NEW g \in fields' PROVE \E x \in rows' : Alike(g, x)
    BY DEF Owned
  <2>1. PICK f \in fields : f.by # r /\ g.id = f.id /\ g.hash = f.hash /\ g.by = f.by
    BY <1>1, UndoneEffect
  <2>2. PICK x \in rows : Alike(f, x)
    BY DEF TableInv, Owned
  <2> QED
    BY <1>1, <2>1, <2>2, UndoneEffect DEF Alike
<1>8. Complete'
  <2> SUFFICES ASSUME NEW x \in rows' PROVE \E g \in fields' : g.id = x.id
    BY DEF Complete
  <2>1. PICK y \in rows : y.by # r /\ x.id = y.id
    BY <1>1, UndoneEffect
  <2>2. PICK f \in fields : f.id = y.id
    BY DEF TableInv, Complete
  <2>3. f.by = y.by
    BY <2>2 DEF TableInv, Owned, Identified, Alike
  <2> QED
    BY <1>1, <2>1, <2>2, <2>3, UndoneEffect
<1>9. Stepped(r)
  <2>1. \A x \in rows : x.del \notin {None, r} \/ x.by \notin {None, r} => x \in rows'
    <3> SUFFICES ASSUME NEW x \in rows, x.del \notin {None, r} \/ x.by \notin {None, r}
                 PROVE  x \in rows'
      OBVIOUS
    <3>1. x.by # r /\ x.del # r
      BY <1>2 DEF TableInv, Fitting, Fits
    <3> QED
      BY <1>1, <3>1, UndoneEffect
  <2>2. From(r, rows, rows') /\ From(r, fields, fields')
    BY <1>1, UndoneEffect DEF From, Same
  <2> QED
    BY <2>1, <2>2 DEF Stepped
<1>10. Contacts' = Contacts
  BY <1>1, <1>2, UndoneEffect DEF Contacts, Committed
<1>11. NoCommit(r)
  <2>1. \A y \in Committed(rows') : \E x \in Committed(rows) : Same(r, x, y)
    BY <1>1, UndoneEffect DEF Committed, Same
  <2> QED
    BY <1>10, <2>1 DEF NoCommit
<1> QED
  BY <1>3, <1>4, <1>5, <1>6, <1>7, <1>8, <1>9, <1>11 DEF TableInv, TableStep

(* What a COMMIT makes of them: those r deletes are gone, its own are      *)
(* committed.                                                              *)
LEMMA KeptEffect ==
  ASSUME NEW r \in Requests, NEW X \in SUBSET Versions
  PROVE  /\ \A y \in Kept(r, X) : \E x \in X :
              /\ y \in Versions /\ x.del # r
              /\ y.id = x.id /\ y.uuid = x.uuid /\ y.hash = x.hash /\ y.del = x.del
              /\ y.by = IF x.by = r THEN None ELSE x.by
         /\ \A x \in X : x.del # r => \E y \in Kept(r, X) :
              /\ y.id = x.id /\ y.uuid = x.uuid /\ y.hash = x.hash /\ y.del = x.del
              /\ y.by = IF x.by = r THEN None ELSE x.by
              /\ x.by # r => y = x
<1> DEFINE kept(x) == [x EXCEPT !.by = IF x.by = r THEN None ELSE x.by]
<1>1. \A x \in X :
        LET y == kept(x)
        IN /\ y \in Versions
           /\ y.id = x.id /\ y.uuid = x.uuid /\ y.hash = x.hash /\ y.del = x.del
           /\ y.by = IF x.by = r THEN None ELSE x.by
           /\ x.by # r => y = x
  BY DEF Versions
<1>2. Kept(r, X) = {kept(x) : x \in {y \in X : y.del # r}}
  BY DEF Kept
<1> HIDE DEF kept
<1> QED
  BY <1>1, <1>2

(* A COMMIT keeps the tables sound when r deletes rows and fields alike.   *)
LEMMA CommitEffect ==
  ASSUME TableInv, NEW r \in Requests, CommitTable(r),
         \A x \in rows, g \in fields : g.id = x.id => (x.del = r <=> g.del = r)
  PROVE  /\ TableInv' /\ Stepped(r)
         /\ \A x \in rows' \cup fields' : x.by # r /\ x.del # r
         /\ \A y \in Committed(rows') : \E x \in rows :
              Same(r, x, y) /\ x.by \in {None, r} /\ x.del # r
<1>1. /\ rows' = Kept(r, rows) /\ fields' = Kept(r, fields)
      /\ rows \in SUBSET Versions /\ fields \in SUBSET Versions
  BY DEF CommitTable, TableInv, Shapes
<1>2. r # None
  BY TableAssumption
<1>3. Shapes' /\ \A x \in rows' \cup fields' : x.by # r /\ x.del # r
  BY <1>1, <1>2, KeptEffect DEF Shapes
<1>4. Fitting'
  BY <1>1, KeptEffect DEF TableInv, Fitting, Fits
<1>5. Identified'
  <2> SUFFICES ASSUME NEW v \in rows', NEW w \in rows', v.id = w.id
               PROVE  v = w
    BY DEF Identified
  <2>1. PICK x \in rows : /\ v.id = x.id /\ v.uuid = x.uuid /\ v.hash = x.hash /\ v.del = x.del
                          /\ v.by = IF x.by = r THEN None ELSE x.by
    BY <1>1, KeptEffect
  <2>2. PICK y \in rows : /\ w.id = y.id /\ w.uuid = y.uuid /\ w.hash = y.hash /\ w.del = y.del
                          /\ w.by = IF y.by = r THEN None ELSE y.by
    BY <1>1, KeptEffect
  <2>3. x = y
    BY <2>1, <2>2 DEF TableInv, Identified
  <2>4. v \in Versions /\ w \in Versions
    BY <1>3 DEF Shapes
  <2> QED
    BY <2>1, <2>2, <2>3, <2>4 DEF Versions
<1>6. Unique'
  <2> SUFFICES ASSUME NEW v \in rows', NEW w \in rows', v # w, Share(v, w)
               PROVE  Replaces(v, w) \/ Replaces(w, v)
    BY DEF Unique
  <2>1. PICK x \in rows : /\ x.del # r
                          /\ v.id = x.id /\ v.uuid = x.uuid /\ v.hash = x.hash /\ v.del = x.del
                          /\ v.by = IF x.by = r THEN None ELSE x.by
    BY <1>1, KeptEffect
  <2>2. PICK y \in rows : /\ y.del # r
                          /\ w.id = y.id /\ w.uuid = y.uuid /\ w.hash = y.hash /\ w.del = y.del
                          /\ w.by = IF y.by = r THEN None ELSE y.by
    BY <1>1, KeptEffect
  <2>3. x # y
    BY <1>5, <2>1, <2>2 DEF Identified
  <2>4. Replaces(x, y) \/ Replaces(y, x)
    BY <2>1, <2>2, <2>3 DEF TableInv, Unique, Share
  <2> QED
    BY <2>1, <2>2, <2>4 DEF Replaces
<1>7. Owned'
  <2> SUFFICES ASSUME NEW g \in fields' PROVE \E x \in rows' : Alike(g, x)
    BY DEF Owned
  <2>1. PICK f \in fields : /\ f.del # r /\ g.id = f.id /\ g.hash = f.hash
                            /\ g.by = IF f.by = r THEN None ELSE f.by
    BY <1>1, KeptEffect
  <2>2. PICK x \in rows : Alike(f, x)
    BY DEF TableInv, Owned
  <2>3. x.del # r
    BY <2>1, <2>2 DEF Alike
  <2> QED
    BY <1>1, <2>1, <2>2, <2>3, KeptEffect DEF Alike
<1>8. Complete'
  <2> SUFFICES ASSUME NEW x \in rows' PROVE \E g \in fields' : g.id = x.id
    BY DEF Complete
  <2>1. PICK y \in rows : y.del # r /\ x.id = y.id
    BY <1>1, KeptEffect
  <2>2. PICK f \in fields : f.id = y.id
    BY DEF TableInv, Complete
  <2>3. f.del # r
    BY <2>1, <2>2
  <2> QED
    BY <1>1, <2>1, <2>2, <2>3, KeptEffect
<1>9. Stepped(r)
  <2>1. \A x \in rows : x.del \notin {None, r} \/ x.by \notin {None, r} => x \in rows'
    <3> SUFFICES ASSUME NEW x \in rows, x.del \notin {None, r} \/ x.by \notin {None, r}
                 PROVE  x \in rows'
      OBVIOUS
    <3>1. x.by # r /\ x.del # r
      BY <1>2 DEF TableInv, Fitting, Fits
    <3> QED
      BY <1>1, <3>1, KeptEffect
  <2>2. From(r, rows, rows') /\ From(r, fields, fields')
    BY <1>1, KeptEffect DEF From, Same
  <2> QED
    BY <2>1, <2>2 DEF Stepped
<1>10. \A y \in Committed(rows') : \E x \in rows :
         Same(r, x, y) /\ x.by \in {None, r} /\ x.del # r
  BY <1>1, <1>2, KeptEffect DEF Committed, Same
<1> QED
  BY <1>3, <1>4, <1>5, <1>6, <1>7, <1>8, <1>9, <1>10 DEF TableInv

----------------------------------------------------------------------------
(* What a step of r leaves of the other requests.                          *)
Untouched(q) ==
  /\ pc'[q] = pc[q] /\ kind'[q] = kind[q] /\ target'[q] = target[q]
  /\ bodies'[q] = bodies[q] /\ ids'[q] = ids[q] /\ reply'[q] = reply[q]
  /\ left'[q] = left[q] /\ fieldsLeft'[q] = fieldsLeft[q] /\ aim'[q] = aim[q]
  /\ failed'[q] = failed[q] /\ todo'[q] = todo[q]

(* What r commits is a row that was there, or one that has the uuid r      *)
(* edits, one it was sent, or a new one; then removals are told.           *)
UuidOf(r, u) ==
  \/ kind[r] = "edit" /\ target[r] = u
  \/ \E h \in bodies[r] : ids[r][h] = u
  \/ \E h \in Hashes : u = NewUuid(r, h)

CommitsItsOwn(r) ==
  /\ \A q \in Requests : since[q] \subseteq since'[q]
  /\ \A y \in Committed(rows') :
       \/ \E x \in Committed(rows) : Same(r, x, y)
       \/ /\ UuidOf(r, y.uuid)
          /\ \A q \in Requests : kind[q] \in {"edit", "remove", "purge"} => y.uuid \in since'[q]

(* A step of r that commits nothing, and any.                              *)
Quiet(r) == TableStep(r) /\ since' = since /\ \A q \in Requests \ {r} : Untouched(q)
Moved(r) == Stepped(r) /\ CommitsItsOwn(r) /\ \A q \in Requests \ {r} : Untouched(q)

LEMMA QuietMoves ==
  ASSUME NEW r, Quiet(r)
  PROVE  Moved(r)
  BY DEF Quiet, Moved, TableStep, NoCommit, CommitsItsOwn

LEMMA NewUuidsDiffer ==
  ASSUME NEW q \in Requests, NEW r \in Requests, NEW g \in Hashes, NEW h \in Hashes,
         NewUuid(q, g) = NewUuid(r, h)
  PROVE  q = r /\ g = h
<1>1. /\ q \in Nat /\ r \in Nat /\ Radix \in Nat
      /\ g \in 0 .. Radix - 1 /\ h \in 0 .. Radix - 1
  BY TableAssumption
<1>2. ASSUME NEW a \in Nat, NEW b \in Nat, a < b
      PROVE  Radix * a + Radix <= Radix * b
  <2>1. PICK d \in Nat : b = a + 1 + d
    <3>1. b - (a + 1) \in Nat /\ b = a + 1 + (b - (a + 1))
      BY <1>2
    <3> QED
      BY <3>1
  <2>2. Radix * d \in Nat /\ Radix * b = Radix * a + Radix + Radix * d
    BY <1>1, <2>1
  <2>3. Radix * a \in Nat
    BY <1>1
  <2> QED
    BY <1>1, <2>2, <2>3
<1>3. Radix * q \in Nat /\ Radix * r \in Nat
  BY <1>1
<1>4. q = r
  BY <1>1, <1>2, <1>3 DEF NewUuid
<1> QED
  BY <1>1, <1>3, <1>4 DEF NewUuid

(* A new uuid is a number, and none there was to begin with.               *)
LEMMA NewUuidIsNew ==
  ASSUME NEW r \in Requests, NEW h \in Hashes
  PROVE  NewUuid(r, h) \in Nat /\ NewUuid(r, h) \notin Hashes
<1>1. r \in Nat /\ r > 0 /\ Radix \in Nat /\ h \in 0 .. Radix - 1
  BY TableAssumption
<1>2. PICK d \in Nat : r = 1 + d
  <2>1. r - 1 \in Nat /\ r = 1 + (r - 1)
    BY <1>1
  <2> QED
    BY <2>1
<1>3. Radix * r = Radix + Radix * d /\ Radix * d \in Nat
  BY <1>1, <1>2
<1>4. NewUuid(r, h) \in Nat /\ NewUuid(r, h) >= Radix
  BY <1>1, <1>3 DEF NewUuid
<1> QED
  BY <1>1, <1>4, TableAssumption

LEMMA OthersKeep ==
  ASSUME PersonalInv, NEW r \in Requests, pc[r] # "done", pc'[r] # "idle",
         \A q \in Requests \ {r} : Untouched(q),
         TableInv', Stepped(r), CommitsItsOwn(r),
         NEW q \in Requests \ {r}
  PROVE  RequestInv(q)'
<1>1. /\ RequestInv(q) /\ RequestInv(r) /\ Untouched(q) /\ TableInv
      /\ q \in Requests /\ q # r /\ q # None /\ r # None
  BY TableAssumption DEF PersonalInv
<1>2. Stage(q)'
  BY <1>1 DEF RequestInv, Stage, Untouched, AimedUuid
<1>3. /\ \A y \in rows' : New(r, y) \/ \E x \in rows : Same(r, x, y)
      /\ \A y \in fields' : New(r, y) \/ \E x \in fields : Same(r, x, y)
      /\ \A x \in rows : x.del \notin {None, r} \/ x.by \notin {None, r} => x \in rows'
  BY DEF Stepped, From
<1>4. \A x \in rows : x.id[1] = r => x.by = r /\ x.del = None
  BY <1>1 DEF RequestInv, Inserts, TableInv, Fitting, Fits
<1>5. Inserts(q)'
  BY <1>1, <1>3 DEF RequestInv, Inserts, Untouched, UuidFor, NewUuid, Same, New
<1>6. Deletes(q)'
  <2> DEFINE S == pc[q] \in {"fields", "rows", "waitRow", "cascade"}
             W == pc[q] \in {"waitRow", "cascade"}
  <2>1. \A x \in rows' : x.del = q => \E w \in rows : Same(r, w, x) /\ w.del = q
    BY <1>1, <1>3 DEF Same, New
  <2>2. \A g \in fields' : g.del = q => \E f \in fields : Same(r, f, g) /\ f.del = q
    BY <1>1, <1>3 DEF Same, New
  <2>3. \A x \in rows, g \in fields : g.id = x.id /\ g.del = q => x.by = None
    BY <1>1 DEF TableInv, Fitting, Fits, Owned, Identified, Alike
  <2>4. \A x \in rows' : x.del = q =>
          /\ pc'[q] \notin {"idle", "load", "done"} /\ kind'[q] \in {"edit", "remove", "purge"}
          /\ kind'[q] # "purge" => x.uuid = target'[q]
    BY <1>1, <2>1 DEF RequestInv, Deletes, Untouched, Same
  <2>5. ASSUME NEW x \in rows', NEW g \in fields', g.id = x.id, x.del = q
        PROVE  g.del = q \/ (pc'[q] = "cascade" /\ x.id = aim'[q])
    <3>1. PICK w \in rows : Same(r, w, x) /\ w.del = q
      BY <2>1, <2>5
    <3>2. PICK f \in fields : Same(r, f, g)
      BY <1>1, <1>3, <1>4, <2>5, <3>1 DEF New, Same
    <3>3. f.del = q \/ (pc[q] = "cascade" /\ w.id = aim[q])
      BY <1>1, <2>5, <3>1, <3>2 DEF RequestInv, Deletes, Same
    <3> QED
      BY <1>1, <3>1, <3>2, <3>3 DEF Untouched, Same
  <2>6. ASSUME NEW x \in rows', NEW g \in fields', g.id = x.id, g.del = q
        PROVE  \/ x.del = q
               \/ /\ pc'[q] \in {"fields", "rows", "waitRow", "cascade"} /\ x.uuid \in left'[q]
                  /\ pc'[q] \in {"waitRow", "cascade"} /\ x.uuid = aim'[q][2] => x.id = aim'[q]
    <3>1. PICK f \in fields : Same(r, f, g) /\ f.del = q
      BY <2>2, <2>6
    <3>2. PICK v \in rows : Alike(f, v)
      BY <1>1 DEF TableInv, Owned
    <3>3. v.by = None /\ v.id = x.id
      BY <2>3, <2>6, <3>1, <3>2 DEF Alike, Same
    <3>4. PICK w \in rows : Same(r, w, x)
      BY <1>1, <1>3, <1>4, <3>3 DEF New
    <3>5. \/ w.del = q
          \/ S /\ w.uuid \in left[q] /\ (W /\ w.uuid = aim[q][2] => w.id = aim[q])
      BY <1>1, <2>6, <3>1, <3>4 DEF RequestInv, Deletes, Same, AimedUuid
    <3>6. w.del = q => x.del = q
      BY <1>1, <3>4 DEF Same
    <3> QED
      BY <1>1, <3>4, <3>5, <3>6 DEF Untouched, Same
  <2>7. pc'[q] = "cascade" => \E x \in rows' : x.id = aim'[q] /\ x.del = q
    BY <1>1, <1>3 DEF RequestInv, Deletes, Untouched
  <2> QED
    BY <2>4, <2>5, <2>6, <2>7 DEF Deletes, AimedUuid
<1>7. \A p \in Requests : pc[p] = "done" => pc'[p] = "done"
  BY DEF Untouched
<1>8. since[q] \subseteq since'[q]
  BY DEF CommitsItsOwn
<1>9. Known(q)'
  <2>1. ASSUME NEW x \in Committed(rows'), NEW h \in Hashes, x.uuid = NewUuid(q, h)
        PROVE  pc[q] = "done"
    <3>1. CASE \E w \in Committed(rows) : Same(r, w, x)
      BY <1>1, <2>1, <3>1 DEF RequestInv, Known, Same
    <3>2. CASE target[r] = x.uuid \/ \E g \in bodies[r] : ids[r][g] = x.uuid
      BY <1>1, <2>1, <3>2 DEF RequestInv, Known
    <3>3. CASE \E g \in Hashes : x.uuid = NewUuid(r, g)
      BY <1>1, <2>1, <3>3, NewUuidsDiffer
    <3> QED
      BY <3>1, <3>2, <3>3 DEF CommitsItsOwn, UuidOf
  <2>2. \A p \in Requests, h \in Hashes :
          target[q] = NewUuid(p, h) \/ (\E g \in bodies[q] : ids[q][g] = NewUuid(p, h)) =>
            pc[p] = "done"
    BY <1>1 DEF RequestInv, Known
  <2> QED
    BY <1>1, <1>7, <2>1, <2>2 DEF Known, Committed, Untouched, NewUuid
<1>10. Gone(q)'
  <2> SUFFICES ASSUME kind[q] = "remove" PROVE Gone(q)'
    BY <1>1 DEF Gone, Untouched
  <2>1. PICK u \in Nat : u = target[q]
    BY <1>1 DEF RequestInv, Stage
  <2>2. ASSUME NEW x \in Committed(rows'), x.uuid = u, u \notin since'[q]
        PROVE  \E w \in Committed(rows) : Same(r, w, x)
    BY <2>2 DEF CommitsItsOwn
  <2>3. ASSUME NEW x \in Committed(rows'), x.uuid = u, u \notin since'[q],
               reply[q] = "ok" \/ (pc[q] = "rows" /\ left[q] = {})
        PROVE  x.del = q
    <3>1. PICK w \in Committed(rows) : Same(r, w, x)
      BY <2>2, <2>3
    <3>2. w.del = q
      BY <1>1, <1>8, <2>1, <2>3, <3>1 DEF RequestInv, Gone, Same
    <3> QED
      BY <1>1, <3>1, <3>2 DEF Same
  <2>4. ASSUME NEW x \in Committed(rows'), x.uuid = u, u \notin since'[q],
               pc[q] \in {"waitRow", "cascade"}
        PROVE  x.id = aim[q]
    <3>1. PICK w \in Committed(rows) : Same(r, w, x)
      BY <2>2, <2>4
    <3> QED
      BY <1>1, <1>8, <2>1, <2>4, <3>1 DEF RequestInv, Gone, Same
  <2>5. target'[q] = u /\ Untouched(q)
    BY <1>1, <2>1 DEF Untouched
  <2>6. reply'[q] = "ok" \/ (pc'[q] = "rows" /\ left'[q] = {}) =>
          \A x \in Committed(rows') : x.uuid = u => x.del = q \/ u \in since'[q]
    BY <2>3, <2>5 DEF Untouched
  <2>7. pc'[q] \in {"waitRow", "cascade"} =>
          \A x \in Committed(rows') : x.uuid = u => x.id = aim'[q] \/ u \in since'[q]
    BY <2>4, <2>5 DEF Untouched
  <2> QED
    BY <2>5, <2>6, <2>7 DEF Gone, Committed
<1> QED
  BY <1>2, <1>5, <1>6, <1>9, <1>10 DEF RequestInv

(* A step that commits nothing keeps the invariant if it keeps the part of *)
(* the request that makes it.                                              *)
LEMMA OwnStep ==
  ASSUME PersonalInv, NEW r \in Requests, pc[r] # "done", pc'[r] # "idle",
         \A q \in Requests \ {r} : Untouched(q),
         TableInv', TableStep(r), Types', told' = told, since' = since,
         target'[r] = target[r], bodies'[r] = bodies[r], ids'[r] = ids[r],
         Stage(r)', Inserts(r)', Deletes(r)', Gone(r)'
  PROVE  PersonalInv' /\ Quiet(r)
<1>1. CommitsItsOwn(r) /\ Stepped(r)
  BY DEF TableStep, NoCommit, CommitsItsOwn
<1>2. \A q \in Requests \ {r} : RequestInv(q)'
  BY <1>1, OthersKeep
<1>3. Known(r)'
  <2>1. \A p \in Requests : pc[p] = "done" => pc'[p] = "done"
    BY DEF Untouched
  <2>2. \A x \in Committed(rows'), h \in Hashes : x.uuid # NewUuid(r, h)
    BY DEF TableStep, NoCommit, Same, PersonalInv, RequestInv, Known
  <2> QED
    BY <2>1, <2>2 DEF PersonalInv, RequestInv, Known, Committed, NewUuid
<1>4. NothingLost'
  BY DEF PersonalInv, NothingLost, TableStep, NoCommit
<1> QED
  BY <1>2, <1>3, <1>4 DEF PersonalInv, RequestInv, Quiet

LEMMA TableTypes ==
  ASSUME TableInv'
  PROVE  TableTypeOK'
  BY DEF TableInv, Shapes, Versions, TableTypeOK

LEMMA AbortKeeps ==
  ASSUME PersonalInv, NEW r \in Requests, pc[r] \notin {"idle", "done"},
         NEW why \in {"duplicate", "nosuch", "error"}, Abort(r, why)
  PROVE  PersonalInv' /\ Quiet(r)
<1>1. /\ pc' = [pc EXCEPT ![r] = "done"] /\ reply' = [reply EXCEPT ![r] = why]
      /\ tenant' = tenant \ {r} /\ user' = user \ {r}
      /\ UNCHANGED <<kind, target, bodies, ids, fieldsLeft, left, aim, failed, todo, told, since>>
      /\ r # None
  BY TableAssumption DEF Abort, RollbackOwner, input, ghosts, work
<1>2. TableInv' /\ TableStep(r) /\ \A x \in rows' \cup fields' : x.by # r /\ x.del # r
  BY RollbackEffect DEF Abort, PersonalInv
<1>3. Types'
  <2>1. tenant' \in Writers /\ user' \in Writers
    <3>1. tenant \in Writers /\ user \in Writers
      BY DEF PersonalInv, Types, TypeOK
    <3> QED
      BY ONLY <1>1, <3>1 DEF Writers
  <2> QED
    BY <1>1, <1>2, <2>1, TableTypes DEF PersonalInv, Types, TypeOK
<1>4. pc'[r] = "done" /\ reply'[r] = why
  BY <1>1 DEF PersonalInv, Types, TypeOK
<1>5. \A q \in Requests \ {r} : Untouched(q)
  BY <1>1 DEF PersonalInv, Types, TypeOK, Untouched
<1>6. Stage(r)'
  BY <1>1, <1>4 DEF PersonalInv, RequestInv, Stage, Removing, Writing
<1>7. Inserts(r)' /\ Deletes(r)'
  BY <1>2, <1>4 DEF Inserts, Deletes
<1>8. Gone(r)'
  BY <1>4 DEF Gone
<1> QED
  BY <1>1, <1>2, <1>3, <1>4, <1>5, <1>6, <1>7, <1>8, OwnStep

----------------------------------------------------------------------------
(* The first state, and the beginning of a request.                        *)
LEMMA InitPersonalInv == Init => PersonalInv
<1> SUFFICES ASSUME Init PROVE PersonalInv
  OBVIOUS
<1> USE TableAssumption
<1>1. PICK H \in SUBSET Hashes : TableInit(H)
  BY PersonalAssumption DEF Init
<1>2. rows = {Version(0, h, h, None) : h \in H} /\ fields = rows
  BY <1>1 DEF TableInit
<1>3. \A x \in rows : \E h \in Hashes : x = Version(0, h, h, None)
  BY <1>2
<1>4. \A h \in Hashes :
        LET x == Version(0, h, h, None)
        IN /\ x \in Versions /\ x.id = <<0, h>> /\ x.uuid = h /\ x.hash = h
           /\ x.by = None /\ x.del = None
  BY DEF Version, Versions
<1>5. \A x \in rows : /\ x \in Versions /\ x.hash \in Hashes
                      /\ x.id = <<0, x.hash>> /\ x.uuid = x.hash /\ x.by = None /\ x.del = None
  BY <1>3, <1>4
<1>6. TableInv
  <2>1. \A x, y \in rows : x.hash = y.hash => x = y
    BY <1>3, <1>4
  <2>2. Shapes /\ Fitting /\ Identified /\ Unique
    BY <1>2, <1>5, <2>1 DEF Shapes, Fitting, Fits, Identified, Unique, Share
  <2>3. Owned /\ Complete
    BY <1>2 DEF Owned, Complete, Alike
  <2> QED
    BY <2>2, <2>3 DEF TableInv
<1>7. NothingLost
  BY DEF Init, NothingLost
<1>8. Types
  <2>1. \A p \in Contacts : p[1] \in Nat /\ p[2] \in Hashes
    <3>1. \A x \in rows : x.uuid \in Nat /\ x.hash \in Hashes
      BY <1>5 DEF Versions
    <3> QED
      BY <3>1 DEF Contacts, Committed
  <2>2. TableTypeOK
    BY <1>6 DEF TableInv, Shapes, Versions, TableTypeOK
  <2> QED
    BY <2>1, <2>2 DEF Init, Types, TypeOK, Writers
<1>9. ASSUME NEW r \in Requests PROVE RequestInv(r)
  <2>1. r # 0 /\ r \in Nat
    OBVIOUS
  <2>2. \A h, g \in Hashes : NewUuid(r, h) # g
    BY NewUuidIsNew
  <2>3. \A q \in Requests, h \in Hashes : NewUuid(q, h) \in Nat
    BY NewUuidIsNew
  <2>4. Known(r)
    <3>1. target[r] = None /\ None \notin Nat
      BY PersonalAssumption DEF Init
    <3>2. \A x \in rows : x.uuid \in Hashes
      BY <1>5
    <3>3. bodies[r] = {}
      BY DEF Init
    <3> QED
      BY ONLY <2>2, <2>3, <3>1, <3>2, <3>3 DEF Known, Committed
  <2>5. Stage(r) /\ Gone(r)
    BY PersonalAssumption DEF Init, Stage, Gone, Removing, Writing
  <2>6. Inserts(r) /\ Deletes(r)
    BY <1>2, <1>5, <2>1 DEF Init, Inserts, Deletes
  <2> QED
    BY <2>4, <2>5, <2>6 DEF RequestInv
<1> QED
  BY <1>6, <1>7, <1>8, <1>9 DEF PersonalInv

Start(k) == CASE k = "create" -> "user" [] k = "import" -> "list" [] OTHER -> "load"

LEMMA BeginKeeps ==
  ASSUME PersonalInv, NEW r \in Requests, NEW k, NEW u, NEW B \in SUBSET Hashes,
         NEW f \in [B -> Ids \cup {None}],
         Begin(r, k, u, B, f),
         \A h \in B : f[h] \in Sendable,
         \/ k \in {"create", "import", "purge"} /\ u = None
         \/ k \in {"edit", "remove"} /\ \E p \in Contacts : u = p[1],
         k = "edit" => \E h \in Hashes : B = {h}
  PROVE  PersonalInv'
<1>1. /\ pc[r] = "idle" /\ k \in Kinds
      /\ kind' = [kind EXCEPT ![r] = k] /\ target' = [target EXCEPT ![r] = u]
      /\ bodies' = [bodies EXCEPT ![r] = B] /\ ids' = [ids EXCEPT ![r] = f]
      /\ pc' = [pc EXCEPT ![r] = Start(k)]
      /\ UNCHANGED <<rows, fields, tenant, user, fieldsLeft, left, aim, failed, todo, reply, told, since>>
  BY DEF Begin, Start, table, owner, work, ghosts
<1>2. TableInv' /\ TableStep(r)
  BY <1>1, NothingWritten DEF PersonalInv, TableInv, Shapes, Fitting, Identified, Unique,
       Owned, Complete, table
<1>3. /\ pc'[r] = Start(k)
      /\ kind'[r] = k /\ target'[r] = u /\ bodies'[r] = B /\ ids'[r] = f
  BY <1>1 DEF PersonalInv, Types, TypeOK
<1>4. u = None \/ \E x \in Committed(rows) : u = x.uuid
  BY DEF Contacts
<1>5. u \in Nat \cup {None} /\ (k \in {"edit", "remove"} => u \in Nat)
  BY <1>4 DEF Contacts, Committed, PersonalInv, TableInv, Shapes, Versions
<1>6. Types'
  <2>1. \A q \in Requests : ids'[q] \in [bodies'[q] -> Ids \cup {None}]
    BY <1>1 DEF PersonalInv, Types, TypeOK
  <2>2. ids' = [q \in Requests |-> ids'[q]]
    BY <1>1 DEF PersonalInv, Types
  <2> QED
    BY <1>1, <1>2, <1>5, <2>1, <2>2, TableTypes DEF PersonalInv, Types, TypeOK, Start
<1>7. \A q \in Requests \ {r} : Untouched(q)
  BY <1>1 DEF PersonalInv, Types, TypeOK, Untouched
<1>8. CommitsItsOwn(r) /\ Stepped(r)
  BY <1>1, <1>2 DEF TableStep, NoCommit, CommitsItsOwn
<1>9. \A q \in Requests \ {r} : RequestInv(q)'
  <2>1. pc'[r] # "idle"
    BY <1>3 DEF Start
  <2> QED
    BY <1>1, <1>2, <1>3, <1>7, <1>8, <2>1, OthersKeep
<1>10. Stage(r)'
  <2>1. /\ reply'[r] = None /\ left'[r] = {}
    BY <1>1 DEF PersonalInv, RequestInv, Stage
  <2>2. CASE k = "create"
    BY ONLY <1>3, <1>5, <2>1, <2>2 DEF Stage, Removing, Writing, Start
  <2>3. CASE k = "import"
    BY ONLY <1>3, <1>5, <2>1, <2>3 DEF Stage, Removing, Writing, Start
  <2>4. CASE k \in {"edit", "remove", "purge"}
    <3>1. k = "edit" => \E h \in Hashes : B = {h}
      OBVIOUS
    <3>2. pc'[r] = "load"
      BY <1>3, <2>4 DEF Start
    <3> QED
      BY ONLY <1>3, <1>5, <2>1, <2>4, <3>1, <3>2 DEF Stage, Removing, Writing
  <2> QED
    BY <1>1, <2>2, <2>3, <2>4, PersonalAssumption
<1>11. Inserts(r)' /\ Deletes(r)'
  <2>1. \A x \in rows \cup fields : x.by # r /\ x.del # r
    BY <1>1 DEF PersonalInv, RequestInv, Inserts, Deletes, TableInv, Owned, Alike
  <2>2. pc'[r] \in {"user", "list", "load"}
    BY <1>3 DEF Start
  <2> QED
    BY <1>1, <1>2, <1>3, <2>1, <2>2 DEF PersonalInv, RequestInv, Inserts, Deletes
<1>12. Known(r)'
  <2>1. \A q \in Requests, h \in Hashes : NewUuid(q, h) \in Nat
    BY NewUuidIsNew
  <2>2. \A p \in Requests : pc[p] = "done" => pc'[p] = "done"
    BY <1>1, <1>7 DEF Untouched
  <2>3. \A x \in Committed(rows), h \in Hashes : x.uuid # NewUuid(r, h)
    BY <1>1 DEF PersonalInv, RequestInv, Known
  <2>4. \A q \in Requests, h \in Hashes : u = NewUuid(q, h) => pc[q] = "done"
    BY <1>4, <2>1, PersonalAssumption DEF PersonalInv, RequestInv, Known
  <2>5. \A q \in Requests, h \in Hashes, g \in B : f[g] = NewUuid(q, h) => pc[q] = "done"
    <3> SUFFICES ASSUME NEW q \in Requests, NEW h \in Hashes, NEW g \in B, f[g] = NewUuid(q, h)
                 PROVE  pc[q] = "done"
      OBVIOUS
    <3>1. f[g] \in Ids /\ f[g] \in Sendable
      BY <2>1, PersonalAssumption
    <3>2. reply[q] = "ok"
      BY <3>1, PersonalAssumption DEF Sendable
    <3> QED
      BY <3>2, PersonalAssumption DEF PersonalInv, RequestInv, Stage
  <2> QED
    BY <1>1, <1>3, <2>2, <2>3, <2>4, <2>5 DEF Known, Committed, NewUuid
<1>13. Gone(r)'
  <2>1. reply'[r] = None /\ pc'[r] \in {"user", "list", "load"}
    BY <1>1, <1>3 DEF PersonalInv, RequestInv, Stage, Start
  <2> QED
    BY ONLY <2>1, PersonalAssumption DEF Gone
<1>14. NothingLost'
  BY <1>1 DEF PersonalInv, NothingLost, Contacts, Committed
<1> QED
  BY <1>2, <1>6, <1>9, <1>10, <1>11, <1>12, <1>13, <1>14 DEF PersonalInv, RequestInv

LEMMA Unanswered ==
  ASSUME PersonalInv, NEW r \in Requests, pc[r] # "done"
  PROVE  reply[r] = None /\ reply[r] \notin {"ok", "duplicate", "nosuch", "nothing", "error"}
  BY PersonalAssumption DEF PersonalInv, RequestInv, Stage

----------------------------------------------------------------------------
(* The steps of a removal: what it loads, then the fields, then the rows.  *)
LEMMA LoadKeeps ==
  ASSUME PersonalInv, NEW r \in Requests, Load(r)
  PROVE  PersonalInv' /\ Quiet(r)
<1>1. pc[r] = "load" /\ r # None /\ kind[r] \in {"edit", "remove", "purge"}
  BY TableAssumption DEF Load, PersonalInv, RequestInv, Stage, Removing
<1>2. CASE Wanted(r) = {} /\ kind[r] # "purge"
  <2>1. Abort(r, "nosuch")
    BY <1>2 DEF Load
  <2> QED
    BY <1>1, <2>1, AbortKeeps
<1>3. CASE ~(Wanted(r) = {} /\ kind[r] # "purge")
  <2> DEFINE L == {x.uuid : x \in Wanted(r)}
             F == {g.id : g \in {f \in Visible(r, fields) : f.uuid \in L}}
  <2>1. L \in SUBSET Nat /\ F \in SUBSET (Nat \X Nat) /\ \A i \in F : i[2] \in L
    <3>1. \A x \in rows \cup fields : x.uuid \in Nat /\ x.id \in Nat \X Nat /\ x.id[2] = x.uuid
      BY DEF PersonalInv, TableInv, Shapes, Versions, Fitting, Fits
    <3> QED
      BY <3>1 DEF Wanted, Visible
  <2>2. kind[r] # "purge" => L # {} /\ L \subseteq {target[r]}
    BY <1>3 DEF Wanted
  <2>3. /\ left' = [left EXCEPT ![r] = L]
        /\ fieldsLeft' = [fieldsLeft EXCEPT ![r] = {g.id : g \in {f \in Visible(r, fields) :
                                                                    f.uuid \in left'[r]}}]
        /\ pc' = [pc EXCEPT ![r] = "fields"]
        /\ UNCHANGED <<rows, fields, tenant, user, kind, target, bodies, ids, aim, failed, todo, reply, told, since>>
    BY <1>3 DEF Load, GoTo, table, owner, input, ghosts
  <2>4. left'[r] = L
    BY <2>3 DEF PersonalInv, Types
  <2>5. fieldsLeft' = [fieldsLeft EXCEPT ![r] = F]
    BY <2>3, <2>4
  <2> HIDE DEF L, F
  <2>6. pc'[r] = "fields" /\ fieldsLeft'[r] = F
    BY <2>3, <2>5 DEF PersonalInv, Types, TypeOK
  <2>7. TableInv' /\ TableStep(r)
    BY <2>3, NothingWritten DEF PersonalInv, TableInv, Shapes, Fitting, Identified, Unique,
         Owned, Complete, table
  <2>8. Types'
    BY <2>1, <2>3, <2>5, <2>7, TableTypes DEF PersonalInv, Types, TypeOK
  <2>9. \A q \in Requests \ {r} : Untouched(q)
    BY <2>3, <2>5 DEF PersonalInv, Types, TypeOK, Untouched
  <2>10. Stage(r)'
    BY <1>1, <2>1, <2>2, <2>3, <2>4, <2>6
       DEF PersonalInv, RequestInv, Stage, Removing, Writing
  <2>11. Inserts(r)'
    BY <1>1, <2>3, <2>6 DEF PersonalInv, RequestInv, Inserts
  <2>12. Deletes(r)'
    BY <1>1, <2>3, <2>6 DEF PersonalInv, RequestInv, Deletes, TableInv, Owned, Alike, Fitting, Fits
  <2>13. Gone(r)'
    BY <1>1, <2>3, <2>6, Unanswered DEF PersonalInv, RequestInv, Stage, Gone
  <2> QED
    BY <1>1, <2>3, <2>6, <2>7, <2>8, <2>9, <2>10, <2>11, <2>12, <2>13, OwnStep
<1> QED
  BY <1>2, <1>3

LEMMA DeleteLoadedFieldsKeeps ==
  ASSUME PersonalInv, NEW r \in Requests, DeleteLoadedFields(r)
  PROVE  PersonalInv' /\ Quiet(r)
<1>1. pc[r] = "fields" /\ r # None /\ kind[r] \in {"edit", "remove", "purge"}
  BY TableAssumption DEF DeleteLoadedFields, PersonalInv, RequestInv, Stage, Removing
<1>2. RequestInv(r) /\ TableInv
  BY DEF PersonalInv
<1>3. CASE fieldsLeft[r] = {}
  <2>1. /\ pc' = [pc EXCEPT ![r] = "rows"]
        /\ UNCHANGED <<rows, fields, tenant, user, kind, target, bodies, ids, fieldsLeft, left, aim,
                       failed, todo, reply, told, since>>
    BY <1>3 DEF DeleteLoadedFields, GoTo, table, owner, input, ghosts, work
  <2>2. pc'[r] = "rows"
    BY <2>1 DEF PersonalInv, Types, TypeOK
  <2>3. TableInv' /\ TableStep(r)
    BY <2>1, NothingWritten DEF PersonalInv, TableInv, Shapes, Fitting, Identified, Unique,
         Owned, Complete, table
  <2>4. Types'
    BY <2>1, <2>3, TableTypes DEF PersonalInv, Types, TypeOK
  <2>5. \A q \in Requests \ {r} : Untouched(q)
    BY <2>1 DEF PersonalInv, Types, TypeOK, Untouched
  <2>6. Stage(r)' /\ Inserts(r)' /\ Deletes(r)'
    BY <1>1, <1>2, <2>1, <2>2 DEF RequestInv, Stage, Inserts, Deletes, Removing, Writing
  <2>7. Gone(r)'
    BY <1>1, <1>2, <2>1, <2>2, Unanswered DEF RequestInv, Stage, Gone
  <2> QED
    BY <1>1, <2>1, <2>2, <2>3, <2>4, <2>5, <2>6, <2>7, OwnStep
<1>4. CASE fieldsLeft[r] # {}
  <2>1. PICK i \in fieldsLeft[r] :
          /\ DeleteFields(r, {i})
          /\ fieldsLeft' = [fieldsLeft EXCEPT ![r] = fieldsLeft[r] \ {i}]
          /\ UNCHANGED <<tenant, user, pc, kind, target, bodies, ids, left, aim, failed, todo, reply, told, since>>
    BY <1>4 DEF DeleteLoadedFields, NextFields, owner, input, ghosts
  <2> DEFINE D == FieldsOf({i})
  <2>2. /\ D \subseteq fields /\ fields' = Marked(r, fields, D) /\ rows' = rows
        /\ \A g \in D : g.id = i /\ g.by = None /\ g.del \in {None, r}
    BY <2>1 DEF DeleteFields, FieldsOf, Committed, Holders
  <2> HIDE DEF D
  <2>3. TableInv' /\ TableStep(r)
    BY <1>2, <2>2, MarkFields
  <2>4. fieldsLeft'[r] = fieldsLeft[r] \ {i} /\ i \in Nat \X Nat /\ i[2] \in left[r]
    BY <1>1, <1>2, <2>1 DEF PersonalInv, Types, RequestInv, Stage
  <2>5. Types'
    BY <2>1, <2>3, TableTypes DEF PersonalInv, Types, TypeOK
  <2>6. \A q \in Requests \ {r} : Untouched(q)
    BY <2>1 DEF PersonalInv, Types, TypeOK, Untouched
  <2>7. Stage(r)' /\ Inserts(r)'
    BY <1>1, <1>2, <2>1, <2>2, <2>4 DEF RequestInv, Stage, Inserts, Removing, Writing
  <2>8. \A y \in fields' : y \in fields \/ (y.id = i /\ y.del = r)
    <3>1. \A x \in D : Mark(r, x).id = i /\ Mark(r, x).del = r
      BY <1>2, <2>2, MarkEffect DEF TableInv, Shapes
    <3> QED
      BY <2>2, <3>1, MarkedEffect
  <2>9. Deletes(r)'
    BY <1>1, <1>2, <2>1, <2>2, <2>4, <2>8 DEF RequestInv, Deletes, TableInv, Fitting, Fits
  <2>10. Gone(r)'
    BY <1>1, <1>2, <2>1, Unanswered DEF RequestInv, Stage, Gone
  <2> QED
    BY <1>1, <2>1, <2>3, <2>5, <2>6, <2>7, <2>9, <2>10, OwnStep
<1> QED
  BY <1>3, <1>4

(* A committed row has its uuid and its hash for itself.                   *)
LEMMA CommittedUnique ==
  ASSUME TableInv, NEW x \in rows, NEW y \in rows, x.by = None, y.by = None, Share(x, y)
  PROVE  x = y
  BY DEF TableInv, Unique, Replaces

LEMMA AimAtKeeps ==
  ASSUME PersonalInv, NEW r \in Requests, AimAt(r)
  PROVE  PersonalInv' /\ Quiet(r)
<1>1. /\ pc[r] = "rows" /\ r # None /\ kind[r] \in {"edit", "remove", "purge"}
      /\ UNCHANGED <<rows, fields, tenant, user, kind, target, bodies, ids, fieldsLeft, failed, todo, reply, told, since>>
  BY TableAssumption DEF AimAt, PersonalInv, RequestInv, Stage, Removing, GoTo, table, owner, input, ghosts
<1>2. RequestInv(r) /\ TableInv
  BY DEF PersonalInv
<1>3. \A x \in rows \cup fields : x.by # r
  BY <1>1, <1>2 DEF RequestInv, Inserts, TableInv, Owned, Alike
<1>4. TableInv' /\ TableStep(r)
  BY <1>1, NothingWritten DEF PersonalInv, TableInv, Shapes, Fitting, Identified, Unique,
       Owned, Complete, table
<1>5. PICK u \in NextUuid(r) :
        LET X == {x \in Visible(r, rows) : x.uuid = u}
        IN  IF X = {}
            THEN /\ left' = [left EXCEPT ![r] = @ \ {u}]
                 /\ UNCHANGED <<pc, input, aim, reply, ghosts>>
            ELSE /\ \E x \in X : aim' = [aim EXCEPT ![r] = x.id]
                 /\ GoTo(r, "waitRow")
                 /\ UNCHANGED left
  BY DEF AimAt
<1>6. u \in left[r]
  BY <1>5 DEF NextUuid
<1>7. CASE \A x \in rows : x.by = None /\ x.uuid = u => x.del = r
  <2>1. {x \in Visible(r, rows) : x.uuid = u} = {}
    BY <1>3, <1>7 DEF Visible
  <2>2. left' = [left EXCEPT ![r] = left[r] \ {u}] /\ pc' = pc /\ aim' = aim
    BY <1>5, <2>1
  <2>3. left'[r] = left[r] \ {u}
    BY <2>2 DEF PersonalInv, Types
  <2>4. Types'
    BY <1>1, <1>4, <2>2, TableTypes DEF PersonalInv, Types, TypeOK
  <2>5. \A q \in Requests \ {r} : Untouched(q)
    BY <1>1, <2>2 DEF PersonalInv, Types, TypeOK, Untouched
  <2>6. Stage(r)' /\ Inserts(r)'
    BY <1>1, <1>2, <2>2, <2>3 DEF RequestInv, Stage, Inserts, Removing, Writing
  <2>7. \A x \in rows, g \in fields : g.id = x.id /\ g.del = r => x.by = None
    BY <1>1, <1>2 DEF TableInv, Fitting, Fits, Owned, Identified, Alike
  <2>8. Deletes(r)'
    BY <1>1, <1>2, <1>7, <2>2, <2>3, <2>7 DEF RequestInv, Deletes
  <2>9. kind[r] = "remove" => u = target[r]
    BY <1>2, <1>6 DEF RequestInv, Stage
  <2>10. Gone(r)'
    BY <1>1, <1>7, <2>2, <2>9 DEF Gone, Committed
  <2> QED
    BY <1>1, <1>4, <2>2, <2>4, <2>5, <2>6, <2>8, <2>10, OwnStep
<1>8. CASE ~ \A x \in rows : x.by = None /\ x.uuid = u => x.del = r
  <2>1. {x \in Visible(r, rows) : x.uuid = u} # {}
    BY <1>8 DEF Visible
  <2>2. PICK x \in Visible(r, rows) : x.uuid = u /\ aim' = [aim EXCEPT ![r] = x.id]
    BY <1>5, <2>1
  <2>3. pc' = [pc EXCEPT ![r] = "waitRow"] /\ left' = left
    BY <1>5, <2>1 DEF GoTo
  <2>4. /\ x \in rows /\ x.by = None /\ x.del # r
        /\ x.id \in Nat \X Nat /\ x.id[2] = u
    BY <1>2, <1>3, <2>2 DEF Visible, TableInv, Shapes, Versions, Fitting, Fits
  <2>5. pc'[r] = "waitRow" /\ aim'[r] = x.id
    BY <2>2, <2>3 DEF PersonalInv, Types, TypeOK
  <2>6. Types'
    BY <1>1, <1>4, <2>2, <2>3, <2>4, TableTypes DEF PersonalInv, Types, TypeOK
  <2>7. \A q \in Requests \ {r} : Untouched(q)
    BY <1>1, <2>2, <2>3 DEF PersonalInv, Types, TypeOK, Untouched
  <2>8. Stage(r)' /\ Inserts(r)'
    BY <1>1, <1>2, <1>6, <2>3, <2>4, <2>5
       DEF RequestInv, Stage, Inserts, Removing, Writing, AimedUuid
  <2>9. \A y \in rows : y.by = None /\ y.uuid = u => y.id = x.id
    BY <1>2, <2>2, <2>4, CommittedUnique DEF Share
  <2>10. \A y \in rows, g \in fields : g.id = y.id /\ g.del = r => y.by = None
    BY <1>1, <1>2 DEF TableInv, Fitting, Fits, Owned, Identified, Alike
  <2>11. Deletes(r)'
    BY <1>1, <1>2, <2>3, <2>4, <2>5, <2>9, <2>10 DEF RequestInv, Deletes, AimedUuid
  <2>12. kind[r] = "remove" => u = target[r]
    BY <1>2, <1>6 DEF RequestInv, Stage
  <2>13. Gone(r)'
    BY <1>1, <2>5, <2>9, <2>12, Unanswered DEF Gone, Committed
  <2> QED
    BY <1>1, <1>4, <2>5, <2>6, <2>7, <2>8, <2>11, <2>13, OwnStep
<1> QED
  BY <1>7, <1>8

LEMMA DeleteContactKeeps ==
  ASSUME PersonalInv, NEW r \in Requests, DeleteContact(r)
  PROVE  PersonalInv' /\ Quiet(r)
<1>1. /\ pc[r] = "waitRow" /\ r # None /\ kind[r] \in {"edit", "remove", "purge"}
      /\ UNCHANGED <<fields, tenant, user, kind, target, bodies, ids, fieldsLeft, aim, failed, todo, reply, told, since>>
  BY TableAssumption DEF DeleteContact, DeleteRow, PersonalInv, RequestInv, Stage, Removing, GoTo,
       table, owner, input, ghosts
<1>2. RequestInv(r) /\ TableInv
  BY DEF PersonalInv
<1>3. aim[r] \in Nat \X Nat /\ aim[r][2] \in left[r]
  BY <1>1, <1>2 DEF RequestInv, Stage, AimedUuid
<1>4. kind[r] = "remove" => aim[r][2] = target[r]
  BY <1>2, <1>3 DEF RequestInv, Stage
<1>5. \A y \in rows, g \in fields : g.id = y.id /\ g.del = r => y.by = None
  BY <1>1, <1>2 DEF TableInv, Fitting, Fits, Owned, Identified, Alike
<1>6. CASE RowOf(aim[r]) = {}
  <2>1. /\ left' = [left EXCEPT ![r] = left[r] \ {aim[r][2]}]
        /\ pc' = [pc EXCEPT ![r] = "rows"] /\ rows' = rows
    BY <1>6 DEF DeleteContact, GoTo, AimedUuid, table
  <2>2. left'[r] = left[r] \ {aim[r][2]} /\ pc'[r] = "rows"
    BY <2>1 DEF PersonalInv, Types, TypeOK
  <2>3. \A x \in rows : x.by = None => x.id # aim[r]
    BY <1>6 DEF RowOf, Committed
  <2>4. TableInv' /\ TableStep(r)
    BY <1>1, <2>1, NothingWritten DEF PersonalInv, TableInv, Shapes, Fitting, Identified, Unique,
         Owned, Complete, table
  <2>5. Types'
    BY <1>1, <2>1, <2>4, TableTypes DEF PersonalInv, Types, TypeOK
  <2>6. \A q \in Requests \ {r} : Untouched(q)
    BY <1>1, <2>1 DEF PersonalInv, Types, TypeOK, Untouched
  <2>7. Stage(r)' /\ Inserts(r)'
    BY <1>1, <1>2, <2>1, <2>2 DEF RequestInv, Stage, Inserts, Removing, Writing
  <2>8. Deletes(r)'
    BY <1>1, <1>2, <1>5, <2>1, <2>2, <2>3 DEF RequestInv, Deletes, AimedUuid
  <2>9. \A x \in rows : kind[r] = "remove" /\ x.by = None /\ x.uuid = target[r] =>
          target[r] \in since[r]
    BY <1>1, <1>2, <2>3 DEF RequestInv, Gone, Committed
  <2>10. Gone(r)'
    BY <1>1, <2>1, <2>2, <2>9 DEF Gone, Committed
  <2> QED
    BY <1>1, <2>1, <2>2, <2>4, <2>5, <2>6, <2>7, <2>8, <2>10, OwnStep
<1>7. CASE RowOf(aim[r]) # {}
  <2>1. DeleteRow(r, aim[r]) /\ pc' = [pc EXCEPT ![r] = "cascade"] /\ left' = left
    BY <1>7 DEF DeleteContact, GoTo
  <2>2. pc'[r] = "cascade"
    BY <2>1 DEF PersonalInv, Types, TypeOK
  <2>3. TableInv' /\ TableStep(r)
    BY <1>2, <1>3, <2>1, DeleteRowTable
  <2>4. PICK i \in Nat \X Nat : i = aim[r]
    BY <1>3
  <2>5. PICK x \in rows : x.by = None /\ x.id = i
    BY <1>7, <2>4 DEF RowOf, Committed
  <2>6. Mark(r, x) \in rows' /\ \A y \in rows' : y \in rows \/ (y.id = i /\ y.del = r)
    <3>1. rows' = Marked(r, rows, RowOf(i)) /\ RowOf(i) \subseteq rows /\ x \in RowOf(i)
      BY <2>1, <2>4, <2>5 DEF DeleteRow, RowOf, Committed
    <3>2. \A y \in RowOf(i) : Mark(r, y).id = i /\ Mark(r, y).del = r
      BY <1>2, MarkEffect DEF TableInv, Shapes, RowOf, Committed
    <3> QED
      BY <3>1, <3>2, MarkedEffect
  <2>7. Mark(r, x).id = i /\ Mark(r, x).del = r /\ Mark(r, x).uuid = x.uuid
    BY <1>2, <2>5, MarkEffect DEF TableInv, Shapes
  <2>8. x.uuid = i[2]
    BY <1>2, <2>5 DEF TableInv, Fitting, Fits
  <2>9. \A y \in rows' : y.id = i => y = Mark(r, x)
    BY <2>3, <2>6, <2>7 DEF TableInv, Identified
  <2>10. Types'
    BY <1>1, <2>1, <2>3, TableTypes DEF PersonalInv, Types, TypeOK
  <2>11. \A q \in Requests \ {r} : Untouched(q)
    BY <1>1, <2>1 DEF PersonalInv, Types, TypeOK, Untouched
  <2>12. Stage(r)'
    BY <1>1, <1>2, <2>1, <2>2 DEF RequestInv, Stage, Removing, Writing, AimedUuid
  <2>13. Inserts(r)'
    <3>1. \A y \in rows' : \E w \in rows : y.id = w.id /\ y.by = w.by
      BY <2>5, <2>6, <2>7, <2>9, MarkEffect, <1>2 DEF TableInv, Shapes
    <3> QED
      BY <1>1, <1>2, <2>2, <3>1 DEF RequestInv, Inserts
  <2>14. Deletes(r)'
    <3>1. \A y \in rows' : y.uuid = y.id[2]
      BY <2>3 DEF TableInv, Fitting, Fits
    <3>2. \A y \in rows' : y.del = r /\ kind[r] # "purge" => y.uuid = target[r]
      BY <1>1, <1>2, <1>3, <2>4, <2>6, <3>1 DEF RequestInv, Deletes, Stage
    <3>3. \A y \in rows', g \in fields : g.id = y.id /\ y.del = r => g.del = r \/ y.id = aim[r]
      BY <1>1, <1>2, <2>4, <2>6 DEF RequestInv, Deletes
    <3>4. \A y \in rows', g \in fields : g.id = y.id /\ g.del = r =>
            \/ y.del = r
            \/ y.uuid \in left[r] /\ (y.uuid = aim[r][2] => y.id = aim[r])
      BY <1>1, <1>2, <2>6 DEF RequestInv, Deletes, AimedUuid
    <3> QED
      BY <1>1, <2>1, <2>2, <2>4, <2>6, <2>7, <3>2, <3>3, <3>4 DEF Deletes, AimedUuid
  <2>15. Gone(r)'
    <3>1. PICK u : u = target[r]
      OBVIOUS
    <3>2. \A y \in rows' : kind[r] = "remove" /\ y.by = None /\ y.uuid = u =>
            y.id = aim[r] \/ u \in since[r]
      BY <1>1, <1>2, <2>4, <2>6, <3>1 DEF RequestInv, Gone, Committed
    <3> QED
      BY <1>1, <2>2, <3>1, <3>2, Unanswered DEF Gone, Committed
  <2> QED
    BY <1>1, <2>1, <2>2, <2>3, <2>10, <2>11, <2>12, <2>13, <2>14, <2>15, OwnStep
<1> QED
  BY <1>6, <1>7

LEMMA CascadeContactKeeps ==
  ASSUME PersonalInv, NEW r \in Requests, CascadeContact(r)
  PROVE  PersonalInv' /\ Quiet(r)
<1>1. /\ pc[r] = "cascade" /\ r # None /\ kind[r] \in {"edit", "remove", "purge"}
      /\ UNCHANGED <<rows, tenant, user, kind, target, bodies, ids, fieldsLeft, aim, failed, todo, reply, told, since>>
      /\ pc' = [pc EXCEPT ![r] = "rows"]
      /\ left' = [left EXCEPT ![r] = left[r] \ {aim[r][2]}]
  BY TableAssumption DEF CascadeContact, Cascade, PersonalInv, RequestInv, Stage, Removing, GoTo,
       owner, input, ghosts, AimedUuid
<1>2. RequestInv(r) /\ TableInv
  BY DEF PersonalInv
<1>3. PICK i \in Nat \X Nat : i = aim[r] /\ i[2] \in left[r]
  BY <1>1, <1>2 DEF RequestInv, Stage, AimedUuid
<1>4. \A x \in rows \cup fields : x.by # r
  BY <1>1, <1>2 DEF RequestInv, Inserts, TableInv, Owned, Alike
<1>5. PICK y \in rows : y.id = i /\ y.del = r
  BY <1>1, <1>2, <1>3 DEF RequestInv, Deletes
<1>6. y.by = None /\ y.uuid = i[2]
  BY <1>1, <1>2, <1>5 DEF TableInv, Fitting, Fits
<1>7. PICK u \in Nat : u = i[2]
  BY <1>3
<1> DEFINE D == Dependent(r, u)
<1>8. /\ D \subseteq fields /\ fields' = Marked(r, fields, D)
      /\ \A g \in D : g.by = None /\ g.uuid = u /\ g.del = None
      /\ \A g \in fields : g.by = None /\ g.uuid = u => g \in D \/ g.del = r
  BY <1>1, <1>3, <1>4, <1>7 DEF CascadeContact, Cascade, Dependent, Visible, Holders, AimedUuid
<1> HIDE DEF D
<1>9. TableInv' /\ TableStep(r)
  BY <1>1, <1>2, <1>8, MarkFields
<1>10. pc'[r] = "rows" /\ left'[r] = left[r] \ {u}
  BY <1>1, <1>3, <1>7 DEF PersonalInv, Types, TypeOK
<1>11. Types'
  BY <1>1, <1>9, TableTypes DEF PersonalInv, Types, TypeOK
<1>12. \A q \in Requests \ {r} : Untouched(q)
  BY <1>1 DEF PersonalInv, Types, TypeOK, Untouched
<1>13. Stage(r)' /\ Inserts(r)'
  BY <1>1, <1>2, <1>10 DEF RequestInv, Stage, Inserts, Removing, Writing
<1>14. \A g \in fields' : g \in fields \ D \/ (g.uuid = u /\ g.del = r /\ \E f \in D : f.id = g.id)
  <2>1. \A g \in D : Mark(r, g).uuid = u /\ Mark(r, g).del = r /\ Mark(r, g).id = g.id
    BY <1>2, <1>8, MarkEffect DEF TableInv, Shapes
  <2> QED
    BY <1>8, <2>1, MarkedEffect
(* The rows of that uuid whose fields r deletes are the one it deleted.    *)
<1>15. ASSUME NEW x \in rows, NEW g \in fields', g.id = x.id, g.del = r, x.uuid = u
       PROVE  x = y
  <2>1. g.uuid = x.uuid /\ g.by = None
    BY <1>1, <1>9, <1>15 DEF TableInv, Fitting, Fits
  <2>2. x.by = None
    BY <1>1, <1>9, <1>15, <2>1 DEF TableInv, Owned, Alike, Identified
  <2> QED
    BY <1>2, <1>6, <1>7, <1>15, <2>2, CommittedUnique DEF Share
<1>16. ASSUME NEW x \in rows, NEW g \in fields', g.id = x.id, x.del = r
       PROVE  g.del = r
  <2>1. CASE g \notin fields
    BY <1>14, <2>1
  <2>2. CASE g \in fields /\ x.id # i
    BY <1>1, <1>2, <1>3, <1>16, <2>2 DEF RequestInv, Deletes
  <2>3. CASE g \in fields /\ x.id = i
    <3>1. g.by = None /\ g.uuid = u
      BY <1>1, <1>2, <1>5, <1>6, <1>7, <1>16, <2>3 DEF TableInv, Owned, Alike, Identified, Fitting, Fits
    <3> QED
      BY <1>8, <1>14, <2>3, <3>1
  <2> QED
    BY <2>1, <2>2, <2>3
<1>17. ASSUME NEW x \in rows, NEW g \in fields', g.id = x.id, g.del = r, x.uuid # u
       PROVE  x.del = r \/ x.uuid \in left[r]
  <2>1. g.uuid = x.uuid
    BY <1>1, <1>9, <1>17 DEF TableInv, Fitting, Fits
  <2>2. g \in fields
    BY <1>14, <1>17, <2>1
  <2> QED
    BY <1>1, <1>2, <1>17, <2>2 DEF RequestInv, Deletes
<1>18. Deletes(r)'
  <2>1. \A x \in rows : x.del = r /\ kind[r] # "purge" => x.uuid = target[r]
    BY <1>2 DEF RequestInv, Deletes
  <2> QED
    BY <1>1, <1>5, <1>10, <1>15, <1>16, <1>17, <2>1 DEF Deletes, AimedUuid
<1>19. Gone(r)'
  <2>1. PICK v : v = target[r]
    OBVIOUS
  <2>2. \A x \in rows : kind[r] = "remove" /\ x.by = None /\ x.uuid = v =>
          x.del = r \/ v \in since[r]
    BY <1>1, <1>2, <1>3, <1>5, <2>1 DEF RequestInv, Gone, Committed, TableInv, Identified
  <2> QED
    BY <1>1, <1>10, <2>1, <2>2 DEF Gone, Committed
<1> QED
  BY <1>1, <1>9, <1>10, <1>11, <1>12, <1>13, <1>18, <1>19, OwnStep

----------------------------------------------------------------------------
(* The steps of a writer that write nothing yet; an import lists first what *)
(* it is to fail for.                                                      *)
Waiting == {"check", "user", "tenant", "addTenant", "addUser"}

LEMMA WriterMoves ==
  ASSUME PersonalInv, NEW r \in Requests, NEW s \in Waiting \cup {"find"},
         pc[r] \in Waiting \cup {"list"} \/ (pc[r] = "rows" /\ left[r] = {}),
         s = "check" => kind[r] = "edit",
         s # "check" => kind[r] \in {"create", "import", "edit"},
         UNCHANGED table \/ RollbackTable(r),
         tenant' \in Writers, user' \in Writers,
         pc' = [pc EXCEPT ![r] = s],
         UNCHANGED <<kind, target, bodies, ids, fieldsLeft, left, aim, todo, reply, told, since>>,
         failed' \in [Requests -> SUBSET Hashes],
         \A q \in Requests \ {r} : failed'[q] = failed[q]
  PROVE  PersonalInv' /\ Quiet(r)
<1>1. RequestInv(r) /\ TableInv
  BY DEF PersonalInv
<1>2. /\ TableInv' /\ TableStep(r)
      /\ UNCHANGED table \/ \A x \in rows' \cup fields' : x.by # r /\ x.del # r
  <2>1. CASE UNCHANGED table
    BY <2>1, NothingWritten DEF PersonalInv, TableInv, Shapes, Fitting, Identified, Unique,
       Owned, Complete, table
  <2>2. CASE RollbackTable(r)
    BY <1>1, <2>2, RollbackEffect
  <2> QED
    BY <2>1, <2>2
<1>3. Types'
  BY <1>2, TableTypes DEF PersonalInv, Types, TypeOK, Waiting
<1>4. \A q \in Requests \ {r} : Untouched(q)
  BY DEF PersonalInv, Types, TypeOK, Untouched
<1>5. pc'[r] = s
  BY DEF PersonalInv, Types, TypeOK
<1>6. pc[r] \notin {"idle", "done", "insert"} /\ pc'[r] \notin {"idle", "done", "insert"}
  BY <1>5 DEF Waiting
<1>7. Stage(r)'
  BY <1>1, <1>5, <1>6 DEF RequestInv, Stage, Removing, Writing, Waiting
<1>8. Inserts(r)'
  <2>1. \A x \in rows : x.by # r /\ x.id[1] # r
    BY <1>1, <1>6 DEF RequestInv, Inserts
  <2>2. \A x \in rows' : x.by # r
    BY <1>2, <2>1 DEF table
  <2>3. \A x \in rows' : x.id[1] # r
    BY <1>2, <2>1, <2>2 DEF TableStep, Stepped, From, New, Same
  <2> QED
    BY <1>6, <2>2, <2>3 DEF Inserts
<1>9. Deletes(r)'
  <2>1. CASE UNCHANGED table
    BY <1>1, <1>5, <1>6, <2>1 DEF RequestInv, Deletes, Waiting, table
  <2>2. CASE \A x \in rows' \cup fields' : x.by # r /\ x.del # r
    BY <1>5, <2>2 DEF Deletes, Waiting
  <2> QED
    BY <1>2, <2>1, <2>2
<1>10. Gone(r)'
  BY <1>1, <1>5, <1>6, Unanswered DEF RequestInv, Stage, Gone, Waiting
<1> QED
  BY <1>2, <1>3, <1>4, <1>6, <1>7, <1>8, <1>9, <1>10, OwnStep

LEMMA WriterStepKeeps ==
  ASSUME PersonalInv, NEW r \in Requests,
         \/ DeletedForEdit(r) \/ CheckDuplicate(r) \/ ListContacts(r)
         \/ FindUser(r) \/ FindTenant(r) \/ AddTenant(r) \/ AddUser(r)
  PROVE  PersonalInv' /\ Quiet(r)
<1> USE DEF GoTo, owner, input, ghosts, work
<1>1. /\ Stage(r) /\ tenant \in Writers /\ user \in Writers /\ r # None
      /\ {r} \in Writers /\ failed \in [Requests -> SUBSET Hashes]
  BY TableAssumption DEF PersonalInv, RequestInv, Types, TypeOK, Writers
<1>2. CASE DeletedForEdit(r)
  BY <1>1, <1>2, WriterMoves DEF DeletedForEdit, Waiting
<1>3. CASE CheckDuplicate(r)
  <2>1. pc[r] = "check" /\ kind[r] = "edit"
    BY <1>1, <1>3 DEF CheckDuplicate, Stage
  <2>2. CASE Existing(r) # {}
    BY <1>3, <2>1, <2>2, AbortKeeps DEF CheckDuplicate
  <2>3. CASE Existing(r) = {}
    BY <1>1, <1>3, <2>1, <2>3, WriterMoves DEF CheckDuplicate, Waiting
  <2> QED
    BY <2>2, <2>3
<1>4. CASE FindUser(r)
  <2>1. pc[r] = "user" /\ kind[r] \in {"create", "import", "edit"}
    BY <1>1, <1>4 DEF FindUser, Stage, Writing
  <2>2. PICK s \in {"find", "tenant"} : pc' = [pc EXCEPT ![r] = s]
    BY <1>4 DEF FindUser
  <2> QED
    BY <1>1, <1>4, <2>1, <2>2, WriterMoves DEF FindUser, Waiting
<1>5. CASE FindTenant(r)
  <2>1. pc[r] = "tenant" /\ kind[r] \in {"create", "import", "edit"}
    BY <1>1, <1>5 DEF FindTenant, Stage, Writing
  <2>2. PICK s \in {"addUser", "addTenant"} : pc' = [pc EXCEPT ![r] = s]
    BY <1>5 DEF FindTenant
  <2> QED
    BY <1>1, <1>5, <2>1, <2>2, WriterMoves DEF FindTenant, Waiting
<1>6. CASE AddTenant(r)
  <2>1. pc[r] = "addTenant" /\ kind[r] \in {"create", "import", "edit"}
    BY <1>1, <1>6 DEF AddTenant, Stage, Writing
  <2>2. UNCHANGED table \/ RollbackTable(r)
    BY <1>6 DEF AddTenant
  <2>3. tenant' \in Writers /\ user' \in Writers
    BY <1>1, <1>6 DEF AddTenant, RollbackOwner, Writers
  <2>4. /\ pc' = [pc EXCEPT ![r] = "addUser"]
        /\ UNCHANGED <<kind, target, bodies, ids, fieldsLeft, left, aim, failed, todo, reply, told, since>>
    BY <1>6 DEF AddTenant, GoTo, input, work, ghosts
  <2> QED
    BY <1>1, <2>1, <2>2, <2>3, <2>4, WriterMoves DEF Waiting
<1>7. CASE AddUser(r)
  <2>1. pc[r] = "addUser" /\ kind[r] \in {"create", "import", "edit"}
    BY <1>1, <1>7 DEF AddUser, Stage, Writing
  <2>2. CASE Abort(r, "error")
    BY <2>1, <2>2, AbortKeeps
  <2>3. CASE /\ user' = {r} /\ GoTo(r, "find")
             /\ UNCHANGED <<table, tenant, work>>
    BY <1>1, <2>1, <2>3, WriterMoves DEF Waiting
  <2> QED
    BY <1>7, <2>2, <2>3 DEF AddUser
<1>8. CASE ListContacts(r)
  <2>1. pc[r] = "list" /\ kind[r] \in {"create", "import", "edit"}
    BY <1>1, <1>8 DEF ListContacts, Stage, Writing
  <2>2. PICK F \in SUBSET Hashes : failed' = [failed EXCEPT ![r] = F]
    BY <1>8 DEF ListContacts, PersonalInv, Types, TypeOK
  <2>3. failed' \in [Requests -> SUBSET Hashes] /\ \A q \in Requests \ {r} : failed'[q] = failed[q]
    BY <1>1, <2>2
  <2>4. /\ pc' = [pc EXCEPT ![r] = "user"]
        /\ UNCHANGED <<table, tenant, user, kind, target, bodies, ids, fieldsLeft, left, aim, todo,
                       reply, told, since>>
    BY <1>8 DEF ListContacts
  <2> QED
    BY <1>1, <2>1, <2>3, <2>4, WriterMoves DEF Waiting
<1> QED
  BY <1>2, <1>3, <1>4, <1>5, <1>6, <1>7, <1>8

(* The hashes to insert are those sent which are not there yet, each once. *)
LEMMA OrdersOfHashes ==
  ASSUME NEW S \in SUBSET Hashes, NEW s \in SetToSeqs(S)
  PROVE  /\ s \in Seq(Hashes)
         /\ \A i, j \in DOMAIN s : s[i] \in S /\ (s[i] = s[j] => i = j)
<1>1. IsFiniteSet(S)
  <2>1. 0 \in Int /\ Radix - 1 \in Int
    BY TableAssumption
  <2>2. IsFiniteSet(0 .. Radix - 1)
    BY ONLY <2>1, FS_Interval
  <2>3. S \subseteq 0 .. Radix - 1
    BY TableAssumption
  <2> QED
    BY <2>2, <2>3, FS_Subset
<1>2. PICK n \in Nat : n = Cardinality(S)
  BY <1>1, FS_CardinalityType
<1>3. s \in [1..n -> S] /\ \A i, j \in 1..n : i # j => s[i] # s[j]
  BY <1>2 DEF SetToSeqs
<1> QED
  BY <1>3

LEMMA FindKeeps ==
  ASSUME PersonalInv, NEW r \in Requests, Find(r)
  PROVE  PersonalInv' /\ Quiet(r)
<1>1. pc[r] = "find" /\ kind[r] \in {"create", "import", "edit"}
  BY DEF Find, PersonalInv, RequestInv, Stage, Writing
<1>2. CASE kind[r] = "create" /\ Existing(r) # {}
  BY <1>1, <1>2, AbortKeeps DEF Find
<1>3. CASE ~(kind[r] = "create" /\ Existing(r) # {})
  <2> DEFINE S == bodies[r] \ (Existing(r) \cup failed[r])
  <2>1. S \in SUBSET Hashes /\ S \subseteq bodies[r]
    BY DEF PersonalInv, Types, TypeOK
  <2>2. PICK s \in SetToSeqs(S) : todo' = [todo EXCEPT ![r] = s]
    BY <1>3 DEF Find
  <2>3. /\ pc' = [pc EXCEPT ![r] = "insert"]
        /\ UNCHANGED <<rows, fields, tenant, user, kind, target, bodies, ids, fieldsLeft, left, aim, failed,
                       reply, told, since>>
    BY <1>3 DEF Find, GoTo, table, owner, input, ghosts
  <2>4. s \in Seq(Hashes) /\ \A i, j \in DOMAIN s : s[i] \in S /\ (s[i] = s[j] => i = j)
    BY <2>1, <2>2, OrdersOfHashes
  <2>5. pc'[r] = "insert" /\ todo'[r] = s
    BY <2>2, <2>3 DEF PersonalInv, Types, TypeOK
  <2>6. \A i \in DOMAIN s : s[i] \in bodies[r]
    BY <2>1, <2>4
  <2> HIDE DEF S
  <2>7. TableInv' /\ TableStep(r)
    BY <2>3, NothingWritten DEF PersonalInv, TableInv, Shapes, Fitting, Identified, Unique,
         Owned, Complete, table
  <2>8. Types'
    BY <2>2, <2>3, <2>4, <2>7, TableTypes DEF PersonalInv, Types, TypeOK
  <2>9. \A q \in Requests \ {r} : Untouched(q)
    BY <2>2, <2>3 DEF PersonalInv, Types, TypeOK, Untouched
  <2>10. Stage(r)'
    BY <1>1, <2>3, <2>5, Unanswered DEF PersonalInv, RequestInv, Stage, Removing, Writing
  <2>11. Inserts(r)'
    <3>1. \A x \in rows : x.by # r /\ x.id[1] # r
      BY <1>1 DEF PersonalInv, RequestInv, Inserts
    <3> QED
      BY <2>3, <2>4, <2>5, <2>6, <3>1 DEF Inserts
  <2>12. Deletes(r)'
    BY <1>1, <2>3, <2>5 DEF PersonalInv, RequestInv, Deletes
  <2>13. Gone(r)'
    BY <1>1, <2>3 DEF Gone
  <2> QED
    BY <1>1, <2>3, <2>5, <2>7, <2>8, <2>9, <2>10, <2>11, <2>12, <2>13, OwnStep
<1> QED
  BY <1>2, <1>3

LEMMA InsertContactKeeps ==
  ASSUME PersonalInv, NEW r \in Requests, InsertContact(r)
  PROVE  PersonalInv' /\ Quiet(r)
<1>1. /\ pc[r] = "insert" /\ kind[r] \in {"create", "import", "edit"} /\ r # None
      /\ todo[r] # <<>> /\ todo' = [todo EXCEPT ![r] = Tail(todo[r])]
      /\ UNCHANGED <<tenant, user, pc, kind, target, bodies, ids, fieldsLeft, left, aim, failed, reply, told, since>>
  BY TableAssumption DEF InsertContact, PersonalInv, RequestInv, Stage, Writing, owner, input, ghosts
<1>2. RequestInv(r) /\ TableInv
  BY DEF PersonalInv
<1>3. PICK s \in Seq(Hashes) : s = todo[r] /\ s # <<>>
  BY <1>1 DEF PersonalInv, Types, TypeOK
<1>4. PICK h \in Hashes : h = Head(s) /\ h = s[1]
  BY <1>3
<1>5. PICK u \in Nat : u = UuidFor(r, h)
  <2>1. h \in bodies[r]
    BY <1>1, <1>2, <1>3, <1>4 DEF RequestInv, Inserts
  <2>2. ids[r][h] \in Ids \cup {None}
    BY <2>1 DEF PersonalInv, Types, TypeOK
  <2>3. kind[r] = "edit" => target[r] \in Nat
    BY <1>2 DEF RequestInv, Stage
  <2> QED
    BY <2>2, <2>3, NewUuidIsNew, PersonalAssumption DEF UuidFor
<1>6. Insert(r, u, h)
  BY <1>3, <1>4, <1>5 DEF InsertContact
<1>7. 1 \in DOMAIN s
  BY <1>3
<1>8. \A x \in rows : x.by = r => x.uuid # u
  BY <1>1, <1>2, <1>6 DEF Insert, Clashing, TableInv, Fitting, Fits
<1>9. \A x \in rows : x.id # <<r, u>>
  BY <1>1, <1>2, <1>8 DEF RequestInv, Inserts, TableInv, Fitting, Fits
<1>10. TableInv' /\ TableStep(r)
  BY <1>2, <1>6, <1>9, InsertTable
<1> DEFINE n == Version(r, u, h, r)
<1>11. /\ rows' = rows \cup {n} /\ fields' = fields \cup {n}
       /\ n.id = <<r, u>> /\ n.uuid = u /\ n.hash = h /\ n.by = r /\ n.del = None
  BY <1>6 DEF Insert, Version
<1> HIDE DEF n
<1>12. todo'[r] = Tail(s) /\ Tail(s) \in Seq(Hashes)
  BY <1>1, <1>3 DEF PersonalInv, Types, TypeOK
<1>13. \A i \in DOMAIN Tail(s) : i + 1 \in DOMAIN s /\ i + 1 # 1 /\ Tail(s)[i] = s[i + 1]
  BY <1>3
<1>14. Types'
  BY <1>1, <1>10, <1>12, TableTypes DEF PersonalInv, Types, TypeOK
<1>15. \A q \in Requests \ {r} : Untouched(q)
  BY <1>1 DEF PersonalInv, Types, TypeOK, Untouched
<1>16. Stage(r)'
  BY <1>1, <1>2 DEF RequestInv, Stage, Removing, Writing
<1>17. Inserts(r)'
  <2>1. \A i \in DOMAIN s : s[i] \in bodies[r]
    BY <1>1, <1>2, <1>3 DEF RequestInv, Inserts
  <2>2. \A x \in rows' : x.by = r => x.hash \in bodies[r] /\ x.uuid = UuidFor(r, x.hash)
    BY <1>1, <1>2, <1>4, <1>5, <1>7, <1>11, <2>1 DEF RequestInv, Inserts
  <2>3. \A x \in rows' : x.id[1] = r => x.by = r
    BY <1>1, <1>2, <1>11 DEF RequestInv, Inserts
  <2>4. \A i \in DOMAIN Tail(s) : Tail(s)[i] \in bodies[r]
    BY <1>13, <2>1
  <2> QED
    BY <1>1, <1>12, <2>2, <2>3, <2>4 DEF Inserts, UuidFor, NewUuid
<1>18. Deletes(r)'
  <2>1. (\A x \in rows : x.id # n.id) /\ (\A g \in fields : g.id # n.id)
    BY <1>2, <1>9, <1>11 DEF TableInv, Owned, Alike
  <2>2. \A x \in rows' : x.del = r => x \in rows
    BY <1>1, <1>11
  <2>3. \A g \in fields' : g.del = r => g \in fields
    BY <1>1, <1>11
  <2>4. \A x \in rows', g \in fields' : g.id = x.id /\ (x.del = r \/ g.del = r) =>
          x.del = r /\ g.del = r
    <3>1. \A x \in rows, g \in fields : g.id = x.id => (x.del = r <=> g.del = r)
      BY <1>1, <1>2 DEF RequestInv, Deletes
    <3> SUFFICES ASSUME NEW x \in rows', NEW g \in fields', g.id = x.id, x.del = r \/ g.del = r
                 PROVE  x.del = r /\ g.del = r
      OBVIOUS
    <3>2. x \in rows /\ g \in fields
      BY <1>11, <2>1, <2>2, <2>3
    <3> QED
      BY <3>1, <3>2
  <2> QED
    BY <1>1, <1>2, <2>2, <2>4 DEF RequestInv, Deletes
<1>19. Gone(r)'
  BY <1>1 DEF Gone
<1> QED
  BY <1>1, <1>10, <1>14, <1>15, <1>16, <1>17, <1>18, <1>19, OwnStep

(* The end of a request that succeeds.                                     *)
LEMMA CommitKeeps ==
  ASSUME PersonalInv, NEW r \in Requests, Commit(r)
  PROVE  PersonalInv' /\ Moved(r)
<1> DEFINE B == {<<x.uuid, x.hash>> : x \in {y \in rows : y.by = r}}
<1>1. /\ pc[r] = "insert" \/ (pc[r] = "rows" /\ left[r] = {} /\ kind[r] # "edit")
      /\ CommitTable(r)
      /\ tenant' = (IF tenant = {r} THEN {None} ELSE tenant)
      /\ user' = (IF user = {r} THEN {None} ELSE user)
      /\ pc' = [pc EXCEPT ![r] = "done"] 
      /\ told' = (told \ Removes(r)) \cup B
      /\ since' = [q \in Requests |->
                     IF kind[q] \in {"edit", "remove", "purge"}
                     THEN since[q] \cup {x.uuid : x \in {y \in rows : y.by = r}}
                     ELSE since[q]]
      /\ UNCHANGED <<kind, target, bodies, ids, fieldsLeft, left, aim, failed, todo>>
  BY DEF Commit, Acknowledge, Inserted, input, work
<1>0. PICK a \in {"ok", "nothing"} :
        reply' = [reply EXCEPT ![r] = a] /\ (kind[r] # "import" => a = "ok")
  BY DEF Commit, Acknowledge
<1> HIDE DEF B
<1>2. RequestInv(r) /\ TableInv /\ r # None
  BY TableAssumption DEF PersonalInv
<1>3. \A x \in rows, g \in fields : g.id = x.id => (x.del = r <=> g.del = r)
  BY <1>1, <1>2 DEF RequestInv, Deletes
<1>4. /\ TableInv' /\ Stepped(r)
      /\ \A x \in rows' \cup fields' : x.by # r /\ x.del # r
      /\ \A y \in Committed(rows') : \E x \in rows :
           Same(r, x, y) /\ x.by \in {None, r} /\ x.del # r
  BY <1>1, <1>2, <1>3, CommitEffect
<1>5. pc'[r] = "done" /\ reply'[r] = a /\ kind'[r] = kind[r] /\ target'[r] = target[r]
  BY <1>0, <1>1 DEF PersonalInv, Types, TypeOK
<1>6. \A q \in Requests \ {r} : Untouched(q)
  BY <1>0, <1>1 DEF PersonalInv, Types, TypeOK, Untouched
<1>7. CommitsItsOwn(r)
  <2> SUFFICES ASSUME NEW y \in Committed(rows'), ~ \E x \in Committed(rows) : Same(r, x, y)
               PROVE  /\ UuidOf(r, y.uuid)
                      /\ \A q \in Requests :
                           kind[q] \in {"edit", "remove", "purge"} => y.uuid \in since'[q]
    BY <1>1 DEF CommitsItsOwn
  <2>1. PICK x \in rows : Same(r, x, y) /\ x.by = r
    BY <1>4 DEF Committed
  <2>2. /\ y.uuid = UuidFor(r, x.hash) /\ x.hash \in bodies[r] /\ x.hash \in Hashes
        /\ y.uuid = x.uuid
    BY <1>2, <2>1 DEF RequestInv, Inserts, Same, TableInv, Shapes, Versions
  <2>3. UuidOf(r, y.uuid)
    BY <2>2 DEF UuidOf, UuidFor
  <2>4. \A q \in Requests : kind[q] \in {"edit", "remove", "purge"} => y.uuid \in since'[q]
    BY <1>1, <2>1, <2>2
  <2> QED
    BY <2>3, <2>4
<1>8. B \subseteq Contacts'
  <2> SUFFICES ASSUME NEW x \in rows, x.by = r
               PROVE  \E y \in rows' : y.by = None /\ y.uuid = x.uuid /\ y.hash = x.hash
    BY DEF B, Contacts, Committed
  <2>1. x.del # r
    BY <1>2 DEF TableInv, Fitting, Fits
  <2> QED
    BY <1>1, <1>2, <2>1, KeptEffect DEF CommitTable, TableInv, Shapes
(* What it deletes is no longer promised to anybody.                       *)
<1>9. told \ Removes(r) \subseteq Contacts'
  <2> SUFFICES ASSUME NEW p \in told, p \notin Removes(r) PROVE p \in Contacts'
    OBVIOUS
  <2>1. PICK x \in rows : x.by = None /\ p = <<x.uuid, x.hash>>
    BY DEF PersonalInv, NothingLost, Contacts, Committed
  <2>2. x.del # r
    BY <1>2, <2>1 DEF RequestInv, Deletes, Removes
  <2>3. \E y \in rows' : y.by = None /\ y.uuid = x.uuid /\ y.hash = x.hash
    BY <1>1, <1>2, <2>1, <2>2, KeptEffect DEF CommitTable, TableInv, Shapes
  <2> QED
    BY <2>1, <2>3 DEF Contacts, Committed
<1>10. NothingLost'
  BY <1>1, <1>8, <1>9 DEF NothingLost
<1>11. Types'
  <2>1. \A p \in told' : p[1] \in Nat /\ p[2] \in Hashes
    <3>1. \A p \in B : p[1] \in Nat /\ p[2] \in Hashes
      BY <1>2 DEF B, TableInv, Shapes, Versions
    <3> QED
      BY <1>1, <3>1 DEF PersonalInv, Types, TypeOK
  <2>2. tenant' \in Writers /\ user' \in Writers
    BY <1>1 DEF PersonalInv, Types, TypeOK, Writers
  <2>3. since' \in [Requests -> SUBSET Nat]
    <3>1. \A x \in rows : x.uuid \in Nat
      BY <1>2 DEF TableInv, Shapes, Versions
    <3> QED
      BY <1>1, <3>1 DEF PersonalInv, Types
  <2> QED
    BY <1>0, <1>1, <1>4, <2>1, <2>2, <2>3, TableTypes DEF PersonalInv, Types, TypeOK
<1>12. Stage(r)'
  BY <1>1, <1>2, <1>5 DEF RequestInv, Stage, Removing, Writing
<1>13. Inserts(r)' /\ Deletes(r)'
  BY <1>4, <1>5 DEF Inserts, Deletes
<1>14. Known(r)'
  <2>1. \A p \in Requests : pc[p] = "done" => pc'[p] = "done"
    BY <1>5, <1>6 DEF Untouched
  <2>2. target'[r] = target[r] /\ bodies'[r] = bodies[r] /\ ids'[r] = ids[r] /\ pc'[r] = "done"
    BY <1>1, <1>5
  <2> QED
    BY ONLY <1>2, <2>1, <2>2 DEF RequestInv, Known, NewUuid
<1>15. Gone(r)'
  <2> SUFFICES ASSUME kind[r] = "remove" PROVE Gone(r)'
    BY <1>5 DEF Gone
  <2>1. PICK u : u = target[r]
    OBVIOUS
  <2>2. ASSUME NEW y \in Committed(rows'), y.uuid = u, u \notin since[r]
        PROVE  FALSE
    <3>1. PICK x \in rows : Same(r, x, y) /\ x.by \in {None, r} /\ x.del # r
      BY <1>4, <2>2
    <3>2. pc[r] = "rows" /\ left[r] = {}
      BY <1>1, <1>2 DEF RequestInv, Stage, Writing
    <3>3. x.by = None
      BY <1>2, <3>1, <3>2 DEF RequestInv, Inserts
    <3>4. x.del = r
      BY <1>2, <2>1, <2>2, <3>1, <3>2, <3>3 DEF RequestInv, Gone, Committed, Same
    <3> QED
      BY <3>1, <3>4
  <2>3. since[r] \subseteq since'[r]
    BY <1>7 DEF CommitsItsOwn
  <2> QED
    BY <1>5, <2>1, <2>2, <2>3 DEF Gone, Committed
<1>16. \A q \in Requests \ {r} : RequestInv(q)'
  BY <1>1, <1>4, <1>5, <1>6, <1>7, OthersKeep
<1> QED
  BY <1>4, <1>6, <1>7, <1>10, <1>11, <1>12, <1>13, <1>14, <1>15, <1>16
     DEF PersonalInv, RequestInv, Moved

----------------------------------------------------------------------------
(* Every step keeps the invariant.                                         *)
LEMMA StepKeeps ==
  ASSUME PersonalInv, NEW r \in Requests, Step(r)
  PROVE  PersonalInv'
<1>1. CASE InsertRefused(r)
  BY <1>1, AbortKeeps DEF InsertRefused
<1>2. CASE Deadlock(r)
  <2>1. pc[r] \notin {"idle", "done"}
    <3>1. CASE pc[r] \in {"idle", "done"}
      <4>1. Blockers[r] = {}
        BY <3>1 DEF Blockers
      <4>2. InCycle(r, Blockers)
        BY <1>2 DEF Deadlock
      <4> QED
        BY <4>1, <4>2 DEF InCycle
    <3> QED
      BY <3>1
  <2> QED
    BY <1>2, <2>1, AbortKeeps DEF Deadlock
<1> QED
  BY <1>1, <1>2, LoadKeeps, DeleteLoadedFieldsKeeps, AimAtKeeps, DeleteContactKeeps,
     CascadeContactKeeps, WriterStepKeeps, FindKeeps, InsertContactKeeps, CommitKeeps DEF Step

LEMMA NoIdsAreSent ==
  ASSUME NEW B
  PROVE  /\ NoIds(B) \in [B -> Ids \cup {None}]
         /\ \A h \in B : NoIds(B)[h] = None /\ NoIds(B)[h] \in Sendable
  BY DEF NoIds, Sendable

LEMMA NextKeeps ==
  ASSUME PersonalInv, [Next]_vars
  PROVE  PersonalInv'
<1>1. CASE UNCHANGED vars
  <2>1. UNCHANGED <<rows, fields, tenant, user, pc, kind, target, bodies, ids, fieldsLeft, left, aim,
                    failed, todo, reply, told, since>>
    BY <1>1 DEF vars, table, owner, input, ghosts, work
  <2>2. Types' /\ TableInv' /\ NothingLost'
    BY <2>1 DEF PersonalInv, Types, TypeOK, TableTypeOK, TableInv, Shapes, Fitting, Identified,
         Unique, Owned, Complete, NothingLost, Contacts, Committed
  <2>3. \A r \in Requests : RequestInv(r)'
    BY <2>1 DEF PersonalInv, RequestInv, Stage, Inserts, Deletes, Known, Gone, Committed,
         AimedUuid, UuidFor, NewUuid
  <2> QED
    BY <2>2, <2>3 DEF PersonalInv
<1>2. ASSUME NEW r \in Requests, BeginCreate(r) \/ BeginImport(r) \/ BeginEdit(r)
                                 \/ BeginRemove(r) \/ BeginPurge(r)
      PROVE  PersonalInv'
  <2>1. CASE BeginCreate(r)
    <3>1. PICK h \in Hashes, v \in Sendable : Begin(r, "create", None, {h}, [g \in {h} |-> v])
      BY <2>1 DEF BeginCreate
    <3>2. PICK f : f = [g \in {h} |-> v]
      OBVIOUS
    <3>3. f \in [{h} -> Ids \cup {None}] /\ \A g \in {h} : f[g] \in Sendable
      BY <3>2 DEF Sendable
    <3> QED
      BY <3>1, <3>2, <3>3, BeginKeeps
  <2>2. CASE BeginImport(r)
    <3>1. PICK f \in Imports : /\ \A h \in DOMAIN f : f[h] \in Sendable
                              /\ Begin(r, "import", None, DOMAIN f, f)
      BY <2>2 DEF BeginImport
    <3>2. DOMAIN f \in SUBSET Hashes /\ f \in [DOMAIN f -> Ids \cup {None}]
      BY PersonalAssumption
    <3> QED
      BY <3>1, <3>2, BeginKeeps
  <2>3. CASE BeginEdit(r)
    <3>1. PICK p \in Contacts, h \in Hashes : Begin(r, "edit", p[1], {h}, NoIds({h}))
      BY <2>3 DEF BeginEdit
    <3>2. PICK u : u = p[1]
      OBVIOUS
    <3>3. PICK B \in SUBSET Hashes : B = {h}
      OBVIOUS
    <3> QED
      BY <3>1, <3>2, <3>3, NoIdsAreSent, BeginKeeps
  <2>4. CASE BeginRemove(r)
    <3>1. PICK p \in Contacts : Begin(r, "remove", p[1], {}, NoIds({}))
      BY <2>4 DEF BeginRemove
    <3>2. PICK u : u = p[1]
      OBVIOUS
    <3> QED
      BY <3>1, <3>2, NoIdsAreSent, BeginKeeps
  <2>5. CASE BeginPurge(r)
    BY <2>5, NoIdsAreSent, BeginKeeps DEF BeginPurge
  <2> QED
    BY <1>2, <2>1, <2>2, <2>3, <2>4, <2>5
<1>3. ASSUME NEW r \in Requests, DatabaseFails(r) PROVE PersonalInv'
  BY <1>3, AbortKeeps DEF DatabaseFails
<1>4. CASE Terminated
  BY <1>1, <1>4 DEF Terminated
<1> QED
  BY <1>1, <1>2, <1>3, <1>4, StepKeeps DEF Next

(* Each conjunct of the invariant that a run checks or a reader asks for.  *)
LEMMA PersonalInvImplies ==
  ASSUME PersonalInv
  PROVE  TablesAreSound /\ NothingLost /\ RemovedIsGone
<1>1. HashMatchesFields
  <2> SUFFICES ASSUME NEW x \in rows, x.by = None
               PROVE  {g.hash : g \in {f \in Committed(fields) : f.uuid = x.uuid}} = {x.hash}
    BY DEF HashMatchesFields, Committed
  <2>1. ASSUME NEW g \in fields, g.by = None, g.uuid = x.uuid PROVE g.hash = x.hash
    <3>1. PICK y \in rows : Alike(g, y)
      BY DEF PersonalInv, TableInv, Owned
    <3>2. y.uuid = x.uuid /\ y.by = None
      BY <2>1, <3>1 DEF PersonalInv, TableInv, Fitting, Fits, Alike
    <3>3. y = x
      BY <3>2, CommittedUnique DEF PersonalInv, Share
    <3> QED
      BY <3>1, <3>3 DEF Alike
  <2>2. \E g \in fields : g.by = None /\ g.uuid = x.uuid
    <3>1. PICK g \in fields : g.id = x.id
      BY DEF PersonalInv, TableInv, Complete
    <3>2. g.by = None
      BY <3>1 DEF PersonalInv, TableInv, Owned, Alike, Identified
    <3>3. g.uuid = x.uuid
      BY <3>1 DEF PersonalInv, TableInv, Fitting, Fits
    <3> QED
      BY <3>2, <3>3
  <2> QED
    BY <2>1, <2>2 DEF Committed
<1>2. RemovedIsGone
  <2> SUFFICES ASSUME NEW r \in Requests, kind[r] = "remove", reply[r] = "ok",
                      NEW p \in Contacts, p[1] = target[r]
               PROVE  target[r] \in since[r]
    BY DEF RemovedIsGone
  <2>1. PICK x \in Committed(rows) : x.uuid = target[r]
    BY DEF Contacts
  <2>2. pc[r] = "done"
    BY Unanswered
  <2>3. x.del # r
    BY <2>2 DEF PersonalInv, RequestInv, Deletes, Committed
  <2> QED
    BY <2>1, <2>3 DEF PersonalInv, RequestInv, Gone
<1> QED
  BY <1>1, <1>2 DEF PersonalInv, Types, TablesAreSound

(***************************************************************************)
(* The invariant, for any requests and any hashes.                         *)
(***************************************************************************)
THEOREM SpecPersonalInv == Spec => []PersonalInv
<1>1. Init => PersonalInv
  BY InitPersonalInv
<1>2. PersonalInv /\ [Next]_vars => PersonalInv'
  BY NextKeeps
<1> QED
  BY <1>1, <1>2, PTL DEF Spec

(* However the statements of edits, removals and imports interleave and    *)
(* fail, a committed contact has the fields its hash was computed from.    *)
THEOREM SpecTablesAreSound == Spec => []TablesAreSound
<1>1. PersonalInv => TablesAreSound
  BY PersonalInvImplies
<1> QED
  BY <1>1, SpecPersonalInv, PTL

(* A contact its owner was told of stays until a request that edits or     *)
(* removes it has been acknowledged.                                       *)
THEOREM SpecNothingLost == Spec => []NothingLost
<1>1. PersonalInv => NothingLost
  BY PersonalInvImplies
<1> QED
  BY <1>1, SpecPersonalInv, PTL

(* A contact whose removal was acknowledged is gone, unless a request that *)
(* inserts one under its uuid has been acknowledged since it was sent: an   *)
(* edit that had loaded it, or one that was sent the uuid.                  *)
THEOREM SpecRemovedIsGone == Spec => []RemovedIsGone
<1>1. PersonalInv => RemovedIsGone
  BY PersonalInvImplies
<1> QED
  BY <1>1, SpecPersonalInv, PTL

----------------------------------------------------------------------------
(* The contact book.  What it takes to see a request as one step of it,     *)
(* beyond the invariant: where the request is to act, on what it was sent, *)
(* and whose user it has.                                                  *)
Asked(r) == IF pc[r] = "idle" THEN kind[r] = None ELSE kind[r] \in Kinds

Emptied(r) == pc[r] \in {"check"} \cup Writing => left[r] = {}

Sent(r) ==
  /\ kind[r] \in {"remove", "purge"} => bodies[r] = {}
  /\ kind[r] = "edit" => \A h \in bodies[r] : ids[r][h] = None
  /\ failed[r] \subseteq bodies[r]
  /\ kind[r] # "import" \/ pc[r] = "list" => failed[r] = {}
  /\ pc[r] = "insert" =>
       /\ \A i \in DOMAIN todo[r] : todo[r][i] \notin failed[r]
       /\ \A x \in rows : x.by = r => x.hash \notin failed[r]

(* The row it has found is the only one of its uuid, but for one inserted   *)
(* since.                                                                  *)
Aimed(r) ==
  pc[r] \in {"waitRow", "cascade"} =>
    \A x \in Committed(rows) :
      x.uuid = AimedUuid(r) => x.id = aim[r] \/ AimedUuid(r) \in since[r]

(* Who inserts contacts has the user, and an edit finds it committed: the   *)
(* rollback that follows the loss of a tenant never undoes its deletion.   *)
Housed(r) ==
  /\ pc[r] \in {"find", "insert"} => user \in {{None}, {r}}
  /\ kind[r] = "edit" => user = {None} /\ pc[r] \notin {"tenant", "addTenant", "addUser"}

Home == Committed(rows) # {} => user = {None}

BookRequest(r) == Asked(r) /\ Emptied(r) /\ Sent(r) /\ Aimed(r) /\ Housed(r)

BookInv == PersonalInv /\ Home /\ \A r \in Requests : BookRequest(r)

(* What a step of r may do to the user.                                    *)
UserMoves(r) ==
  \/ user' \in {user, user \ {r}}
  \/ user = {} /\ user' = {r}
  \/ user = {r} /\ user' = {None}

LEMMA OthersKeepBook ==
  ASSUME BookInv, NEW r \in Requests, pc[r] # "done", Moved(r), UserMoves(r),
         NEW q \in Requests \ {r}
  PROVE  BookRequest(q)'
<1>1. /\ PersonalInv /\ BookRequest(q) /\ Untouched(q) /\ q # r /\ q # None /\ r # None
      /\ RequestInv(r)
  BY TableAssumption DEF BookInv, Moved, PersonalInv
<1>2. Asked(q)' /\ Emptied(q)'
  BY <1>1 DEF BookRequest, Asked, Emptied, Untouched
<1>3. \A y \in rows' : New(r, y) \/ \E x \in rows : Same(r, x, y)
  BY DEF Moved, Stepped, From
<1>4. Sent(q)'
  BY <1>1, <1>3 DEF BookRequest, Sent, Untouched, New, Same
<1>5. Aimed(q)'
  <2> SUFFICES ASSUME pc[q] \in {"waitRow", "cascade"} PROVE Aimed(q)'
    BY <1>1 DEF Aimed, Untouched
  <2>1. PICK u : u = AimedUuid(q)
    OBVIOUS
  <2>2. AimedUuid(q)' = u /\ aim'[q] = aim[q]
    BY <1>1, <2>1 DEF Untouched, AimedUuid
  <2>3. kind[q] \in {"edit", "remove", "purge"} /\ since[q] \subseteq since'[q]
    BY <1>1 DEF PersonalInv, RequestInv, Stage, Removing, Moved, CommitsItsOwn
  <2>4. ASSUME NEW y \in Committed(rows'), y.uuid = u
        PROVE  y.id = aim[q] \/ u \in since'[q]
    <3>1. CASE \E x \in Committed(rows) : Same(r, x, y)
      <4>1. PICK x \in Committed(rows) : Same(r, x, y)
        BY <3>1
      <4>2. x.id = aim[q] \/ u \in since[q]
        BY <1>1, <2>1, <2>4, <4>1 DEF BookRequest, Aimed, Same
      <4> QED
        BY <2>3, <4>1, <4>2 DEF Same
    <3> QED
      BY <1>1, <2>3, <2>4, <3>1 DEF Moved, CommitsItsOwn
  <2> QED
    BY <1>1, <2>2, <2>4 DEF Aimed, Committed
<1>6. Housed(q)'
  BY <1>1 DEF BookRequest, Housed, UserMoves, Untouched
<1> QED
  BY <1>2, <1>4, <1>5, <1>6 DEF BookRequest

(* A step that commits nothing keeps it if it keeps the part of r.         *)
LEMMA QuietKeepsBook ==
  ASSUME BookInv, NEW r \in Requests, pc[r] \notin {"idle", "done"}, pc'[r] # "idle",
         PersonalInv', Quiet(r), UserMoves(r), UNCHANGED <<kind, target, bodies, ids>>,
         Emptied(r)', Sent(r)', Aimed(r)', Housed(r)'
  PROVE  BookInv'
<1>1. \A q \in Requests \ {r} : BookRequest(q)'
  BY QuietMoves, OthersKeepBook
<1>2. Asked(r)'
  BY DEF BookInv, BookRequest, Asked
<1>3. Home'
  <2>1. \A y \in Committed(rows') : \E x \in Committed(rows) : Same(r, x, y)
    BY DEF Quiet, TableStep, NoCommit
  <2>2. user = {None} => user' = {None}
    BY TableAssumption DEF UserMoves
  <2> QED
    BY <2>1, <2>2 DEF BookInv, Home, Committed
<1> QED
  BY <1>1, <1>2, <1>3 DEF BookInv, BookRequest

(* The same, for a step after which r has found no row to delete.          *)
LEMMA PlainKeepsBook ==
  ASSUME BookInv, NEW r \in Requests, pc[r] \notin {"idle", "done"},
         pc'[r] \notin {"idle", "list", "waitRow", "cascade", "insert"},
         PersonalInv', Quiet(r), UserMoves(r), UNCHANGED <<kind, target, bodies, ids, failed>>,
         Emptied(r)', Housed(r)'
  PROVE  BookInv'
<1>1. Sent(r)' /\ Aimed(r)'
  BY DEF BookInv, BookRequest, Sent, Aimed
<1> QED
  BY <1>1, QuietKeepsBook

----------------------------------------------------------------------------
(* What the contact book is told of a step: first, nothing of the plans of *)
(* the requests that do not make it.                                       *)
LEMMA PlanOfOthers ==
  ASSUME PersonalInv, NEW r \in Requests, Stepped(r), NEW q \in Requests \ {r}, Untouched(q)
  PROVE  /\ Doomed(q)' = Doomed(q) /\ Skipped(q)' = Skipped(q)
         /\ q \in Looked' <=> q \in Looked
<1>1. q # r /\ q # None /\ r # None
  BY TableAssumption
<1>2. q \in Looked' <=> q \in Looked
  BY DEF Looked, Untouched
<1>3. /\ \A y \in rows' : New(r, y) \/ \E x \in rows : Same(r, x, y)
      /\ \A x \in rows : x.del \notin {None, r} \/ x.by \notin {None, r} => x \in rows'
  BY DEF Stepped, From
<1>4. {x.uuid : x \in {y \in rows : y.del = q}}' = {x.uuid : x \in {y \in rows : y.del = q}}
  <2>1. \A y \in rows' : y.del = q => \E x \in rows : x.del = q /\ x.uuid = y.uuid
    BY <1>1, <1>3 DEF New, Same
  <2> QED
    BY <1>1, <1>3, <2>1
<1>5. {x.hash : x \in {y \in rows : y.by = q}}' = {x.hash : x \in {y \in rows : y.by = q}}
  <2>1. \A y \in rows' : y.by = q => \E x \in rows : x.by = q /\ x.hash = y.hash
    BY <1>1, <1>3 DEF New, Same
  <2> QED
    BY <1>1, <1>3, <2>1
<1> QED
  BY <1>2, <1>4, <1>5 DEF Doomed, Skipped, Inserted, Untouched

(* So a step of r changes at most the plan of r.                           *)
LEMMA PlanChanges ==
  ASSUME PersonalInv, NEW r \in Requests, Moved(r)
  PROVE  /\ [q \in Requests |-> Doomed(q)]' =
              [[q \in Requests |-> Doomed(q)] EXCEPT ![r] = Doomed(r)']
         /\ [q \in Requests |-> Skipped(q)]' =
              [[q \in Requests |-> Skipped(q)] EXCEPT ![r] = Skipped(r)']
         /\ Doomed(r)' = Doomed(r) =>
              [q \in Requests |-> Doomed(q)]' = [q \in Requests |-> Doomed(q)]
         /\ Skipped(r)' = Skipped(r) =>
              [q \in Requests |-> Skipped(q)]' = [q \in Requests |-> Skipped(q)]
         /\ r \in Looked' => Looked' = Looked \cup {r}
         /\ r \notin Looked' => Looked' = Looked \ {r}
         /\ (r \in Looked' <=> r \in Looked) => Looked' = Looked
<1>1. \A q \in Requests \ {r} : Doomed(q)' = Doomed(q) /\ Skipped(q)' = Skipped(q)
                               /\ (q \in Looked' <=> q \in Looked)
  BY PlanOfOthers DEF Moved
<1>2. /\ [q \in Requests |-> Doomed(q)]' = [q \in Requests |-> Doomed(q)']
      /\ [q \in Requests |-> Skipped(q)]' = [q \in Requests |-> Skipped(q)']
  BY DEF Doomed, Skipped, Inserted, Looked
<1>3. /\ [q \in Requests |-> Doomed(q)'] = [[q \in Requests |-> Doomed(q)] EXCEPT ![r] = Doomed(r)']
      /\ [q \in Requests |-> Skipped(q)'] =
           [[q \in Requests |-> Skipped(q)] EXCEPT ![r] = Skipped(r)']
  BY <1>1
<1>4. Doomed(r)' = Doomed(r) => [q \in Requests |-> Doomed(q)'] = [q \in Requests |-> Doomed(q)]
  BY <1>1
<1>5. Skipped(r)' = Skipped(r) => [q \in Requests |-> Skipped(q)'] = [q \in Requests |-> Skipped(q)]
  BY <1>1
<1>6. Looked \subseteq Requests /\ Looked' \subseteq Requests
  BY DEF Looked
<1>7. /\ r \in Looked' => Looked' = Looked \cup {r}
      /\ r \notin Looked' => Looked' = Looked \ {r}
      /\ (r \in Looked' <=> r \in Looked) => Looked' = Looked
  BY <1>1, <1>6
<1> QED
  BY <1>2, <1>3, <1>4, <1>5, <1>7

(* The uuids and hashes of the contacts.                                   *)
LEMMA BookValues ==
  /\ \A u : u \in Book!UuidsOf(Contacts) <=> \E x \in Committed(rows) : x.uuid = u
  /\ \A h : h \in Book!HashesOf(Contacts) <=> \E x \in Committed(rows) : x.hash = h
<1>1. \A p \in Contacts : \E x \in Committed(rows) : x.uuid = p[1] /\ x.hash = p[2]
  BY DEF Contacts
<1>2. ASSUME NEW x \in Committed(rows)
      PROVE  \E p \in Contacts : x.uuid = p[1] /\ x.hash = p[2]
  <2>1. <<x.uuid, x.hash>> \in Contacts
    BY DEF Contacts
  <2> QED
    BY <2>1
<1> QED
  BY <1>1, <1>2 DEF Book!UuidsOf, Book!HashesOf

(* A statement the book does not notice.                                   *)
LEMMA BookStutters ==
  ASSUME PersonalInv, NEW r \in Requests, Quiet(r), UNCHANGED <<kind, target, bodies, ids, reply>>,
         r \in Looked' <=> r \in Looked,
         Doomed(r)' = Doomed(r), Skipped(r)' = Skipped(r)
  PROVE  UNCHANGED Book!bookVars
<1>1. /\ [q \in Requests |-> Doomed(q)]' = [q \in Requests |-> Doomed(q)]
      /\ [q \in Requests |-> Skipped(q)]' = [q \in Requests |-> Skipped(q)]
      /\ Looked' = Looked
  BY PlanChanges, QuietMoves
<1>2. Contacts' = Contacts /\ since' = since
  BY DEF Quiet, TableStep, NoCommit
<1> QED
  BY <1>1, <1>2 DEF Book!bookVars, Book!request, Book!plan

(* The end of a request, whatever its answer.                              *)
LEMMA BookOver ==
  ASSUME PersonalInv, NEW r \in Requests, Moved(r), pc'[r] = "done"
  PROVE  Book!Over(r)
<1>1. r \notin Looked' /\ Doomed(r)' = {} /\ Skipped(r)' = {}
  BY DEF Looked, Doomed, Skipped
<1> QED
  BY <1>1, PlanChanges DEF Book!Over

LEMMA BookUnderWay ==
  ASSUME BookInv, NEW r \in Requests, pc[r] \notin {"idle", "done"}
  PROVE  Book!UnderWay(r)
<1>1. reply[r] = None
  BY Unanswered DEF BookInv
<1>2. kind[r] \in Kinds
  BY DEF BookInv, BookRequest, Asked
<1> QED
  BY <1>1, <1>2, PersonalAssumption DEF Book!UnderWay

LEMMA AbortBook ==
  ASSUME BookInv, NEW r \in Requests, pc[r] \notin {"idle", "done"},
         NEW why \in {"duplicate", "nosuch", "error"}, Abort(r, why), Book!Refused(r, why)
  PROVE  BookInv' /\ Book!Fail(r)
<1>1. PersonalInv' /\ Quiet(r)
  BY AbortKeeps DEF BookInv
<1>2. /\ pc' = [pc EXCEPT ![r] = "done"] /\ reply' = [reply EXCEPT ![r] = why]
      /\ user' = user \ {r} /\ UNCHANGED <<kind, target, bodies, ids, failed>>
  BY DEF Abort, RollbackOwner, input, ghosts, work
<1>3. pc'[r] = "done" /\ reply'[r] = why
  BY <1>2 DEF BookInv, PersonalInv, Types, TypeOK
<1>4. Emptied(r)' /\ Housed(r)' /\ UserMoves(r)
  BY <1>2, <1>3, TableAssumption
     DEF Emptied, Writing, BookInv, BookRequest, Housed, UserMoves
<1>5. BookInv'
  BY <1>1, <1>2, <1>3, <1>4, PlainKeepsBook
<1>6. Book!Over(r) /\ Book!UnderWay(r)
  BY <1>1, <1>3, QuietMoves, BookOver, BookUnderWay DEF BookInv
<1>7. Contacts' = Contacts /\ since' = since
  BY <1>1 DEF Quiet, TableStep, NoCommit
<1>8. why \notin {None, "ok"}
  BY PersonalAssumption
<1> QED
  BY <1>2, <1>3, <1>5, <1>6, <1>7, <1>8 DEF Book!Fail, Book!request

(* What r has deleted.                                                     *)
Deleted(r) == {x.uuid : x \in {y \in rows : y.del = r}}

LEMMA BookLooks ==
  ASSUME BookInv, NEW r \in Requests, UNCHANGED <<kind, failed>>, kind[r] \in {"edit", "remove", "purge"},
         pc[r] \notin {"idle", "load", "done", "insert"},
         pc'[r] \notin {"idle", "load", "done", "insert"}
  PROVE  /\ r \in Looked /\ Doomed(r) = left[r] \cup Deleted(r) /\ Skipped(r) = {}
         /\ r \in Looked' /\ Doomed(r)' = left'[r] \cup Deleted(r)' /\ Skipped(r)' = {}
  BY DEF BookInv, BookRequest, Sent, Looked, Doomed, Skipped, Deleted

LEMMA LoadBook ==
  ASSUME BookInv, NEW r \in Requests, Load(r)
  PROVE  BookInv' /\ [Book!Next]_Book!bookVars
<1>1. /\ pc[r] = "load" /\ kind[r] \in {"edit", "remove", "purge"} /\ PersonalInv
      /\ RequestInv(r) /\ r # None
  BY TableAssumption DEF Load, BookInv, PersonalInv, RequestInv, Stage, Removing
<1>2. Wanted(r) = {x \in Committed(rows) : kind[r] = "purge" \/ x.uuid = target[r]}
  BY <1>1 DEF Wanted, Visible, Committed, RequestInv, Inserts, Deletes
<1>3. UNCHANGED user \/ user' = user \ {r}
  BY DEF Load, Abort, RollbackOwner, owner
<1>4. CASE Wanted(r) = {} /\ kind[r] # "purge"
  <2>1. Abort(r, "nosuch")
    BY <1>4 DEF Load
  <2>2. target[r] \notin Book!UuidsOf(Contacts)
    BY <1>2, <1>4, BookValues
  <2>3. Book!Refused(r, "nosuch")
    BY <1>1, <1>4, <2>2 DEF Book!Refused
  <2> QED
    BY <1>1, <2>1, <2>3, AbortBook DEF Book!Next
<1>5. CASE ~(Wanted(r) = {} /\ kind[r] # "purge")
  <2> DEFINE L == {x.uuid : x \in Wanted(r)}
  <2>1. /\ left' = [left EXCEPT ![r] = L] /\ pc' = [pc EXCEPT ![r] = "fields"]
        /\ UNCHANGED <<rows, fields, user, kind, target, bodies, ids, failed, reply>>
    BY <1>5 DEF Load, GoTo, table, owner, input, ghosts
  <2>2. left'[r] = L /\ pc'[r] = "fields"
    BY <2>1 DEF BookInv, PersonalInv, Types, TypeOK
  <2>3. PersonalInv' /\ Quiet(r)
    BY LoadKeeps DEF BookInv
  <2>4. Emptied(r)' /\ Housed(r)' /\ UserMoves(r)
    BY <1>1, <2>1, <2>2 DEF Emptied, Writing, BookInv, BookRequest, Housed, UserMoves
  <2>5. BookInv'
    BY <1>1, <2>1, <2>2, <2>3, <2>4, PlainKeepsBook
  <2>6. Doomed(r)' = L
    <3>1. {y \in rows : y.del = r} = {}
      BY <1>1 DEF RequestInv, Deletes
    <3> QED
      BY <1>1, <2>1, <2>2, <3>1 DEF Doomed, Looked
  <2>7. IF kind[r] = "purge" THEN L = Book!UuidsOf(Contacts)
        ELSE L = {target[r]} /\ target[r] \in Book!UuidsOf(Contacts)
    <3>1. Book!UuidsOf(Contacts) = {x.uuid : x \in Committed(rows)}
      BY BookValues
    <3> QED
      BY <1>2, <1>5, <3>1
  <2> HIDE DEF L
  <2>8. r \notin Looked /\ r \in Looked' /\ Skipped(r) = {} /\ Skipped(r)' = {}
    BY <1>1, <2>1, <2>2 DEF Looked, Skipped, BookInv, BookRequest, Sent
  <2>9. /\ Looked' = Looked \cup {r}
        /\ [q \in Requests |-> Doomed(q)]' = [[q \in Requests |-> Doomed(q)] EXCEPT ![r] = L]
        /\ [q \in Requests |-> Skipped(q)]' = [q \in Requests |-> Skipped(q)]
    BY <1>1, <2>3, <2>6, <2>8, PlanChanges, QuietMoves
  <2>10. Contacts' = Contacts /\ since' = since /\ Book!UnderWay(r)
    BY <1>1, <2>3, BookUnderWay DEF Quiet, TableStep, NoCommit
  <2>11. Book!Find(r)
    BY <1>1, <2>1, <2>7, <2>8, <2>9, <2>10 DEF Book!Find, Book!request
  <2> QED
    BY <2>5, <2>11 DEF Book!Next
<1> QED
  BY <1>4, <1>5

LEMMA DeleteLoadedFieldsBook ==
  ASSUME BookInv, NEW r \in Requests, DeleteLoadedFields(r)
  PROVE  BookInv' /\ [Book!Next]_Book!bookVars
<1>1. /\ pc[r] = "fields" /\ kind[r] \in {"edit", "remove", "purge"}
      /\ UNCHANGED <<rows, user, kind, target, bodies, ids, failed, reply, left>>
  BY DEF DeleteLoadedFields, DeleteFields, GoTo, table, owner, input, ghosts, work, BookInv, PersonalInv,
         RequestInv, Stage, Removing
<1>2. pc'[r] \in {"fields", "rows"}
  BY <1>1 DEF DeleteLoadedFields, GoTo, BookInv, PersonalInv, Types, TypeOK
<1>3. PersonalInv' /\ Quiet(r)
  BY DeleteLoadedFieldsKeeps DEF BookInv
<1>4. Emptied(r)' /\ Housed(r)' /\ UserMoves(r)
  BY <1>1, <1>2 DEF Emptied, Writing, BookInv, BookRequest, Housed, UserMoves
<1>5. BookInv'
  BY <1>1, <1>2, <1>3, <1>4, PlainKeepsBook
<1>6. UNCHANGED Book!bookVars
  <2>1. Deleted(r)' = Deleted(r)
    BY <1>1 DEF Deleted
  <2> QED
    BY <1>1, <1>2, <1>3, <2>1, BookLooks, BookStutters DEF BookInv
<1> QED
  BY <1>5, <1>6

(* A contact that is off the list of those to delete is either deleted or  *)
(* forgotten.                                                              *)
LEMMA OffTheList ==
  ASSUME BookInv, NEW r \in Requests, NEW u \in left[r], PersonalInv', Quiet(r),
         kind[r] \in {"edit", "remove", "purge"},
         pc[r] \notin {"idle", "load", "done", "insert"},
         pc'[r] \notin {"idle", "load", "done", "insert"},
         UNCHANGED <<rows, kind, target, bodies, ids, failed, reply>>,
         left'[r] = left[r] \ {u},
         u \in Deleted(r) \/ (\A x \in Committed(rows) : x.uuid # u) \/ u \in since[r]
  PROVE  [Book!Next]_Book!bookVars
<1>1. Deleted(r)' = Deleted(r)
  BY DEF Deleted
<1>2. /\ r \in Looked /\ r \in Looked' /\ Skipped(r)' = Skipped(r)
      /\ Doomed(r) = left[r] \cup Deleted(r)
      /\ Doomed(r)' = (left[r] \ {u}) \cup Deleted(r)
  BY <1>1, BookLooks
<1>3. CASE u \in Deleted(r)
  <2>1. UNCHANGED Book!bookVars
    BY <1>2, <1>3, BookStutters DEF BookInv
  <2> QED
    BY <2>1
<1>4. CASE u \notin Deleted(r)
  <2>1. /\ [q \in Requests |-> Doomed(q)]' =
             [[q \in Requests |-> Doomed(q)] EXCEPT ![r] = Doomed(r) \ {u}]
        /\ [q \in Requests |-> Skipped(q)]' = [q \in Requests |-> Skipped(q)]
        /\ Looked' = Looked
    <3>1. Doomed(r)' = Doomed(r) \ {u}
      BY <1>2, <1>4
    <3> QED
      BY <1>2, <3>1, PlanChanges, QuietMoves DEF BookInv
  <2>2. Contacts' = Contacts /\ since' = since /\ Book!UnderWay(r) /\ u \in Doomed(r)
    BY <1>2, BookUnderWay DEF Quiet, TableStep, NoCommit
  <2>3. u \notin Book!UuidsOf(Contacts) \/ u \in since[r]
    BY <1>4, BookValues
  <2>4. Book!Forget(r)
    BY <2>1, <2>2, <2>3 DEF Book!Forget, Book!request
  <2> QED
    BY <2>4 DEF Book!Next
<1> QED
  BY <1>3, <1>4

LEMMA AimAtBook ==
  ASSUME BookInv, NEW r \in Requests, AimAt(r)
  PROVE  BookInv' /\ [Book!Next]_Book!bookVars
<1>1. /\ pc[r] = "rows" /\ kind[r] \in {"edit", "remove", "purge"}
      /\ UNCHANGED <<rows, user, kind, target, bodies, ids, failed, reply>>
      /\ RequestInv(r) /\ TableInv /\ Home
  BY DEF AimAt, GoTo, table, owner, input, ghosts, BookInv, PersonalInv, RequestInv, Stage, Removing
<1>2. PersonalInv' /\ Quiet(r)
  BY AimAtKeeps DEF BookInv
<1>3. PICK u \in NextUuid(r) :
        LET X == {x \in Visible(r, rows) : x.uuid = u}
        IN  IF X = {}
            THEN /\ left' = [left EXCEPT ![r] = @ \ {u}]
                 /\ UNCHANGED <<pc, input, aim, reply, ghosts>>
            ELSE /\ \E x \in X : aim' = [aim EXCEPT ![r] = x.id]
                 /\ GoTo(r, "waitRow")
                 /\ UNCHANGED left
  BY DEF AimAt
<1>4. u \in left[r]
  BY <1>3 DEF NextUuid
<1>5. \A x \in rows : x \in Visible(r, rows) <=> x.by = None /\ x.del # r
  BY <1>1 DEF Visible, RequestInv, Inserts
<1>6. CASE {x \in Visible(r, rows) : x.uuid = u} = {}
  <2>1. left' = [left EXCEPT ![r] = left[r] \ {u}] /\ pc' = pc
    BY <1>3, <1>6
  <2>2. left'[r] = left[r] \ {u} /\ pc'[r] = "rows"
    BY <1>1, <2>1 DEF BookInv, PersonalInv, Types
  <2>3. Emptied(r)' /\ Housed(r)' /\ UserMoves(r)
    BY <1>1, <2>2 DEF Emptied, Writing, BookInv, BookRequest, Housed, UserMoves
  <2>4. BookInv'
    BY <1>1, <1>2, <2>2, <2>3, PlainKeepsBook
  <2>5. u \in Deleted(r) \/ \A x \in Committed(rows) : x.uuid # u
    BY <1>5, <1>6 DEF Deleted, Committed
  <2> QED
    BY <1>1, <1>2, <1>4, <2>2, <2>4, <2>5, OffTheList
<1>7. CASE {x \in Visible(r, rows) : x.uuid = u} # {}
  <2>1. PICK x \in Visible(r, rows) : x.uuid = u /\ aim' = [aim EXCEPT ![r] = x.id]
    BY <1>3, <1>7
  <2>2. pc' = [pc EXCEPT ![r] = "waitRow"] /\ left' = left
    BY <1>3, <1>7 DEF GoTo
  <2>3. x \in rows /\ x.by = None /\ x.id[2] = u
    BY <1>1, <1>5, <2>1 DEF Visible, TableInv, Fitting, Fits
  <2>4. pc'[r] = "waitRow" /\ aim'[r] = x.id
    BY <2>1, <2>2 DEF BookInv, PersonalInv, Types, TypeOK
  <2>5. Emptied(r)' /\ Housed(r)' /\ UserMoves(r) /\ Sent(r)'
    BY <1>1, <2>4 DEF Emptied, Writing, BookInv, BookRequest, Housed, UserMoves, Sent
  <2>6. Aimed(r)'
    <3>1. \A y \in Committed(rows) : y.uuid = u => y.id = x.id
      BY <1>1, <2>1, <2>3, CommittedUnique DEF Committed, Share
    <3> QED
      BY <1>1, <2>3, <2>4, <3>1 DEF Aimed, Committed, AimedUuid
  <2>7. BookInv'
    BY <1>1, <1>2, <2>4, <2>5, <2>6, QuietKeepsBook
  <2>8. Deleted(r)' = Deleted(r)
    BY <1>1 DEF Deleted
  <2>9. UNCHANGED Book!bookVars
    BY <1>1, <1>2, <2>2, <2>4, <2>8, BookLooks, BookStutters DEF BookInv
  <2> QED
    BY <2>7, <2>9
<1> QED
  BY <1>6, <1>7

LEMMA DeleteContactBook ==
  ASSUME BookInv, NEW r \in Requests, DeleteContact(r)
  PROVE  BookInv' /\ [Book!Next]_Book!bookVars
<1>1. /\ pc[r] = "waitRow" /\ kind[r] \in {"edit", "remove", "purge"}
      /\ UNCHANGED <<user, kind, target, bodies, ids, aim, failed, reply>>
      /\ RequestInv(r) /\ TableInv /\ Home /\ PersonalInv
  BY DEF DeleteContact, GoTo, owner, input, ghosts, BookInv, PersonalInv, RequestInv, Stage, Removing
<1>2. PersonalInv' /\ Quiet(r)
  BY DeleteContactKeeps DEF BookInv
<1>3. PICK u \in left[r] : u = AimedUuid(r)
  BY <1>1 DEF RequestInv, Stage
<1>4. \A x \in Committed(rows) : x.uuid = u => x.id = aim[r] \/ u \in since[r]
  BY <1>1, <1>3 DEF BookInv, BookRequest, Aimed
<1>5. CASE RowOf(aim[r]) = {}
  <2>1. /\ left' = [left EXCEPT ![r] = left[r] \ {u}] /\ rows' = rows
        /\ pc' = [pc EXCEPT ![r] = "rows"]
    BY <1>3, <1>5 DEF DeleteContact, GoTo, table
  <2>2. left'[r] = left[r] \ {u} /\ pc'[r] = "rows"
    BY <2>1 DEF BookInv, PersonalInv, Types, TypeOK
  <2>3. Emptied(r)' /\ Housed(r)' /\ UserMoves(r)
    BY <1>1, <2>2 DEF Emptied, Writing, BookInv, BookRequest, Housed, UserMoves
  <2>4. BookInv'
    BY <1>1, <1>2, <2>2, <2>3, PlainKeepsBook
  <2>5. (\A x \in Committed(rows) : x.uuid # u) \/ u \in since[r]
    BY <1>4, <1>5 DEF RowOf
  <2> QED
    BY <1>1, <1>2, <2>1, <2>2, <2>4, <2>5, OffTheList
<1>6. CASE RowOf(aim[r]) # {}
  <2>1. DeleteRow(r, aim[r]) /\ pc' = [pc EXCEPT ![r] = "cascade"] /\ left' = left
    BY <1>6 DEF DeleteContact, GoTo
  <2>2. pc'[r] = "cascade"
    BY <2>1 DEF BookInv, PersonalInv, Types, TypeOK
  <2>3. Emptied(r)' /\ Housed(r)' /\ UserMoves(r) /\ Sent(r)'
    BY <1>1, <2>2 DEF Emptied, Writing, BookInv, BookRequest, Housed, UserMoves, Sent
  <2>4. Aimed(r)'
    <3>1. \A y \in Committed(rows') : \E x \in Committed(rows) : x.id = y.id /\ x.uuid = y.uuid
      BY <1>2 DEF Quiet, TableStep, NoCommit, Same
    <3>2. \A y \in Committed(rows') : y.uuid = u => y.id = aim[r] \/ u \in since'[r]
      BY <1>2, <1>4, <3>1 DEF Quiet
    <3>3. AimedUuid(r)' = u
      BY <1>1, <1>3 DEF AimedUuid
    <3> QED
      BY <1>1, <3>2, <3>3 DEF Aimed, Committed
  <2>5. BookInv'
    BY <1>1, <1>2, <2>2, <2>3, <2>4, QuietKeepsBook
  <2>6. left[r] \cup Deleted(r)' = left[r] \cup Deleted(r)
    <3>1. PICK i : i = aim[r] /\ i[2] = u
      BY <1>3 DEF AimedUuid
    <3>2. rows' = Marked(r, rows, RowOf(i)) /\ RowOf(i) \subseteq rows
      BY <2>1, <3>1 DEF DeleteRow, RowOf, Committed
    <3>3. \A x \in RowOf(i) : x.uuid = u /\ Mark(r, x).uuid = u
      BY <1>1, <3>1, MarkEffect DEF TableInv, Shapes, Fitting, Fits, RowOf, Committed
    <3>4. \A y \in rows' : y \in rows \/ y.uuid = u
      BY <3>2, <3>3, MarkedEffect
    <3>5. \A x \in rows : x \in rows' \/ x.uuid = u
      BY <3>2, <3>3, MarkedEffect
    <3> QED
      BY <3>4, <3>5 DEF Deleted
  <2>7. UNCHANGED Book!bookVars
    BY <1>1, <1>2, <2>1, <2>2, <2>6, BookLooks, BookStutters DEF BookInv
  <2> QED
    BY <2>5, <2>7
<1> QED
  BY <1>5, <1>6

LEMMA CascadeContactBook ==
  ASSUME BookInv, NEW r \in Requests, CascadeContact(r)
  PROVE  BookInv' /\ [Book!Next]_Book!bookVars
<1>1. /\ pc[r] = "cascade" /\ kind[r] \in {"edit", "remove", "purge"}
      /\ UNCHANGED <<rows, user, kind, target, bodies, ids, failed, reply>>
      /\ left' = [left EXCEPT ![r] = @ \ {AimedUuid(r)}] /\ pc' = [pc EXCEPT ![r] = "rows"]
      /\ RequestInv(r) /\ TableInv
  BY DEF CascadeContact, Cascade, GoTo, owner, input, ghosts, BookInv, PersonalInv, RequestInv, Stage,
         Removing
<1>2. PersonalInv' /\ Quiet(r)
  BY CascadeContactKeeps DEF BookInv
<1>3. PICK u \in left[r] : u = AimedUuid(r)
  BY <1>1 DEF RequestInv, Stage
<1>4. left'[r] = left[r] \ {u} /\ pc'[r] = "rows"
  BY <1>1, <1>3 DEF BookInv, PersonalInv, Types, TypeOK
<1>5. Emptied(r)' /\ Housed(r)' /\ UserMoves(r)
  BY <1>1, <1>4 DEF Emptied, Writing, BookInv, BookRequest, Housed, UserMoves
<1>6. BookInv'
  BY <1>1, <1>2, <1>4, <1>5, PlainKeepsBook
<1>7. u \in Deleted(r)
  BY <1>1, <1>3 DEF RequestInv, Deletes, TableInv, Fitting, Fits, AimedUuid, Deleted
<1> QED
  BY <1>1, <1>2, <1>4, <1>6, <1>7, OffTheList

(* The steps of a writer that the book does not notice.                    *)
LEMMA WriterMovesBook ==
  ASSUME BookInv, NEW r \in Requests, NEW s \in Waiting \cup {"find"},
         pc[r] \in Waiting \/ (pc[r] = "rows" /\ left[r] = {}),
         kind[r] \in {"create", "import", "edit"}, kind[r] = "edit" => rows' = rows,
         PersonalInv', Quiet(r), UserMoves(r), Housed(r)',
         pc' = [pc EXCEPT ![r] = s],
         UNCHANGED <<kind, target, bodies, ids, left, failed, reply>>
  PROVE  BookInv' /\ [Book!Next]_Book!bookVars
<1>1. pc'[r] = s
  BY DEF BookInv, PersonalInv, Types, TypeOK
<1>2. Emptied(r)'
  BY <1>1 DEF BookInv, BookRequest, Emptied, Waiting, Writing
<1>3. BookInv'
  BY <1>1, <1>2, PlainKeepsBook DEF Waiting
<1>4. UNCHANGED Book!bookVars
  <2>1. CASE kind[r] = "edit"
    <3>1. Deleted(r)' = Deleted(r)
      BY <2>1 DEF Deleted
    <3> QED
      BY <1>1, <2>1, <3>1, BookLooks, BookStutters DEF BookInv, Waiting
  <2>2. CASE kind[r] \in {"create", "import"}
    <3>1. /\ r \notin Looked /\ r \notin Looked'
          /\ Skipped(r)' = Skipped(r)
      BY <1>1, <2>2 DEF Looked, Skipped, Waiting
    <3>2. Doomed(r) = {} /\ Doomed(r)' = {}
      BY <3>1 DEF Doomed
    <3> QED
      BY <3>1, <3>2, BookStutters DEF BookInv
  <2> QED
    BY <2>1, <2>2
<1> QED
  BY <1>3, <1>4

(* A duplicate it finds is among the contacts it does not replace.         *)
LEMMA DuplicateIsTrue ==
  ASSUME BookInv, NEW r \in Requests, pc[r] \in {"check", "find"}, Existing(r) # {}
  PROVE  Book!Refused(r, "duplicate")
<1>1. PICK x \in Visible(r, rows) : x.hash \in bodies[r]
  BY DEF Existing
<1>2. /\ RequestInv(r) /\ TableInv /\ kind[r] \in {"create", "import", "edit"}
  BY DEF BookInv, PersonalInv, RequestInv, Stage, Writing
<1>3. left[r] = {}
  BY DEF BookInv, BookRequest, Emptied, Writing
<1>4. x \in rows /\ x.by = None /\ x.del # r
  BY <1>1, <1>2 DEF Visible, RequestInv, Inserts
<1>5. x.uuid \notin Doomed(r)
  <2>1. ASSUME NEW y \in rows, y.del = r PROVE y.uuid # x.uuid
    <3>1. y.by = None
      BY <1>2, <2>1, TableAssumption DEF TableInv, Fitting, Fits
    <3> QED
      BY <1>2, <1>4, <2>1, <3>1, CommittedUnique DEF Share
  <2> QED
    BY <1>3, <2>1 DEF Doomed
<1> DEFINE p == <<x.uuid, x.hash>>
<1>6. p[1] = x.uuid /\ p[2] = x.hash
  OBVIOUS
<1>7. p \in Contacts /\ [q \in Requests |-> Doomed(q)][r] = Doomed(r)
  BY <1>4, <1>6 DEF Contacts, Committed
<1> HIDE DEF p
<1>8. p \in Book!Remaining(r)
  BY <1>2, <1>5, <1>6, <1>7 DEF Book!Remaining
<1>9. x.hash \in Book!HashesOf(Book!Remaining(r))
  BY <1>6, <1>8 DEF Book!HashesOf
<1> QED
  BY <1>1, <1>9 DEF Book!Refused

LEMMA ErrorIsRefused ==
  ASSUME NEW r \in Requests
  PROVE  Book!Refused(r, "error")
  BY DEF Book!Refused

LEMMA WriterBook ==
  ASSUME BookInv, NEW r \in Requests,
         \/ DeletedForEdit(r) \/ CheckDuplicate(r) \/ FindUser(r) \/ FindTenant(r)
         \/ AddTenant(r) \/ AddUser(r)
  PROVE  BookInv' /\ [Book!Next]_Book!bookVars
<1> USE DEF GoTo, owner, input, ghosts, work, table
<1>1. Stage(r) /\ Housed(r) /\ r # None /\ PersonalInv
  BY TableAssumption DEF BookInv, BookRequest, PersonalInv, RequestInv
<1>2. user \in Writers /\ r \in DOMAIN pc
  BY DEF BookInv, PersonalInv, Types, TypeOK
<1>3. PersonalInv' /\ Quiet(r)
  BY <1>1, WriterStepKeeps
<1>4. ASSUME NEW s \in Waiting \cup {"find"}, pc' = [pc EXCEPT ![r] = s],
             user' \in {user, user \ {r}} \/ (user = {} /\ user' = {r}),
             UNCHANGED <<kind, target, bodies, ids, left, failed, reply>>,
             s = "find" => user' \in {{None}, {r}},
             kind[r] = "edit" => s \notin {"tenant", "addTenant", "addUser"}
      PROVE  UserMoves(r) /\ Housed(r)' /\ pc'[r] = s
  BY <1>2, <1>1, <1>4 DEF UserMoves, Housed, Waiting
<1>5. CASE DeletedForEdit(r)
  BY <1>1, <1>3, <1>4, <1>5, WriterMovesBook DEF DeletedForEdit, Waiting
<1>6. CASE CheckDuplicate(r)
  <2>1. pc[r] = "check" /\ kind[r] = "edit"
    BY <1>1, <1>6 DEF CheckDuplicate, Stage
  <2>2. CASE Existing(r) # {}
    <3>1. Abort(r, "duplicate") /\ Book!Refused(r, "duplicate")
      BY <1>6, <2>1, <2>2, DuplicateIsTrue DEF CheckDuplicate
    <3> QED
      BY <2>1, <3>1, AbortBook DEF Book!Next
  <2>3. CASE Existing(r) = {}
    BY <1>1, <1>3, <1>4, <1>6, <2>1, <2>3, WriterMovesBook DEF CheckDuplicate, Waiting
  <2> QED
    BY <2>2, <2>3
<1>7. CASE FindUser(r)
  <2>1. pc[r] = "user" /\ kind[r] \in {"create", "import", "edit"}
    BY <1>1, <1>7 DEF FindUser, Stage, Writing
  <2>2. PICK s \in {"find", "tenant"} :
          pc' = [pc EXCEPT ![r] = s] /\ (s = "find" <=> user \in {{None}, {r}})
    BY <1>7 DEF FindUser
  <2>3. kind[r] = "edit" => s = "find"
    BY <1>1, <2>2 DEF Housed
  <2> QED
    BY <1>1, <1>3, <1>4, <1>7, <2>1, <2>2, <2>3, WriterMovesBook DEF FindUser, Waiting
<1>8. CASE FindTenant(r)
  <2>1. pc[r] = "tenant" /\ kind[r] \in {"create", "import"}
    BY <1>1, <1>8 DEF FindTenant, Stage, Writing, Housed
  <2>2. PICK s \in {"addUser", "addTenant"} : pc' = [pc EXCEPT ![r] = s]
    BY <1>8 DEF FindTenant
  <2> QED
    BY <1>1, <1>3, <1>4, <1>8, <2>1, <2>2, WriterMovesBook DEF FindTenant, Waiting
<1>9. CASE AddTenant(r)
  <2>1. pc[r] = "addTenant" /\ kind[r] \in {"create", "import"}
    BY <1>1, <1>9 DEF AddTenant, Stage, Writing, Housed
  <2>2. user' \in {user, user \ {r}}
    BY <1>9 DEF AddTenant, RollbackOwner
  <2>3. /\ pc' = [pc EXCEPT ![r] = "addUser"]
        /\ UNCHANGED <<kind, target, bodies, ids, left, failed, reply>>
    BY <1>9 DEF AddTenant
  <2> QED
    BY <1>1, <1>3, <1>4, <2>1, <2>2, <2>3, WriterMovesBook DEF Waiting
<1>10. CASE AddUser(r)
  <2>1. pc[r] = "addUser" /\ kind[r] \in {"create", "import"}
    BY <1>1, <1>10 DEF AddUser, Stage, Writing, Housed
  <2>2. CASE Abort(r, "error")
    BY <2>1, <2>2, ErrorIsRefused, AbortBook DEF Book!Next
  <2>3. CASE user = {} /\ user' = {r} /\ GoTo(r, "find") /\ UNCHANGED <<table, tenant, work>>
    BY <1>1, <1>3, <1>4, <2>1, <2>3, WriterMovesBook DEF Waiting
  <2> QED
    BY <1>10, <2>2, <2>3 DEF AddUser
<1> QED
  BY <1>5, <1>6, <1>7, <1>8, <1>9, <1>10

(* An order of hashes has them all.                                        *)

(* What an import is to fail for has the uuid of a contact.                *)
LEMMA ListContactsBook ==
  ASSUME BookInv, NEW r \in Requests, ListContacts(r)
  PROVE  BookInv' /\ [Book!Next]_Book!bookVars
<1> DEFINE F == {h \in bodies[r] : ids[r][h] \in {x.uuid : x \in Visible(r, rows)}}
<1>1. /\ pc[r] = "list" /\ failed' = [failed EXCEPT ![r] = F] /\ pc' = [pc EXCEPT ![r] = "user"]
      /\ UNCHANGED <<rows, user, kind, target, bodies, ids, left, reply>>
      /\ PersonalInv /\ RequestInv(r) /\ Sent(r)
  BY DEF ListContacts, GoTo, table, owner, input, ghosts, BookInv, BookRequest, PersonalInv
<1>2. F \subseteq bodies[r] /\ \A h \in F : ids[r][h] \in Book!UuidsOf(Contacts)
  <2>1. \A x \in Visible(r, rows) : x \in Committed(rows)
    BY <1>1 DEF Visible, Committed, RequestInv, Inserts
  <2> QED
    BY <2>1, BookValues
<1> HIDE DEF F
<1>3. pc'[r] = "user" /\ failed'[r] = F
  BY <1>1 DEF PersonalInv, Types, TypeOK
<1>4. PersonalInv' /\ Quiet(r)
  BY <1>1, WriterStepKeeps
<1>5. kind[r] = "import" /\ failed[r] = {} /\ left[r] = {}
  BY <1>1 DEF BookInv, BookRequest, Emptied, Writing, Sent, RequestInv, Stage
<1>6. BookInv'
  <2>1. Emptied(r)' /\ Aimed(r)' /\ Housed(r)' /\ UserMoves(r)
    BY <1>1, <1>3, <1>5 DEF Emptied, Aimed, Housed, UserMoves
  <2>2. Sent(r)'
    BY <1>1, <1>2, <1>3, <1>5 DEF Sent
  <2> QED
    BY <1>1, <1>3, <1>4, <2>1, <2>2, QuietKeepsBook
<1>7. Skipped(r) = {} /\ Skipped(r)' = F /\ r \notin Looked /\ r \notin Looked'
  BY <1>1, <1>3, <1>5 DEF Skipped, Looked
<1>8. Doomed(r) = {} /\ Doomed(r)' = {}
  BY <1>7 DEF Doomed
<1>9. CASE F = {}
  <2>1. UNCHANGED Book!bookVars
    BY <1>1, <1>4, <1>7, <1>8, <1>9, BookStutters
  <2> QED
    BY <1>6, <2>1
<1>10. CASE F # {}
  <2>1. /\ Looked' = Looked
        /\ [q \in Requests |-> Doomed(q)]' = [q \in Requests |-> Doomed(q)]
        /\ [q \in Requests |-> Skipped(q)]' = [[q \in Requests |-> Skipped(q)] EXCEPT ![r] = F]
    BY <1>1, <1>4, <1>7, <1>8, PlanChanges, QuietMoves
  <2>2. Contacts' = Contacts /\ since' = since /\ Book!UnderWay(r)
    BY <1>1, <1>4, BookUnderWay DEF Quiet, TableStep, NoCommit
  <2>3. [q \in Requests |-> Skipped(q)][r] = {} /\ [q \in Requests |-> Skipped(q)]'[r] = F
    BY <1>7, <2>1
  <2>4. Book!Skip(r)
    BY <1>1, <1>2, <1>5, <1>10, <2>1, <2>2, <2>3 DEF Book!Skip, Book!request
  <2> QED
    BY <1>6, <2>4 DEF Book!Next
<1> QED
  BY <1>9, <1>10

LEMMA OrderHasAll ==
  ASSUME NEW S \in SUBSET Hashes, NEW s \in SetToSeqs(S)
  PROVE  ToSet(s) = S
<1>1. IsFiniteSet(S)
  <2>1. 0 \in Int /\ Radix - 1 \in Int
    BY TableAssumption
  <2>2. IsFiniteSet(0 .. Radix - 1)
    BY ONLY <2>1, FS_Interval
  <2>3. S \subseteq 0 .. Radix - 1
    BY TableAssumption
  <2> QED
    BY <2>2, <2>3, FS_Subset
<1>2. PICK n \in Nat : n = Cardinality(S)
  BY <1>1, FS_CardinalityType
<1>3. s \in Injection(1..n, S)
  BY <1>2 DEF SetToSeqs, Injection, IsInjective
<1>4. Cardinality(1..n) = n
  BY <1>2, FS_Interval
<1>5. s \in Surjection(1..n, S)
  BY <1>1, <1>2, <1>3, <1>4, FS_Injection
<1> QED
  BY <1>3, <1>5 DEF Injection, Surjection, ToSet

LEMMA FindBook ==
  ASSUME BookInv, NEW r \in Requests, Find(r)
  PROVE  BookInv' /\ [Book!Next]_Book!bookVars
<1>1. /\ pc[r] = "find" /\ kind[r] \in {"create", "import", "edit"}
      /\ RequestInv(r) /\ TableInv /\ PersonalInv /\ Housed(r) /\ Emptied(r) /\ Sent(r)
      /\ bodies[r] \subseteq Hashes /\ r # None
  BY TableAssumption DEF Find, BookInv, BookRequest, PersonalInv, RequestInv, Stage, Writing, Types,
         TypeOK
<1>2. PersonalInv' /\ Quiet(r)
  BY <1>1, FindKeeps
<1>3. CASE kind[r] = "create" /\ Existing(r) # {}
  <2>1. Abort(r, "duplicate") /\ Book!Refused(r, "duplicate")
    BY <1>1, <1>3, DuplicateIsTrue DEF Find
  <2> QED
    BY <1>1, <2>1, AbortBook DEF Book!Next
<1>4. CASE ~(kind[r] = "create" /\ Existing(r) # {})
  <2> DEFINE S == bodies[r] \ (Existing(r) \cup failed[r])
  <2>1. PICK s \in SetToSeqs(S) : todo' = [todo EXCEPT ![r] = s]
    BY <1>4 DEF Find
  <2>2. /\ pc' = [pc EXCEPT ![r] = "insert"]
        /\ UNCHANGED <<rows, fields, user, kind, target, bodies, ids, failed, reply, left>>
    BY <1>4 DEF Find, GoTo, table, owner, input, ghosts
  <2>3. pc'[r] = "insert" /\ todo'[r] = s
    BY <2>1, <2>2 DEF BookInv, PersonalInv, Types, TypeOK
  <2>4. ToSet(s) = S
    BY <1>1, <2>1, OrderHasAll
  <2>5. \A x \in rows : x.by # r
    BY <1>1 DEF RequestInv, Inserts
  <2>6. Emptied(r)' /\ Sent(r)' /\ Aimed(r)' /\ Housed(r)' /\ UserMoves(r)
    <3>1. \A i \in DOMAIN s : s[i] \notin failed[r]
      BY <2>4 DEF ToSet
    <3> QED
      BY <1>1, <2>2, <2>3, <2>5, <3>1 DEF Emptied, Writing, Sent, Aimed, Housed, UserMoves
  <2>7. BookInv'
    BY <1>1, <1>2, <2>2, <2>3, <2>6, QuietKeepsBook
  <2>8. Skipped(r) = failed[r] /\ Skipped(r)' = Existing(r) \cup failed[r]
    <3>1. {x.hash : x \in {y \in rows' : y.by = r}} = {}
      BY <2>2, <2>5
    <3>2. Existing(r) \subseteq bodies[r] /\ failed[r] \subseteq bodies[r]
      BY <1>1 DEF Existing, Sent
    <3> QED
      BY <1>1, <2>2, <2>3, <2>4, <3>1, <3>2 DEF Skipped, Inserted
  <2>9. r \in Looked' <=> r \in Looked
    BY <1>1, <2>2, <2>3 DEF Looked
  <2>10. Doomed(r)' = Doomed(r)
    BY <2>2, <2>9 DEF Doomed
  <2>11. CASE Existing(r) \subseteq failed[r]
    <3>1. UNCHANGED Book!bookVars
      BY <1>1, <1>2, <2>2, <2>8, <2>9, <2>10, <2>11, BookStutters
    <3> QED
      BY <2>7, <3>1
  <2>12. CASE ~(Existing(r) \subseteq failed[r])
    <3>1. kind[r] \in {"import", "edit"}
      BY <1>1, <1>4, <2>12
    <3>2. /\ Existing(r) \subseteq bodies[r] /\ failed[r] \subseteq bodies[r]
          /\ Existing(r) \subseteq Book!HashesOf(Contacts)
      <4>1. \A x \in Visible(r, rows) : x \in Committed(rows)
        BY <2>5 DEF Visible, Committed
      <4> QED
        BY <1>1, <4>1, BookValues DEF Existing, Sent
    <3>3. /\ Looked' = Looked
          /\ [q \in Requests |-> Doomed(q)]' = [q \in Requests |-> Doomed(q)]
          /\ [q \in Requests |-> Skipped(q)]' =
               [[q \in Requests |-> Skipped(q)] EXCEPT ![r] = Existing(r) \cup failed[r]]
      BY <1>1, <1>2, <2>8, <2>9, <2>10, PlanChanges, QuietMoves
    <3>4. Contacts' = Contacts /\ since' = since /\ Book!UnderWay(r)
      BY <1>1, <1>2, BookUnderWay DEF Quiet, TableStep, NoCommit
    <3>5. /\ [q \in Requests |-> Skipped(q)][r] = failed[r]
          /\ [q \in Requests |-> Skipped(q)]'[r] = Existing(r) \cup failed[r]
      BY <2>8, <3>3
    <3>6. Book!Skip(r)
      BY <2>2, <2>12, <3>1, <3>2, <3>3, <3>4, <3>5 DEF Book!Skip, Book!request
    <3> QED
      BY <2>7, <3>6 DEF Book!Next
  <2> QED
    BY <2>11, <2>12
<1> QED
  BY <1>3, <1>4

LEMMA InsertContactBook ==
  ASSUME BookInv, NEW r \in Requests, InsertContact(r)
  PROVE  BookInv' /\ [Book!Next]_Book!bookVars
<1>1. /\ pc[r] = "insert" /\ kind[r] \in {"create", "import", "edit"}
      /\ todo[r] # <<>> /\ todo' = [todo EXCEPT ![r] = Tail(todo[r])]
      /\ UNCHANGED <<user, pc, kind, target, bodies, ids, left, aim, failed, reply>>
      /\ RequestInv(r) /\ PersonalInv /\ BookRequest(r) /\ r # None
  BY TableAssumption DEF InsertContact, BookInv, PersonalInv, RequestInv, Stage, Writing, owner, input, ghosts
<1>2. PersonalInv' /\ Quiet(r)
  BY <1>1, InsertContactKeeps
<1>3. PICK s \in Seq(Hashes) : s = todo[r] /\ s # <<>>
  BY <1>1 DEF PersonalInv, Types, TypeOK
<1>4. todo'[r] = Tail(s)
  BY <1>1, <1>3 DEF PersonalInv, Types, TypeOK
<1>5. PICK n : /\ n = Version(r, UuidFor(r, Head(s)), Head(s), r)
               /\ rows' = rows \cup {n}
  BY <1>3 DEF InsertContact, Insert
<1>6. n.hash = s[1] /\ n.by = r /\ n.del = None
  BY <1>3, <1>5 DEF Version
<1>7. ToSet(s) = {s[1]} \cup ToSet(Tail(s))
  <2>1. \A i \in DOMAIN Tail(s) : i + 1 \in DOMAIN s /\ Tail(s)[i] = s[i + 1]
    BY <1>3
  <2>2. \A i \in DOMAIN s : i = 1 \/ (i - 1 \in DOMAIN Tail(s) /\ s[i] = Tail(s)[i - 1])
    BY <1>3
  <2>3. 1 \in DOMAIN s
    BY <1>3
  <2>4. ASSUME NEW i \in DOMAIN Tail(s) PROVE Tail(s)[i] \in ToSet(s)
    BY <2>1 DEF ToSet
  <2>5. ASSUME NEW i \in DOMAIN s PROVE s[i] = s[1] \/ s[i] \in ToSet(Tail(s))
    <3>1. CASE i = 1
      BY <3>1
    <3>2. CASE i - 1 \in DOMAIN Tail(s) /\ s[i] = Tail(s)[i - 1]
      BY <3>2 DEF ToSet
    <3> QED
      BY <2>2, <3>1, <3>2
  <2>6. \A v \in ToSet(s) : v \in {s[1]} \cup ToSet(Tail(s))
    BY <2>5 DEF ToSet
  <2>7. \A v \in ToSet(Tail(s)) : v \in ToSet(s)
    BY <2>4 DEF ToSet
  <2>8. s[1] \in ToSet(s)
    BY <2>3 DEF ToSet
  <2> QED
    BY <2>6, <2>7, <2>8
<1>8. Sent(r)'
  <2>1. \A i \in DOMAIN s : s[i] \notin failed[r]
    BY <1>1, <1>3 DEF BookRequest, Sent
  <2>2. 1 \in DOMAIN s /\ \A i \in DOMAIN Tail(s) : i + 1 \in DOMAIN s /\ Tail(s)[i] = s[i + 1]
    BY <1>3
  <2> QED
    BY <1>1, <1>4, <1>5, <1>6, <2>1, <2>2 DEF BookRequest, Sent
<1>9. Emptied(r)' /\ Aimed(r)' /\ Housed(r)' /\ UserMoves(r)
  BY <1>1 DEF BookRequest, Emptied, Aimed, Housed, UserMoves
<1>10. BookInv'
  BY <1>1, <1>2, <1>8, <1>9, QuietKeepsBook
<1>11. Skipped(r)' = Skipped(r)
  <2>1. {x.hash : x \in {y \in rows' : y.by = r}} = {x.hash : x \in {y \in rows : y.by = r}} \cup {s[1]}
    BY <1>5, <1>6
  <2> QED
    BY <1>1, <1>3, <1>4, <1>7, <2>1 DEF Skipped, Inserted
<1>12. r \in Looked' <=> r \in Looked
  BY <1>1 DEF Looked
<1>13. Doomed(r)' = Doomed(r)
  <2>1. \A y \in rows' : y.del = r <=> y \in rows /\ y.del = r
    BY <1>1, <1>5, <1>6
  <2>2. {y \in rows' : y.del = r} = {y \in rows : y.del = r}
    BY <1>5, <2>1
  <2> QED
    BY <1>1, <1>12, <2>2 DEF Doomed
<1>14. UNCHANGED Book!bookVars
  BY <1>1, <1>2, <1>11, <1>12, <1>13, BookStutters
<1> QED
  BY <1>10, <1>14

(* What a commit leaves of the contacts and what it adds to them.          *)
LEMMA CommitContacts ==
  ASSUME BookInv, NEW r \in Requests, CommitTable(r), left[r] = {}, kind[r] \in Kinds,
         pc[r] \in {"insert", "rows"}
  PROVE  /\ Book!Remaining(r) \subseteq Contacts'
         /\ \A p : p \in Contacts' \ Book!Remaining(r) <=>
              \E x \in rows : x.by = r /\ p = <<x.uuid, x.hash>>
<1>1. /\ RequestInv(r) /\ TableInv /\ r # None /\ kind[r] # "removeBook"
      /\ rows \in SUBSET Versions /\ rows' = Kept(r, rows)
  BY TableAssumption, PersonalAssumption
     DEF BookInv, PersonalInv, TableInv, Shapes, CommitTable
<1>2. Doomed(r) = Deleted(r)
  <2>1. CASE r \in Looked
    BY <2>1 DEF Doomed, Deleted
  <2>2. CASE r \notin Looked
    <3>1. \A x \in rows : x.del # r
      BY <1>1, <2>2 DEF RequestInv, Deletes, Looked
    <3> QED
      BY <2>2, <3>1 DEF Doomed, Deleted
  <2> QED
    BY <2>1, <2>2
<1>3. \A x, y \in rows : x.by = None /\ x.del # r /\ y.del = r => x.uuid # y.uuid
  BY <1>1, CommittedUnique DEF Share, TableInv, Fitting, Fits
<1>4. \A p : p \in Book!Remaining(r) <=>
        \E x \in rows : x.by = None /\ x.del # r /\ p = <<x.uuid, x.hash>>
  <2>1. Book!Remaining(r) = {p \in Contacts : p[1] \notin Deleted(r)}
    BY <1>1, <1>2 DEF Book!Remaining
  <2>2. \A x \in rows : x.by = None => (x.uuid \notin Deleted(r) <=> x.del # r)
    BY <1>3 DEF Deleted
  <2>3. \A x \in rows : <<x.uuid, x.hash>>[1] = x.uuid
    OBVIOUS
  <2> QED
    BY <2>1, <2>2, <2>3 DEF Contacts, Committed
<1>5. \A p : p \in Contacts' <=>
        \E x \in rows : x.by \in {None, r} /\ x.del # r /\ p = <<x.uuid, x.hash>>
  <2>1. \A y \in Committed(rows') :
          \E x \in rows : x.by \in {None, r} /\ x.del # r /\ y.uuid = x.uuid /\ y.hash = x.hash
    BY <1>1, KeptEffect DEF Committed
  <2>2. \A x \in rows : x.by \in {None, r} /\ x.del # r =>
          \E y \in Committed(rows') : y.uuid = x.uuid /\ y.hash = x.hash
    BY <1>1, KeptEffect DEF Committed
  <2> QED
    BY <2>1, <2>2 DEF Contacts, Committed
<1>6. \A x, y \in rows : x.by = r /\ y.by = None /\ y.del # r => x.uuid # y.uuid
  <2> SUFFICES ASSUME NEW x \in rows, NEW y \in rows, x.by = r, y.by = None, y.del # r,
                      x.uuid = y.uuid
               PROVE  FALSE
    OBVIOUS
  <2>1. x.del = None /\ x # y
    BY <1>1 DEF TableInv, Fitting, Fits
  <2>2. Replaces(x, y) \/ Replaces(y, x)
    BY <1>1, <2>1 DEF TableInv, Unique, Share
  <2> QED
    BY <2>1, <2>2 DEF Replaces
<1>7. \A x \in rows : x.by = r => x.del # r
  BY <1>1 DEF TableInv, Fitting, Fits
<1>8. \A x, y \in rows : x.by = r /\ y.by = None /\ y.del # r =>
        <<x.uuid, x.hash>> # <<y.uuid, y.hash>>
  BY <1>6
<1>9. Book!Remaining(r) \subseteq Contacts'
  BY <1>4, <1>5
<1>10. \A p : p \in Contacts' /\ p \notin Book!Remaining(r) <=>
         \E x \in rows : x.by = r /\ p = <<x.uuid, x.hash>>
  BY <1>4, <1>5, <1>7, <1>8
<1> QED
  BY <1>9, <1>10

(* Nobody's removal of a phonebook closes it: there is none.               *)
LEMMA NeverClosed ==
  ASSUME BookInv
  PROVE  ~Book!Closed
<1> SUFFICES ASSUME NEW q \in Requests, kind[q] = "removeBook", reply[q] = "ok" PROVE FALSE
  BY DEF Book!Closed
<1>1. pc[q] = "done"
  BY PersonalAssumption DEF BookInv, PersonalInv, RequestInv, Stage
<1>2. kind[q] \in Kinds
  BY <1>1 DEF BookInv, BookRequest, Asked
<1> QED
  BY <1>2, PersonalAssumption

LEMMA CommitBook ==
  ASSUME BookInv, NEW r \in Requests, Commit(r)
  PROVE  BookInv' /\ [Book!Next]_Book!bookVars
<1>1. /\ (pc[r] = "insert" /\ todo[r] = <<>>) \/ (pc[r] = "rows" /\ left[r] = {} /\ kind[r] # "edit")
      /\ CommitTable(r) /\ user' = (IF user = {r} THEN {None} ELSE user)
      /\ pc' = [pc EXCEPT ![r] = "done"]
      /\ reply' = [reply EXCEPT ![r] =
                     IF kind[r] = "import" /\ bodies[r] \subseteq failed[r] THEN "nothing" ELSE "ok"]
      /\ since' = [q \in Requests |->
                     IF kind[q] \in {"edit", "remove", "purge"}
                     THEN since[q] \cup {x.uuid : x \in {y \in rows : y.by = r}}
                     ELSE since[q]]
      /\ UNCHANGED <<kind, target, bodies, ids, failed>>
  BY DEF Commit, Acknowledge, Inserted, input, work
<1>2. /\ RequestInv(r) /\ TableInv /\ PersonalInv /\ BookRequest(r) /\ r # None
  BY TableAssumption DEF BookInv, PersonalInv
<1>3. PersonalInv' /\ Moved(r)
  BY <1>2, CommitKeeps
<1>4. left[r] = {} /\ kind[r] \in Kinds
  BY <1>1, <1>2 DEF BookRequest, Emptied, Writing, Asked
<1>5. pc'[r] = "done"
  BY <1>1 DEF BookInv, PersonalInv, Types, TypeOK
<1>6. UserMoves(r)
  BY <1>1 DEF UserMoves
<1>7. BookInv'
  <2>1. \A q \in Requests \ {r} : BookRequest(q)'
    BY <1>1, <1>3, <1>6, OthersKeepBook
  <2>2. BookRequest(r)'
    BY <1>1, <1>2, <1>5 DEF BookRequest, Asked, Emptied, Writing, Sent, Aimed, Housed
  <2>3. Home'
    <3>1. CASE pc[r] = "insert"
      BY <1>1, <1>2, <3>1 DEF Home, BookRequest, Housed
    <3>2. CASE pc[r] = "rows"
      <4>1. \A x \in rows : x.by # r
        BY <1>2, <3>2 DEF RequestInv, Inserts
      <4>2. rows \in SUBSET Versions /\ rows' = Kept(r, rows)
        BY <1>1, <1>2 DEF TableInv, Shapes, CommitTable
      <4>3. \A y \in Committed(rows') : \E x \in Committed(rows) : x.uuid = y.uuid
        BY <4>1, <4>2, KeptEffect DEF Committed
      <4> QED
        BY <1>1, <1>2, <4>3 DEF BookInv, Home
    <3> QED
      BY <1>1, <3>1, <3>2
  <2> QED
    BY <1>3, <2>1, <2>2, <2>3 DEF BookInv
<1> DEFINE new == Contacts' \ Book!Remaining(r)
<1>8. /\ Book!Remaining(r) \subseteq Contacts'
      /\ \A p : p \in new <=> \E x \in rows : x.by = r /\ p = <<x.uuid, x.hash>>
  BY <1>1, <1>4, CommitContacts
<1>9. Book!Succeed(r) <=>
        /\ Book!UnderWay(r)
        /\ reply' = [reply EXCEPT ![r] = "ok"]
        /\ kind[r] \in {"edit", "remove", "purge"} => r \in Looked
        /\ Book!Remaining(r) \subseteq Contacts'
        /\ Book!HashesOf(new) = bodies[r] \ [q \in Requests |-> Skipped(q)][r]
        /\ \A p \in new : Book!RightUuid(r, p)
        /\ \A q \in Requests :
             since[q] \subseteq since'[q] /\ since'[q] \subseteq since[q] \cup Book!UuidsOf(new)
        /\ Book!OneToOne(Contacts')
        /\ Book!Closed => Contacts' = {}
        /\ Book!Over(r)
        /\ UNCHANGED <<kind, target, bodies, ids>>
  BY DEF Book!Succeed, Book!request
<1> HIDE DEF new
<1>10. /\ \A h : h \in Book!HashesOf(new) <=> \E x \in rows : x.by = r /\ x.hash = h
       /\ \A u : u \in Book!UuidsOf(new) <=> \E x \in rows : x.by = r /\ x.uuid = u
  <2>1. \A p \in new : \E x \in rows : x.by = r /\ x.uuid = p[1] /\ x.hash = p[2]
    BY <1>8
  <2>2. ASSUME NEW x \in rows, x.by = r
        PROVE  \E p \in new : x.uuid = p[1] /\ x.hash = p[2]
    <3>1. <<x.uuid, x.hash>> \in new
      BY <1>8, <2>2
    <3> QED
      BY <3>1
  <2> QED
    BY <2>1, <2>2 DEF Book!HashesOf, Book!UuidsOf
<1>11. Book!UnderWay(r) /\ Book!Over(r)
  BY <1>1, <1>2, <1>3, <1>5, BookUnderWay, BookOver
<1>12. kind[r] \in {"edit", "remove", "purge"} => r \in Looked
  BY <1>1 DEF Looked
<1>13. Book!HashesOf(new) = bodies[r] \ [q \in Requests |-> Skipped(q)][r]
  <2> DEFINE own == {x.hash : x \in {y \in rows : y.by = r}}
  <2>1. Book!HashesOf(new) = own
    BY <1>10
  <2>2. CASE pc[r] = "insert"
    <3>1. own \subseteq bodies[r]
      BY <1>2, <2>2 DEF RequestInv, Inserts
    <3>2. todo[r] = <<>>
      BY <1>1, <2>2
    <3>3. ToSet(todo[r]) = {}
      BY <3>2 DEF ToSet
    <3>4. Skipped(r) = bodies[r] \ own
      BY <2>2, <3>3 DEF Skipped, Inserted
    <3> QED
      BY <2>1, <3>1, <3>4
  <2>3. CASE pc[r] = "rows"
    <3>1. kind[r] \in {"remove", "purge"}
      BY <1>1, <1>2, <2>3 DEF RequestInv, Stage, Removing
    <3>2. bodies[r] = {} /\ own = {}
      BY <1>2, <2>3, <3>1 DEF BookRequest, Sent, RequestInv, Inserts
    <3> QED
      BY <2>1, <3>2
  <2> QED
    BY <1>1, <2>2, <2>3
<1>14. \A p \in new : Book!RightUuid(r, p)
  <2> SUFFICES ASSUME NEW x \in rows, x.by = r, NEW p, p = <<x.uuid, x.hash>>
               PROVE  Book!RightUuid(r, p)
    BY <1>8
  <2>1. p[1] = x.uuid /\ p[2] = x.hash
    OBVIOUS
  <2>2. x.hash \in Hashes /\ x.uuid = UuidFor(r, x.hash)
    BY <1>2 DEF RequestInv, Inserts, TableInv, Shapes, Versions
  <2>3. CASE kind[r] = "edit"
    BY <2>1, <2>2, <2>3 DEF UuidFor, Book!RightUuid
  <2>4. CASE kind[r] # "edit" /\ ids[r][x.hash] # None
    BY <2>1, <2>2, <2>4 DEF UuidFor, Book!RightUuid
  <2>5. CASE kind[r] # "edit" /\ ids[r][x.hash] = None
    <3>1. p[1] = NewUuid(r, x.hash)
      BY <2>1, <2>2, <2>5 DEF UuidFor
    <3>2. \A y \in Committed(rows) : y.uuid # NewUuid(r, x.hash)
      BY <1>1, <1>2, <2>2 DEF RequestInv, Known
    <3>3. \A q \in Requests :
            target[q] # NewUuid(r, x.hash) /\ \A g \in bodies[q] : ids[q][g] # NewUuid(r, x.hash)
      BY <1>1, <1>2, <2>2 DEF PersonalInv, RequestInv, Known
    <3>4. p[1] \notin Book!UuidsOf(Contacts)
      BY <3>1, <3>2, BookValues
    <3>5. \A q \in Requests : p[1] \notin Book!Named(q)
      BY <3>1, <3>3 DEF Book!Named
    <3> QED
      BY <2>1, <2>5, <3>4, <3>5 DEF Book!RightUuid
  <2> QED
    BY <2>3, <2>4, <2>5
<1>15. Book!OneToOne(Contacts')
  <2> SUFFICES ASSUME NEW p \in Contacts', NEW q \in Contacts', p[1] = q[1] \/ p[2] = q[2]
               PROVE  p = q
    BY DEF Book!OneToOne
  <2>1. PICK x \in rows' : x.by = None /\ p = <<x.uuid, x.hash>>
    BY DEF Contacts, Committed
  <2>2. PICK y \in rows' : y.by = None /\ q = <<y.uuid, y.hash>>
    BY DEF Contacts, Committed
  <2>3. x.uuid = y.uuid \/ x.hash = y.hash
    BY <2>1, <2>2
  <2>4. x = y
    BY <1>3, <2>1, <2>2, <2>3 DEF PersonalInv, TableInv, Unique, Share, Replaces
  <2> QED
    BY <2>1, <2>2, <2>4
<1>16. \A q \in Requests :
         since[q] \subseteq since'[q] /\ since'[q] \subseteq since[q] \cup Book!UuidsOf(new)
  BY <1>1, <1>10
<1>17. CASE ~(kind[r] = "import" /\ bodies[r] \subseteq failed[r])
  <2>1. Book!Succeed(r)
    BY <1>1, <1>8, <1>9, <1>11, <1>12, <1>13, <1>14, <1>15, <1>16, <1>17, NeverClosed
  <2> QED
    BY <1>7, <2>1 DEF Book!Next
(* An import that has failed for all it was sent has inserted nothing.     *)
<1>18. CASE kind[r] = "import" /\ bodies[r] \subseteq failed[r]
  <2>1. pc[r] = "insert" /\ todo[r] = <<>>
    BY <1>1, <1>2, <1>18 DEF RequestInv, Stage, Removing
  <2>2. \A x \in rows : x.by # r
    BY <1>2, <1>18, <2>1 DEF RequestInv, Inserts, BookRequest, Sent
  <2>3. bodies[r] \subseteq [q \in Requests |-> Skipped(q)][r]
    <3>1. ToSet(todo[r]) = {} /\ {x.hash : x \in Inserted(r)} = {}
      BY <2>1, <2>2 DEF ToSet, Inserted
    <3> QED
      BY <2>1, <3>1 DEF Skipped
  <2>4. Contacts' = Contacts
    <3>1. r \notin Looked
      BY <1>18 DEF Looked
    <3>2. [q \in Requests |-> Doomed(q)][r] = {}
      BY <3>1 DEF Doomed
    <3>3. Book!Remaining(r) = Contacts
      BY <1>18, <3>2 DEF Book!Remaining
    <3>4. \A p : p \notin new
      BY <1>8, <2>2
    <3> QED
      BY <1>8, <3>3, <3>4 DEF new
  <2>5. since' = since
    <3>1. {y \in rows : y.by = r} = {}
      BY <2>2
    <3>2. \A q \in Requests : since'[q] = since[q]
      BY <1>1, <3>1
    <3> QED
      BY <1>1, <1>2, <3>2 DEF PersonalInv, Types
  <2>6. reply' = [reply EXCEPT ![r] = "nothing"] /\ reply'[r] = "nothing"
    BY <1>1, <1>2, <1>18 DEF PersonalInv, Types, TypeOK
  <2>7. Book!Refused(r, "nothing")
    BY <1>18, <2>3 DEF Book!Refused
  <2>8. Book!Fail(r)
    BY <1>1, <1>11, <2>4, <2>5, <2>6, <2>7, PersonalAssumption DEF Book!Fail, Book!request
  <2> QED
    BY <1>7, <2>8 DEF Book!Next
<1> QED
  BY <1>17, <1>18

LEMMA BeginBook ==
  ASSUME BookInv, PersonalInv', NEW r \in Requests, NEW k, NEW u, NEW B \in SUBSET Hashes,
         NEW f, Begin(r, k, u, B, f), DOMAIN f = B,
         k = "edit" => \A h \in B : f[h] = None,
         k \in {"edit", "remove"} => \E x \in Committed(rows) : u = x.uuid,
         k \notin {"edit", "remove"} => u = None,
         k \in {"create", "edit"} => \E h \in Hashes : B = {h},
         k \in {"remove", "purge"} => B = {}
  PROVE  BookInv' /\ [Book!Next]_Book!bookVars
<1>1. /\ pc[r] = "idle" /\ k \in Kinds
      /\ kind' = [kind EXCEPT ![r] = k] /\ target' = [target EXCEPT ![r] = u]
      /\ bodies' = [bodies EXCEPT ![r] = B] /\ ids' = [ids EXCEPT ![r] = f]
      /\ pc' = [pc EXCEPT ![r] = Start(k)]
      /\ UNCHANGED <<rows, fields, tenant, user, fieldsLeft, left, aim, failed, todo, reply, since>>
  BY DEF Begin, Start, ghosts, table, owner, work
<1>2. pc'[r] = Start(k) /\ kind'[r] = k /\ bodies'[r] = B /\ ids'[r] = f
  BY <1>1 DEF BookInv, PersonalInv, Types, TypeOK
<1>3. Quiet(r)
  <2>1. TableStep(r)
    BY <1>1, NothingWritten DEF table
  <2>2. \A q \in Requests \ {r} : Untouched(q)
    BY <1>1 DEF BookInv, PersonalInv, Types, TypeOK, Untouched
  <2> QED
    BY <1>1, <2>1, <2>2 DEF Quiet
<1>4. k \in {"create", "import", "edit", "remove", "purge"} /\ kind[r] = None
  BY <1>1, PersonalAssumption DEF BookInv, BookRequest, Asked
<1>5. left[r] = {} /\ reply[r] = None /\ failed[r] = {}
  BY <1>1, <1>4, Unanswered, PersonalAssumption
     DEF BookInv, BookRequest, Sent, PersonalInv, RequestInv, Stage
<1>6. k = "edit" => user = {None}
  BY <1>1 DEF BookInv, Home
<1>7. BookInv'
  <2>1. UserMoves(r)
    BY <1>1 DEF UserMoves
  <2>2. \A q \in Requests \ {r} : BookRequest(q)'
    BY <1>1, <1>3, <2>1, QuietMoves, OthersKeepBook
  <2>3. Asked(r)' /\ Emptied(r)' /\ Sent(r)' /\ Aimed(r)' /\ Housed(r)'
    BY <1>1, <1>2, <1>4, <1>5, <1>6 DEF Start, Asked, Emptied, Writing, Sent, Aimed, Housed
  <2>4. Home'
    BY <1>1 DEF BookInv, Home, Committed
  <2> QED
    BY <2>2, <2>3, <2>4 DEF BookInv, BookRequest
<1>8. r \notin Looked /\ r \notin Looked' /\ Skipped(r) = {} /\ Skipped(r)' = {}
  BY <1>1, <1>2, <1>4, <1>5 DEF Start, Looked, Skipped
<1>9. /\ Looked' = Looked
      /\ [q \in Requests |-> Doomed(q)]' = [q \in Requests |-> Doomed(q)]
      /\ [q \in Requests |-> Skipped(q)]' = [q \in Requests |-> Skipped(q)]
  <2>1. Doomed(r) = {} /\ Doomed(r)' = {}
    BY <1>8 DEF Doomed
  <2> QED
    BY <1>3, <1>8, <2>1, PlanChanges, QuietMoves DEF BookInv
<1>10. Contacts' = Contacts
  BY <1>3 DEF Quiet, TableStep, NoCommit
<1>11. u \in IF k \in {"edit", "remove"} THEN Book!UuidsOf(Contacts) ELSE {None}
  BY BookValues
<1>12. B \in CASE k \in {"create", "edit"} -> {{h} : h \in Hashes}
               [] k = "import" -> SUBSET Hashes
               [] OTHER -> {{}}
  BY <1>4
<1>13. k # None
  BY <1>4, PersonalAssumption
<1>14. Book!Ask(r) <=>
         /\ kind[r] = None /\ kind'[r] # None
         /\ \E kk \in Kinds :
              /\ kind' = [kind EXCEPT ![r] = kk]
              /\ \E v \in IF kk \in {"edit", "remove"} THEN Book!UuidsOf(Contacts) ELSE {None} :
                   target' = [target EXCEPT ![r] = v]
              /\ \E H \in CASE kk \in {"create", "edit"} -> {{h} : h \in Hashes}
                            [] kk = "import" -> SUBSET Hashes
                            [] OTHER -> {{}} :
                   bodies' = [bodies EXCEPT ![r] = H]
              /\ DOMAIN ids'[r] = bodies'[r]
              /\ kk = "edit" => \A h \in bodies'[r] : ids'[r][h] = None
              /\ ids' = [ids EXCEPT ![r] = ids'[r]]
         /\ UNCHANGED <<Contacts, Book!plan, reply>>
  BY DEF Book!Ask
<1>15. UNCHANGED <<Contacts, Book!plan, reply>>
  BY <1>1, <1>9, <1>10 DEF Book!plan
<1>16. Book!Ask(r)
  BY <1>1, <1>2, <1>4, <1>11, <1>12, <1>13, <1>14, <1>15
<1> QED
  BY <1>7, <1>16 DEF Book!Next

LEMMA BeginsBook ==
  ASSUME BookInv, PersonalInv', NEW r \in Requests,
         BeginCreate(r) \/ BeginImport(r) \/ BeginEdit(r) \/ BeginRemove(r) \/ BeginPurge(r)
  PROVE  BookInv' /\ [Book!Next]_Book!bookVars
<1>1. \A p \in Contacts : \E x \in Committed(rows) : p[1] = x.uuid
  BY DEF Contacts
<1>2. CASE BeginCreate(r)
  <2>1. PICK h \in Hashes, v \in Sendable : Begin(r, "create", None, {h}, [g \in {h} |-> v])
    BY <1>2 DEF BeginCreate
  <2> QED
    BY <2>1, BeginBook
<1>3. CASE BeginImport(r)
  <2>1. PICK f \in Imports : Begin(r, "import", None, DOMAIN f, f) /\ DOMAIN f \in SUBSET Hashes
    BY <1>3, PersonalAssumption DEF BeginImport
  <2> QED
    BY <2>1, BeginBook
<1>4. CASE BeginEdit(r)
  <2>1. PICK p \in Contacts, h \in Hashes : Begin(r, "edit", p[1], {h}, NoIds({h}))
    BY <1>4 DEF BeginEdit
  <2>2. PICK u : u = p[1]
    OBVIOUS
  <2> QED
    BY <1>1, <2>1, <2>2, BeginBook DEF NoIds
<1>5. CASE BeginRemove(r)
  <2>1. PICK p \in Contacts : Begin(r, "remove", p[1], {}, NoIds({}))
    BY <1>5 DEF BeginRemove
  <2>2. PICK u : u = p[1]
    OBVIOUS
  <2> QED
    BY <1>1, <2>1, <2>2, BeginBook DEF NoIds
<1>6. CASE BeginPurge(r)
  <2>1. PICK f : f = NoIds({})
    OBVIOUS
  <2>2. Begin(r, "purge", None, {}, f)
    BY <1>6, <2>1 DEF BeginPurge
  <2>3. DOMAIN f = {}
    BY <2>1 DEF NoIds
  <2> QED
    BY ONLY <2>2, <2>3, BookInv, PersonalInv', r \in Requests, BeginBook
<1> QED
  BY <1>2, <1>3, <1>4, <1>5, <1>6

LEMMA InitBook == Init => BookInv /\ Book!Init
<1> SUFFICES ASSUME Init PROVE BookInv /\ Book!Init
  OBVIOUS
<1>1. PersonalInv
  BY InitPersonalInv
<1>2. Home
  BY DEF Init, Home, TableInit, Committed
<1>3. \A r \in Requests : BookRequest(r)
  BY PersonalAssumption
     DEF Init, BookRequest, Asked, Emptied, Writing, Sent, Aimed, Housed
<1>4. Book!OneToOne(Contacts)
  <2> SUFFICES ASSUME NEW p \in Contacts, NEW q \in Contacts, p[1] = q[1] \/ p[2] = q[2]
               PROVE  p = q
    BY DEF Book!OneToOne
  <2>1. PICK x \in rows : x.by = None /\ p = <<x.uuid, x.hash>>
    BY DEF Contacts, Committed
  <2>2. PICK y \in rows : y.by = None /\ q = <<y.uuid, y.hash>>
    BY DEF Contacts, Committed
  <2>3. x.uuid = y.uuid \/ x.hash = y.hash
    BY <2>1, <2>2
  <2>4. x = y
    BY <1>1, <2>1, <2>2, <2>3, CommittedUnique DEF PersonalInv, Share
  <2> QED
    BY <2>1, <2>2, <2>4
<1>5. Looked = {} /\ \A r \in Requests : Doomed(r) = {} /\ Skipped(r) = {}
  <2>1. Looked = {}
    BY DEF Init, Looked
  <2>2. \A r \in Requests : Skipped(r) = {}
    BY DEF Init, Skipped
  <2> QED
    BY <2>1, <2>2 DEF Doomed
<1>6. Book!Init
  BY <1>4, <1>5 DEF Init, Book!Init
<1> QED
  BY <1>1, <1>2, <1>3, <1>6 DEF BookInv

LEMMA StepBook ==
  ASSUME BookInv, NEW r \in Requests, Step(r)
  PROVE  BookInv' /\ [Book!Next]_Book!bookVars
<1>1. CASE InsertRefused(r)
  BY <1>1, ErrorIsRefused, AbortBook DEF InsertRefused, Book!Next
<1>2. CASE Deadlock(r)
  <2>1. pc[r] \notin {"idle", "done"}
    <3>1. CASE pc[r] \in {"idle", "done"}
      <4>1. Blockers[r] = {}
        BY <3>1 DEF Blockers
      <4>2. InCycle(r, Blockers)
        BY <1>2 DEF Deadlock
      <4> QED
        BY <4>1, <4>2 DEF InCycle
    <3> QED
      BY <3>1
  <2> QED
    BY <1>2, <2>1, ErrorIsRefused, AbortBook DEF Deadlock, Book!Next
<1> QED
  BY <1>1, <1>2, LoadBook, DeleteLoadedFieldsBook, AimAtBook, DeleteContactBook,
     CascadeContactBook, WriterBook, ListContactsBook, FindBook, InsertContactBook,
     CommitBook DEF Step

LEMMA NextBook ==
  ASSUME BookInv, [Next]_vars
  PROVE  BookInv' /\ [Book!Next]_Book!bookVars
<1>1. PersonalInv'
  BY NextKeeps DEF BookInv
<1>2. CASE UNCHANGED vars
  <2>1. UNCHANGED <<rows, fields, tenant, user, pc, kind, target, bodies, ids, left, aim, failed, todo, reply, since>>
    BY <1>2 DEF vars, table, owner, input, ghosts, work
  <2>2. BookInv'
    BY <1>1, <2>1 DEF BookInv, Home, BookRequest, Asked, Emptied, Sent, Aimed, Housed, Committed,
         AimedUuid
  <2>3. UNCHANGED Book!bookVars
    BY <2>1 DEF Book!bookVars, Book!request, Book!plan, Contacts, Committed, Doomed, Skipped, Inserted, Looked
  <2> QED
    BY <2>2, <2>3
<1>3. ASSUME NEW r \in Requests, DatabaseFails(r)
      PROVE  BookInv' /\ [Book!Next]_Book!bookVars
  BY <1>3, ErrorIsRefused, AbortBook DEF DatabaseFails, Book!Next
<1> QED
  BY <1>1, <1>2, <1>3, BeginsBook, StepBook DEF Next, Terminated

(***************************************************************************)
(* Whatever the statements of its requests do, seen from outside the       *)
(* personal contacts change as a book does whose requests take effect at   *)
(* once: what is acknowledged is all there, what failed has changed        *)
(* nothing, and the reason given is true.                                  *)
(***************************************************************************)
THEOREM SpecKeepsBook == Spec => KeepsBook
<1>1. Init => BookInv /\ Book!Init
  BY InitBook
<1>2. BookInv /\ [Next]_vars => BookInv' /\ [Book!Next]_Book!bookVars
  BY NextBook
<1> QED
  BY <1>1, <1>2, PTL DEF Spec, KeepsBook, Book!Spec
============================================================================
