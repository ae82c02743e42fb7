---------------------- MODULE PhonebookContactsProofs ----------------------
(***************************************************************************)
(* Proofs about the contacts of a phonebook: for any requests, hashes and  *)
(* imports, however their statements interleave and fail, a contact its    *)
(* caller was told of is not lost, one that was removed is gone, fields    *)
(* follow the hash, an import is complete, and the contacts change as      *)
(* those of ContactBook, whose requests take effect at once.               *)
(***************************************************************************)
EXTENDS PhonebookContacts, TLAPS

----------------------------------------------------------------------------
(* The inductive invariant.  First the tables, all their versions: two rows *)
(* share a unique value only when one is to replace the other, a row that   *)
(* an edit has written replaces a committed one, a uuid tells the row, and  *)
(* who has inserted fields keeps their contact from being deleted.          *)
Versions ==
  [id : Nat \X Nat, uuid : Nat, hash : Hashes,
   by : Requests \cup {None}, del : Requests \cup {None}]

Share(x, y) == x.uuid = y.uuid \/ x.hash = y.hash
Replaces(x, y) == y.del # None /\ y.del = x.by
Born(i) ==
  \/ i[1] = 0 /\ i[2] \in Hashes
  \/ i[1] \in Requests /\ \E n \in 1..MaxEntries : i[2] = NewUuid(i[1], n)
Inserted(x) == x.by # None /\ x.by = x.id[1]
Ended(q) == q = 0 \/ (q \in Requests /\ pc[q] = "done")

Shapes == rows \subseteq Versions /\ fields \subseteq Versions
Fitting == \A x \in rows \cup fields : x.id[2] = x.uuid /\ (x.by # None => x.del = None)
Unique == \A x, y \in rows : x # y /\ Share(x, y) => Replaces(x, y) \/ Replaces(y, x)
Rooted == \A x \in rows : Born(x.id) /\ (x.by = None => Ended(x.id[1]))
Updated ==
  \A x \in rows : x.by # None /\ ~Inserted(x) =>
    \E y \in rows : y.by = None /\ y.id = x.id /\ y.del = x.by
Fresh ==
  \A x \in rows : Inserted(x) => x \in fields /\ \A g \in fields : g.uuid = x.uuid => g = x
Backed ==
  \A g \in fields : g.by # None =>
    g.id[1] = g.by /\ \E x \in rows : x.uuid = g.uuid /\ x.by \in {None, g.by} /\ x.del = None
Past == \A g \in fields : g.by = None => Ended(g.id[1])

Keyed == \A f, g \in fields : f.id = g.id => f = g

TableInv ==
  Shapes /\ Fitting /\ Unique /\ Rooted /\ Updated /\ Fresh /\ Backed /\ Past /\ Keyed

(* Then each request: where it is, and what it has written and deleted.     *)
Types ==
  /\ TypeOK
  /\ fieldsLeft \in [Requests -> SUBSET (Nat \X Nat)]
  /\ row \in [Requests -> [id : Nat \X Nat, hash : Hashes] \cup {None}]

Editing == {"lock", "write", "insertFields", "fields", "commit"}
Inserting == {"create", "import"}
Rewrites(r) == kind[r] = "edit" /\ row[r].hash # Head(entries[r])

Stage(r) ==
  /\ pc[r] = "idle" => kind[r] = None
  /\ pc[r] # "idle" => kind[r] # None
  /\ pc[r] \in {"lock", "write", "insertFields"} => kind[r] = "edit"
  /\ pc[r] = "fields" => kind[r] \in {"edit", "remove"}
  /\ pc[r] \in {"delete", "cascade"} => kind[r] = "remove"
  /\ pc[r] \in {"deleteBook", "cascadeRows"} => kind[r] = "removeBook"
  /\ pc[r] = "insert" => kind[r] \in Inserting
  /\ pc[r] = "commit" => kind[r] \in {"edit", "remove", "removeBook"}
  /\ kind[r] \in {"edit", "remove"} =>
       /\ target[r] \in Nat
       /\ pc[r] \notin {"load", "done"} =>
            /\ row[r].id \in Nat \X Nat /\ Born(row[r].id)
            /\ row[r].id[2] = target[r] /\ Ended(row[r].id[1])
  /\ kind[r] = "edit" => Len(entries[r]) = 1
  /\ pc[r] \in {"lock", "write"} => Rewrites(r)
  /\ Len(entries[r]) <= MaxEntries \/ kind[r] = "edit"
  /\ pc[r] = "insert" => Len(todo[r]) <= Len(entries[r])
  /\ \A i \in fieldsLeft[r] : i[2] = target[r] /\ Ended(i[1])
  /\ pc[r] \notin {"lock", "write", "insertFields", "fields", "done"} => fieldsLeft[r] = {}
  /\ reply[r] # None => pc[r] = "done"

Writes(r) ==
  /\ \A x \in rows : x.by = r =>
       \/ pc[r] = "insert" /\ x.id[1] = r
       \/ /\ pc[r] \in {"insertFields", "fields", "commit"} /\ Rewrites(r)
          /\ x.id = row[r].id /\ x.hash = Head(entries[r])
  /\ \A g \in fields : g.by = r =>
       \/ pc[r] = "insert" /\ Born(g.id)
       \/ /\ pc[r] \in {"fields", "commit"} /\ kind[r] = "edit"
          /\ g.uuid = target[r] /\ g.hash = Head(entries[r])
  /\ pc[r] \in {"fields", "commit"} /\ kind[r] = "edit" =>
       \E g \in fields : g.by = r /\ g.uuid = target[r]
  /\ pc[r] = "write" => \E x \in rows : x.by = None /\ x.id = row[r].id /\ x.del = r
  /\ pc[r] \in {"insertFields", "fields", "commit"} /\ Rewrites(r) =>
       \E x \in rows : x.by = r /\ x.id = row[r].id

Deletes(r) ==
  /\ \A x \in rows : x.del = r =>
       \/ /\ pc[r] \in {"write", "insertFields", "fields", "commit"} /\ Rewrites(r)
          /\ x.id = row[r].id
       \/ pc[r] \in {"cascade", "commit"} /\ kind[r] = "remove" /\ x.id = row[r].id
       \/ pc[r] \in {"cascadeRows", "commit"} /\ kind[r] = "removeBook" /\ bookDeleter = r
  /\ \A g \in fields : g.del = r =>
       \/ pc[r] = "commit" /\ kind[r] = "edit" /\ g.uuid = target[r]
       \/ /\ pc[r] \in {"delete", "cascade", "commit"} /\ kind[r] = "remove"
          /\ g.uuid = target[r]
       \/ pc[r] = "commit" /\ kind[r] = "removeBook" /\ bookDeleter = r

(* A uuid that is known was not generated by a request under way.           *)
Known(r) ==
  /\ \A g \in rows \cup fields, n \in 1..MaxEntries :
       g.uuid = NewUuid(r, n) /\ pc[r] # "done" =>
         g.by = r /\ pc[r] = "insert" /\ n > Len(todo[r])
  /\ \A q \in Requests, n \in 1..MaxEntries : target[r] = NewUuid(q, n) => pc[q] = "done"

Gone(r) ==
  kind[r] = "remove" =>
    /\ reply[r] = "ok" => \A x \in rows : x.uuid # target[r]
    /\ pc[r] \in {"cascade", "commit"} => \A x \in rows : x.uuid = target[r] => x.del = r

(* The phonebook goes after its contacts, which nobody adds to meanwhile.   *)
Closing(r) ==
  /\ bookDeleter = r =>
       /\ book /\ kind[r] = "removeBook" /\ pc[r] \in {"cascadeRows", "commit"}
       /\ \A x \in rows : ~Inserted(x)
       /\ pc[r] = "commit" => /\ \A x \in rows : x.by = None /\ x.del = r
                              /\ \A g \in fields : g.by = None /\ g.del = r
  /\ pc[r] = "cascadeRows" => bookDeleter = r
  /\ pc[r] = "commit" /\ kind[r] = "removeBook" => bookDeleter = r \/ ~book
  /\ kind[r] = "removeBook" /\ reply[r] = "ok" => ~book

NoBook == ~book => rows = {} /\ fields = {}

RequestInv(r) == Stage(r) /\ Writes(r) /\ Deletes(r) /\ Known(r) /\ Gone(r) /\ Closing(r)

PhonebookInv ==
  Types /\ TableInv /\ NoBook /\ NothingLost /\ \A r \in Requests : RequestInv(r)


----------------------------------------------------------------------------
(* New uuids.                                                               *)
LEMMA NewUuidsDiffer ==
  ASSUME NEW q \in Requests, NEW r \in Requests, NEW m \in 1..MaxEntries, NEW n \in 1..MaxEntries,
         NewUuid(q, m) = NewUuid(r, n)
  PROVE  q = r /\ m = n
<1>1. /\ q \in Nat /\ r \in Nat /\ Radix \in Nat
      /\ m \in 0 .. Radix - 1 /\ n \in 0 .. Radix - 1
  BY TableAssumption, PhonebookAssumption
<1>2. ASSUME NEW a \in Nat, NEW b \in Nat, a < b
      PROVE  Radix * a + Radix <= Radix * b
  <2>1. PICK d \in Nat : b = a + 1 + d
    <3>1. b - (a + 1) \in Nat /\ b = a + 1 + (b - (a + 1))
      BY <1>2
    <3> QED
      BY <3>1
  <2>2. Radix * d \in Nat /\ Radix * b = Radix * a + Radix + Radix * d
    BY <1>1, <2>1
  <2>3. Radix * a \in Nat
    BY <1>1
  <2> QED
    BY <1>1, <2>2, <2>3
<1>3. Radix * q \in Nat /\ Radix * r \in Nat
  BY <1>1
<1>4. q = r
  BY <1>1, <1>2, <1>3 DEF NewUuid
<1> QED
  BY <1>1, <1>3, <1>4 DEF NewUuid

LEMMA NewUuidIsNew ==
  ASSUME NEW r \in Requests, NEW n \in 1..MaxEntries
  PROVE  NewUuid(r, n) \in Nat /\ NewUuid(r, n) \notin Hashes
<1>1. r \in Nat /\ r > 0 /\ Radix \in Nat /\ n \in Nat
  BY TableAssumption, PhonebookAssumption
<1>2. PICK d \in Nat : r = 1 + d
  <2>1. r - 1 \in Nat /\ r = 1 + (r - 1)
    BY <1>1
  <2> QED
    BY <2>1
<1>3. Radix * r = Radix + Radix * d /\ Radix * d \in Nat
  BY <1>1, <1>2
<1>4. NewUuid(r, n) \in Nat /\ NewUuid(r, n) >= Radix
  BY <1>1, <1>3 DEF NewUuid
<1> QED
  BY <1>1, <1>4, TableAssumption

(* The uuid of a row tells its identifier.                                  *)
LEMMA UuidTellsRow ==
  ASSUME TableInv, NEW x \in rows, NEW y \in rows, x.uuid = y.uuid
  PROVE  x.id = y.id
<1>1. Born(x.id) /\ Born(y.id) /\ x.id[2] = y.id[2] /\ x.id \in Nat \X Nat /\ y.id \in Nat \X Nat
  BY DEF TableInv, Shapes, Fitting, Rooted, Versions
<1>2. x.id[1] = y.id[1]
  BY <1>1, NewUuidsDiffer, NewUuidIsNew DEF Born
<1> QED
  BY <1>1, <1>2

----------------------------------------------------------------------------
(* What a step of r does to the tables and to the phonebook: a version      *)
(* keeps its identity and its content, the new ones are r's, what others    *)
(* have written or are deleting stays.                                      *)
Same(r, x, y) ==
  /\ y.id = x.id /\ y.uuid = x.uuid /\ y.hash = x.hash
  /\ y.by = x.by \/ (x.by = r /\ y.by = None)
  /\ y.del = x.del \/ {x.del, y.del} \subseteq {None, r}

OwnUuid(r, y) ==
  /\ book /\ bookDeleter = None
  /\ \E n \in 1..MaxEntries : y.uuid = NewUuid(r, n)

NewRow(r, y) ==
  /\ y.by = r /\ y.del = None
  /\ \/ OwnUuid(r, y) /\ y.id[1] = r
     \/ y.id[1] # r /\ \E x \in rows : x.id = y.id /\ x.uuid = y.uuid /\ x.by = None /\ x.del = r

NewFields(r, y) ==
  /\ y.by = r /\ y.del = None
  /\ \/ OwnUuid(r, y)
     \/ /\ y.uuid = target[r]
        /\ \E x \in rows : x.uuid = y.uuid /\ x.del = None /\ x.by \in {None, r}

Anothers(r, x) == x.by \notin {None, r} \/ x.del \notin {None, r}

TableStep(r) ==
  /\ \A y \in rows' : NewRow(r, y) \/ \E x \in rows : Same(r, x, y)
  /\ \A y \in fields' : NewFields(r, y) \/ \E x \in fields : Same(r, x, y)
  /\ \A x \in rows : Anothers(r, x) => x \in rows'
  /\ \A x \in fields : Anothers(r, x) => x \in fields'

BookStep(r) ==
  /\ bookDeleter' = bookDeleter \/ {bookDeleter, bookDeleter'} \subseteq {None, r}
  /\ book' = book \/ (~book' /\ bookDeleter = r)

(* Nothing is committed: contacts and their fields stay what they are.      *)
Stored == {<<g.id, g.uuid, g.hash>> : g \in Committed(fields)}
NoCommit == Contacts' = Contacts /\ Stored' = Stored

Untouched(q) ==
  /\ pc'[q] = pc[q] /\ kind'[q] = kind[q] /\ target'[q] = target[q]
  /\ entries'[q] = entries[q] /\ reply'[q] = reply[q] /\ row'[q] = row[q]
  /\ fieldsLeft'[q] = fieldsLeft[q] /\ todo'[q] = todo[q]

Quiet(r) == NoCommit /\ TableStep(r) /\ \A q \in Requests \ {r} : Untouched(q)

(* What holds of the other requests still does.                             *)
LEMMA OthersKeep ==
  ASSUME PhonebookInv, NEW r \in Requests, pc[r] # "done",
         \A q \in Requests \ {r} : Untouched(q),
         TableStep(r), BookStep(r), NEW q \in Requests \ {r}
  PROVE  RequestInv(q)'
<1>1. /\ RequestInv(q) /\ RequestInv(r) /\ Untouched(q) /\ TableInv
      /\ q \in Requests /\ q # r /\ q # None /\ r # None
  BY TableAssumption DEF PhonebookInv
<1>2. /\ \A y \in rows' : NewRow(r, y) \/ \E x \in rows : Same(r, x, y)
      /\ \A y \in fields' : NewFields(r, y) \/ \E x \in fields : Same(r, x, y)
      /\ \A x \in rows : Anothers(r, x) => x \in rows'
      /\ \A x \in fields : Anothers(r, x) => x \in fields'
  BY DEF TableStep
<1>3. \A p \in Requests : pc[p] = "done" => pc'[p] = "done"
  BY DEF Untouched
<1>4. \A i : Ended(i) => Ended(i)'
  BY <1>3 DEF Ended
<1>5. Rewrites(q)' = Rewrites(q)
  BY <1>1 DEF Rewrites, Untouched
<1>6. Stage(q)'
  BY <1>1, <1>4, <1>5 DEF RequestInv, Stage, Untouched
<1>7. Writes(q)'
  <2>1. \A y \in rows' : y.by = q => \E x \in rows : Same(r, x, y) /\ x.by = q
    BY <1>1, <1>2 DEF NewRow, Same
  <2>2. \A y \in fields' : y.by = q => \E x \in fields : Same(r, x, y) /\ x.by = q
    BY <1>1, <1>2 DEF NewFields, Same
  <2>3. \A x \in rows : x.by = q \/ x.del = q => x \in rows'
    BY <1>1, <1>2 DEF Anothers
  <2>4. \A x \in fields : x.by = q \/ x.del = q => x \in fields'
    BY <1>1, <1>2 DEF Anothers
  <2>5. \A y \in rows' : y.by = q =>
          \/ pc'[q] = "insert" /\ y.id[1] = q
          \/ /\ pc'[q] \in {"insertFields", "fields", "commit"} /\ Rewrites(q)'
             /\ y.id = row'[q].id /\ y.hash = Head(entries'[q])
    BY <1>1, <1>5, <2>1 DEF RequestInv, Writes, Untouched, Same
  <2>6. \A y \in fields' : y.by = q =>
          \/ pc'[q] = "insert" /\ Born(y.id)
          \/ /\ pc'[q] \in {"fields", "commit"} /\ kind'[q] = "edit"
             /\ y.uuid = target'[q] /\ y.hash = Head(entries'[q])
    BY <1>1, <2>2 DEF RequestInv, Writes, Untouched, Same
  <2>7. pc'[q] \in {"fields", "commit"} /\ kind'[q] = "edit" =>
          \E g \in fields' : g.by = q /\ g.uuid = target'[q]
    BY <1>1, <2>4 DEF RequestInv, Writes, Untouched
  <2>8. /\ pc'[q] = "write" => \E x \in rows' : x.by = None /\ x.id = row'[q].id /\ x.del = q
        /\ pc'[q] \in {"insertFields", "fields", "commit"} /\ Rewrites(q)' =>
             \E x \in rows' : x.by = q /\ x.id = row'[q].id
    BY <1>1, <1>5, <2>3 DEF RequestInv, Writes, Untouched
  <2> QED
    BY <2>5, <2>6, <2>7, <2>8 DEF Writes
<1>8. bookDeleter' = q <=> bookDeleter = q
  BY <1>1 DEF BookStep
<1>9. Deletes(q)'
  <2>1. \A y \in rows' : y.del = q => \E x \in rows : Same(r, x, y) /\ x.del = q
    BY <1>1, <1>2 DEF NewRow, Same
  <2>2. \A y \in fields' : y.del = q => \E x \in fields : Same(r, x, y) /\ x.del = q
    BY <1>1, <1>2 DEF NewFields, Same
  <2> QED
    BY <1>1, <1>5, <1>8, <2>1, <2>2 DEF RequestInv, Deletes, Untouched, Same
<1>10. Known(q)'
  <2>1. ASSUME NEW n \in 1..MaxEntries, pc[q] # "done"
        PROVE  /\ NewUuid(q, n) # target[r]
               /\ \A m \in 1..MaxEntries : NewUuid(q, n) # NewUuid(r, m)
               /\ \A x \in rows \cup fields : x.uuid = NewUuid(q, n) =>
                    x.by = q /\ pc[q] = "insert" /\ n > Len(todo[q])
    BY <1>1, <2>1, NewUuidsDiffer DEF RequestInv, Known
  <2>2. ASSUME NEW y \in rows' \cup fields', NEW n \in 1..MaxEntries,
               y.uuid = NewUuid(q, n), pc[q] # "done"
        PROVE  y.by = q /\ pc[q] = "insert" /\ n > Len(todo[q])
    <3>1. CASE \E x \in rows \cup fields : Same(r, x, y)
      BY <1>1, <2>1, <2>2, <3>1 DEF Same
    <3>2. CASE y \in rows' /\ NewRow(r, y)
      BY <1>1, <2>1, <2>2, <3>2 DEF NewRow, OwnUuid
    <3>3. CASE y \in fields' /\ NewFields(r, y)
      BY <2>1, <2>2, <3>3 DEF NewFields, OwnUuid
    <3> QED
      BY <1>2, <3>1, <3>2, <3>3
  <2>3. \A p \in Requests, n \in 1..MaxEntries : target[q] = NewUuid(p, n) => pc[p] = "done"
    BY <1>1 DEF RequestInv, Known
  <2> QED
    BY <1>1, <1>3, <2>2, <2>3 DEF Known, Untouched, NewUuid
<1>11. Gone(q)'
  <2>1. \A n \in 1..MaxEntries : target[q] # NewUuid(r, n)
    BY <1>1 DEF RequestInv, Known
  <2>2. ASSUME NEW y \in rows', kind[q] = "remove", y.uuid = target[q]
        PROVE  \E x \in rows : /\ x.uuid = y.uuid
                               /\ Same(r, x, y) \/ (x.by = None /\ x.del = r)
    BY <1>2, <2>1, <2>2 DEF NewRow, OwnUuid, Same
  <2>3. ASSUME kind[q] = "remove", reply[q] = "ok", NEW y \in rows' PROVE y.uuid # target[q]
    BY <1>1, <2>2, <2>3 DEF RequestInv, Gone
  <2>4. ASSUME kind[q] = "remove", pc[q] \in {"cascade", "commit"},
               NEW y \in rows', y.uuid = target[q]
        PROVE  y.del = q
    BY <1>1, <2>2, <2>4 DEF RequestInv, Gone, Same
  <2> QED
    BY <1>1, <2>3, <2>4 DEF Gone, Untouched
<1>12. Closing(q)'
  <2>1. bookDeleter = q => book' = book
    BY <1>1 DEF BookStep
  <2>2. ASSUME bookDeleter = q, NEW y \in rows' PROVE ~Inserted(y)
    <3>1. CASE \E x \in rows : Same(r, x, y)
      BY <1>1, <2>2, <3>1 DEF RequestInv, Closing, Inserted, Same
    <3>2. CASE NewRow(r, y)
      BY <1>1, <2>2, <3>2 DEF NewRow, OwnUuid, Inserted
    <3> QED
      BY <1>2, <3>1, <3>2
  <2>3. ASSUME bookDeleter = q, pc[q] = "commit"
        PROVE  /\ \A y \in rows' : y.by = None /\ y.del = q
               /\ \A y \in fields' : y.by = None /\ y.del = q
    <3>1. /\ \A x \in rows : x.by = None /\ x.del = q
          /\ \A x \in fields : x.by = None /\ x.del = q
      BY <1>1, <2>3 DEF RequestInv, Closing
    <3>2. \A y \in rows' : ~NewRow(r, y)
      BY <1>1, <2>3, <3>1 DEF NewRow, OwnUuid
    <3>3. \A y \in fields' : ~NewFields(r, y)
      BY <1>1, <2>3, <3>1 DEF NewFields, OwnUuid
    <3> QED
      BY <1>1, <1>2, <3>1, <3>2, <3>3 DEF Same
  <2>4. ~book => ~book'
    BY DEF BookStep
  <2>5. bookDeleter' = q =>
          /\ book' /\ kind'[q] = "removeBook" /\ pc'[q] \in {"cascadeRows", "commit"}
          /\ \A x \in rows' : ~Inserted(x)
          /\ pc'[q] = "commit" => /\ \A x \in rows' : x.by = None /\ x.del = q
                                  /\ \A g \in fields' : g.by = None /\ g.del = q
    BY <1>1, <1>8, <2>1, <2>2, <2>3 DEF RequestInv, Closing, Untouched
  <2>6. /\ pc'[q] = "cascadeRows" => bookDeleter' = q
        /\ pc'[q] = "commit" /\ kind'[q] = "removeBook" => bookDeleter' = q \/ ~book'
        /\ kind'[q] = "removeBook" /\ reply'[q] = "ok" => ~book'
    BY <1>1, <1>8, <2>4 DEF RequestInv, Closing, Untouched
  <2> QED
    BY <2>5, <2>6 DEF Closing, Inserted
<1> QED
  BY <1>6, <1>7, <1>9, <1>10, <1>11, <1>12 DEF RequestInv

----------------------------------------------------------------------------
(* The statements, one by one.                                              *)
EndedStays == \A q \in Requests : pc[q] = "done" => pc'[q] = "done"

LEMMA EndedRemains ==
  ASSUME EndedStays, NEW i, Ended(i)
  PROVE  Ended(i)'
BY DEF EndedStays, Ended

LEMMA NothingWritten ==
  ASSUME TableInv, EndedStays, NEW r \in Requests, UNCHANGED table
  PROVE  TableInv' /\ TableStep(r) /\ NoCommit
<1>1. rows' = rows /\ fields' = fields
  BY DEF table
<1>2. Rooted' /\ Past'
  BY <1>1, EndedRemains DEF TableInv, Rooted, Past, Born
<1>3. Shapes' /\ Fitting' /\ Unique' /\ Updated' /\ Fresh' /\ Backed'
  BY <1>1 DEF TableInv, Shapes, Fitting, Unique, Updated, Fresh, Backed
<1>4. TableStep(r)
  BY <1>1 DEF TableStep, Same
<1>5. Keyed' /\ NoCommit
  BY <1>1 DEF TableInv, Keyed, NoCommit, Contacts, Stored, Committed
<1> QED
  BY <1>2, <1>3, <1>4, <1>5 DEF TableInv

LEMMA InsertTable ==
  ASSUME PhonebookInv, EndedStays, NEW r \in Requests, pc[r] = "insert",
         book, bookDeleter = None,
         NEW n \in 1..MaxEntries, n = Len(todo[r]), NEW h \in Hashes,
         Insert(r, NewUuid(r, n), h)
  PROVE  /\ TableInv' /\ TableStep(r) /\ NoCommit
         /\ rows' = rows \cup {Version(r, NewUuid(r, n), h, r)}
         /\ fields' = fields \cup {Version(r, NewUuid(r, n), h, r)}
<1>1. PICK u \in Nat : u = NewUuid(r, n)
  BY NewUuidIsNew
<1> DEFINE v == Version(r, u, h, r)
<1>2. /\ rows' = rows \cup {v} /\ fields' = fields \cup {v}
      /\ \A x \in rows : x.del # r => x.uuid # u /\ x.hash # h
  BY <1>1 DEF Insert, Clashing
<1>3. v.id = <<r, u>> /\ v.uuid = u /\ v.hash = h /\ v.by = r /\ v.del = None /\ v \in Versions
  BY TableAssumption DEF Version, Versions
<1>4. r # None /\ pc[r] # "done" /\ r # 0
  BY TableAssumption
<1> HIDE DEF v
<1>5. \A x \in rows \cup fields : x.uuid # u
  <2>1. \A x \in rows \cup fields : x.uuid = u => n > Len(todo[r])
    BY <1>1, <1>4 DEF PhonebookInv, RequestInv, Known
  <2> QED
    BY <2>1
<1>6. Shapes' /\ Fitting'
  BY <1>2, <1>3 DEF PhonebookInv, TableInv, Shapes, Fitting
<1>7. Unique'
  <2>1. \A x \in rows : Share(x, v) => Replaces(v, x)
    <3>1. \A x \in rows : x.id # <<r, u>>
      BY <1>5 DEF PhonebookInv, TableInv, Fitting
    <3> QED
      BY <1>2, <1>3, <1>4, <1>5, <3>1 DEF Share, Replaces
  <2> QED
    BY <1>2, <2>1 DEF PhonebookInv, TableInv, Unique, Share
<1>8. Rooted' /\ Past'
  <2>1. Born(v.id)
    BY <1>1, <1>3 DEF Born
  <2> QED
    BY <1>2, <1>3, <1>4, <2>1, EndedRemains DEF PhonebookInv, TableInv, Rooted, Past, Born
<1>9. Updated'
  BY <1>2, <1>3 DEF PhonebookInv, TableInv, Updated, Inserted
<1>10. Fresh'
  BY <1>2, <1>3, <1>5 DEF PhonebookInv, TableInv, Fresh, Inserted
<1>11. Backed'
  BY <1>2, <1>3 DEF PhonebookInv, TableInv, Backed
<1>12. TableStep(r)
  <2>1. NewRow(r, v) /\ NewFields(r, v)
    BY <1>1, <1>3 DEF NewRow, NewFields, OwnUuid
  <2> QED
    BY <1>2, <2>1 DEF TableStep, Same
<1>13. NoCommit
  <2>1. Committed(rows)' = Committed(rows) /\ Committed(fields)' = Committed(fields)
    BY <1>2, <1>3, <1>4 DEF Committed
  <2> QED
    BY <2>1 DEF NoCommit, Contacts, Stored, Committed
<1>14. v = Version(r, NewUuid(r, n), h, r)
  BY <1>1 DEF v
<1>15. Keyed'
  <2>1. \A g \in fields : g.id # v.id
    BY <1>3, <1>5 DEF PhonebookInv, TableInv, Fitting
  <2> QED
    BY <1>2, <2>1 DEF PhonebookInv, TableInv, Keyed
<1> QED
  BY <1>15, <1>2, <1>6, <1>7, <1>8, <1>9, <1>10, <1>11, <1>12, <1>13, <1>14 DEF TableInv

(* What marking versions as deleted by r makes of them.                     *)
LEMMA MarkedEffect ==
  ASSUME NEW r \in Requests, NEW X \in SUBSET Versions, NEW D \in SUBSET X
  PROVE  /\ \A y \in Marked(r, X, D) : \E x \in X :
              /\ y \in Versions
              /\ y.id = x.id /\ y.uuid = x.uuid /\ y.hash = x.hash /\ y.by = x.by
              /\ IF x \in D THEN y.del = r ELSE y = x
         /\ \A x \in X : \E y \in Marked(r, X, D) :
              /\ y.id = x.id /\ y.uuid = x.uuid /\ y.hash = x.hash /\ y.by = x.by
              /\ IF x \in D THEN y.del = r ELSE y = x
<1> DEFINE mark(x) == [x EXCEPT !.del = r]
<1>1. \A x \in X : LET y == mark(x)
                   IN  /\ y \in Versions
                       /\ y.id = x.id /\ y.uuid = x.uuid /\ y.hash = x.hash /\ y.by = x.by
                       /\ y.del = r
  BY DEF Versions
<1>2. Marked(r, X, D) = (X \ D) \cup {mark(x) : x \in D}
  BY DEF Marked
<1> HIDE DEF mark
<1>3. ASSUME NEW y \in Marked(r, X, D)
      PROVE  \E x \in X : /\ y \in Versions
                          /\ y.id = x.id /\ y.uuid = x.uuid /\ y.hash = x.hash /\ y.by = x.by
                          /\ IF x \in D THEN y.del = r ELSE y = x
  <2>1. CASE y \in X \ D
    BY <2>1
  <2>2. CASE \E x \in D : y = mark(x)
    BY <1>1, <2>2
  <2> QED
    BY <1>2, <2>1, <2>2
<1>4. ASSUME NEW x \in X
      PROVE  \E y \in Marked(r, X, D) :
               /\ y.id = x.id /\ y.uuid = x.uuid /\ y.hash = x.hash /\ y.by = x.by
               /\ IF x \in D THEN y.del = r ELSE y = x
  <2>1. CASE x \in D
    BY <1>1, <1>2, <2>1
  <2>2. CASE x \notin D
    BY <1>2, <2>2
  <2> QED
    BY <2>1, <2>2
<1> QED
  BY <1>3, <1>4

(* Rows are deleted, or locked by an UPDATE, when nobody has inserted       *)
(* fields of theirs.                                                        *)
LEMMA MarkRows ==
  ASSUME TableInv, EndedStays, NEW r \in Requests, NEW D \in SUBSET rows,
         \A x \in D : x.by = None /\ x.del \in {None, r},
         \A x \in D, g \in fields : g.uuid = x.uuid => g.by = None,
         rows' = Marked(r, rows, D), fields' = fields
  PROVE  /\ TableInv' /\ TableStep(r) /\ NoCommit
         /\ \A y \in rows' : \E x \in rows :
              /\ y.id = x.id /\ y.uuid = x.uuid /\ y.hash = x.hash /\ y.by = x.by
              /\ IF x \in D THEN y.del = r ELSE y = x
         /\ \A x \in rows : \E y \in rows' :
              /\ y.id = x.id /\ y.uuid = x.uuid /\ y.hash = x.hash /\ y.by = x.by
              /\ IF x \in D THEN y.del = r ELSE y = x
<1>1. /\ \A y \in rows' : \E x \in rows :
           /\ y \in Versions
           /\ y.id = x.id /\ y.uuid = x.uuid /\ y.hash = x.hash /\ y.by = x.by
           /\ IF x \in D THEN y.del = r ELSE y = x
      /\ \A x \in rows : \E y \in rows' :
           /\ y.id = x.id /\ y.uuid = x.uuid /\ y.hash = x.hash /\ y.by = x.by
           /\ IF x \in D THEN y.del = r ELSE y = x
  BY MarkedEffect DEF TableInv, Shapes
<1>2. r # None
  BY TableAssumption
<1>3. Shapes' /\ Fitting'
  BY <1>1 DEF TableInv, Shapes, Fitting
<1>4. Unique'
  <2> SUFFICES ASSUME NEW v \in rows', NEW w \in rows', v # w, Share(v, w)
               PROVE  Replaces(v, w) \/ Replaces(w, v)
    BY DEF Unique
  <2>1. PICK x \in rows : /\ v.uuid = x.uuid /\ v.hash = x.hash /\ v.by = x.by /\ v.id = x.id
                          /\ IF x \in D THEN v.del = r ELSE v = x
    BY <1>1
  <2>2. PICK y \in rows : /\ w.uuid = y.uuid /\ w.hash = y.hash /\ w.by = y.by /\ w.id = y.id
                          /\ IF y \in D THEN w.del = r ELSE w = y
    BY <1>1
  <2>3. x # y
    <3>1. v \in Versions /\ w \in Versions
      BY <1>3 DEF Shapes
    <3> QED
      BY <2>1, <2>2, <3>1 DEF Versions
  <2>4. Replaces(x, y) \/ Replaces(y, x)
    BY <2>1, <2>2, <2>3 DEF TableInv, Unique, Share
  <2> QED
    BY <2>1, <2>2, <2>4 DEF Replaces
<1>5. Rooted' /\ Past'
  BY <1>1, EndedRemains DEF TableInv, Rooted, Past, Born
<1>6. Updated'
  <2> SUFFICES ASSUME NEW v \in rows', v.by # None, ~Inserted(v)
               PROVE  \E w \in rows' : w.by = None /\ w.id = v.id /\ w.del = v.by
    BY DEF Updated, Inserted
  <2>1. PICK x \in rows : v.id = x.id /\ v.by = x.by
    BY <1>1
  <2>2. PICK y \in rows : y.by = None /\ y.id = x.id /\ y.del = x.by
    BY <2>1 DEF TableInv, Updated, Inserted
  <2> QED
    BY <1>1, <2>1, <2>2
<1>7. Fresh'
  BY <1>1, <1>2 DEF TableInv, Fresh, Inserted
<1>8. Backed'
  <2> SUFFICES ASSUME NEW g \in fields, g.by # None
               PROVE  /\ g.id[1] = g.by
                      /\ \E x \in rows' : x.uuid = g.uuid /\ x.by \in {None, g.by} /\ x.del = None
    BY DEF Backed
  <2>1. PICK x \in rows : x.uuid = g.uuid /\ x.by \in {None, g.by} /\ x.del = None
    BY DEF TableInv, Backed
  <2>2. x \notin D
    BY <2>1
  <2> QED
    BY <1>1, <2>1, <2>2 DEF TableInv, Backed
<1>9. TableStep(r)
  BY <1>1 DEF TableStep, Same, Anothers
<1>10. NoCommit /\ Keyed'
  <2>1. Contacts' = Contacts
    BY <1>1 DEF Contacts, Committed
  <2> QED
    BY <2>1 DEF NoCommit, Stored, Committed, TableInv, Keyed
<1> QED
  BY <1>1, <1>3, <1>4, <1>5, <1>6, <1>7, <1>8, <1>9, <1>10 DEF TableInv

(* The fields of a contact are deleted.                                     *)
LEMMA MarkFields ==
  ASSUME TableInv, EndedStays, NEW r \in Requests, NEW D \in SUBSET fields,
         \A x \in D : x.by = None /\ x.del \in {None, r},
         fields' = Marked(r, fields, D), rows' = rows
  PROVE  /\ TableInv' /\ TableStep(r) /\ NoCommit
         /\ \A y \in fields' : \E x \in fields :
              /\ y.id = x.id /\ y.uuid = x.uuid /\ y.hash = x.hash /\ y.by = x.by
              /\ IF x \in D THEN y.del = r ELSE y = x
         /\ \A x \in fields : \E y \in fields' :
              /\ y.id = x.id /\ y.uuid = x.uuid /\ y.hash = x.hash /\ y.by = x.by
              /\ IF x \in D THEN y.del = r ELSE y = x
<1>1. /\ \A y \in fields' : \E x \in fields :
           /\ y \in Versions
           /\ y.id = x.id /\ y.uuid = x.uuid /\ y.hash = x.hash /\ y.by = x.by
           /\ IF x \in D THEN y.del = r ELSE y = x
      /\ \A x \in fields : \E y \in fields' :
           /\ y.id = x.id /\ y.uuid = x.uuid /\ y.hash = x.hash /\ y.by = x.by
           /\ IF x \in D THEN y.del = r ELSE y = x
  BY MarkedEffect DEF TableInv, Shapes
<1>2. Shapes' /\ Fitting'
  BY <1>1 DEF TableInv, Shapes, Fitting
<1>3. Unique' /\ Updated'
  BY DEF TableInv, Unique, Updated
<1>4. Rooted' /\ Past'
  BY <1>1, EndedRemains DEF TableInv, Rooted, Past, Born
<1>5. Fresh'
  <2> SUFFICES ASSUME NEW x \in rows, Inserted(x)
               PROVE  x \in fields' /\ \A g \in fields' : g.uuid = x.uuid => g = x
    BY DEF Fresh, Inserted
  <2>1. x \in fields /\ \A g \in fields : g.uuid = x.uuid => g = x
    BY DEF TableInv, Fresh
  <2>2. x \notin D
    BY DEF Inserted
  <2> QED
    BY <1>1, <2>1, <2>2
<1>6. Backed'
  BY <1>1 DEF TableInv, Backed
<1>7. TableStep(r)
  BY <1>1 DEF TableStep, Same, Anothers
<1>8. NoCommit
  <2>1. Stored' = Stored
    BY <1>1 DEF Stored, Committed
  <2> QED
    BY <2>1 DEF NoCommit, Contacts, Committed
<1>9. Keyed'
  <2> SUFFICES ASSUME NEW v \in fields', NEW w \in fields', v.id = w.id PROVE v = w
    BY DEF Keyed
  <2>1. PICK x \in fields : /\ v.uuid = x.uuid /\ v.hash = x.hash /\ v.by = x.by /\ v.id = x.id
                            /\ IF x \in D THEN v.del = r ELSE v = x
    BY <1>1
  <2>2. PICK y \in fields : /\ w.uuid = y.uuid /\ w.hash = y.hash /\ w.by = y.by /\ w.id = y.id
                            /\ IF y \in D THEN w.del = r ELSE w = y
    BY <1>1
  <2>3. x = y
    BY <2>1, <2>2 DEF TableInv, Keyed
  <2>4. v \in Versions /\ w \in Versions
    BY <1>2 DEF Shapes
  <2> QED
    BY <2>1, <2>2, <2>3, <2>4 DEF Versions
<1> QED
  BY <1>1, <1>2, <1>3, <1>4, <1>5, <1>6, <1>7, <1>8, <1>9 DEF TableInv

(* Of two committed rows with one unique value one is the other.            *)
LEMMA CommittedRowsDiffer ==
  ASSUME TableInv, NEW x \in Committed(rows), NEW y \in Committed(rows), Share(x, y)
  PROVE  x = y
BY DEF TableInv, Unique, Replaces, Committed

LEMMA HeadOfOne ==
  ASSUME NEW S, NEW s \in Seq(S), Len(s) = 1
  PROVE  Head(s) \in S
OBVIOUS

LEMMA HeadOf ==
  ASSUME NEW S, NEW s \in Seq(S), Len(s) > 0
  PROVE  Head(s) \in S /\ Tail(s) \in Seq(S) /\ Len(Tail(s)) = Len(s) - 1
OBVIOUS

(* The second half of an UPDATE writes a version under the identifier of    *)
(* the one that it has locked.                                              *)
LEMMA WriteTable ==
  ASSUME PhonebookInv, EndedStays, NEW r \in Requests, pc[r] = "write", EditRivals(r) = {},
         rows' = rows \cup {[x EXCEPT !.hash = Head(entries[r]), !.by = r, !.del = None] :
                              x \in Loaded(r)},
         fields' = fields
  PROVE  /\ TableInv' /\ TableStep(r) /\ NoCommit
         /\ \E v : /\ rows' = rows \cup {v}
                   /\ v.id = row[r].id /\ v.uuid = target[r] /\ v.hash = Head(entries[r])
                   /\ v.by = r /\ v.del = None
<1>1. /\ TableInv /\ RequestInv(r) /\ kind[r] = "edit" /\ Ended(row[r].id[1])
      /\ row[r].id[2] = target[r]
  BY DEF PhonebookInv, RequestInv, Stage
<1>2. r # None /\ r # 0 /\ pc[r] # "done" /\ ~Ended(r)
  BY TableAssumption DEF Ended
<1>3. PICK h \in Hashes : h = Head(entries[r])
  <2>1. entries[r] \in Seq(Hashes) /\ Len(entries[r]) = 1
    BY <1>1 DEF PhonebookInv, RequestInv, Stage, Types, TypeOK
  <2>2. Head(entries[r]) \in Hashes
    BY <2>1, HeadOfOne
  <2> QED
    BY <2>2
<1>4. PICK x \in rows : x.by = None /\ x.id = row[r].id /\ x.del = r
  BY <1>1 DEF RequestInv, Writes
<1>5. Loaded(r) = {x}
  <2>1. x \in Loaded(r)
    BY <1>4 DEF Loaded, RowOf, Committed
  <2>2. \A y \in Loaded(r) : y \in Committed(rows) /\ y.id = x.id /\ y.uuid = x.uuid
    BY <1>1, <1>4 DEF Loaded, RowOf, Committed, TableInv, Fitting
  <2>3. \A y \in Loaded(r) : y = x
    BY <1>1, <2>1, <2>2, CommittedRowsDiffer DEF Share
  <2> QED
    BY <2>1, <2>3
<1> DEFINE v == [x EXCEPT !.hash = h, !.by = r, !.del = None]
<1>6. rows' = rows \cup {v}
  BY <1>3, <1>5
<1>7. x \in Versions /\ x.uuid = target[r]
  BY <1>1, <1>4 DEF TableInv, Shapes, Fitting
<1>8. /\ v \in Versions /\ v.id = x.id /\ v.uuid = x.uuid
      /\ v.hash = h /\ v.by = r /\ v.del = None
  BY <1>3, <1>7 DEF Versions
<1> HIDE DEF v
<1>9. v.id[1] # r /\ ~Inserted(v)
  BY <1>1, <1>2, <1>4, <1>8 DEF Inserted
<1>10. Shapes' /\ Fitting'
  <2>1. v.id[2] = v.uuid
    BY <1>1, <1>4, <1>7, <1>8
  <2> QED
    BY <1>1, <1>6, <1>8, <2>1 DEF TableInv, Shapes, Fitting
<1>11. Unique'
  <2>1. ASSUME NEW y \in rows, Share(y, v) PROVE Replaces(v, y) \/ Replaces(y, v)
    <3>1. y.id = x.id \/ y.del = r
      BY <1>3, <1>4, <1>7, <1>8, <2>1 DEF EditRivals, Conflicting, Clashing, Share
    <3>2. CASE y.del = r
      BY <1>2, <1>8, <3>2 DEF Replaces
    <3>3. CASE y.id = x.id /\ y.by = None
      <4>1. y = x
        <5>1. y \in Committed(rows) /\ x \in Committed(rows)
          BY <1>4, <3>3 DEF Committed
        <5>2. Share(y, x)
          BY <1>1, <3>3 DEF Share, TableInv, Fitting
        <5> QED
          BY <1>1, <5>1, <5>2, CommittedRowsDiffer
      <4> QED
        BY <1>2, <1>4, <1>8, <4>1 DEF Replaces
    <3>4. CASE y.id = x.id /\ y.by # None
      <4>1. y.by \in Requests
        BY <1>1, <3>4 DEF TableInv, Shapes, Versions
      <4>2. ~Inserted(y)
        <5>1. Ended(y.id[1])
          BY <1>1, <1>4, <3>4
        <5>2. RequestInv(y.by)
          BY <4>1 DEF PhonebookInv
        <5>3. pc[y.by] # "done"
          BY <5>2 DEF RequestInv, Writes
        <5> QED
          BY <4>1, <5>1, <5>3, TableAssumption DEF Ended, Inserted
      <4>3. PICK z \in rows : z.by = None /\ z.id = y.id /\ z.del = y.by
        BY <1>1, <3>4, <4>2 DEF TableInv, Updated
      <4>4. z = x
        <5>1. z \in Committed(rows) /\ x \in Committed(rows)
          BY <1>4, <4>3 DEF Committed
        <5>2. Share(z, x)
          BY <1>1, <3>4, <4>3 DEF Share, TableInv, Fitting
        <5> QED
          BY <1>1, <5>1, <5>2, CommittedRowsDiffer
      <4>5. y.by = r
        BY <1>4, <4>3, <4>4
      <4> QED
        BY <1>1, <1>2, <4>5 DEF RequestInv, Writes
    <3> QED
      BY <3>1, <3>2, <3>3, <3>4
  <2> QED
    BY <1>1, <1>6, <2>1 DEF TableInv, Unique, Share
<1>12. Rooted' /\ Past'
  <2>1. Born(v.id)
    BY <1>1, <1>8 DEF TableInv, Rooted, Born
  <2> QED
    BY <1>1, <1>2, <1>6, <1>8, <2>1, EndedRemains DEF TableInv, Rooted, Past, Born
<1>13. Updated'
  BY <1>1, <1>4, <1>6, <1>8 DEF TableInv, Updated, Inserted
<1>14. Fresh'
  BY <1>1, <1>6, <1>9 DEF TableInv, Fresh, Inserted
<1>15. Backed'
  BY <1>1, <1>6 DEF TableInv, Backed
<1>16. TableStep(r)
  <2>1. NewRow(r, v)
    BY <1>4, <1>8, <1>9 DEF NewRow
  <2> QED
    BY <1>6, <2>1 DEF TableStep, Same
<1>17. NoCommit /\ Keyed'
  <2>1. Committed(rows)' = Committed(rows)
    BY <1>2, <1>6, <1>8 DEF Committed
  <2> QED
    BY <1>1, <2>1 DEF NoCommit, Contacts, Stored, Committed, TableInv, Keyed
<1> QED
  BY <1>3, <1>4, <1>6, <1>7, <1>8, <1>10, <1>11, <1>12, <1>13, <1>14, <1>15, <1>16, <1>17
     DEF TableInv

(* New fields for a contact nobody is deleting.                             *)
LEMMA InsertFieldsTable ==
  ASSUME PhonebookInv, EndedStays, NEW r \in Requests, pc[r] = "insertFields",
         NEW x \in rows, x.uuid = target[r], x.by \in {None, r}, x.del = None,
         NEW h \in Hashes,
         fields' = fields \cup {Version(r, target[r], h, r)}, rows' = rows
  PROVE  TableInv' /\ TableStep(r) /\ NoCommit
<1>1. PICK u \in Nat : u = target[r]
  BY DEF PhonebookInv, TableInv, Shapes, Versions
<1> DEFINE v == Version(r, u, h, r)
<1>2. fields' = fields \cup {v}
  BY <1>1
<1>3. v.id = <<r, u>> /\ v.uuid = u /\ v.hash = h /\ v.by = r /\ v.del = None /\ v \in Versions
  BY TableAssumption DEF Version, Versions
<1>4. r # None
  BY TableAssumption
<1> HIDE DEF v
<1>5. Shapes' /\ Fitting'
  BY <1>2, <1>3 DEF PhonebookInv, TableInv, Shapes, Fitting
<1>6. Unique' /\ Updated'
  BY DEF PhonebookInv, TableInv, Unique, Updated
<1>7. Rooted' /\ Past'
  BY <1>2, <1>3, <1>4, EndedRemains DEF PhonebookInv, TableInv, Rooted, Past, Born
<1>8. Fresh'
  <2> SUFFICES ASSUME NEW y \in rows, Inserted(y) PROVE y.uuid # u
    BY <1>2, <1>3 DEF PhonebookInv, TableInv, Fresh, Inserted
  <2>1. PICK q \in Requests : q = y.by /\ q = y.id[1]
    BY DEF Inserted, PhonebookInv, TableInv, Shapes, Versions
  <2>2. q # 0 /\ RequestInv(q) /\ RequestInv(r)
    BY TableAssumption DEF PhonebookInv
  <2>3. PICK n \in 1..MaxEntries : y.uuid = NewUuid(q, n)
    BY <2>1, <2>2 DEF PhonebookInv, TableInv, Fitting, Rooted, Born
  <2>4. pc[q] # "done"
    BY <2>1, <2>2 DEF RequestInv, Writes
  <2> QED
    BY <1>1, <2>2, <2>3, <2>4 DEF RequestInv, Known
<1>9. Backed'
  BY <1>1, <1>2, <1>3 DEF PhonebookInv, TableInv, Backed
<1>10. TableStep(r)
  <2>1. NewFields(r, v)
    BY <1>1, <1>3 DEF NewFields
  <2> QED
    BY <1>2, <2>1 DEF TableStep, Same
<1>11. NoCommit
  <2>1. Committed(fields)' = Committed(fields)
    BY <1>2, <1>3, <1>4 DEF Committed
  <2> QED
    BY <2>1 DEF NoCommit, Contacts, Stored, Committed
<1>12. Keyed'
  <2>1. ASSUME NEW g \in fields PROVE g.id[1] # r
    <3>1. ~Ended(r) /\ RequestInv(r)
      BY TableAssumption DEF Ended, PhonebookInv
    <3>2. g.by # r
      BY <3>1 DEF RequestInv, Writes
    <3> QED
      BY <3>1, <3>2 DEF PhonebookInv, TableInv, Past, Backed
  <2> QED
    BY <1>2, <1>3, <2>1 DEF PhonebookInv, TableInv, Keyed
<1> QED
  BY <1>5, <1>6, <1>7, <1>8, <1>9, <1>10, <1>11, <1>12 DEF TableInv

(* ROLLBACK.                                                                *)
LEMMA UndoneEffect ==
  ASSUME NEW r \in Requests, NEW X \in SUBSET Versions
  PROVE  /\ \A y \in Undone(r, X) : \E x \in X :
              /\ y \in Versions /\ x.by # r
              /\ y.id = x.id /\ y.uuid = x.uuid /\ y.hash = x.hash /\ y.by = x.by
              /\ IF x.del = r THEN y.del = None ELSE y = x
         /\ \A x \in X : x.by # r => \E y \in Undone(r, X) :
              /\ y.id = x.id /\ y.uuid = x.uuid /\ y.hash = x.hash /\ y.by = x.by
              /\ IF x.del = r THEN y.del = None ELSE y = x
<1> DEFINE undo(x) == [x EXCEPT !.del = IF x.del = r THEN None ELSE x.del]
<1>1. \A x \in X : LET y == undo(x)
                   IN  /\ y \in Versions
                       /\ y.id = x.id /\ y.uuid = x.uuid /\ y.hash = x.hash /\ y.by = x.by
                       /\ IF x.del = r THEN y.del = None ELSE y = x
  BY DEF Versions
<1>2. Undone(r, X) = {undo(x) : x \in {y \in X : y.by # r}}
  BY DEF Undone
<1> HIDE DEF undo
<1> QED
  BY <1>1, <1>2

LEMMA UndoTable ==
  ASSUME TableInv, EndedStays, NEW r \in Requests, RollbackTable(r)
  PROVE  /\ TableInv' /\ TableStep(r) /\ NoCommit
         /\ \A y \in rows' \cup fields' : y.by # r /\ y.del # r
         /\ rows = {} /\ fields = {} => rows' = {} /\ fields' = {}
<1>1. /\ \A y \in rows' : \E x \in rows :
           /\ y \in Versions /\ x.by # r
           /\ y.id = x.id /\ y.uuid = x.uuid /\ y.hash = x.hash /\ y.by = x.by
           /\ IF x.del = r THEN y.del = None ELSE y = x
      /\ \A x \in rows : x.by # r => \E y \in rows' :
           /\ y.id = x.id /\ y.uuid = x.uuid /\ y.hash = x.hash /\ y.by = x.by
           /\ IF x.del = r THEN y.del = None ELSE y = x
  BY UndoneEffect DEF RollbackTable, TableInv, Shapes
<1>2. /\ \A y \in fields' : \E x \in fields :
           /\ y \in Versions /\ x.by # r
           /\ y.id = x.id /\ y.uuid = x.uuid /\ y.hash = x.hash /\ y.by = x.by
           /\ IF x.del = r THEN y.del = None ELSE y = x
      /\ \A x \in fields : x.by # r => \E y \in fields' :
           /\ y.id = x.id /\ y.uuid = x.uuid /\ y.hash = x.hash /\ y.by = x.by
           /\ IF x.del = r THEN y.del = None ELSE y = x
  BY UndoneEffect DEF RollbackTable, TableInv, Shapes
<1>3. r # None
  BY TableAssumption
<1>4. \A x \in rows \cup fields : x.by # None => x.del = None
  BY DEF TableInv, Fitting
<1>5. Shapes' /\ Fitting'
  BY <1>1, <1>2 DEF TableInv, Shapes, Fitting
<1>6. Unique'
  <2> SUFFICES ASSUME NEW v \in rows', NEW w \in rows', v # w, Share(v, w)
               PROVE  Replaces(v, w) \/ Replaces(w, v)
    BY DEF Unique
  <2>1. PICK x \in rows : /\ v.uuid = x.uuid /\ v.hash = x.hash /\ v.by = x.by /\ v.id = x.id
                          /\ IF x.del = r THEN v.del = None ELSE v = x
                          /\ x.by # r
    BY <1>1
  <2>2. PICK y \in rows : /\ w.uuid = y.uuid /\ w.hash = y.hash /\ w.by = y.by /\ w.id = y.id
                          /\ IF y.del = r THEN w.del = None ELSE w = y
                          /\ y.by # r
    BY <1>1
  <2>3. x # y
    <3>1. v \in Versions /\ w \in Versions
      BY <1>5 DEF Shapes
    <3> QED
      BY <2>1, <2>2, <3>1 DEF Versions
  <2>4. Replaces(x, y) \/ Replaces(y, x)
    BY <2>1, <2>2, <2>3 DEF TableInv, Unique, Share
  <2> QED
    BY <2>1, <2>2, <2>4 DEF Replaces
<1>7. Rooted' /\ Past'
  BY <1>1, <1>2, EndedRemains DEF TableInv, Rooted, Past
<1>8. Updated'
  <2> SUFFICES ASSUME NEW v \in rows', v.by # None, ~Inserted(v)
               PROVE  \E w \in rows' : w.by = None /\ w.id = v.id /\ w.del = v.by
    BY DEF Updated, Inserted
  <2>1. PICK x \in rows : v.id = x.id /\ v.by = x.by /\ x.by # r
    BY <1>1
  <2>2. PICK y \in rows : y.by = None /\ y.id = x.id /\ y.del = x.by
    BY <2>1 DEF TableInv, Updated, Inserted
  <2> QED
    BY <1>1, <1>3, <2>1, <2>2
<1>9. Fresh'
  <2> SUFFICES ASSUME NEW v \in rows', Inserted(v)
               PROVE  v \in fields' /\ \A g \in fields' : g.uuid = v.uuid => g = v
    BY DEF Fresh, Inserted
  <2>1. v \in rows /\ v.by # r /\ v.del # r
    BY <1>1, <1>3, <1>4 DEF Inserted
  <2>2. v \in fields /\ \A g \in fields : g.uuid = v.uuid => g = v
    BY <2>1 DEF TableInv, Fresh
  <2> QED
    BY <1>2, <2>1, <2>2
<1>10. Backed'
  <2> SUFFICES ASSUME NEW v \in fields', v.by # None
               PROVE  /\ v.id[1] = v.by
                      /\ \E x \in rows' : x.uuid = v.uuid /\ x.by \in {None, v.by} /\ x.del = None
    BY DEF Backed
  <2>1. PICK g \in fields : v.id = g.id /\ v.uuid = g.uuid /\ v.by = g.by /\ g.by # r
    BY <1>2
  <2>2. PICK x \in rows : x.uuid = g.uuid /\ x.by \in {None, g.by} /\ x.del = None
    BY <2>1 DEF TableInv, Backed
  <2>3. g.id[1] = g.by
    BY <2>1 DEF TableInv, Backed
  <2> QED
    BY <1>1, <1>3, <2>1, <2>2, <2>3
<1>11. TableStep(r)
  <2>1. \A x \in rows \cup fields : Anothers(r, x) => x.by # r /\ x.del # r
    BY <1>3, <1>4 DEF Anothers
  <2>2. /\ \A x \in rows : Anothers(r, x) => x \in rows'
        /\ \A x \in fields : Anothers(r, x) => x \in fields'
    BY <1>1, <1>2, <2>1
  <2>3. /\ \A y \in rows' : \E x \in rows : Same(r, x, y)
        /\ \A y \in fields' : \E x \in fields : Same(r, x, y)
    BY <1>1, <1>2 DEF Same
  <2> QED
    BY <2>2, <2>3 DEF TableStep
<1>12. NoCommit
  <2>1. Contacts' = Contacts
    BY <1>1, <1>3 DEF Contacts, Committed
  <2>2. Stored' = Stored
    BY <1>2, <1>3 DEF Stored, Committed
  <2> QED
    BY <2>1, <2>2 DEF NoCommit
<1>13. \A y \in rows' \cup fields' : y.by # r /\ y.del # r
  BY <1>1, <1>2, <1>3
<1>14. rows = {} /\ fields = {} => rows' = {} /\ fields' = {}
  BY <1>1, <1>2
<1>15. Keyed'
  <2> SUFFICES ASSUME NEW v \in fields', NEW w \in fields', v.id = w.id PROVE v = w
    BY DEF Keyed
  <2>1. PICK x \in fields : /\ v.uuid = x.uuid /\ v.hash = x.hash /\ v.by = x.by /\ v.id = x.id
                            /\ IF x.del = r THEN v.del = None ELSE v = x
    BY <1>2
  <2>2. PICK y \in fields : /\ w.uuid = y.uuid /\ w.hash = y.hash /\ w.by = y.by /\ w.id = y.id
                            /\ IF y.del = r THEN w.del = None ELSE w = y
    BY <1>2
  <2>3. x = y
    BY <2>1, <2>2 DEF TableInv, Keyed
  <2>4. v \in Versions /\ w \in Versions
    BY <1>5 DEF Shapes
  <2> QED
    BY <2>1, <2>2, <2>3, <2>4 DEF Versions
<1> QED
  BY <1>15, <1>5, <1>6, <1>7, <1>8, <1>9, <1>10, <1>11, <1>12, <1>13, <1>14 DEF TableInv

(* COMMIT.                                                                  *)
LEMMA KeptEffect ==
  ASSUME NEW r \in Requests, NEW X \in SUBSET Versions
  PROVE  /\ \A y \in Kept(r, X) : \E x \in X :
              /\ y \in Versions /\ x.del # r
              /\ y.id = x.id /\ y.uuid = x.uuid /\ y.hash = x.hash /\ y.del = x.del
              /\ IF x.by = r THEN y.by = None ELSE y = x
         /\ \A x \in X : x.del # r => \E y \in Kept(r, X) :
              /\ y.id = x.id /\ y.uuid = x.uuid /\ y.hash = x.hash /\ y.del = x.del
              /\ IF x.by = r THEN y.by = None ELSE y = x
<1> DEFINE keep(x) == [x EXCEPT !.by = IF x.by = r THEN None ELSE x.by]
<1>1. \A x \in X : LET y == keep(x)
                   IN  /\ y \in Versions
                       /\ y.id = x.id /\ y.uuid = x.uuid /\ y.hash = x.hash /\ y.del = x.del
                       /\ IF x.by = r THEN y.by = None ELSE y = x
  BY DEF Versions
<1>2. Kept(r, X) = {keep(x) : x \in {y \in X : y.del # r}}
  BY DEF Kept
<1> HIDE DEF keep
<1> QED
  BY <1>1, <1>2

KeptRows(r) ==
  /\ \A y \in rows' : \E x \in rows :
       /\ y \in Versions /\ x.del # r
       /\ y.id = x.id /\ y.uuid = x.uuid /\ y.hash = x.hash /\ y.del = x.del
       /\ IF x.by = r THEN y.by = None ELSE y = x
  /\ \A x \in rows : x.del # r => \E y \in rows' :
       /\ y.id = x.id /\ y.uuid = x.uuid /\ y.hash = x.hash /\ y.del = x.del
       /\ IF x.by = r THEN y.by = None ELSE y = x
KeptFields(r) ==
  /\ \A y \in fields' : \E x \in fields :
       /\ y \in Versions /\ x.del # r
       /\ y.id = x.id /\ y.uuid = x.uuid /\ y.hash = x.hash /\ y.del = x.del
       /\ IF x.by = r THEN y.by = None ELSE y = x
  /\ \A x \in fields : x.del # r => \E y \in fields' :
       /\ y.id = x.id /\ y.uuid = x.uuid /\ y.hash = x.hash /\ y.del = x.del
       /\ IF x.by = r THEN y.by = None ELSE y = x

LEMMA KeepTable ==
  ASSUME PhonebookInv, EndedStays, NEW r \in Requests, CommitTable(r), pc'[r] = "done",
         \A x \in rows : x.by = r => x.id[1] = r \/ Ended(x.id[1])
  PROVE  /\ TableInv' /\ TableStep(r) /\ KeptRows(r) /\ KeptFields(r)
         /\ \A y \in rows' \cup fields' : y.by # r /\ y.del # r
<1>1. TableInv /\ r # None /\ Ended(r)'
  BY TableAssumption DEF PhonebookInv, Ended
<1>2. KeptRows(r) /\ KeptFields(r)
  BY <1>1, KeptEffect DEF CommitTable, TableInv, Shapes, KeptRows, KeptFields
<1>3. \A x \in rows \cup fields : x.by # None => x.del = None
  BY <1>1 DEF TableInv, Fitting
<1>4. Shapes' /\ Fitting'
  BY <1>1, <1>2 DEF KeptRows, KeptFields, TableInv, Shapes, Fitting
<1>5. Unique'
  <2> SUFFICES ASSUME NEW v \in rows', NEW w \in rows', v # w, Share(v, w)
               PROVE  Replaces(v, w) \/ Replaces(w, v)
    BY DEF Unique
  <2>1. PICK x \in rows : /\ v.uuid = x.uuid /\ v.hash = x.hash /\ v.del = x.del /\ v.id = x.id
                          /\ IF x.by = r THEN v.by = None ELSE v = x
                          /\ x.del # r
    BY <1>2 DEF KeptRows
  <2>2. PICK y \in rows : /\ w.uuid = y.uuid /\ w.hash = y.hash /\ w.del = y.del /\ w.id = y.id
                          /\ IF y.by = r THEN w.by = None ELSE w = y
                          /\ y.del # r
    BY <1>2 DEF KeptRows
  <2>3. x # y
    <3>1. v \in Versions /\ w \in Versions
      BY <1>4 DEF Shapes
    <3> QED
      BY <2>1, <2>2, <3>1 DEF Versions
  <2>4. Replaces(x, y) \/ Replaces(y, x)
    BY <1>1, <2>1, <2>2, <2>3 DEF TableInv, Unique, Share
  <2> QED
    BY <2>1, <2>2, <2>4 DEF Replaces
<1>6. Rooted'
  <2> SUFFICES ASSUME NEW v \in rows' PROVE Born(v.id) /\ (v.by = None => Ended(v.id[1])')
    BY DEF Rooted, Born, Ended
  <2>1. PICK x \in rows : v.id = x.id /\ IF x.by = r THEN v.by = None ELSE v = x
    BY <1>2 DEF KeptRows
  <2>2. Born(x.id) /\ (x.by = None => Ended(x.id[1]))
    BY <1>1 DEF TableInv, Rooted
  <2>3. x.by \in {None, r} => Ended(x.id[1])'
    BY <1>1, <2>2, EndedRemains
  <2> QED
    BY <2>1, <2>2, <2>3
<1>7. Past'
  <2> SUFFICES ASSUME NEW v \in fields', v.by = None PROVE Ended(v.id[1])'
    BY DEF Past, Ended
  <2>1. PICK g \in fields : v.id = g.id /\ IF g.by = r THEN v.by = None ELSE v = g
    BY <1>2 DEF KeptFields
  <2>2. g.by = r => g.id[1] = r
    BY <1>1 DEF TableInv, Backed
  <2>3. g.by = None => Ended(g.id[1])
    BY <1>1 DEF TableInv, Past
  <2> QED
    BY <1>1, <2>1, <2>2, <2>3, EndedRemains
<1>8. Updated'
  <2> SUFFICES ASSUME NEW v \in rows', v.by # None, ~Inserted(v)
               PROVE  \E w \in rows' : w.by = None /\ w.id = v.id /\ w.del = v.by
    BY DEF Updated, Inserted
  <2>1. v \in rows /\ v.by # r
    BY <1>2 DEF KeptRows
  <2>2. PICK y \in rows : y.by = None /\ y.id = v.id /\ y.del = v.by
    BY <1>1, <2>1 DEF TableInv, Updated, Inserted
  <2> QED
    BY <1>1, <1>2, <2>1, <2>2 DEF KeptRows
<1>9. Fresh'
  <2> SUFFICES ASSUME NEW v \in rows', Inserted(v)
               PROVE  v \in fields' /\ \A g \in fields' : g.uuid = v.uuid => g = v
    BY DEF Fresh, Inserted
  <2>1. v \in rows /\ v.by # r /\ v.del # r
    BY <1>1, <1>2, <1>3 DEF Inserted, KeptRows
  <2>2. v \in fields /\ \A g \in fields : g.uuid = v.uuid => g = v
    BY <1>1, <2>1 DEF TableInv, Fresh
  <2> QED
    BY <1>2, <2>1, <2>2 DEF KeptFields
<1>10. Backed'
  <2> SUFFICES ASSUME NEW g \in fields', g.by # None
               PROVE  /\ g.id[1] = g.by
                      /\ \E x \in rows' : x.uuid = g.uuid /\ x.by \in {None, g.by} /\ x.del = None
    BY DEF Backed
  <2>1. g \in fields /\ g.by # r
    BY <1>2 DEF KeptFields
  <2>2. PICK x \in rows : x.uuid = g.uuid /\ x.by \in {None, g.by} /\ x.del = None
    BY <1>1, <2>1 DEF TableInv, Backed
  <2>3. g.id[1] = g.by
    BY <1>1, <2>1 DEF TableInv, Backed
  <2> QED
    BY <1>1, <1>2, <2>1, <2>2, <2>3 DEF KeptRows
<1>11. TableStep(r)
  BY <1>1, <1>2, <1>3 DEF TableStep, Same, Anothers, KeptRows, KeptFields
<1>12. \A y \in rows' \cup fields' : y.by # r /\ y.del # r
  BY <1>1, <1>2 DEF KeptRows, KeptFields
<1>13. Keyed'
  <2> SUFFICES ASSUME NEW v \in fields', NEW w \in fields', v.id = w.id PROVE v = w
    BY DEF Keyed
  <2>1. PICK x \in fields : /\ v.uuid = x.uuid /\ v.hash = x.hash /\ v.del = x.del /\ v.id = x.id
                            /\ IF x.by = r THEN v.by = None ELSE v = x
    BY <1>2 DEF KeptFields
  <2>2. PICK y \in fields : /\ w.uuid = y.uuid /\ w.hash = y.hash /\ w.del = y.del /\ w.id = y.id
                            /\ IF y.by = r THEN w.by = None ELSE w = y
    BY <1>2 DEF KeptFields
  <2>3. x = y
    BY <1>1, <2>1, <2>2 DEF TableInv, Keyed
  <2>4. v \in Versions /\ w \in Versions
    BY <1>4 DEF Shapes
  <2> QED
    BY <2>1, <2>2, <2>3, <2>4 DEF Versions
<1> QED
  BY <1>13, <1>2, <1>4, <1>5, <1>6, <1>7, <1>8, <1>9, <1>10, <1>11, <1>12 DEF TableInv

----------------------------------------------------------------------------
(* Each action keeps the invariant.                                         *)
LEMMA TableTypes ==
  ASSUME TableInv'
  PROVE  TableTypeOK'
BY DEF TableInv, Shapes, Versions, TableTypeOK

LEMMA OwnStep ==
  ASSUME PhonebookInv, NEW r \in Requests, pc[r] # "done",
         \A q \in Requests \ {r} : Untouched(q),
         TableInv', TableStep(r), BookStep(r),
         Types', NoBook', NothingLost', RequestInv(r)'
  PROVE  PhonebookInv'
<1>1. \A q \in Requests \ {r} : RequestInv(q)'
  BY OthersKeep
<1> QED
  BY <1>1 DEF PhonebookInv

(* What holds when r has changed neither the contacts nor the phonebook.    *)
LEMMA QuietStep ==
  ASSUME PhonebookInv, NoCommit, told' = told, book' = book,
         book \/ (rows = {} /\ fields = {} => rows' = {} /\ fields' = {})
  PROVE  NoBook' /\ NothingLost'
BY DEF NoCommit, PhonebookInv, NoBook, NothingLost, Uuids

LEMMA AbortKeeps ==
  ASSUME PhonebookInv, NEW r \in Requests, pc[r] \notin {"idle", "done"},
         NEW why \in {"duplicate", "nosuch", "badContacts", "crash", "deadlocked", "unavailable"},
         Abort(r, why)
  PROVE  PhonebookInv' /\ Quiet(r)
<1>1. /\ pc' = [pc EXCEPT ![r] = "done"] /\ reply' = [reply EXCEPT ![r] = why]
      /\ bookDeleter' = IF bookDeleter = r THEN None ELSE bookDeleter
      /\ UNCHANGED <<book, kind, target, entries, row, fieldsLeft, todo, told>>
  BY DEF Abort, input, work
<1>2. /\ RequestInv(r) /\ TableInv /\ Types /\ r # None
      /\ why # "ok" /\ pc[r] # "done"
  BY TableAssumption DEF PhonebookInv
<1>3. pc'[r] = "done" /\ reply'[r] = why /\ bookDeleter' # r
  BY <1>1, <1>2 DEF Types, TypeOK
<1>4. EndedStays /\ \A q \in Requests \ {r} : Untouched(q)
  BY <1>1 DEF EndedStays, Untouched, Types, TypeOK
<1>5. /\ TableInv' /\ TableStep(r) /\ NoCommit
      /\ \A y \in rows' \cup fields' : y.by # r /\ y.del # r
      /\ rows = {} /\ fields = {} => rows' = {} /\ fields' = {}
  BY <1>2, <1>4, UndoTable DEF Abort
<1>6. BookStep(r)
  BY <1>1 DEF BookStep
<1>7. Types'
  BY <1>1, <1>2, <1>5, TableTypes DEF Types, TypeOK
<1>8. RequestInv(r)'
  <2>1. Stage(r)'
    <3>1. \A i : Ended(i) => Ended(i)'
      BY <1>4, EndedRemains
    <3> QED
      BY <1>1, <1>2, <1>3, <3>1 DEF RequestInv, Stage
  <2>2. Writes(r)' /\ Deletes(r)'
    BY <1>3, <1>5 DEF Writes, Deletes
  <2>3. Known(r)'
    BY <1>1, <1>2, <1>3, <1>4 DEF RequestInv, Known, EndedStays, NewUuid
  <2>4. Gone(r)' /\ Closing(r)'
    BY <1>2, <1>3 DEF Gone, Closing
  <2> QED
    BY <2>1, <2>2, <2>3, <2>4 DEF RequestInv
<1>9. NoBook' /\ NothingLost'
  BY <1>1, <1>5, QuietStep
<1> QED
  BY <1>2, <1>4, <1>5, <1>6, <1>7, <1>8, <1>9, OwnStep DEF Quiet

LEMMA BeginKeeps ==
  ASSUME PhonebookInv, NEW r \in Requests, NEW k \in Kinds, NEW u, NEW E \in Seq(Hashes),
         Begin(r, k, u, E),
         \/ k \in {"edit", "remove"} /\ u \in Uuids
         \/ k \in {"create", "import", "removeBook"} /\ u = None,
         k = "edit" => Len(E) = 1,
         Len(E) <= MaxEntries \/ k = "edit"
  PROVE  PhonebookInv' /\ Quiet(r)
<1>1. /\ pc[r] = "idle" /\ pc' = [pc EXCEPT ![r] = "load"] /\ kind' = [kind EXCEPT ![r] = k]
      /\ target' = [target EXCEPT ![r] = u] /\ entries' = [entries EXCEPT ![r] = E]
      /\ UNCHANGED <<rows, fields, book, bookDeleter, row, fieldsLeft, todo, reply, told>>
  BY DEF Begin, table, phonebook, work
<1>2. RequestInv(r) /\ TableInv /\ Types
  BY DEF PhonebookInv
<1>3. pc'[r] = "load" /\ kind'[r] = k /\ target'[r] = u /\ entries'[r] = E
  BY <1>1, <1>2 DEF Types, TypeOK
<1>4. EndedStays /\ \A q \in Requests \ {r} : Untouched(q)
  BY <1>1, <1>2 DEF EndedStays, Untouched, Types, TypeOK
<1>5. TableInv' /\ TableStep(r) /\ NoCommit
  BY <1>1, <1>2, <1>4, NothingWritten DEF table
<1>6. BookStep(r)
  BY <1>1 DEF BookStep
<1>7. u \in Nat \cup {None} /\ (k \in {"edit", "remove"} => u \in Nat)
  BY <1>2 DEF Uuids, Contacts, Committed, TableInv, Shapes, Versions
<1>8. Types'
  BY <1>1, <1>2, <1>5, <1>7, TableTypes DEF Types, TypeOK
<1>9. k # None /\ kind[r] = None /\ fieldsLeft[r] = {} /\ reply[r] = None
  BY <1>1, <1>2, PhonebookAssumption DEF RequestInv, Stage
<1>10. RequestInv(r)'
  <2>1. Stage(r)'
    BY <1>1, <1>3, <1>7, <1>9 DEF Stage
  <2>2. Writes(r)' /\ Deletes(r)'
    BY <1>1, <1>2, <1>3 DEF RequestInv, Writes, Deletes
  <2>3. Known(r)'
    <3>1. ASSUME NEW q \in Requests, NEW n \in 1..MaxEntries, u = NewUuid(q, n)
          PROVE  pc[q] = "done"
      <4>1. u \in Uuids
        BY <3>1, NewUuidIsNew, PhonebookAssumption
      <4>2. PICK x \in rows : x.by = None /\ x.uuid = u
        BY <4>1 DEF Uuids, Contacts, Committed
      <4> QED
        BY <3>1, <4>2, TableAssumption DEF PhonebookInv, RequestInv, Known
    <3> QED
      BY <1>1, <1>2, <1>3, <1>4, <3>1 DEF RequestInv, Known, EndedStays, NewUuid
  <2>4. Gone(r)' /\ Closing(r)'
    BY <1>1, <1>2, <1>3, <1>9, PhonebookAssumption DEF RequestInv, Gone, Closing
  <2> QED
    BY <2>1, <2>2, <2>3, <2>4 DEF RequestInv
<1>11. NoBook' /\ NothingLost'
  BY <1>1, <1>5, QuietStep
<1> QED
  BY <1>1, <1>4, <1>5, <1>6, <1>8, <1>10, <1>11, OwnStep DEF Quiet

LEMMA LoadBookKeeps ==
  ASSUME PhonebookInv, NEW r \in Requests, LoadBook(r)
  PROVE  PhonebookInv' /\ Quiet(r)
<1>1. pc[r] = "load" /\ kind[r] \in {"create", "import", "removeBook"}
  BY DEF LoadBook
<1>2. CASE ~book
  BY <1>1, <1>2, AbortKeeps DEF LoadBook
<1>3. CASE book
  <2> DEFINE step == IF kind[r] = "removeBook" THEN "deleteBook" ELSE "insert"
  <2>1. /\ pc' = [pc EXCEPT ![r] = step] /\ todo' = [todo EXCEPT ![r] = entries[r]]
        /\ UNCHANGED <<rows, fields, book, bookDeleter, kind, target, entries, row, fieldsLeft,
                       reply, told>>
    BY <1>3 DEF LoadBook, GoTo, table, phonebook, input
  <2>2. RequestInv(r) /\ TableInv /\ Types
    BY DEF PhonebookInv
  <2>3. pc'[r] = step /\ todo'[r] = entries[r]
    BY <2>1, <2>2 DEF Types, TypeOK
  <2>4. EndedStays /\ \A q \in Requests \ {r} : Untouched(q)
    BY <1>1, <2>1, <2>2 DEF EndedStays, Untouched, Types, TypeOK
  <2>5. TableInv' /\ TableStep(r) /\ NoCommit
    BY <2>1, <2>2, <2>4, NothingWritten DEF table
  <2>6. BookStep(r)
    BY <2>1 DEF BookStep
  <2>7. Types'
    BY <2>1, <2>2, <2>5, TableTypes DEF Types, TypeOK
  <2>8. step \in {"deleteBook", "insert"} /\ (step = "deleteBook" <=> kind[r] = "removeBook")
    BY <1>1
  <2> HIDE DEF step
  <2>9. RequestInv(r)'
    <3>1. Stage(r)'
      <4>1. Len(entries[r]) <= Len(entries[r])
        BY <2>2 DEF Types, TypeOK
      <4>2. \A i : Ended(i) => Ended(i)'
        BY <2>4, EndedRemains
      <4> QED
        BY <1>1, <2>1, <2>2, <2>3, <2>8, <4>1, <4>2 DEF RequestInv, Stage, Inserting
    <3>2. Writes(r)' /\ Deletes(r)'
      BY <1>1, <2>1, <2>2, <2>3, <2>8 DEF RequestInv, Writes, Deletes
    <3>3. Known(r)'
      BY <1>1, <2>1, <2>2, <2>3, <2>4 DEF RequestInv, Known, EndedStays, NewUuid
    <3>4. Gone(r)' /\ Closing(r)'
      BY <1>1, <2>1, <2>2, <2>3, <2>8 DEF RequestInv, Gone, Closing
    <3> QED
      BY <3>1, <3>2, <3>3, <3>4 DEF RequestInv
  <2>10. NoBook' /\ NothingLost'
    BY <2>1, <2>5, QuietStep
  <2> QED
    BY <1>1, <2>4, <2>5, <2>6, <2>7, <2>9, <2>10, OwnStep DEF Quiet
<1> QED
  BY <1>2, <1>3

LEMMA LoadContactKeeps ==
  ASSUME PhonebookInv, NEW r \in Requests, LoadContact(r)
  PROVE  PhonebookInv' /\ Quiet(r)
<1>1. pc[r] = "load" /\ kind[r] \in {"edit", "remove"}
  BY DEF LoadContact
<1>2. CASE Wanted(r) = {}
  BY <1>1, <1>2, AbortKeeps DEF LoadContact
<1>3. CASE Wanted(r) # {}
  <2>1. PICK x \in Wanted(r) : row' = [row EXCEPT ![r] = [id |-> x.id, hash |-> x.hash]]
    BY <1>3 DEF LoadContact
  <2> DEFINE I == {g.id : g \in {f \in Visible(r, fields) : f.uuid = target[r]}}
             step == IF kind[r] = "remove" THEN "fields"
                     ELSE IF row'[r].hash = Head(entries[r]) THEN "insertFields" ELSE "lock"
  <2>2. /\ pc' = [pc EXCEPT ![r] = step] /\ fieldsLeft' = [fieldsLeft EXCEPT ![r] = I]
        /\ UNCHANGED <<rows, fields, book, bookDeleter, kind, target, entries, todo, reply, told>>
    BY <1>3 DEF LoadContact, GoTo, table, phonebook, input
  <2>3. /\ RequestInv(r) /\ TableInv /\ Types /\ target[r] \in Nat
    BY <1>1 DEF PhonebookInv, RequestInv, Stage
  <2>4. /\ x \in rows /\ x.by = None /\ x.uuid = target[r] /\ x \in Versions
        /\ x.id[2] = target[r] /\ Born(x.id) /\ Ended(x.id[1])
    <3>1. x \in rows /\ x.by \in {None, r} /\ x.uuid = target[r]
      BY DEF Wanted, Visible
    <3>2. x.by # r
      BY <1>1, <2>3, <3>1 DEF RequestInv, Writes
    <3> QED
      BY <2>3, <3>1, <3>2 DEF TableInv, Shapes, Fitting, Rooted
  <2>5. [id |-> x.id, hash |-> x.hash] \in [id : Nat \X Nat, hash : Hashes]
    BY <2>4 DEF Versions
  <2>6. I \subseteq Nat \X Nat /\ \A i \in I : i[2] = target[r] /\ Ended(i[1])
    <3>1. ASSUME NEW g \in fields, g.by \in {None, r}, g.uuid = target[r]
          PROVE  g.id \in Nat \X Nat /\ g.id[2] = target[r] /\ Ended(g.id[1])
      <4>1. g.by # r
        BY <1>1, <2>3 DEF RequestInv, Writes
      <4> QED
        BY <2>3, <3>1, <4>1 DEF TableInv, Shapes, Versions, Fitting, Past
    <3> QED
      BY <3>1 DEF Visible
  <2>7. /\ pc'[r] = step /\ row'[r] = [id |-> x.id, hash |-> x.hash] /\ fieldsLeft'[r] = I
    BY <2>1, <2>2, <2>3 DEF Types, TypeOK
  <2>8. /\ step \in {"fields", "insertFields", "lock"}
        /\ kind[r] = "remove" <=> step = "fields"
        /\ step = "insertFields" => row'[r].hash = Head(entries[r])
        /\ step = "lock" => kind[r] = "edit" /\ row'[r].hash # Head(entries[r])
    BY <1>1
  <2> HIDE DEF step, I
  <2>9. EndedStays /\ \A q \in Requests \ {r} : Untouched(q)
    BY <1>1, <2>1, <2>2, <2>3 DEF EndedStays, Untouched, Types, TypeOK
  <2>10. TableInv' /\ TableStep(r) /\ NoCommit
    BY <2>2, <2>3, <2>9, NothingWritten DEF table
  <2>11. BookStep(r)
    BY <2>2 DEF BookStep
  <2>12. Types'
    BY <2>1, <2>2, <2>3, <2>5, <2>6, <2>8, <2>10, TableTypes DEF Types, TypeOK
  <2>13. RequestInv(r)'
    <3>1. Stage(r)'
      <4>1. Ended(x.id[1])' /\ \A i \in I : Ended(i[1])'
        BY <2>4, <2>6, <2>7, <2>9, EndedRemains
      <4>2. /\ row'[r].id \in Nat \X Nat /\ Born(row'[r].id)
            /\ row'[r].id[2] = target[r]
        BY <2>4, <2>7 DEF Versions
      <4>3. step = "lock" => Rewrites(r)'
        BY <2>2, <2>8 DEF Rewrites
      <4> QED
        BY <1>1, <2>2, <2>3, <2>6, <2>7, <2>8, <4>1, <4>2, <4>3 DEF RequestInv, Stage, Born
    <3>2. Writes(r)' /\ Deletes(r)'
      <4>1. step # "lock" => ~Rewrites(r)'
        <5>1. step = "insertFields" => ~Rewrites(r)'
          BY <2>2, <2>8 DEF Rewrites
        <5>2. step = "fields" => kind'[r] # "edit"
          BY <2>2, <2>8
        <5> QED
          BY <2>8, <5>1, <5>2 DEF Rewrites
      <4>2. \A y \in rows \cup fields : y.by # r /\ y.del # r
        BY <1>1, <2>3 DEF RequestInv, Writes, Deletes
      <4> QED
        BY <1>1, <2>2, <2>7, <2>8, <4>1, <4>2 DEF Writes, Deletes
    <3>3. Known(r)'
      BY <1>1, <2>2, <2>3, <2>7, <2>9 DEF RequestInv, Known, EndedStays, NewUuid
    <3>4. Gone(r)' /\ Closing(r)'
      BY <1>1, <2>2, <2>3, <2>7, <2>8 DEF RequestInv, Gone, Closing
    <3> QED
      BY <3>1, <3>2, <3>3, <3>4 DEF RequestInv
  <2>14. NoBook' /\ NothingLost'
    BY <2>2, <2>10, QuietStep
  <2> QED
    BY <1>1, <2>9, <2>10, <2>11, <2>12, <2>13, <2>14, OwnStep DEF Quiet
<1> QED
  BY <1>2, <1>3

(* Whoever a row waits for: without them it may be changed.                 *)
LEMMA Unused ==
  ASSUME NEW r \in Requests, NEW x \in rows, RowUsers(r, x) = {}, \A g \in fields : g.by # r
  PROVE  x.del \in {None, r} /\ \A g \in fields : g.uuid = x.uuid => g.by = None
BY DEF RowUsers, Holders

LEMMA UnusedLoaded ==
  ASSUME NEW r \in Requests, LoadedUsers(r) = {}, \A g \in fields : g.by # r
  PROVE  \A x \in Loaded(r) :
           /\ x \in rows /\ x.by = None /\ x.id = row[r].id /\ x.del \in {None, r}
           /\ \A g \in fields : g.uuid = x.uuid => g.by = None
<1>1. \A x \in Loaded(r) : x \in rows /\ x.by = None /\ x.id = row[r].id /\ RowUsers(r, x) = {}
  BY DEF LoadedUsers, Loaded, RowOf, Committed
<1> QED
  BY <1>1, Unused

(* All versions of the contact that r edits or removes are of one row.      *)
LEMMA TargetRow ==
  ASSUME PhonebookInv, NEW r \in Requests, kind[r] \in {"edit", "remove"},
         pc[r] \notin {"load", "done"}, NEW x \in rows, x.uuid = target[r]
  PROVE  x.id = row[r].id /\ ~Inserted(x)
<1>1. /\ Born(row[r].id) /\ row[r].id[2] = target[r] /\ target[r] \in Nat
      /\ row[r].id \in Nat \X Nat
  <2>1. pc[r] # "idle"
    BY PhonebookAssumption DEF PhonebookInv, RequestInv, Stage
  <2> QED
    BY <2>1 DEF PhonebookInv, RequestInv, Stage
<1>2. /\ Born(x.id) /\ x.id[2] = x.uuid /\ x.id \in Nat \X Nat
      /\ x.by \in Requests \cup {None}
  BY DEF PhonebookInv, TableInv, Rooted, Fitting, Shapes, Versions
<1>3. x.id[1] = row[r].id[1]
  BY <1>1, <1>2, NewUuidsDiffer, NewUuidIsNew DEF Born
<1>4. ~Inserted(x)
  <2> SUFFICES ASSUME x.by # None, x.by = x.id[1] PROVE FALSE
    BY DEF Inserted
  <2>1. x.by \in Requests /\ x.by # 0
    BY <1>2, TableAssumption
  <2>2. PICK n \in 1..MaxEntries : target[r] = NewUuid(x.by, n)
    BY <1>2, <2>1 DEF Born
  <2>3. pc[x.by] = "done"
    BY <2>1, <2>2 DEF PhonebookInv, RequestInv, Known
  <2> QED
    BY <2>1, <2>3 DEF PhonebookInv, RequestInv, Writes
<1> QED
  BY <1>1, <1>2, <1>3, <1>4

LEMMA KnownKeeps ==
  ASSUME PhonebookInv, EndedStays, NEW r \in Requests, pc[r] \notin {"insert", "done"},
         target'[r] = target[r],
         \A y \in rows' \cup fields' :
           y.uuid = target[r] \/ \E x \in rows \cup fields : x.uuid = y.uuid
  PROVE  Known(r)'
<1>1. Known(r)
  BY DEF PhonebookInv, RequestInv
<1>2. \A y \in rows' \cup fields', n \in 1..MaxEntries : y.uuid # NewUuid(r, n)
  BY <1>1 DEF Known
<1>3. \A q \in Requests, n \in 1..MaxEntries : target'[r] = NewUuid(q, n) => pc'[q] = "done"
  BY <1>1 DEF Known, EndedStays
<1> QED
  BY <1>2, <1>3 DEF Known, NewUuid

LEMMA LockContactKeeps ==
  ASSUME PhonebookInv, NEW r \in Requests, LockContact(r)
  PROVE  PhonebookInv' /\ Quiet(r)
<1>1. pc[r] = "lock"
  BY DEF LockContact
<1>2. CASE Loaded(r) = {}
  BY <1>1, <1>2, AbortKeeps DEF LockContact
<1>3. CASE Loaded(r) # {}
  <2>1. /\ LoadedUsers(r) = {} /\ rows' = Marked(r, rows, Loaded(r))
        /\ pc' = [pc EXCEPT ![r] = "write"]
        /\ UNCHANGED <<fields, book, bookDeleter, kind, target, entries, row, fieldsLeft, todo,
                       reply, told>>
    BY <1>3 DEF LockContact, GoTo, phonebook, input, work
  <2>2. RequestInv(r) /\ TableInv /\ Types /\ kind[r] = "edit" /\ Rewrites(r)
    BY <1>1 DEF PhonebookInv, RequestInv, Stage
  <2>3. pc'[r] = "write"
    BY <2>1, <2>2 DEF Types, TypeOK
  <2>4. EndedStays /\ \A q \in Requests \ {r} : Untouched(q)
    BY <1>1, <2>1, <2>2 DEF EndedStays, Untouched, Types, TypeOK
  <2>5. \A y \in rows \cup fields : y.by # r /\ y.del # r
    BY <1>1, <2>2 DEF RequestInv, Writes, Deletes
  <2>6. \A x \in Loaded(r) :
          /\ x \in rows /\ x.by = None /\ x.id = row[r].id /\ x.del \in {None, r}
          /\ \A g \in fields : g.uuid = x.uuid => g.by = None
    BY <2>1, <2>5, UnusedLoaded
  <2>7. /\ TableInv' /\ TableStep(r) /\ NoCommit
        /\ \A y \in rows' : \E x \in rows :
             /\ y.id = x.id /\ y.uuid = x.uuid /\ y.hash = x.hash /\ y.by = x.by
             /\ IF x \in Loaded(r) THEN y.del = r ELSE y = x
        /\ \A x \in rows : \E y \in rows' :
             /\ y.id = x.id /\ y.uuid = x.uuid /\ y.hash = x.hash /\ y.by = x.by
             /\ IF x \in Loaded(r) THEN y.del = r ELSE y = x
    <3>1. Loaded(r) \in SUBSET rows
      BY <2>6
    <3> QED
      BY <2>1, <2>2, <2>4, <2>6, <3>1, MarkRows
  <2>8. BookStep(r)
    BY <2>1 DEF BookStep
  <2>9. Types'
    BY <2>1, <2>2, <2>7, TableTypes DEF Types, TypeOK
  <2>10. RequestInv(r)'
    <3>1. Rewrites(r)'
      BY <2>1, <2>2 DEF Rewrites
    <3>2. Stage(r)'
      <4>1. \A i : Ended(i) => Ended(i)'
        BY <2>4, EndedRemains
      <4> QED
        BY <1>1, <2>1, <2>2, <2>3, <3>1, <4>1 DEF RequestInv, Stage
    <3>3. Writes(r)'
      <4>1. \E x \in rows' : x.by = None /\ x.id = row[r].id /\ x.del = r
        BY <1>3, <2>6, <2>7
      <4> QED
        BY <2>1, <2>3, <2>5, <2>7, <4>1 DEF Writes
    <3>4. Deletes(r)'
      <4>1. \A y \in rows' : y.del = r => y.id = row[r].id
        BY <2>5, <2>6, <2>7
      <4> QED
        BY <2>1, <2>3, <2>5, <3>1, <4>1 DEF Deletes
    <3>5. Known(r)'
      BY <1>1, <2>1, <2>4, <2>7, KnownKeeps
    <3>6. Gone(r)' /\ Closing(r)'
      BY <1>1, <2>1, <2>2, <2>3 DEF RequestInv, Gone, Closing
    <3> QED
      BY <3>2, <3>3, <3>4, <3>5, <3>6 DEF RequestInv
  <2>11. NoBook' /\ NothingLost'
    BY <2>1, <2>7, QuietStep
  <2> QED
    BY <1>1, <2>4, <2>7, <2>8, <2>9, <2>10, <2>11, OwnStep DEF Quiet
<1> QED
  BY <1>2, <1>3

LEMMA WriteHashKeeps ==
  ASSUME PhonebookInv, NEW r \in Requests, WriteHash(r)
  PROVE  PhonebookInv' /\ Quiet(r)
<1>1. /\ pc[r] = "write" /\ EditRivals(r) = {} /\ pc' = [pc EXCEPT ![r] = "insertFields"]
      /\ rows' = rows \cup {[x EXCEPT !.hash = Head(entries[r]), !.by = r, !.del = None] :
                              x \in Loaded(r)}
      /\ UNCHANGED <<fields, book, bookDeleter, kind, target, entries, row, fieldsLeft, todo,
                     reply, told>>
  BY DEF WriteHash, GoTo, phonebook, input, work
<1>2. RequestInv(r) /\ TableInv /\ Types /\ kind[r] = "edit" /\ Rewrites(r)
  BY <1>1 DEF PhonebookInv, RequestInv, Stage
<1>3. pc'[r] = "insertFields"
  BY <1>1, <1>2 DEF Types, TypeOK
<1>4. EndedStays /\ \A q \in Requests \ {r} : Untouched(q)
  BY <1>1, <1>2 DEF EndedStays, Untouched, Types, TypeOK
<1>5. TableInv' /\ TableStep(r) /\ NoCommit
  BY <1>1, <1>4, WriteTable
<1>6. PICK v : /\ rows' = rows \cup {v}
               /\ v.id = row[r].id /\ v.uuid = target[r] /\ v.hash = Head(entries[r])
               /\ v.by = r /\ v.del = None
  BY <1>1, <1>4, WriteTable
<1>7. BookStep(r)
  BY <1>1 DEF BookStep
<1>8. Types'
  BY <1>1, <1>2, <1>5, TableTypes DEF Types, TypeOK
<1>9. RequestInv(r)'
  <2>1. Rewrites(r)' /\ r # None
    BY <1>1, <1>2, TableAssumption DEF Rewrites
  <2>2. Stage(r)'
    <3>1. \A i : Ended(i) => Ended(i)'
      BY <1>4, EndedRemains
    <3> QED
      BY <1>1, <1>2, <1>3, <3>1 DEF RequestInv, Stage
  <2>3. Writes(r)'
    BY <1>1, <1>2, <1>3, <1>6, <2>1 DEF RequestInv, Writes
  <2>4. Deletes(r)'
    BY <1>1, <1>2, <1>3, <1>6, <2>1 DEF RequestInv, Deletes
  <2>5. Known(r)'
    BY <1>1, <1>4, <1>6, KnownKeeps
  <2>6. Gone(r)' /\ Closing(r)'
    BY <1>1, <1>2, <1>3 DEF RequestInv, Gone, Closing
  <2> QED
    BY <2>2, <2>3, <2>4, <2>5, <2>6 DEF RequestInv
<1>10. NoBook' /\ NothingLost'
  <2>1. book
    <3>1. \E x \in rows : x.id = row[r].id
      BY <1>1, <1>2 DEF RequestInv, Writes
    <3> QED
      BY <3>1 DEF PhonebookInv, NoBook
  <2> QED
    BY <1>1, <1>5, <2>1, QuietStep
<1> QED
  BY <1>1, <1>4, <1>5, <1>7, <1>8, <1>9, <1>10, OwnStep DEF Quiet

LEMMA InsertFieldsKeeps ==
  ASSUME PhonebookInv, NEW r \in Requests, InsertFields(r)
  PROVE  PhonebookInv' /\ Quiet(r)
<1> DEFINE X == {x \in rows : x.uuid = target[r] /\ x.by \in {None, r} /\ x.del # r}
<1>1. /\ pc[r] = "insertFields"
      /\ IF X = {} THEN Abort(r, "crash")
         ELSE /\ Holders(r, X) = {}
              /\ fields' = fields \cup {Version(r, target[r], Head(entries[r]), r)}
              /\ GoTo(r, "fields")
              /\ UNCHANGED <<rows, phonebook, work>>
  BY DEF InsertFields
<1>2. CASE X = {}
  BY <1>1, <1>2, AbortKeeps
<1>3. CASE X # {}
  <2>1. PICK x \in rows : x.uuid = target[r] /\ x.by \in {None, r} /\ x.del = None
    <3>1. PICK x \in X : TRUE
      BY <1>3
    <3>2. x.del \in {None, r}
      BY <1>1, <1>3, <3>1 DEF Holders
    <3> QED
      BY <3>1, <3>2
  <2>2. /\ pc' = [pc EXCEPT ![r] = "fields"]
        /\ fields' = fields \cup {Version(r, target[r], Head(entries[r]), r)}
        /\ UNCHANGED <<rows, book, bookDeleter, kind, target, entries, row, fieldsLeft, todo,
                       reply, told>>
    BY <1>1, <1>3 DEF GoTo, phonebook, input, work
  <2>3. RequestInv(r) /\ TableInv /\ Types /\ kind[r] = "edit" /\ Len(entries[r]) = 1
    BY <1>1 DEF PhonebookInv, RequestInv, Stage
  <2>4. pc'[r] = "fields"
    BY <2>2, <2>3 DEF Types, TypeOK
  <2>5. EndedStays /\ \A q \in Requests \ {r} : Untouched(q)
    BY <1>1, <2>2, <2>3 DEF EndedStays, Untouched, Types, TypeOK
  <2>6. Head(entries[r]) \in Hashes
    <3>1. entries[r] \in Seq(Hashes)
      BY <2>3 DEF Types, TypeOK
    <3> QED
      BY <2>3, <3>1, HeadOfOne
  <2>7. TableInv' /\ TableStep(r) /\ NoCommit
    BY <1>1, <2>1, <2>2, <2>5, <2>6, InsertFieldsTable
  <2> DEFINE v == Version(r, target[r], Head(entries[r]), r)
  <2>8. /\ fields' = fields \cup {v}
        /\ v.uuid = target[r] /\ v.hash = Head(entries[r]) /\ v.by = r /\ v.del = None
    BY <2>2 DEF Version
  <2> HIDE DEF v
  <2>9. BookStep(r)
    BY <2>2 DEF BookStep
  <2>10. Types'
    BY <2>2, <2>3, <2>7, TableTypes DEF Types, TypeOK
  <2>11. RequestInv(r)'
    <3>1. Rewrites(r)' = Rewrites(r) /\ r # None
      BY <2>2, TableAssumption DEF Rewrites
    <3>2. Stage(r)'
      <4>1. \A i : Ended(i) => Ended(i)'
        BY <2>5, EndedRemains
      <4> QED
        BY <1>1, <2>2, <2>3, <2>4, <4>1 DEF RequestInv, Stage
    <3>3. Writes(r)'
      BY <1>1, <2>2, <2>3, <2>4, <2>8, <3>1 DEF RequestInv, Writes
    <3>4. Deletes(r)'
      BY <1>1, <2>2, <2>3, <2>4, <2>8, <3>1 DEF RequestInv, Deletes
    <3>5. Known(r)'
      BY <1>1, <2>2, <2>5, <2>8, KnownKeeps
    <3>6. Gone(r)' /\ Closing(r)'
      BY <1>1, <2>2, <2>3, <2>4 DEF RequestInv, Gone, Closing
    <3> QED
      BY <3>2, <3>3, <3>4, <3>5, <3>6 DEF RequestInv
  <2>12. NoBook' /\ NothingLost'
    <3>1. book
      BY <2>1 DEF PhonebookInv, NoBook
    <3> QED
      BY <2>2, <2>7, <3>1, QuietStep
  <2> QED
    BY <1>1, <2>5, <2>7, <2>9, <2>10, <2>11, <2>12, OwnStep DEF Quiet
<1> QED
  BY <1>2, <1>3

LEMMA DeleteLoadedFieldsKeeps ==
  ASSUME PhonebookInv, NEW r \in Requests, DeleteLoadedFields(r)
  PROVE  PhonebookInv' /\ Quiet(r)
<1> DEFINE step == IF kind[r] = "edit" THEN "commit" ELSE "delete"
           D == FieldsOf(fieldsLeft[r])
<1>1. /\ pc[r] = "fields" /\ pc' = [pc EXCEPT ![r] = step]
      /\ Holders(r, D) = {} /\ fields' = Marked(r, fields, D)
      /\ fieldsLeft' = [fieldsLeft EXCEPT ![r] = {}]
      /\ UNCHANGED <<rows, book, bookDeleter, kind, target, entries, row, todo, reply, told>>
  BY DEF DeleteLoadedFields, DeleteFields, GoTo, phonebook, input
<1>2. RequestInv(r) /\ TableInv /\ Types /\ kind[r] \in {"edit", "remove"}
  BY <1>1 DEF PhonebookInv, RequestInv, Stage
<1>3. pc'[r] = step /\ fieldsLeft'[r] = {}
  BY <1>1, <1>2 DEF Types, TypeOK
<1>4. EndedStays /\ \A q \in Requests \ {r} : Untouched(q)
  BY <1>1, <1>2 DEF EndedStays, Untouched, Types, TypeOK
<1>5. \A x \in D : x \in fields /\ x.by = None /\ x.del \in {None, r} /\ x.uuid = target[r]
  <2>1. \A x \in D : x \in fields /\ x.by = None /\ x.id[2] = target[r]
    BY <1>2 DEF FieldsOf, Committed, RequestInv, Stage
  <2>2. \A x \in D : x.del \in {None, r}
    BY <1>1 DEF Holders
  <2> QED
    BY <1>2, <2>1, <2>2 DEF TableInv, Fitting
<1>6. /\ step \in {"commit", "delete"}
      /\ step = "commit" <=> kind[r] = "edit"
      /\ step = "delete" <=> kind[r] = "remove"
  BY <1>2
<1> HIDE DEF D, step
<1>7. /\ TableInv' /\ TableStep(r) /\ NoCommit
      /\ \A y \in fields' : \E x \in fields :
           /\ y.id = x.id /\ y.uuid = x.uuid /\ y.hash = x.hash /\ y.by = x.by
           /\ IF x \in D THEN y.del = r ELSE y = x
      /\ \A x \in fields : \E y \in fields' :
           /\ y.id = x.id /\ y.uuid = x.uuid /\ y.hash = x.hash /\ y.by = x.by
           /\ IF x \in D THEN y.del = r ELSE y = x
  <2>1. D \in SUBSET fields
    BY <1>5
  <2> QED
    BY <1>1, <1>2, <1>4, <1>5, <2>1, MarkFields
<1>8. BookStep(r)
  BY <1>1 DEF BookStep
<1>9. Types'
  BY <1>1, <1>2, <1>6, <1>7, TableTypes DEF Types, TypeOK
<1>10. RequestInv(r)'
  <2>1. Rewrites(r)' = Rewrites(r)
    BY <1>1 DEF Rewrites
  <2>2. Stage(r)'
    <3>1. \A i : Ended(i) => Ended(i)'
      BY <1>4, EndedRemains
    <3> QED
      BY <1>1, <1>2, <1>3, <1>6, <3>1 DEF RequestInv, Stage
  <2>3. Writes(r)'
    <3>1. \A y \in fields' : y.by = r => \E x \in fields :
            x.by = r /\ y.uuid = x.uuid /\ y.hash = x.hash
      BY <1>7
    <3>2. \A x \in fields : x.by = r => \E y \in fields' : y.by = r /\ y.uuid = x.uuid
      BY <1>7
    <3>3. /\ \A y \in fields' : y.by = r =>
               kind[r] = "edit" /\ y.uuid = target[r] /\ y.hash = Head(entries[r])
          /\ kind[r] = "edit" => \E y \in fields' : y.by = r /\ y.uuid = target[r]
      BY <1>1, <1>2, <3>1, <3>2 DEF RequestInv, Writes
    <3>4. /\ \A x \in rows : x.by = r =>
               kind[r] = "edit" /\ Rewrites(r) /\ x.id = row[r].id /\ x.hash = Head(entries[r])
          /\ kind[r] = "edit" /\ Rewrites(r) => \E x \in rows : x.by = r /\ x.id = row[r].id
      BY <1>1, <1>2 DEF RequestInv, Writes, Rewrites
    <3> QED
      BY <1>1, <1>3, <1>6, <2>1, <3>3, <3>4 DEF Writes
  <2>4. Deletes(r)'
    <3>1. \A y \in fields' : y.del = r => y.uuid = target[r]
      <4>1. \A x \in fields : x.del # r
        BY <1>1, <1>2 DEF RequestInv, Deletes
      <4> QED
        BY <1>5, <1>7, <4>1
    <3>2. \A x \in rows : x.del = r => Rewrites(r) /\ x.id = row[r].id /\ kind[r] = "edit"
      BY <1>1, <1>2 DEF RequestInv, Deletes, Rewrites
    <3> QED
      BY <1>1, <1>2, <1>3, <1>6, <2>1, <3>1, <3>2 DEF Deletes
  <2>5. Known(r)'
    BY <1>1, <1>4, <1>7, KnownKeeps
  <2>6. Gone(r)' /\ Closing(r)'
    BY <1>1, <1>2, <1>3, <1>6 DEF RequestInv, Gone, Closing
  <2> QED
    BY <2>2, <2>3, <2>4, <2>5, <2>6 DEF RequestInv
<1>11. NoBook' /\ NothingLost'
  BY <1>1, <1>7, QuietStep
<1> QED
  BY <1>1, <1>4, <1>7, <1>8, <1>9, <1>10, <1>11, OwnStep DEF Quiet

LEMMA DeleteContactKeeps ==
  ASSUME PhonebookInv, NEW r \in Requests, DeleteContact(r)
  PROVE  PhonebookInv' /\ Quiet(r)
<1> DEFINE D == Loaded(r)
           step == IF D = {} THEN "commit" ELSE "cascade"
<1>1. /\ pc[r] = "delete" /\ pc' = [pc EXCEPT ![r] = step]
      /\ IF D = {} THEN rows' = rows ELSE LoadedUsers(r) = {} /\ rows' = Marked(r, rows, D)
      /\ UNCHANGED <<fields, book, bookDeleter, kind, target, entries, row, fieldsLeft, todo,
                     reply, told>>
  BY DEF DeleteContact, DeleteRow, Loaded, GoTo, table, phonebook, input, work
<1>2. RequestInv(r) /\ TableInv /\ Types /\ kind[r] = "remove" /\ fieldsLeft[r] = {}
  BY <1>1 DEF PhonebookInv, RequestInv, Stage
<1>3. pc'[r] = step
  BY <1>1, <1>2 DEF Types, TypeOK
<1>4. EndedStays /\ \A q \in Requests \ {r} : Untouched(q)
  BY <1>1, <1>2 DEF EndedStays, Untouched, Types, TypeOK
<1>5. (\A y \in rows : y.by # r /\ y.del # r) /\ \A y \in fields : y.by # r
  BY <1>1, <1>2 DEF RequestInv, Writes, Deletes
<1>6. \A x \in D :
        /\ x \in rows /\ x.by = None /\ x.id = row[r].id /\ x.del \in {None, r}
        /\ \A g \in fields : g.uuid = x.uuid => g.by = None
  BY <1>1, <1>5, UnusedLoaded
<1>7. /\ TableInv' /\ TableStep(r) /\ NoCommit
      /\ \A y \in rows' : \E x \in rows :
           /\ y.id = x.id /\ y.uuid = x.uuid /\ y.hash = x.hash /\ y.by = x.by
           /\ IF x \in D THEN y.del = r ELSE y = x
  <2>1. CASE D = {}
    <3>1. UNCHANGED table
      BY <1>1, <2>1 DEF table
    <3> QED
      BY <1>1, <1>2, <1>4, <2>1, <3>1, NothingWritten
  <2>2. CASE D # {}
    <3>1. D \in SUBSET rows
      BY <1>6
    <3>2. rows' = Marked(r, rows, D) /\ fields' = fields
      BY <1>1, <2>2
    <3> QED
      BY <1>2, <1>4, <1>6, <3>1, <3>2, MarkRows
  <2> QED
    BY <2>1, <2>2
<1>8. BookStep(r)
  BY <1>1 DEF BookStep
<1>9. step \in {"commit", "cascade"} /\ (step = "commit" => D = {})
  OBVIOUS
<1>10. \A x \in rows : x.uuid = target[r] => x \in D
  <2> SUFFICES ASSUME NEW x \in rows, x.uuid = target[r] PROVE x \in D
    OBVIOUS
  <2>1. x.id = row[r].id /\ ~Inserted(x)
    BY <1>1, <1>2, TargetRow
  <2>2. CASE x.by = None
    BY <2>1, <2>2 DEF Loaded, RowOf, Committed
  <2>3. CASE x.by # None
    <3>1. PICK y \in rows : y.by = None /\ y.id = x.id /\ y.del = x.by
      BY <1>2, <2>1, <2>3 DEF TableInv, Updated
    <3>2. y \in D
      BY <2>1, <3>1 DEF Loaded, RowOf, Committed
    <3> QED
      BY <1>5, <1>6, <2>3, <3>1, <3>2
  <2> QED
    BY <2>2, <2>3
<1> HIDE DEF D, step
<1>11. Types'
  BY <1>1, <1>2, <1>7, <1>9, TableTypes DEF Types, TypeOK
<1>12. RequestInv(r)'
  <2>1. Stage(r)'
    <3>1. \A i : Ended(i) => Ended(i)'
      BY <1>4, EndedRemains
    <3> QED
      BY <1>1, <1>2, <1>3, <1>9, <3>1 DEF RequestInv, Stage
  <2>2. Writes(r)'
    BY <1>1, <1>2, <1>3, <1>5, <1>7, <1>9 DEF Writes, Rewrites
  <2>3. Deletes(r)'
    <3>1. \A y \in rows' : y.del = r => step = "cascade" /\ y.id = row[r].id
      BY <1>5, <1>6, <1>7, <1>9
    <3>2. \A g \in fields : g.del = r => g.uuid = target[r]
      BY <1>1, <1>2 DEF RequestInv, Deletes
    <3> QED
      BY <1>1, <1>2, <1>3, <1>9, <3>1, <3>2 DEF Deletes
  <2>4. Known(r)'
    BY <1>1, <1>4, <1>7, KnownKeeps
  <2>5. Gone(r)'
    <3>1. \A y \in rows' : y.uuid = target[r] => y.del = r
      BY <1>7, <1>10
    <3>2. reply[r] = None
      BY <1>1, <1>2 DEF RequestInv, Stage
    <3> QED
      BY <1>1, <1>2, <3>1, <3>2, PhonebookAssumption DEF Gone
  <2>6. Closing(r)'
    BY <1>1, <1>2, <1>3, <1>9 DEF RequestInv, Closing
  <2> QED
    BY <2>1, <2>2, <2>3, <2>4, <2>5, <2>6 DEF RequestInv
<1>13. NoBook' /\ NothingLost'
  BY <1>1, <1>7, QuietStep
<1> QED
  BY <1>1, <1>4, <1>7, <1>8, <1>11, <1>12, <1>13, OwnStep DEF Quiet

LEMMA CascadeContactKeeps ==
  ASSUME PhonebookInv, NEW r \in Requests, CascadeContact(r)
  PROVE  PhonebookInv' /\ Quiet(r)
<1> DEFINE D == Dependent(r, target[r])
<1>1. /\ pc[r] = "cascade" /\ kind[r] = "remove" /\ pc' = [pc EXCEPT ![r] = "commit"]
      /\ Holders(r, D) = {} /\ fields' = Marked(r, fields, D)
      /\ UNCHANGED <<rows, book, bookDeleter, kind, target, entries, row, fieldsLeft, todo, reply,
                     told>>
  BY DEF CascadeContact, Cascade, GoTo, phonebook, input, work
<1>2. RequestInv(r) /\ TableInv /\ Types
  BY DEF PhonebookInv
<1>3. pc'[r] = "commit"
  BY <1>1, <1>2 DEF Types, TypeOK
<1>4. EndedStays /\ \A q \in Requests \ {r} : Untouched(q)
  BY <1>1, <1>2 DEF EndedStays, Untouched, Types, TypeOK
<1>5. \A x \in rows \cup fields : x.by # r
  BY <1>1, <1>2 DEF RequestInv, Writes
<1>6. \A x \in D : x \in fields /\ x.by = None /\ x.del \in {None, r} /\ x.uuid = target[r]
  <2>1. \A x \in D : x \in fields /\ x.by \in {None, r} /\ x.uuid = target[r]
    BY DEF Dependent, Visible
  <2>2. \A x \in D : x.del \in {None, r}
    BY <1>1 DEF Holders
  <2> QED
    BY <1>5, <2>1, <2>2
<1> HIDE DEF D
<1>7. /\ TableInv' /\ TableStep(r) /\ NoCommit
      /\ \A y \in fields' : \E x \in fields :
           /\ y.id = x.id /\ y.uuid = x.uuid /\ y.hash = x.hash /\ y.by = x.by
           /\ IF x \in D THEN y.del = r ELSE y = x
  <2>1. D \in SUBSET fields
    BY <1>6
  <2> QED
    BY <1>1, <1>2, <1>4, <1>6, <2>1, MarkFields
<1>8. BookStep(r)
  BY <1>1 DEF BookStep
<1>9. Types'
  BY <1>1, <1>2, <1>7, TableTypes DEF Types, TypeOK
<1>10. RequestInv(r)'
  <2>1. Stage(r)'
    <3>1. \A i : Ended(i) => Ended(i)'
      BY <1>4, EndedRemains
    <3>2. fieldsLeft[r] = {}
      BY <1>1, <1>2 DEF RequestInv, Stage
    <3> QED
      BY <1>1, <1>2, <1>3, <3>1, <3>2 DEF RequestInv, Stage
  <2>2. Writes(r)'
    BY <1>1, <1>2, <1>3, <1>5, <1>7 DEF Writes, Rewrites
  <2>3. Deletes(r)'
    <3>1. \A y \in fields' : y.del = r => y.uuid = target[r]
      <4>1. \A x \in fields : x.del = r => x.uuid = target[r]
        BY <1>1, <1>2 DEF RequestInv, Deletes
      <4> QED
        BY <1>6, <1>7, <4>1
    <3> QED
      BY <1>1, <1>2, <1>3, <3>1 DEF RequestInv, Deletes
  <2>4. Known(r)'
    BY <1>1, <1>4, <1>7, KnownKeeps
  <2>5. Gone(r)' /\ Closing(r)'
    BY <1>1, <1>2, <1>3 DEF RequestInv, Gone, Closing
  <2> QED
    BY <2>1, <2>2, <2>3, <2>4, <2>5 DEF RequestInv
<1>11. NoBook' /\ NothingLost'
  BY <1>1, <1>7, QuietStep
<1> QED
  BY <1>1, <1>4, <1>7, <1>8, <1>9, <1>10, <1>11, OwnStep DEF Quiet

LEMMA DeleteBookKeeps ==
  ASSUME PhonebookInv, NEW r \in Requests, DeleteBook(r)
  PROVE  PhonebookInv' /\ Quiet(r)
<1> DEFINE step == IF book THEN "cascadeRows" ELSE "commit"
<1>1. /\ pc[r] = "deleteBook" /\ pc' = [pc EXCEPT ![r] = step]
      /\ Inserters(r) = {} /\ bookDeleter = None /\ bookDeleter' = IF book THEN r ELSE None
      /\ UNCHANGED <<rows, fields, book, kind, target, entries, row, fieldsLeft, todo, reply, told>>
  BY DEF DeleteBook, GoTo, table, input, work
<1>2. RequestInv(r) /\ TableInv /\ Types /\ kind[r] = "removeBook" /\ r # None
  BY <1>1, TableAssumption DEF PhonebookInv, RequestInv, Stage
<1>3. pc'[r] = step
  BY <1>1, <1>2 DEF Types, TypeOK
<1>4. EndedStays /\ \A q \in Requests \ {r} : Untouched(q)
  BY <1>1, <1>2 DEF EndedStays, Untouched, Types, TypeOK
<1>5. TableInv' /\ TableStep(r) /\ NoCommit
  BY <1>1, <1>2, <1>4, NothingWritten DEF table
<1>6. BookStep(r)
  BY <1>1 DEF BookStep
<1>7. \A x \in rows : ~Inserted(x)
  <2>1. \A x \in rows : x.by # r
    BY <1>1, <1>2 DEF RequestInv, Writes
  <2> QED
    BY <1>1, <2>1 DEF Inserters, Inserted
<1>8. IF book THEN step = "cascadeRows" ELSE step = "commit"
  OBVIOUS
<1> HIDE DEF step
<1>9. Types'
  BY <1>1, <1>2, <1>5, <1>8, TableTypes DEF Types, TypeOK
<1>10. RequestInv(r)'
  <2>1. Stage(r)'
    <3>1. \A i : Ended(i) => Ended(i)'
      BY <1>4, EndedRemains
    <3> QED
      BY <1>1, <1>2, <1>3, <1>8, <3>1 DEF RequestInv, Stage
  <2>2. Writes(r)' /\ Deletes(r)'
    BY <1>1, <1>2, <1>3, <1>8 DEF RequestInv, Writes, Deletes, Rewrites
  <2>3. Known(r)'
    BY <1>1, <1>4, KnownKeeps
  <2>4. Gone(r)' /\ Closing(r)'
    <3>1. reply[r] = None
      BY <1>1, <1>2 DEF RequestInv, Stage
    <3> QED
      BY <1>1, <1>2, <1>3, <1>7, <1>8, <3>1, PhonebookAssumption DEF Gone, Closing, Inserted
  <2> QED
    BY <2>1, <2>2, <2>3, <2>4 DEF RequestInv
<1>11. NoBook' /\ NothingLost'
  BY <1>1, <1>5, QuietStep
<1> QED
  BY <1>1, <1>4, <1>5, <1>6, <1>9, <1>10, <1>11, OwnStep DEF Quiet

LEMMA CascadeRowKeeps ==
  ASSUME PhonebookInv, NEW r \in Requests, CascadeRow(r)
  PROVE  PhonebookInv' /\ Quiet(r)
<1>1. PICK x \in Visible(r, rows) : RowUsers(r, x) = {} /\ rows' = Marked(r, rows, {x})
  BY DEF CascadeRow
<1>2. /\ pc[r] = "cascadeRows"
      /\ UNCHANGED <<fields, book, bookDeleter, pc, kind, target, entries, row, fieldsLeft, todo,
                     reply, told>>
  BY DEF CascadeRow, phonebook, input, work
<1>3. /\ RequestInv(r) /\ TableInv /\ Types /\ kind[r] = "removeBook" /\ bookDeleter = r
      /\ \A y \in rows : ~Inserted(y)
  BY <1>2 DEF PhonebookInv, RequestInv, Stage, Closing
<1>4. EndedStays /\ \A q \in Requests \ {r} : Untouched(q)
  BY <1>2 DEF EndedStays, Untouched
<1>5. \A y \in rows \cup fields : y.by # r
  BY <1>2, <1>3 DEF RequestInv, Writes
<1>6. /\ x \in rows /\ x.by = None /\ x.del \in {None, r}
      /\ \A g \in fields : g.uuid = x.uuid => g.by = None
  <2>1. x \in rows /\ x.by = None
    BY <1>5 DEF Visible
  <2> QED
    BY <1>1, <1>5, <2>1, Unused
<1>7. /\ TableInv' /\ TableStep(r) /\ NoCommit
      /\ \A y \in rows' : \E z \in rows :
           y.id = z.id /\ y.uuid = z.uuid /\ y.hash = z.hash /\ y.by = z.by
  <2> DEFINE D == {x}
  <2>1. /\ D \in SUBSET rows /\ rows' = Marked(r, rows, D) /\ fields' = fields
        /\ \A z \in D : z.by = None /\ z.del \in {None, r}
        /\ \A z \in D, g \in fields : g.uuid = z.uuid => g.by = None
    BY <1>1, <1>2, <1>6
  <2> HIDE DEF D
  <2>2. /\ TableInv' /\ TableStep(r) /\ NoCommit
        /\ \A y \in rows' : \E z \in rows :
             /\ y.id = z.id /\ y.uuid = z.uuid /\ y.hash = z.hash /\ y.by = z.by
             /\ IF z \in D THEN y.del = r ELSE y = z
    BY <1>3, <1>4, <2>1, MarkRows
  <2> QED
    BY <2>2
<1>8. BookStep(r)
  BY <1>2 DEF BookStep
<1>9. Types'
  BY <1>2, <1>3, <1>7, TableTypes DEF Types, TypeOK
<1>10. RequestInv(r)'
  <2>1. Stage(r)'
    <3>1. \A i : Ended(i) => Ended(i)'
      BY <1>4, EndedRemains
    <3> QED
      BY <1>2, <1>3, <3>1 DEF RequestInv, Stage, Rewrites
  <2>2. Writes(r)'
    BY <1>2, <1>3, <1>5, <1>7 DEF Writes, Rewrites
  <2>3. Deletes(r)'
    BY <1>2, <1>3 DEF RequestInv, Deletes, Rewrites
  <2>4. Known(r)'
    BY <1>2, <1>4, <1>7, KnownKeeps
  <2>5. Gone(r)'
    BY <1>2, <1>3 DEF Gone
  <2>6. Closing(r)'
    <3>1. \A y \in rows' : ~Inserted(y)
      BY <1>3, <1>7 DEF Inserted
    <3> QED
      BY <1>2, <1>3, <3>1 DEF RequestInv, Closing, Inserted
  <2> QED
    BY <2>1, <2>2, <2>3, <2>4, <2>5, <2>6 DEF RequestInv
<1>11. NoBook' /\ NothingLost'
  BY <1>2, <1>6, <1>7, QuietStep
<1> QED
  BY <1>2, <1>4, <1>7, <1>8, <1>9, <1>10, <1>11, OwnStep DEF Quiet

LEMMA CascadeFieldsKeeps ==
  ASSUME PhonebookInv, NEW r \in Requests, CascadeFields(r)
  PROVE  PhonebookInv' /\ Quiet(r)
<1> DEFINE D == Visible(r, fields)
<1>1. /\ pc[r] = "cascadeRows" /\ pc' = [pc EXCEPT ![r] = "commit"]
      /\ Visible(r, rows) = {} /\ Holders(r, D) = {} /\ fields' = Marked(r, fields, D)
      /\ UNCHANGED <<rows, book, bookDeleter, kind, target, entries, row, fieldsLeft, todo, reply,
                     told>>
  BY DEF CascadeFields, GoTo, phonebook, input, work
<1>2. /\ RequestInv(r) /\ TableInv /\ Types /\ kind[r] = "removeBook" /\ bookDeleter = r
      /\ (\A y \in rows : ~Inserted(y)) /\ r # None
  BY <1>1, TableAssumption DEF PhonebookInv, RequestInv, Stage, Closing
<1>3. pc'[r] = "commit"
  BY <1>1, <1>2 DEF Types, TypeOK
<1>4. EndedStays /\ \A q \in Requests \ {r} : Untouched(q)
  BY <1>1, <1>2 DEF EndedStays, Untouched, Types, TypeOK
<1>5. \A x \in rows \cup fields : x.by # r
  BY <1>1, <1>2 DEF RequestInv, Writes
<1>6. \A x \in rows : x.by = None /\ x.del = r
  <2>1. \A x \in rows : x.by = None => x.del = r
    BY <1>1 DEF Visible
  <2>2. ASSUME NEW x \in rows, x.by # None PROVE FALSE
    <3>1. PICK y \in rows : y.by = None /\ y.del = x.by
      BY <1>2, <2>2 DEF TableInv, Updated
    <3> QED
      BY <1>5, <2>1, <3>1
  <2> QED
    BY <2>1, <2>2
<1>7. \A g \in fields : g.by = None
  <2> SUFFICES ASSUME NEW g \in fields, g.by # None PROVE FALSE
    OBVIOUS
  <2>1. \E x \in rows : x.del = None
    BY <1>2 DEF TableInv, Backed
  <2> QED
    BY <1>2, <1>6, <2>1
<1>8. \A x \in D : x \in fields /\ x.by = None /\ x.del \in {None, r}
  <2>1. \A x \in D : x.del \in {None, r}
    BY <1>1 DEF Holders
  <2> QED
    BY <1>7, <2>1 DEF Visible
<1>9. \A x \in fields : x \in D \/ x.del = r
  BY <1>7 DEF Visible
<1> HIDE DEF D
<1>10. /\ TableInv' /\ TableStep(r) /\ NoCommit
       /\ \A y \in fields' : \E x \in fields :
            /\ y.id = x.id /\ y.uuid = x.uuid /\ y.hash = x.hash /\ y.by = x.by
            /\ IF x \in D THEN y.del = r ELSE y = x
  <2>1. D \in SUBSET fields
    BY <1>8
  <2> QED
    BY <1>1, <1>2, <1>4, <1>8, <2>1, MarkFields
<1>11. BookStep(r)
  BY <1>1 DEF BookStep
<1>12. Types'
  BY <1>1, <1>2, <1>10, TableTypes DEF Types, TypeOK
<1>13. RequestInv(r)'
  <2>1. Stage(r)'
    <3>1. \A i : Ended(i) => Ended(i)'
      BY <1>4, EndedRemains
    <3> QED
      BY <1>1, <1>2, <1>3, <3>1 DEF RequestInv, Stage
  <2>2. Writes(r)'
    BY <1>1, <1>2, <1>3, <1>5, <1>10 DEF Writes, Rewrites
  <2>3. Deletes(r)'
    BY <1>1, <1>2, <1>3 DEF Deletes
  <2>4. Known(r)'
    BY <1>1, <1>4, <1>10, KnownKeeps
  <2>5. Gone(r)'
    BY <1>1, <1>2 DEF Gone
  <2>6. Closing(r)'
    <3>1. \A y \in fields' : y.by = None /\ y.del = r
      BY <1>7, <1>9, <1>10
    <3> QED
      BY <1>1, <1>2, <1>3, <1>6, <3>1 DEF RequestInv, Closing, Inserted
  <2> QED
    BY <2>1, <2>2, <2>3, <2>4, <2>5, <2>6 DEF RequestInv
<1>14. NoBook' /\ NothingLost'
  BY <1>1, <1>10, QuietStep
<1> QED
  BY <1>1, <1>4, <1>10, <1>11, <1>12, <1>13, <1>14, OwnStep DEF Quiet

LEMMA NextEntry ==
  ASSUME PhonebookInv, NEW r \in Requests, pc[r] = "insert", todo[r] # <<>>
  PROVE  /\ Len(todo[r]) \in 1..MaxEntries /\ Head(todo[r]) \in Hashes
         /\ Tail(todo[r]) \in Seq(Hashes) /\ Len(Tail(todo[r])) = Len(todo[r]) - 1
         /\ kind[r] \in {"create", "import"}
<1>1. PICK s \in Seq(Hashes) : s = todo[r]
  BY DEF PhonebookInv, Types, TypeOK
<1>2. PICK E \in Seq(Hashes) : E = entries[r]
  BY DEF PhonebookInv, Types, TypeOK
<1>3. kind[r] \in {"create", "import"} /\ Len(E) <= MaxEntries /\ Len(s) <= Len(E)
  BY <1>1, <1>2 DEF PhonebookInv, RequestInv, Stage, Inserting
<1>4. s # <<>> /\ MaxEntries \in Nat
  BY <1>1, PhonebookAssumption, TableAssumption
<1>5. Len(s) > 0
  BY <1>4
<1>6. /\ Len(s) \in 1..MaxEntries
      /\ Head(s) \in Hashes /\ Tail(s) \in Seq(Hashes) /\ Len(Tail(s)) = Len(s) - 1
  BY <1>3, <1>4, <1>5, HeadOf
<1> QED
  BY <1>1, <1>3, <1>6

LEMMA InsertContactKeeps ==
  ASSUME PhonebookInv, NEW r \in Requests, InsertContact(r)
  PROVE  PhonebookInv' /\ Quiet(r)
<1>1. /\ pc[r] = "insert" /\ todo[r] # <<>> /\ book /\ bookDeleter = None
      /\ Insert(r, NewUuid(r, Len(todo[r])), Head(todo[r]))
      /\ todo' = [todo EXCEPT ![r] = Tail(todo[r])]
      /\ UNCHANGED <<book, bookDeleter, pc, kind, target, entries, row, fieldsLeft, reply, told>>
  BY DEF InsertContact, NextUuid, phonebook, input
<1>2. /\ RequestInv(r) /\ TableInv /\ Types /\ r # None
      /\ Tail(todo[r]) \in Seq(Hashes) /\ Len(Tail(todo[r])) = Len(todo[r]) - 1
      /\ kind[r] \in {"create", "import"}
  BY <1>1, NextEntry, TableAssumption DEF PhonebookInv
<1>3. PICK n \in 1..MaxEntries : n = Len(todo[r])
  BY <1>1, NextEntry
<1>4. PICK h \in Hashes : h = Head(todo[r])
  BY <1>1, NextEntry
<1>5. todo'[r] = Tail(todo[r])
  BY <1>1, <1>2 DEF Types, TypeOK
<1>6. EndedStays /\ \A q \in Requests \ {r} : Untouched(q)
  BY <1>1, <1>2 DEF EndedStays, Untouched, Types, TypeOK
<1>7. /\ TableInv' /\ TableStep(r) /\ NoCommit
      /\ rows' = rows \cup {Version(r, NewUuid(r, n), h, r)}
      /\ fields' = fields \cup {Version(r, NewUuid(r, n), h, r)}
  BY <1>1, <1>3, <1>4, <1>6, InsertTable
<1> DEFINE v == Version(r, NewUuid(r, n), h, r)
<1>8. /\ rows' = rows \cup {v} /\ fields' = fields \cup {v}
      /\ v.id = <<r, NewUuid(r, n)>> /\ v.uuid = NewUuid(r, n) /\ v.by = r /\ v.del = None
  BY <1>7 DEF Version
<1> HIDE DEF v
<1>9. BookStep(r)
  BY <1>1 DEF BookStep
<1>10. Types'
  BY <1>1, <1>2, <1>7, TableTypes DEF Types, TypeOK
<1>11. RequestInv(r)'
  <2>1. Stage(r)'
    <3>1. \A i : Ended(i) => Ended(i)'
      BY <1>6, EndedRemains
    <3>2. Len(Tail(todo[r])) <= Len(entries[r])
      <4>1. Len(todo[r]) <= Len(entries[r])
        BY <1>1, <1>2 DEF RequestInv, Stage
      <4>2. Len(entries[r]) \in Nat
        BY <1>2 DEF Types, TypeOK
      <4>3. Len(todo[r]) \in Nat
        BY <1>3
      <4> QED
        BY <1>2, <4>1, <4>2, <4>3
    <3> QED
      BY <1>1, <1>2, <1>5, <3>1, <3>2 DEF RequestInv, Stage, Rewrites
  <2>2. Writes(r)' /\ Deletes(r)'
    <3>1. Born(v.id) /\ v.id[1] = r
      <4>1. v.id[1] = r /\ v.id[2] = NewUuid(r, n)
        BY <1>8
      <4> QED
        BY <4>1 DEF Born
    <3> QED
      BY <1>1, <1>2, <1>8, <3>1 DEF RequestInv, Writes, Deletes
  <2>3. Known(r)'
    <3>1. n > Len(todo'[r]) /\ \A m \in 1..MaxEntries : m > n => m > Len(todo'[r])
      BY <1>2, <1>3, <1>5
    <3>2. \A m \in 1..MaxEntries : NewUuid(r, n) = NewUuid(r, m) => m = n
      BY NewUuidsDiffer
    <3>3. ASSUME NEW g \in rows' \cup fields', NEW m \in 1..MaxEntries, g.uuid = NewUuid(r, m)
          PROVE  g.by = r /\ m > Len(todo'[r])
      <4>1. CASE g = v
        BY <1>8, <3>1, <3>2, <3>3, <4>1
      <4>2. CASE g \in rows \cup fields
        BY <1>1, <1>2, <1>3, <3>1, <3>3, <4>2 DEF RequestInv, Known
      <4> QED
        BY <1>8, <4>1, <4>2
    <3> QED
      BY <1>1, <1>2, <3>3 DEF RequestInv, Known, NewUuid
  <2>4. Gone(r)' /\ Closing(r)'
    BY <1>1, <1>2 DEF RequestInv, Gone, Closing
  <2> QED
    BY <2>1, <2>2, <2>3, <2>4 DEF RequestInv
<1>12. NoBook' /\ NothingLost'
  BY <1>1, <1>7, QuietStep
<1> QED
  BY <1>1, <1>6, <1>7, <1>9, <1>10, <1>11, <1>12, OwnStep DEF Quiet

LEMMA InsertRefusedKeeps ==
  ASSUME PhonebookInv, NEW r \in Requests, InsertRefused(r)
  PROVE  PhonebookInv' /\ Quiet(r)
<1>1. pc[r] = "insert" /\ todo[r] # <<>>
  BY DEF InsertRefused
<1>2. CASE kind[r] = "create"
  BY <1>1, <1>2, AbortKeeps DEF InsertRefused
<1>3. CASE kind[r] # "create"
  <2>1. /\ todo' = [todo EXCEPT ![r] = Tail(todo[r])]
        /\ UNCHANGED <<rows, fields, book, bookDeleter, pc, kind, target, entries, row, fieldsLeft,
                       reply, told>>
    BY <1>3 DEF InsertRefused, table, phonebook, input
  <2>2. /\ RequestInv(r) /\ TableInv /\ Types
        /\ Tail(todo[r]) \in Seq(Hashes) /\ Len(Tail(todo[r])) = Len(todo[r]) - 1
        /\ kind[r] \in {"create", "import"}
    BY <1>1, NextEntry DEF PhonebookInv
  <2>3. PICK n \in 1..MaxEntries : n = Len(todo[r])
    BY <1>1, NextEntry
  <2>4. todo'[r] = Tail(todo[r])
    BY <2>1, <2>2 DEF Types, TypeOK
  <2>5. EndedStays /\ \A q \in Requests \ {r} : Untouched(q)
    BY <2>1, <2>2 DEF EndedStays, Untouched, Types, TypeOK
  <2>6. TableInv' /\ TableStep(r) /\ NoCommit
    BY <2>1, <2>2, <2>5, NothingWritten DEF table
  <2>7. BookStep(r)
    BY <2>1 DEF BookStep
  <2>8. Types'
    BY <2>1, <2>2, <2>6, TableTypes DEF Types, TypeOK
  <2>9. RequestInv(r)'
    <3>1. Stage(r)'
      <4>1. \A i : Ended(i) => Ended(i)'
        BY <2>5, EndedRemains
      <4>2. Len(Tail(todo[r])) <= Len(entries[r])
        <5>1. Len(todo[r]) <= Len(entries[r])
          BY <1>1, <2>2 DEF RequestInv, Stage
        <5>2. Len(entries[r]) \in Nat
          BY <2>2 DEF Types, TypeOK
        <5>3. Len(todo[r]) \in Nat
          BY <2>3
        <5> QED
          BY <2>2, <5>1, <5>2, <5>3
      <4> QED
        BY <1>1, <2>1, <2>2, <2>4, <4>1, <4>2 DEF RequestInv, Stage, Rewrites
    <3>2. Writes(r)' /\ Deletes(r)'
      BY <1>1, <2>1, <2>2 DEF RequestInv, Writes, Deletes
    <3>3. Known(r)'
      <4>1. \A m \in 1..MaxEntries : m > n => m > Len(todo'[r])
        BY <2>2, <2>3, <2>4
      <4>2. \A g \in rows \cup fields, m \in 1..MaxEntries :
              g.uuid = NewUuid(r, m) => g.by = r /\ m > Len(todo'[r])
        BY <1>1, <2>2, <2>3, <4>1 DEF RequestInv, Known
      <4> QED
        BY <1>1, <2>1, <2>2, <4>2 DEF RequestInv, Known, NewUuid
    <3>4. Gone(r)' /\ Closing(r)'
      BY <2>1, <2>2 DEF RequestInv, Gone, Closing, Inserted
    <3> QED
      BY <3>1, <3>2, <3>3, <3>4 DEF RequestInv
  <2>10. NoBook' /\ NothingLost'
    BY <2>1, <2>6, QuietStep
  <2> QED
    BY <1>1, <2>5, <2>6, <2>7, <2>8, <2>9, <2>10, OwnStep DEF Quiet
<1> QED
  BY <1>2, <1>3

LEMMA CommitKeeps ==
  ASSUME PhonebookInv, NEW r \in Requests, Commit(r)
  PROVE  /\ PhonebookInv' /\ reply'[r] = "ok" /\ \A q \in Requests \ {r} : Untouched(q)
         /\ KeptRows(r) /\ KeptFields(r)
<1>1. /\ pc[r] = "commit" \/ (pc[r] = "insert" /\ todo[r] = <<>>)
      /\ CommitTable(r)
      /\ book' = (book /\ bookDeleter # r)
      /\ bookDeleter' = IF bookDeleter = r THEN None ELSE bookDeleter
      /\ pc' = [pc EXCEPT ![r] = "done"] /\ reply' = [reply EXCEPT ![r] = "ok"]
      /\ told' = (told \ Removes(r)) \cup {x.uuid : x \in {y \in rows : y.by = r}}
                                     \cup IF kind[r] = "edit" THEN {target[r]} ELSE {}
      /\ UNCHANGED <<kind, target, entries, row, fieldsLeft, todo>>
  BY DEF Commit, input, work
<1>2. /\ RequestInv(r) /\ TableInv /\ Types /\ r # None
      /\ pc[r] \in {"commit", "insert"} /\ (pc[r] = "commit" <=> kind[r] \notin Inserting)
  BY <1>1, TableAssumption DEF PhonebookInv, RequestInv, Stage, Inserting
<1>3. pc'[r] = "done" /\ reply'[r] = "ok" /\ bookDeleter' # r
  BY <1>1, <1>2 DEF Types, TypeOK
<1>4. EndedStays /\ \A q \in Requests \ {r} : Untouched(q)
  BY <1>1, <1>2 DEF EndedStays, Untouched, Types, TypeOK
<1>5. \A x \in rows : x.by = r => x.id[1] = r \/ Ended(x.id[1])
  <2> SUFFICES ASSUME NEW x \in rows, x.by = r PROVE x.id[1] = r \/ Ended(x.id[1])
    OBVIOUS
  <2>1. kind[r] = "edit" /\ pc[r] = "commit" => Ended(row[r].id[1])
    BY <1>2 DEF RequestInv, Stage
  <2>2. x.id[1] = r \/ (pc[r] = "commit" /\ Rewrites(r) /\ x.id = row[r].id)
    BY <1>2 DEF RequestInv, Writes
  <2> QED
    BY <2>1, <2>2 DEF Rewrites
<1>6. /\ TableInv' /\ TableStep(r) /\ KeptRows(r) /\ KeptFields(r)
      /\ \A y \in rows' \cup fields' : y.by # r /\ y.del # r
  BY <1>1, <1>3, <1>4, <1>5, KeepTable
<1>7. BookStep(r)
  BY <1>1, <1>2 DEF BookStep, Types, TypeOK
<1>8. told' \subseteq {x.uuid : x \in {y \in rows' : y.by = None}}
  <2>1. ASSUME NEW x \in rows, x.by \in {None, r}, x.del # r
        PROVE  \E y \in rows' : y.by = None /\ y.uuid = x.uuid
    BY <1>6, <2>1 DEF KeptRows
  <2>2. ASSUME NEW u \in told, u \notin Removes(r)
        PROVE  \E y \in rows' : y.by = None /\ y.uuid = u
    <3>1. PICK x \in rows : x.by = None /\ x.uuid = u
      BY <2>2 DEF PhonebookInv, NothingLost, Uuids, Contacts, Committed
    <3>2. CASE x.del # r
      BY <2>1, <3>1, <3>2
    <3>3. CASE x.del = r
      <4>1. kind[r] \notin {"remove", "removeBook"}
        <5>1. kind[r] # "removeBook"
          BY <2>2 DEF Removes
        <5>2. kind[r] = "remove" => u = target[r]
          <6>1. kind[r] = "remove" => x.id = row[r].id /\ row[r].id[2] = target[r]
            BY <1>2, <3>3 DEF RequestInv, Deletes, Stage, Rewrites, Inserting
          <6> QED
            BY <1>2, <3>1, <6>1 DEF TableInv, Fitting
        <5> QED
          BY <2>2, <5>1, <5>2 DEF Removes
      <4>2. pc[r] = "commit" /\ Rewrites(r) /\ x.id = row[r].id
        BY <1>2, <3>3, <4>1 DEF RequestInv, Deletes
      <4>3. PICK y \in rows : y.by = r /\ y.id = x.id
        BY <1>2, <4>2 DEF RequestInv, Writes
      <4>4. y.del # r /\ y.uuid = u
        BY <1>2, <3>1, <4>3 DEF TableInv, Fitting
      <4> QED
        BY <2>1, <4>3, <4>4
    <3> QED
      BY <3>2, <3>3
  <2>3. ASSUME NEW x \in rows, x.by = r
        PROVE  \E y \in rows' : y.by = None /\ y.uuid = x.uuid
    <3>1. x.del # r
      BY <1>2, <2>3 DEF TableInv, Fitting
    <3> QED
      BY <2>1, <2>3, <3>1
  <2>4. ASSUME kind[r] = "edit"
        PROVE  \E y \in rows' : y.by = None /\ y.uuid = target[r]
    <3>1. pc[r] = "commit"
      BY <1>2, <2>4 DEF Inserting
    <3>2. PICK g \in fields : g.by = r /\ g.uuid = target[r]
      BY <1>2, <2>4, <3>1 DEF RequestInv, Writes
    <3>3. PICK x \in rows : x.uuid = target[r] /\ x.by \in {None, r} /\ x.del = None
      BY <1>2, <3>2 DEF TableInv, Backed
    <3> QED
      BY <1>2, <2>1, <3>3
  <2> QED
    BY <1>1, <2>2, <2>3, <2>4
<1>9. NothingLost'
  <2>1. ASSUME NEW y \in rows', y.by = None PROVE y.uuid \in Uuids'
    <3>1. <<y.uuid, y.hash>> \in Contacts'
      BY <2>1 DEF Contacts, Committed
    <3>2. <<y.uuid, y.hash>>[1] = y.uuid
      OBVIOUS
    <3> QED
      BY <3>1, <3>2 DEF Uuids
  <2> QED
    BY <1>8, <2>1 DEF NothingLost
<1>10. NoBook'
  <2>1. CASE ~book
    BY <1>6, <2>1 DEF PhonebookInv, NoBook, KeptRows, KeptFields
  <2>2. CASE bookDeleter = r
    <3>1. pc[r] = "commit"
      BY <1>2, <2>2 DEF RequestInv, Closing, Inserting
    <3>2. (\A x \in rows : x.del = r) /\ \A g \in fields : g.del = r
      BY <1>2, <2>2, <3>1 DEF RequestInv, Closing
    <3> QED
      BY <1>6, <3>2 DEF NoBook, KeptRows, KeptFields
  <2> QED
    BY <1>1, <2>1, <2>2 DEF NoBook
<1>11. Types'
  <2>1. \A y \in rows' : y.uuid \in Nat
    BY <1>6 DEF TableInv, Shapes, Versions
  <2>2. told' \subseteq Nat
    BY <1>8, <2>1
  <2> QED
    BY <1>1, <1>2, <1>6, <2>2, TableTypes DEF Types, TypeOK
<1>12. RequestInv(r)'
  <2>1. Stage(r)'
    <3>1. \A i : Ended(i) => Ended(i)'
      BY <1>4, EndedRemains
    <3> QED
      BY <1>1, <1>2, <1>3, <3>1 DEF RequestInv, Stage
  <2>2. Writes(r)' /\ Deletes(r)'
    BY <1>3, <1>6 DEF Writes, Deletes
  <2>3. Known(r)'
    BY <1>1, <1>2, <1>3, <1>4 DEF RequestInv, Known, EndedStays, NewUuid
  <2>4. Gone(r)'
    <3>1. ASSUME kind[r] = "remove", NEW y \in rows' PROVE y.uuid # target[r]
      <4>1. PICK x \in rows : x.del # r /\ y.uuid = x.uuid
        BY <1>6 DEF KeptRows
      <4>2. pc[r] = "commit"
        BY <1>2, <3>1 DEF Inserting
      <4> QED
        BY <1>2, <3>1, <4>1, <4>2 DEF RequestInv, Gone
    <3> QED
      BY <1>1, <1>3, <3>1 DEF Gone
  <2>5. Closing(r)'
    <3>1. kind[r] = "removeBook" => ~book'
      BY <1>1, <1>2 DEF RequestInv, Closing, Inserting
    <3> QED
      BY <1>1, <1>3, <3>1 DEF Closing
  <2> QED
    BY <2>1, <2>2, <2>3, <2>4, <2>5 DEF RequestInv
<1>13. pc[r] # "done"
  BY <1>2
<1>14. PhonebookInv'
  BY <1>4, <1>6, <1>7, <1>9, <1>10, <1>11, <1>12, <1>13, OwnStep DEF Quiet
<1> QED
  BY <1>3, <1>4, <1>6, <1>14

LEMMA QuietKeeps ==
  ASSUME PhonebookInv, NEW r \in Requests, Step(r), ~Commit(r)
  PROVE  PhonebookInv' /\ Quiet(r)
<1>1. CASE EditRefused(r)
  BY <1>1, AbortKeeps DEF EditRefused
<1>2. CASE BookGone(r)
  BY <1>2, AbortKeeps DEF BookGone
<1>3. CASE Deadlock(r)
  <2>1. pc[r] \notin {"idle", "done"}
    <3>1. CASE pc[r] \in {"idle", "done"}
      <4>1. Blockers[r] = {}
        BY <3>1 DEF Blockers
      <4>2. InCycle(r, Blockers)
        BY <1>3 DEF Deadlock
      <4> QED
        BY <4>1, <4>2 DEF InCycle
    <3> QED
      BY <3>1
  <2> QED
    BY <1>3, <2>1, AbortKeeps DEF Deadlock
<1> QED
  BY <1>1, <1>2, <1>3, LoadBookKeeps, LoadContactKeeps, LockContactKeeps, WriteHashKeeps,
     InsertFieldsKeeps, DeleteLoadedFieldsKeeps, DeleteContactKeeps, CascadeContactKeeps,
     DeleteBookKeeps, CascadeRowKeeps, CascadeFieldsKeeps, InsertContactKeeps,
     InsertRefusedKeeps DEF Step

Begins(r) ==
  BeginCreate(r) \/ BeginImport(r) \/ BeginEdit(r) \/ BeginRemove(r) \/ BeginRemoveBook(r)

LEMMA BeginsKeep ==
  ASSUME PhonebookInv, NEW r \in Requests, Begins(r)
  PROVE  PhonebookInv' /\ Quiet(r)
<1>1. CASE BeginCreate(r)
  <2>1. PICK h \in Hashes : Begin(r, "create", None, <<h>>)
    BY <1>1 DEF BeginCreate
  <2>2. <<h>> \in Seq(Hashes) /\ Len(<<h>>) = 1 /\ 1 <= MaxEntries
    BY PhonebookAssumption, TableAssumption
  <2>3. "create" \in Kinds
    BY <2>1 DEF Begin
  <2> QED
    BY <2>1, <2>2, <2>3, BeginKeeps
<1>2. CASE BeginImport(r)
  <2>1. PICK n \in 1..MaxEntries : \E E \in [1..n -> Hashes] : Begin(r, "import", None, E)
    BY <1>2 DEF BeginImport
  <2>2. PICK E \in [1..n -> Hashes] : Begin(r, "import", None, E)
    BY <2>1
  <2>3. E \in Seq(Hashes) /\ Len(E) = n /\ n <= MaxEntries
    BY PhonebookAssumption, TableAssumption
  <2>4. "import" \in Kinds
    BY <2>2 DEF Begin
  <2> QED
    BY <2>2, <2>3, <2>4, BeginKeeps
<1>3. CASE BeginEdit(r)
  <2>1. PICK u \in Uuids, h \in Hashes : Begin(r, "edit", u, <<h>>)
    BY <1>3 DEF BeginEdit
  <2>2. <<h>> \in Seq(Hashes) /\ Len(<<h>>) = 1
    OBVIOUS
  <2>3. "edit" \in Kinds
    BY <2>1 DEF Begin
  <2> QED
    BY <2>1, <2>2, <2>3, BeginKeeps
<1>4. CASE BeginRemove(r)
  <2>1. PICK u \in Uuids : Begin(r, "remove", u, <<>>)
    BY <1>4 DEF BeginRemove
  <2>2. <<>> \in Seq(Hashes) /\ Len(<<>>) <= MaxEntries
    BY PhonebookAssumption, TableAssumption
  <2>3. "remove" \in Kinds
    BY <2>1 DEF Begin
  <2> QED
    BY <2>1, <2>2, <2>3, BeginKeeps
<1>5. CASE BeginRemoveBook(r)
  <2>1. <<>> \in Seq(Hashes) /\ Len(<<>>) <= MaxEntries
    BY PhonebookAssumption, TableAssumption
  <2>2. "removeBook" \in Kinds
    BY <1>5 DEF BeginRemoveBook, Begin
  <2> QED
    BY <1>5, <2>1, <2>2, BeginKeeps DEF BeginRemoveBook
<1> QED
  BY <1>1, <1>2, <1>3, <1>4, <1>5 DEF Begins

LEMMA IdleKeeps ==
  ASSUME PhonebookInv, UNCHANGED vars
  PROVE  PhonebookInv'
<1>1. UNCHANGED <<rows, fields, book, bookDeleter, pc, kind, target, entries, row, fieldsLeft, todo,
                  reply, told>>
  BY DEF vars, table, phonebook, input, work
<1>2. TableInv' /\ Types' /\ NoBook' /\ NothingLost'
  BY <1>1 DEF PhonebookInv, TableInv, Shapes, Fitting, Unique, Rooted, Updated, Fresh, Backed, Past, Keyed,
     Born, Ended, Inserted, Types, TypeOK, TableTypeOK, NoBook, NothingLost, Uuids, Contacts,
     Committed
<1>3. \A r \in Requests : RequestInv(r)'
  BY <1>1 DEF PhonebookInv, RequestInv, Stage, Writes, Deletes, Known, Gone, Closing, Rewrites, Born,
     Ended, Inserted
<1> QED
  BY <1>2, <1>3 DEF PhonebookInv

LEMMA NextKeeps ==
  ASSUME PhonebookInv, [Next]_vars
  PROVE  /\ PhonebookInv'
         /\ \/ UNCHANGED vars
            \/ \E r \in Requests : Quiet(r) /\ (Begins(r) \/ DatabaseFails(r) \/ Step(r))
            \/ \E r \in Requests : Commit(r)
<1>1. CASE UNCHANGED vars
  BY <1>1, IdleKeeps
<1>2. CASE Terminated
  BY <1>2, IdleKeeps DEF Terminated
<1>3. ASSUME NEW r \in Requests, Begins(r) PROVE PhonebookInv' /\ Quiet(r)
  BY <1>3, BeginsKeep
<1>4. ASSUME NEW r \in Requests, DatabaseFails(r) PROVE PhonebookInv' /\ Quiet(r)
  BY <1>4, AbortKeeps DEF DatabaseFails
<1>5. ASSUME NEW r \in Requests, Step(r) PROVE PhonebookInv' /\ (Quiet(r) \/ Commit(r))
  BY <1>5, QuietKeeps, CommitKeeps
<1>6. CASE Terminated \/ UNCHANGED vars
  BY <1>1, <1>2, <1>6 DEF Terminated
<1>7. CASE \E r \in Requests : Begins(r) \/ DatabaseFails(r) \/ Step(r)
  BY <1>3, <1>4, <1>5, <1>7
<1> QED
  BY <1>6, <1>7 DEF Next, Begins

LEMMA InitPhonebookInv == Init => PhonebookInv
<1> SUFFICES ASSUME Init PROVE PhonebookInv
  OBVIOUS
<1>1. rows = {Version(0, h, h, None) : h \in Initial} /\ fields = rows
  BY DEF Init, TableInit
<1>2. \A h \in Hashes :
        LET x == Version(0, h, h, None)
        IN  /\ x \in Versions /\ x.id = <<0, h>> /\ x.uuid = h /\ x.hash = h
            /\ x.by = None /\ x.del = None
  BY TableAssumption DEF Version, Versions
<1>3. \A x \in rows : \E h \in Hashes : x = Version(0, h, h, None)
  BY <1>1, PhonebookAssumption
<1>4. \A x \in rows : /\ x \in Versions /\ x.hash \in Hashes
                      /\ x.id = <<0, x.hash>> /\ x.uuid = x.hash /\ x.by = None /\ x.del = None
  BY <1>2, <1>3
<1>5. TableInv
  <2>1. \A x, y \in rows : x.hash = y.hash => x = y
    BY <1>2, <1>3
  <2>2. Shapes /\ Fitting /\ Unique
    BY <1>1, <1>4, <2>1 DEF Shapes, Fitting, Unique, Share
  <2>3. Rooted /\ Past
    BY <1>1, <1>4 DEF Rooted, Past, Born, Ended
  <2>4. Updated /\ Fresh /\ Backed /\ Keyed
    BY <1>1, <1>4, <2>1 DEF Updated, Fresh, Backed, Inserted, Keyed
  <2> QED
    BY <2>2, <2>3, <2>4 DEF TableInv
<1>6. NothingLost /\ NoBook
  BY DEF Init, NothingLost, NoBook
<1>7. Types
  <2>1. Uuids \subseteq Nat
    BY <1>4 DEF Uuids, Contacts, Committed, Versions
  <2>2. TableTypeOK
    BY <1>5 DEF TableInv, Shapes, Versions, TableTypeOK
  <2>3. <<>> \in Seq(Hashes)
    OBVIOUS
  <2> QED
    BY <2>1, <2>2, <2>3 DEF Init, Types, TypeOK
<1>8. ASSUME NEW r \in Requests PROVE RequestInv(r)
  <2>1. r # None /\ \A x \in rows \cup fields : x.by # r /\ x.del # r
    BY <1>1, <1>4, TableAssumption
  <2>2. Stage(r)
    <3>1. Len(<<>>) <= MaxEntries
      BY PhonebookAssumption, TableAssumption
    <3> QED
      BY <3>1, PhonebookAssumption DEF Init, Stage
  <2>3. Writes(r) /\ Deletes(r)
    BY <2>1 DEF Init, Writes, Deletes
  <2>4. Known(r)
    <3>1. \A q \in Requests, n \in 1..MaxEntries : NewUuid(q, n) \in Nat /\ NewUuid(q, n) \notin Hashes
      BY NewUuidIsNew
    <3>2. \A x \in rows \cup fields : x.uuid \in Hashes
      BY <1>1, <1>4
    <3> QED
      BY <3>1, <3>2, PhonebookAssumption DEF Init, Known
  <2>5. Gone(r) /\ Closing(r)
    BY <2>1, PhonebookAssumption DEF Init, Gone, Closing
  <2> QED
    BY <2>2, <2>3, <2>4, <2>5 DEF RequestInv
<1> QED
  BY <1>5, <1>6, <1>7, <1>8 DEF PhonebookInv

----------------------------------------------------------------------------
(* The tables, what each request has written and deleted and the phonebook  *)
(* itself always fit together.                                              *)
THEOREM SpecPhonebookInv == Spec => []PhonebookInv
<1>1. PhonebookInv /\ [Next]_vars => PhonebookInv'
  BY NextKeeps
<1> QED
  BY <1>1, InitPhonebookInv, PTL DEF Spec

(* A contact its caller was told of stays until its deletion is             *)
(* acknowledged, whoever edits, imports or removes at the same time.        *)
THEOREM SpecNothingLost == Spec => []NothingLost
<1>1. PhonebookInv => NothingLost
  BY DEF PhonebookInv
<1> QED
  BY <1>1, SpecPhonebookInv, PTL

(* A contact whose deletion was acknowledged stays gone: an edit that was   *)
(* under way does not bring it back, and a phonebook goes with everything   *)
(* it holds.                                                                *)
THEOREM SpecRemovedIsGone == Spec => []RemovedIsGone
<1>1. PhonebookInv => RemovedIsGone
  <2> SUFFICES ASSUME PhonebookInv, NEW r \in Requests, reply[r] = "ok"
               PROVE  /\ kind[r] = "remove" => target[r] \notin Uuids
                      /\ kind[r] = "removeBook" => rows = {} /\ fields = {}
    BY DEF RemovedIsGone
  <2>1. Gone(r) /\ Closing(r) /\ NoBook
    BY DEF PhonebookInv, RequestInv
  <2>2. kind[r] = "remove" => target[r] \notin Uuids
    BY <2>1 DEF Gone, Uuids, Contacts, Committed
  <2>3. kind[r] = "removeBook" => rows = {} /\ fields = {}
    BY <2>1 DEF Closing, NoBook
  <2> QED
    BY <2>2, <2>3
<1> QED
  BY <1>1, SpecPhonebookInv, PTL

----------------------------------------------------------------------------
(* The fields of a contact follow its hash.  An edit deletes the fields it  *)
(* has loaded; as long as no other edit was acknowledged those are all of   *)
(* them, and an edit that leaves the hash alone has been told of it.        *)
Edits(u) == {r \in Requests : kind[r] = "edit" /\ target[r] = u /\ reply[r] = "ok"}
EditsContact(p, u) == kind[p] = "edit" /\ pc[p] \in Editing /\ target[p] = u
Condemned(p, i) == i \in fieldsLeft[p] \/ \E g \in fields : g.id = i /\ g.del = p
FieldsAt(u) == {g \in Committed(fields) : g.uuid = u}
Matches(u, h) == \A g \in FieldsAt(u) : g.hash = h
Matched(u, h) ==
  \E g \in FieldsAt(u) :
    /\ g.hash = h
    /\ \A p \in Requests : EditsContact(p, u) /\ row[p].hash # h => ~Condemned(p, g.id)
Unedited(u, h) ==
  \A p \in Requests : EditsContact(p, u) =>
    row[p].hash = h /\ \A g \in FieldsAt(u) : Condemned(p, g.id)
Follow(u, h) ==
  /\ Matched(u, h)
  /\ (\A p, q \in Edits(u) : p = q) => Matches(u, h)
  /\ Edits(u) = {} => Unedited(u, h)
FieldsInv == \A x \in Committed(rows) : Follow(x.uuid, x.hash)

LEMMA CondemnedByOthers ==
  ASSUME NEW r \in Requests, TableStep(r), NEW q \in Requests \ {r}, Untouched(q), NEW i
  PROVE  Condemned(q, i)' <=> Condemned(q, i)
<1>1. q # r /\ q # None
  BY TableAssumption
<1>2. \A y \in fields' : y.del = q => \E x \in fields : x.id = y.id /\ x.del = q
  BY <1>1 DEF TableStep, NewFields, Same
<1>3. \A x \in fields : x.del = q => x \in fields'
  BY <1>1 DEF TableStep, Anothers
<1> QED
  BY <1>2, <1>3 DEF Condemned, Untouched

LEMMA StoredFields ==
  ASSUME Stored' = Stored, NEW u
  PROVE  /\ \A y \in FieldsAt(u)' : \E x \in FieldsAt(u) : x.id = y.id /\ x.hash = y.hash
         /\ \A x \in FieldsAt(u) : \E y \in FieldsAt(u)' : x.id = y.id /\ x.hash = y.hash
<1>1. ASSUME NEW y \in Committed(fields)'
      PROVE  \E x \in Committed(fields) : x.id = y.id /\ x.uuid = y.uuid /\ x.hash = y.hash
  <2>1. <<y.id, y.uuid, y.hash>> \in Stored'
    BY DEF Stored
  <2>2. <<y.id, y.uuid, y.hash>> \in Stored
    BY <2>1
  <2> QED
    BY <2>2 DEF Stored
<1>2. ASSUME NEW x \in Committed(fields)
      PROVE  \E y \in Committed(fields)' : x.id = y.id /\ x.uuid = y.uuid /\ x.hash = y.hash
  <2>1. <<x.id, x.uuid, x.hash>> \in Stored
    BY DEF Stored
  <2>2. <<x.id, x.uuid, x.hash>> \in Stored'
    BY <2>1
  <2> QED
    BY <2>2 DEF Stored
<1> QED
  BY <1>1, <1>2 DEF FieldsAt

(* What a step that commits nothing must leave of the edit that takes it.   *)
EditGoesOn(r, u) ==
  /\ EditsContact(r, u) /\ row'[r].hash = row[r].hash
  /\ \A g \in FieldsAt(u) : Condemned(r, g.id)' <=> Condemned(r, g.id)
EditBegins(r, u) ==
  /\ \A x \in Committed(rows) : x.uuid = u => row'[r].hash = x.hash
  /\ \A g \in FieldsAt(u) : Condemned(r, g.id)'

LEMMA FieldsStay ==
  ASSUME FieldsInv, NEW r \in Requests, Quiet(r), reply[r] # "ok", reply'[r] # "ok",
         \A u : EditsContact(r, u)' => EditGoesOn(r, u) \/ EditBegins(r, u)
  PROVE  FieldsInv'
<1> SUFFICES ASSUME NEW y \in Committed(rows)' PROVE Follow(y.uuid, y.hash)'
  BY DEF FieldsInv, Follow, Matched, Unedited, Matches, Edits, EditsContact, FieldsAt, Condemned
<1>1. PICK x \in Committed(rows) : x.uuid = y.uuid /\ x.hash = y.hash
  <2>1. <<y.uuid, y.hash>> \in Contacts'
    BY DEF Contacts
  <2>2. <<y.uuid, y.hash>> \in Contacts
    BY <2>1 DEF Quiet, NoCommit
  <2> QED
    BY <2>2 DEF Contacts
<1>2. PICK u, h : u = x.uuid /\ h = x.hash
  OBVIOUS
<1>3. Follow(u, h)
  BY <1>2 DEF FieldsInv
<1>4. /\ \A q \in Requests \ {r} : \A i : Condemned(q, i)' <=> Condemned(q, i)
      /\ \A q \in Requests \ {r} : Untouched(q)
      /\ \A q \in Requests \ {r} : EditsContact(q, u)' <=> EditsContact(q, u)
  BY CondemnedByOthers DEF Quiet, EditsContact, Untouched
<1>5. Edits(u)' = Edits(u)
  BY <1>4 DEF Edits, Untouched
<1>6. /\ \A g \in FieldsAt(u)' : \E f \in FieldsAt(u) : f.id = g.id /\ f.hash = g.hash
      /\ \A f \in FieldsAt(u) : \E g \in FieldsAt(u)' : f.id = g.id /\ f.hash = g.hash
  BY StoredFields DEF Quiet, NoCommit
<1>7. ASSUME NEW p \in Requests, EditsContact(p, u)'
      PROVE  \/ EditsContact(p, u) /\ row'[p].hash = row[p].hash
                /\ \A g \in FieldsAt(u) : Condemned(p, g.id)' <=> Condemned(p, g.id)
             \/ row'[p].hash = h /\ \A g \in FieldsAt(u) : Condemned(p, g.id)'
  <2>1. CASE p = r
    BY <1>2, <1>7, <2>1 DEF EditGoesOn, EditBegins
  <2>2. CASE p # r
    BY <1>4, <1>7, <2>2 DEF Untouched
  <2> QED
    BY <2>1, <2>2
<1>8. Matched(u, h)'
  <2>1. PICK f \in FieldsAt(u) :
          /\ f.hash = h
          /\ \A p \in Requests : EditsContact(p, u) /\ row[p].hash # h => ~Condemned(p, f.id)
    BY <1>3 DEF Follow, Matched
  <2>2. PICK g \in FieldsAt(u)' : f.id = g.id /\ f.hash = g.hash
    BY <1>6
  <2>3. ASSUME NEW p \in Requests, EditsContact(p, u)', row'[p].hash # h
        PROVE  ~Condemned(p, f.id)'
    BY <1>7, <2>1, <2>3
  <2>4. \A p \in Requests : EditsContact(p, u)' /\ row'[p].hash # h => ~Condemned(p, g.id)'
    BY <2>2, <2>3
  <2> QED
    BY <2>1, <2>2, <2>4 DEF Matched
<1>9. Matches(u, h) => Matches(u, h)'
  BY <1>6 DEF Matches
<1>10. Unedited(u, h) => Unedited(u, h)'
  <2> SUFFICES ASSUME Unedited(u, h), NEW p \in Requests, EditsContact(p, u)'
               PROVE  row'[p].hash = h /\ \A g \in FieldsAt(u)' : Condemned(p, g.id)'
    BY DEF Unedited, EditsContact, FieldsAt, Condemned
  <2>1. row'[p].hash = h /\ \A f \in FieldsAt(u) : Condemned(p, f.id)'
    BY <1>7 DEF Unedited
  <2> QED
    BY <1>6, <2>1
<1>11. Follow(u, h)'
  BY <1>3, <1>5, <1>8, <1>9, <1>10 DEF Follow
<1> QED
  BY <1>1, <1>2, <1>11

(* The fields that were loaded stay those the edit is to delete.            *)
LEMMA DeleteGoesOn ==
  ASSUME PhonebookInv, NEW r \in Requests, DeleteLoadedFields(r), kind[r] = "edit", NEW u,
         target[r] = u
  PROVE  EditGoesOn(r, u)
<1>1. /\ pc[r] = "fields" /\ fields' = Marked(r, fields, FieldsOf(fieldsLeft[r]))
      /\ fieldsLeft' = [fieldsLeft EXCEPT ![r] = {}] /\ row' = row
  BY DEF DeleteLoadedFields, DeleteFields, work
<1>2. Types /\ TableInv /\ r # None
  BY TableAssumption DEF PhonebookInv
<1>3. EditsContact(r, u)
  BY <1>1 DEF EditsContact, Editing
<1>4. fieldsLeft'[r] = {}
  BY <1>1, <1>2 DEF Types
<1> DEFINE D == FieldsOf(fieldsLeft[r])
<1>5. /\ \A g \in D : g \in fields /\ g.by = None /\ g.id \in fieldsLeft[r]
      /\ \A g \in fields : g.by = None /\ g.id \in fieldsLeft[r] => g \in D
  BY DEF FieldsOf, Committed
<1>6. \A g \in fields : g.del # r
  BY <1>1 DEF PhonebookInv, RequestInv, Deletes
<1>7. /\ \A g \in D : \E y \in fields' : y.id = g.id /\ y.del = r
      /\ \A y \in fields' : y \in fields \/ \E g \in D : y.id = g.id
  <2>1. fields' = (fields \ D) \cup {[x EXCEPT !.del = r] : x \in D}
    BY <1>1 DEF Marked
  <2>2. \A x \in D : [x EXCEPT !.del = r].id = x.id /\ [x EXCEPT !.del = r].del = r
    BY <1>2, <1>5 DEF TableInv, Shapes, Versions
  <2> HIDE DEF D
  <2> QED
    BY <2>1, <2>2
<1> HIDE DEF D
<1>8. ASSUME NEW g \in FieldsAt(u) PROVE Condemned(r, g.id)' <=> Condemned(r, g.id)
  <2>1. g \in fields /\ g.by = None
    BY DEF FieldsAt, Committed
  <2>2. Condemned(r, g.id) <=> g \in D
    BY <1>5, <1>6, <2>1 DEF Condemned
  <2>3. (\E y \in fields' : y.id = g.id /\ y.del = r) <=> g \in D
    <3>1. ASSUME NEW y \in fields', y.id = g.id, y.del = r PROVE g \in D
      <4>1. PICK f \in D : y.id = f.id
        BY <1>6, <1>7, <3>1
      <4>2. f = g
        BY <1>2, <1>5, <2>1, <3>1, <4>1 DEF TableInv, Keyed
      <4> QED
        BY <4>2
    <3> QED
      BY <1>7, <3>1
  <2>4. Condemned(r, g.id)' <=> \E y \in fields' : y.id = g.id /\ y.del = r
    BY <1>4 DEF Condemned
  <2> QED
    BY <2>2, <2>3, <2>4
<1> QED
  BY <1>1, <1>3, <1>8 DEF EditGoesOn

LEMMA LoadBegins ==
  ASSUME PhonebookInv, NEW r \in Requests, LoadContact(r), Wanted(r) # {}, NEW u, target[r] = u
  PROVE  EditBegins(r, u)
<1>1. PICK x \in Wanted(r) : row' = [row EXCEPT ![r] = [id |-> x.id, hash |-> x.hash]]
  BY DEF LoadContact
<1>2. /\ fieldsLeft' = [fieldsLeft EXCEPT ![r] =
                          {g.id : g \in {f \in Visible(r, fields) : f.uuid = u}}]
      /\ pc[r] = "load"
  BY DEF LoadContact
<1>3. Types /\ TableInv /\ r # None
  BY TableAssumption DEF PhonebookInv
<1>4. /\ row'[r].hash = x.hash
      /\ fieldsLeft'[r] = {g.id : g \in {f \in Visible(r, fields) : f.uuid = u}}
  BY <1>1, <1>2, <1>3 DEF Types
<1>5. x \in Committed(rows) /\ x.uuid = u
  <2>1. \A y \in rows : y.by # r
    BY <1>2 DEF PhonebookInv, RequestInv, Writes
  <2> QED
    BY <2>1 DEF Wanted, Visible, Committed
<1>6. \A y \in Committed(rows) : y.uuid = u => y = x
  BY <1>3, <1>5, CommittedRowsDiffer DEF Share
<1>7. \A g \in FieldsAt(u) : g \in {f \in Visible(r, fields) : f.uuid = u}
  <2>1. \A g \in fields : g.del # r
    BY <1>2 DEF PhonebookInv, RequestInv, Deletes
  <2> QED
    BY <2>1 DEF FieldsAt, Visible, Committed
<1>8. \A g \in FieldsAt(u) : Condemned(r, g.id)'
  BY <1>4, <1>7 DEF Condemned
<1> QED
  BY <1>4, <1>6, <1>8 DEF EditBegins

LEMMA EditSteps ==
  ASSUME PhonebookInv, NEW r \in Requests, Begins(r) \/ DatabaseFails(r) \/ Step(r), ~Commit(r),
         NEW u, EditsContact(r, u)'
  PROVE  EditGoesOn(r, u) \/ EditBegins(r, u)
<1>1. /\ Types /\ Stage(r)
      /\ kind'[r] = "edit" /\ pc'[r] \in Editing /\ target'[r] = u
  BY DEF PhonebookInv, RequestInv, EditsContact
<1>2. pc'[r] \notin {"load", "done"}
  BY <1>1 DEF Editing
<1>3. \A why : ~Abort(r, why)
  BY <1>1, <1>2 DEF Abort, Types, TypeOK
<1>4. ~Begins(r)
  BY <1>1, <1>2 DEF Begins, BeginCreate, BeginImport, BeginEdit, BeginRemove, BeginRemoveBook,
     Begin, Types, TypeOK
<1>5. Step(r) /\ ~EditRefused(r) /\ ~BookGone(r) /\ ~Deadlock(r)
  BY <1>3, <1>4 DEF DatabaseFails, EditRefused, BookGone, Deadlock
<1>6. ASSUME kind[r] = "edit", target[r] = u
      PROVE  \/ LoadContact(r) \/ LockContact(r) \/ WriteHash(r) \/ InsertFields(r)
             \/ DeleteLoadedFields(r)
  BY <1>1, <1>5, <1>6 DEF Step, LoadBook, DeleteContact, CascadeContact, DeleteBook, CascadeRow,
     CascadeFields, InsertContact, InsertRefused, Stage, Inserting
<1>7. kind[r] = "edit" /\ target[r] = u
  BY <1>1, <1>3, <1>5 DEF Step, LoadBook, LoadContact, LockContact, WriteHash, InsertFields,
     DeleteLoadedFields, DeleteContact, CascadeContact, DeleteBook, CascadeRow, CascadeFields,
     InsertContact, InsertRefused, GoTo, input
<1>8. CASE LoadContact(r)
  BY <1>3, <1>7, <1>8, LoadBegins DEF LoadContact
<1>9. CASE DeleteLoadedFields(r)
  BY <1>7, <1>9, DeleteGoesOn
<1>10. CASE LockContact(r) \/ WriteHash(r) \/ InsertFields(r)
  <2>1. pc[r] \in {"lock", "write", "insertFields"} /\ UNCHANGED <<row, fieldsLeft>>
    BY <1>3, <1>10 DEF LockContact, WriteHash, InsertFields, work
  <2>2. EditsContact(r, u)
    BY <1>7, <2>1 DEF EditsContact, Editing
  <2>3. \/ fields' = fields
        \/ fields' = fields \cup {Version(r, target[r], Head(entries[r]), r)}
    BY <1>3, <1>10 DEF LockContact, WriteHash, InsertFields
  <2>4. Version(r, target[r], Head(entries[r]), r).del # r
    BY TableAssumption DEF Version
  <2>5. \A i : (\E g \in fields' : g.id = i /\ g.del = r) <=> \E g \in fields : g.id = i /\ g.del = r
    BY <2>3, <2>4
  <2>6. \A i : Condemned(r, i)' <=> Condemned(r, i)
    BY <2>1, <2>5 DEF Condemned
  <2> QED
    BY <2>1, <2>2, <2>6 DEF EditGoesOn
<1> QED
  BY <1>6, <1>7, <1>8, <1>9, <1>10

(* What a commit of r makes of the fields of a contact.                     *)
LEMMA FieldsKept ==
  ASSUME NEW r \in Requests, KeptFields(r), NEW u
  PROVE  /\ \A y \in FieldsAt(u)' : \E g \in fields :
              /\ g.uuid = u /\ g.id = y.id /\ g.hash = y.hash
              /\ g.del # r /\ g.by \in {None, r}
         /\ \A g \in fields : g.uuid = u /\ g.del # r /\ g.by \in {None, r} =>
              \E y \in FieldsAt(u)' : y.id = g.id /\ y.hash = g.hash
BY DEF KeptFields, FieldsAt, Committed

(* To the edits of the others it makes no difference.                       *)
LEMMA EditsGoOn ==
  ASSUME PhonebookInv, NEW r \in Requests, Commit(r), NEW u
  PROVE  /\ ~EditsContact(r, u)'
         /\ \A p \in Requests : \A i :
              EditsContact(p, u)' =>
                /\ p # r /\ EditsContact(p, u) /\ row'[p].hash = row[p].hash
                /\ Condemned(p, i)' <=> Condemned(p, i)
         /\ Edits(u)' = Edits(u) \cup {p \in {r} : kind[p] = "edit" /\ target[p] = u}
<1>1. /\ PhonebookInv' /\ reply'[r] = "ok" /\ KeptFields(r)
      /\ \A q \in Requests \ {r} : Untouched(q)
  BY CommitKeeps
<1>2. /\ UNCHANGED <<kind, target>> /\ pc'[r] = "done"
  BY DEF Commit, input, PhonebookInv, Types, TypeOK
<1>3. ~EditsContact(r, u)'
  BY <1>2 DEF EditsContact, Editing
<1>4. ASSUME NEW p \in Requests \ {r}, NEW i PROVE Condemned(p, i)' <=> Condemned(p, i)
  BY <1>1 DEF KeptFields, Condemned, Untouched
<1>5. \A p \in Requests \ {r} : EditsContact(p, u)' <=> EditsContact(p, u)
  BY <1>1 DEF EditsContact, Untouched
<1>6. Edits(u)' = Edits(u) \cup {p \in {r} : kind[p] = "edit" /\ target[p] = u}
  BY <1>1, <1>2 DEF Edits, Untouched
<1> QED
  BY <1>1, <1>3, <1>4, <1>5, <1>6 DEF Untouched

(* The fields that an edit has inserted, which nobody else knows of yet.    *)
LEMMA OwnFields ==
  ASSUME PhonebookInv, NEW r \in Requests, pc[r] = "commit", kind[r] = "edit"
  PROVE  \E g \in fields :
           /\ g.by = r /\ g.del = None /\ g.uuid = target[r] /\ g.hash = Head(entries[r])
           /\ \A p \in Requests : ~Condemned(p, g.id)
<1>1. PICK g \in fields : g.by = r /\ g.uuid = target[r]
  BY DEF PhonebookInv, RequestInv, Writes
<1>2. g.hash = Head(entries[r])
  BY <1>1 DEF PhonebookInv, RequestInv, Writes
<1>3. r # None /\ None \notin Requests /\ r # 0
  BY TableAssumption
<1>4. g.del = None /\ g.id[1] = r
  BY <1>1, <1>3 DEF PhonebookInv, TableInv, Fitting, Backed
<1>5. ASSUME NEW p \in Requests, Condemned(p, g.id) PROVE FALSE
  <2>1. g.id \notin fieldsLeft[p]
    BY <1>3, <1>4 DEF PhonebookInv, RequestInv, Stage, Ended
  <2>2. PICK f \in fields : f.id = g.id /\ f.del = p
    BY <1>5, <2>1 DEF Condemned
  <2>3. f = g
    BY <2>2 DEF PhonebookInv, TableInv, Keyed
  <2> QED
    BY <1>3, <1>4, <2>2, <2>3
<1> QED
  BY <1>1, <1>2, <1>4, <1>5

LEMMA CommitOfEdit ==
  ASSUME PhonebookInv, FieldsInv, NEW r \in Requests, Commit(r), pc[r] = "commit",
         kind[r] = "edit", NEW u, u = target[r], NEW x \in Committed(rows), x.uuid = u, NEW h,
         \/ Head(entries[r]) = h
         \/ x.hash = h /\ row[r].hash = Head(entries[r])
  PROVE  Follow(u, h)'
<1>1. PICK e : e = Head(entries[r])
  OBVIOUS
<1>2. PICK o : o = x.hash
  OBVIOUS
<1>3. e = h \/ (o = h /\ row[r].hash = e)
  BY <1>1, <1>2
<1>4. Follow(u, o) /\ KeptFields(r) /\ r # None
  BY <1>2, CommitKeeps, TableAssumption DEF FieldsInv
<1>5. PICK g \in fields : /\ g.by = r /\ g.del = None /\ g.uuid = u /\ g.hash = e
                          /\ \A p \in Requests : ~Condemned(p, g.id)
  BY <1>1, OwnFields
<1>6. EditsContact(r, u)
  BY DEF EditsContact, Editing
<1>7. Edits(u)' = Edits(u) \cup {r} /\ r \notin Edits(u)
  <2>1. reply[r] # "ok"
    BY PhonebookAssumption DEF PhonebookInv, RequestInv, Stage
  <2> QED
    BY <2>1, EditsGoOn DEF Edits
<1>8. Matched(u, h)'
  <2>1. CASE e = h
    <3>1. PICK y \in FieldsAt(u)' : y.id = g.id /\ y.hash = h
      BY <1>4, <1>5, <2>1, FieldsKept
    <3>2. \A p \in Requests : EditsContact(p, u)' => ~Condemned(p, g.id)'
      BY <1>5, EditsGoOn
    <3>3. \A p \in Requests : EditsContact(p, u)' => ~Condemned(p, y.id)'
      BY <3>1, <3>2
    <3> QED
      BY <3>1, <3>3 DEF Matched
  <2>2. CASE e # h
    <3>1. PICK f \in FieldsAt(u) :
            /\ f.hash = h
            /\ \A p \in Requests : EditsContact(p, u) /\ row[p].hash # h => ~Condemned(p, f.id)
      BY <1>3, <1>4, <2>2 DEF Follow, Matched
    <3>2. f \in fields /\ f.uuid = u /\ f.by = None
      BY DEF FieldsAt, Committed
    <3>3. f.del # r
      BY <1>3, <1>6, <2>2, <3>1, <3>2 DEF Condemned
    <3>4. PICK y \in FieldsAt(u)' : y.id = f.id /\ y.hash = h
      BY <1>4, <3>1, <3>2, <3>3, FieldsKept
    <3>5. \A p \in Requests : EditsContact(p, u)' /\ row'[p].hash # h => ~Condemned(p, f.id)'
      BY <3>1, EditsGoOn
    <3>6. \A p \in Requests : EditsContact(p, u)' /\ row'[p].hash # h => ~Condemned(p, y.id)'
      BY <3>4, <3>5
    <3> QED
      BY <3>4, <3>6 DEF Matched
  <2> QED
    BY <2>1, <2>2
<1>9. (\A p, q \in Edits(u)' : p = q) => Matches(u, h)'
  <2> SUFFICES ASSUME \A p, q \in Edits(u)' : p = q, NEW y \in FieldsAt(u)'
               PROVE  y.hash = h
    BY DEF Matches
  <2>1. Edits(u) = {}
    BY <1>7
  <2>2. row[r].hash = o /\ \A f \in FieldsAt(u) : Condemned(r, f.id)
    BY <1>4, <1>6, <2>1 DEF Follow, Unedited
  <2>3. \A f \in FieldsAt(u) : f.del = r
    <3>1. fieldsLeft[r] = {}
      BY DEF PhonebookInv, RequestInv, Stage
    <3>2. \A f, k \in fields : f.id = k.id => f = k
      BY DEF PhonebookInv, TableInv, Keyed
    <3> QED
      BY <2>2, <3>1, <3>2 DEF Condemned, FieldsAt, Committed
  <2>4. PICK f \in fields : f.uuid = u /\ f.hash = y.hash /\ f.del # r /\ f.by \in {None, r}
    BY <1>4, FieldsKept
  <2>5. f.by = r
    BY <2>3, <2>4 DEF FieldsAt, Committed
  <2>6. f.hash = e
    BY <1>1, <2>4, <2>5 DEF PhonebookInv, RequestInv, Writes
  <2> QED
    BY <1>3, <2>2, <2>4, <2>6
<1> QED
  BY <1>7, <1>8, <1>9 DEF Follow

(* A contact whose row and fields the commit leaves alone.                  *)
LEMMA CommitElsewhere ==
  ASSUME PhonebookInv, NEW r \in Requests, Commit(r), NEW u, NEW h, Follow(u, h),
         kind[r] # "edit" \/ target[r] # u,
         \A g \in fields : g.uuid = u => g.by # r /\ g.del # r
  PROVE  Follow(u, h)'
<1>1. KeptFields(r) /\ r # None
  BY CommitKeeps, TableAssumption
<1>2. /\ \A y \in FieldsAt(u)' : \E g \in FieldsAt(u) : g.id = y.id /\ g.hash = y.hash
      /\ \A g \in FieldsAt(u) : \E y \in FieldsAt(u)' : g.id = y.id /\ g.hash = y.hash
  <2>1. FieldsAt(u) = {g \in fields : g.uuid = u /\ g.by = None}
    BY DEF FieldsAt, Committed
  <2> QED
    BY <1>1, <2>1, FieldsKept
<1>3. Edits(u)' = Edits(u)
  BY EditsGoOn
<1>4. Matched(u, h)'
  <2>1. PICK f \in FieldsAt(u) :
          /\ f.hash = h
          /\ \A p \in Requests : EditsContact(p, u) /\ row[p].hash # h => ~Condemned(p, f.id)
    BY DEF Follow, Matched
  <2>2. PICK y \in FieldsAt(u)' : y.id = f.id /\ y.hash = h
    BY <1>2, <2>1
  <2>3. \A p \in Requests : EditsContact(p, u)' /\ row'[p].hash # h => ~Condemned(p, f.id)'
    BY <2>1, EditsGoOn
  <2>4. \A p \in Requests : EditsContact(p, u)' /\ row'[p].hash # h => ~Condemned(p, y.id)'
    BY <2>2, <2>3
  <2> QED
    BY <2>2, <2>4 DEF Matched
<1>5. Matches(u, h) => Matches(u, h)'
  BY <1>2 DEF Matches
<1>6. Unedited(u, h) => Unedited(u, h)'
  <2> SUFFICES ASSUME Unedited(u, h), NEW p \in Requests, EditsContact(p, u)'
               PROVE  row'[p].hash = h /\ \A y \in FieldsAt(u)' : Condemned(p, y.id)'
    BY DEF Unedited, EditsContact, FieldsAt, Condemned
  <2>1. row'[p].hash = h /\ \A f \in FieldsAt(u) : Condemned(p, f.id)'
    BY EditsGoOn DEF Unedited
  <2> QED
    BY <1>2, <2>1
<1> QED
  BY <1>3, <1>4, <1>5, <1>6 DEF Follow

LEMMA CommitKeepsFields ==
  ASSUME PhonebookInv, FieldsInv, NEW r \in Requests, Commit(r)
  PROVE  FieldsInv'
<1> SUFFICES ASSUME NEW y \in Committed(rows)' PROVE Follow(y.uuid, y.hash)'
  BY DEF FieldsInv, Follow, Matched, Unedited, Matches, Edits, EditsContact, FieldsAt, Condemned
<1>1. PICK u, h : u = y.uuid /\ h = y.hash
  OBVIOUS
<1>2. /\ KeptRows(r) /\ KeptFields(r) /\ r # None /\ r # 0
      /\ RequestInv(r) /\ TableInv
      /\ pc[r] = "commit" \/ pc[r] = "insert"
  BY CommitKeeps, TableAssumption DEF PhonebookInv, Commit
<1>3. PICK x \in rows : x.uuid = u /\ x.hash = h /\ x.del # r /\ x.by \in {None, r}
  BY <1>1, <1>2 DEF KeptRows, Committed
<1>4. pc[r] # "done" /\ (pc[r] = "insert" => kind[r] \in Inserting)
  BY <1>2 DEF RequestInv, Stage
<1>5. CASE x.by = None
  <2>1. x \in Committed(rows) /\ Follow(u, h)
    BY <1>3, <1>5 DEF FieldsInv, Committed
  <2>2. CASE kind[r] = "edit" /\ target[r] = u
    <3>1. pc[r] = "commit"
      BY <1>2, <1>4, <2>2 DEF Inserting
    <3>2. ~Rewrites(r)
      <4> SUFFICES ASSUME Rewrites(r) PROVE FALSE
        OBVIOUS
      <4>1. PICK z \in rows : z.by = r /\ z.id = row[r].id
        BY <1>2, <3>1 DEF RequestInv, Writes
      <4>2. z.uuid = u /\ z # x
        BY <1>2, <1>5, <2>2, <3>1, <4>1 DEF RequestInv, Stage, TableInv, Fitting
      <4>3. Replaces(x, z) \/ Replaces(z, x)
        BY <1>2, <1>3, <4>2 DEF TableInv, Unique, Share
      <4> QED
        BY <1>2, <1>3, <1>5, <4>1, <4>3 DEF Replaces
    <3>3. row[r].hash = Head(entries[r])
      BY <2>2, <3>2 DEF Rewrites
    <3>4. Follow(u, h)'
      BY <1>3, <2>1, <2>2, <3>1, <3>3, CommitOfEdit
    <3> QED
      BY <1>1, <3>4
  <2>3. CASE kind[r] # "edit" \/ target[r] # u
    <3>1. ASSUME NEW g \in fields, g.uuid = u, g.by = r PROVE FALSE
      <4>1. CASE pc[r] = "insert"
        <5>1. Born(g.id) /\ g.id[1] = r /\ g.id[2] = u
          BY <1>2, <1>4, <3>1, <4>1 DEF RequestInv, Writes, TableInv, Backed, Fitting, Inserting
        <5>2. PICK n \in 1..MaxEntries : u = NewUuid(r, n)
          BY <1>2, <5>1 DEF Born
        <5> QED
          BY <1>2, <1>3, <1>4, <1>5, <5>2 DEF RequestInv, Known
      <4>2. CASE pc[r] # "insert"
        BY <1>2, <2>3, <3>1, <4>2 DEF RequestInv, Writes
      <4> QED
        BY <4>1, <4>2
    <3>2. ASSUME NEW g \in fields, g.uuid = u, g.del = r PROVE FALSE
      <4>1. pc[r] = "commit" /\ kind[r] \in {"remove", "removeBook"}
        BY <1>2, <2>3, <3>2 DEF RequestInv, Deletes
      <4>2. CASE kind[r] = "remove"
        <5>1. g.uuid = target[r]
          BY <1>2, <3>2, <4>2 DEF RequestInv, Deletes
        <5> QED
          BY <1>2, <1>3, <3>2, <4>1, <4>2, <5>1 DEF RequestInv, Gone
      <4>3. CASE kind[r] = "removeBook"
        BY <1>2, <1>3, <4>1, <4>3 DEF RequestInv, Closing, PhonebookInv, NoBook
      <4> QED
        BY <4>1, <4>2, <4>3
    <3>3. Follow(u, h)'
      BY <2>1, <2>3, <3>1, <3>2, CommitElsewhere
    <3> QED
      BY <1>1, <3>3
  <2> QED
    BY <2>2, <2>3
<1>6. CASE x.by = r /\ pc[r] = "commit"
  <2>1. /\ Rewrites(r) /\ kind[r] = "edit" /\ x.id = row[r].id /\ x.hash = Head(entries[r])
        /\ target[r] = u /\ Ended(x.id[1]) /\ x.id = row[r].id
    BY <1>2, <1>3, <1>6 DEF RequestInv, Writes, Rewrites, Stage, TableInv, Fitting
  <2>2. ~Inserted(x)
    BY <1>2, <1>4, <1>6, <2>1 DEF Inserted, Ended
  <2>3. PICK o \in rows : o.by = None /\ o.id = x.id
    BY <1>2, <1>6, <2>2 DEF TableInv, Updated
  <2>4. o \in Committed(rows) /\ o.uuid = u
    BY <1>2, <1>3, <2>3 DEF Committed, TableInv, Fitting
  <2>5. Follow(u, h)'
    BY <1>3, <1>6, <2>1, <2>4, CommitOfEdit
  <2> QED
    BY <1>1, <2>5
<1>7. CASE x.by = r /\ pc[r] = "insert"
  <2>1. x.id[1] = r /\ Inserted(x) /\ Born(x.id) /\ x.id[2] = u
    BY <1>2, <1>3, <1>7 DEF RequestInv, Writes, Inserted, TableInv, Fitting, Rooted
  <2>2. x \in fields /\ \A g \in fields : g.uuid = u => g = x
    BY <1>2, <1>3, <2>1 DEF TableInv, Fresh
  <2>3. PICK n \in 1..MaxEntries : u = NewUuid(r, n)
    BY <1>2, <2>1 DEF Born
  <2>4. \A p \in Requests : target[p] # u
    BY <1>4, <2>3 DEF PhonebookInv, RequestInv, Known
  <2>5. \A p \in Requests : ~EditsContact(p, u)'
    BY <2>4, EditsGoOn DEF EditsContact
  <2>6. \A g \in FieldsAt(u)' : g.hash = h
    BY <1>2, <1>3, <2>2, FieldsKept
  <2>7. FieldsAt(u)' # {}
    BY <1>2, <1>3, <2>2, FieldsKept
  <2>8. Follow(u, h)'
    BY <2>5, <2>6, <2>7 DEF Follow, Matched, Matches, Unedited
  <2> QED
    BY <1>1, <2>8
<1> QED
  BY <1>2, <1>3, <1>5, <1>6, <1>7

LEMMA InitFieldsInv == Init => FieldsInv
<1> SUFFICES ASSUME Init, NEW x \in Committed(rows) PROVE Follow(x.uuid, x.hash)
  BY DEF FieldsInv
<1>1. fields = rows /\ rows = {Version(0, h, h, None) : h \in Initial}
  BY DEF Init, TableInit
<1>2. \A y \in rows : y.uuid = y.hash
  BY <1>1 DEF Version
<1>3. \A p \in Requests : \A u : ~EditsContact(p, u)
  BY PhonebookAssumption DEF Init, EditsContact
<1>4. x \in FieldsAt(x.uuid) /\ \A g \in FieldsAt(x.uuid) : g.hash = x.hash
  BY <1>1, <1>2 DEF FieldsAt, Committed
<1> QED
  BY <1>3, <1>4 DEF Follow, Matched, Matches, Unedited

LEMMA OnlyCommitsSucceed ==
  ASSUME PhonebookInv, NEW r \in Requests, Begins(r) \/ DatabaseFails(r) \/ Step(r), ~Commit(r)
  PROVE  reply[r] # "ok" /\ reply'[r] # "ok"
<1>1. /\ Types /\ "ok" # None
      /\ reply[r] # None => pc[r] = "done"
  BY PhonebookAssumption DEF PhonebookInv, RequestInv, Stage
<1>2. pc[r] # "done"
  <2>1. CASE Deadlock(r)
    <3> SUFFICES ASSUME pc[r] = "done" PROVE FALSE
      OBVIOUS
    <3>1. Blockers[r] = {}
      BY DEF Blockers
    <3>2. InCycle(r, Blockers)
      BY <2>1 DEF Deadlock
    <3> QED
      BY <3>1, <3>2 DEF InCycle
  <2>2. CASE ~Deadlock(r)
    BY <2>2 DEF Begins, BeginCreate, BeginImport, BeginEdit, BeginRemove, BeginRemoveBook, Begin,
       DatabaseFails, Step, LoadBook, LoadContact, LockContact, WriteHash, EditRefused,
       InsertFields, DeleteLoadedFields, DeleteContact, CascadeContact, DeleteBook, CascadeRow,
       CascadeFields, InsertContact, InsertRefused, BookGone
  <2> QED
    BY <2>1, <2>2
<1>3. \A why : Abort(r, why) /\ why # "ok" => reply'[r] # "ok"
  BY <1>1 DEF Abort, Types, TypeOK
<1>4. reply' = reply \/ \E why : Abort(r, why) /\ why # "ok"
  <2>1. CASE Begins(r)
    BY <2>1 DEF Begins, BeginCreate, BeginImport, BeginEdit, BeginRemove, BeginRemoveBook, Begin
  <2>2. CASE DatabaseFails(r)
    BY <2>2 DEF DatabaseFails
  <2>3. CASE Step(r)
    <3>1. CASE \E why : Abort(r, why) /\ why # "ok"
      BY <3>1
    <3>2. CASE \A why : ~Abort(r, why) \/ why = "ok"
      <4>1. /\ ~Abort(r, "nosuch") /\ ~Abort(r, "crash") /\ ~Abort(r, "duplicate")
            /\ ~Abort(r, "badContacts") /\ ~Abort(r, "deadlocked")
        BY <3>2
      <4>2. CASE \/ LoadBook(r) \/ LoadContact(r) \/ LockContact(r) \/ WriteHash(r)
                 \/ EditRefused(r) \/ InsertFields(r) \/ DeleteLoadedFields(r)
                 \/ DeleteContact(r) \/ CascadeContact(r)
        BY <4>1, <4>2 DEF LoadBook, LoadContact, LockContact, WriteHash, EditRefused,
           InsertFields, DeleteLoadedFields, DeleteContact, CascadeContact, GoTo
      <4>3. CASE \/ DeleteBook(r) \/ CascadeRow(r) \/ CascadeFields(r) \/ InsertContact(r)
                 \/ InsertRefused(r) \/ BookGone(r) \/ Deadlock(r)
        BY <4>1, <4>3 DEF DeleteBook, CascadeRow, CascadeFields, InsertContact, InsertRefused,
           BookGone, Deadlock, GoTo
      <4> QED
        BY <2>3, <4>2, <4>3 DEF Step
    <3> QED
      BY <3>1, <3>2
  <2> QED
    BY <2>1, <2>2, <2>3
<1> QED
  BY <1>1, <1>2, <1>3, <1>4

LEMMA NextKeepsFields ==
  ASSUME PhonebookInv, FieldsInv, [Next]_vars
  PROVE  FieldsInv'
<1>1. CASE UNCHANGED vars
  <2>1. UNCHANGED <<rows, fields, pc, kind, target, row, fieldsLeft, reply>>
    BY <1>1 DEF vars, table, input, work
  <2> QED
    BY <2>1 DEF FieldsInv, Follow, Matched, Unedited, Matches, Edits, EditsContact, FieldsAt,
       Condemned, Committed
<1>2. ASSUME NEW r \in Requests, Commit(r) PROVE FieldsInv'
  BY <1>2, CommitKeepsFields
<1>3. ASSUME NEW r \in Requests, Quiet(r), Begins(r) \/ DatabaseFails(r) \/ Step(r), ~Commit(r)
      PROVE  FieldsInv'
  <2>1. reply[r] # "ok" /\ reply'[r] # "ok"
    BY <1>3, OnlyCommitsSucceed
  <2> QED
    BY <1>3, <2>1, EditSteps, FieldsStay
<1> QED
  BY <1>1, <1>2, <1>3, NextKeeps

(* A contact always has the fields that its hash was computed from, and     *)
(* only those unless two edits of it were acknowledged.                     *)
THEOREM SpecTablesAreSound == Spec => []TablesAreSound
<1>1. PhonebookInv /\ FieldsInv /\ [Next]_vars => (PhonebookInv /\ FieldsInv)'
  BY NextKeeps, NextKeepsFields
<1>2. PhonebookInv /\ FieldsInv => TablesAreSound
  <2> SUFFICES ASSUME PhonebookInv, FieldsInv PROVE FieldsFollowHash
    BY DEF TablesAreSound, PhonebookInv, Types
  <2> SUFFICES ASSUME NEW x \in Committed(rows)
               PROVE  LET hashes == {g.hash : g \in FieldsAt(x.uuid)}
                      IN  /\ x.hash \in hashes
                          /\ (\A q, r \in Edits(x.uuid) : q = r) => hashes = {x.hash}
    BY DEF FieldsFollowHash, FieldsAt, Edits
  <2>1. Matched(x.uuid, x.hash)
        /\ ((\A p, q \in Edits(x.uuid) : p = q) => Matches(x.uuid, x.hash))
    BY DEF FieldsInv, Follow
  <2> QED
    BY <2>1 DEF Matched, Matches
<1> QED
  BY <1>1, <1>2, InitPhonebookInv, InitFieldsInv, PTL DEF Spec

----------------------------------------------------------------------------
(* An import is complete.  As long as requests only insert, nothing is      *)
(* deleted, and each entry an import has dealt with has a row: its own, or  *)
(* the committed one it was refused for.                                    *)
OnlyInserts == \A q \in Requests : kind[q] \in Inserting \cup {None}
InTable(h, W) == \E x \in rows : x.hash = h /\ x.by \in W
Rest(E, t) == \A i \in 1 .. Len(t) : t[i] = E[Len(E) - Len(t) + i]
DealtWith(E, t) == 1 .. Len(E) - Len(t)
Covered(r) ==
  kind[r] = "import" =>
    /\ pc[r] = "insert" =>
         /\ Rest(entries[r], todo[r])
         /\ \A i \in DealtWith(entries[r], todo[r]) : InTable(entries[r][i], {None, r})
    /\ reply[r] = "ok" => \A i \in 1 .. Len(entries[r]) : InTable(entries[r][i], {None})
ImportInv == OnlyInserts => \A r \in Requests : Covered(r)

LEMMA NothingDeleted ==
  ASSUME PhonebookInv, OnlyInserts
  PROVE  \A x \in rows : x.del = None
<1> SUFFICES ASSUME NEW x \in rows, NEW q \in Requests, x.del = q PROVE FALSE
  BY DEF PhonebookInv, TableInv, Shapes, Versions
<1>1. kind[q] \in {"edit", "remove", "removeBook"}
  BY DEF PhonebookInv, RequestInv, Deletes, Rewrites
<1>2. kind[q] \in {"create", "import", None}
  BY DEF OnlyInserts, Inserting
<1> QED
  BY <1>1, <1>2, PhonebookAssumption

(* An import goes over its entries one by one.                              *)
LEMMA Advance ==
  ASSUME NEW S, NEW E \in Seq(S), NEW t \in Seq(S), Len(t) > 0, Len(t) <= Len(E), Rest(E, t)
  PROVE  /\ Rest(E, Tail(t))
         /\ \A i \in DealtWith(E, Tail(t)) : i \in DealtWith(E, t) \/ E[i] = Head(t)
<1>1. PICK m \in Nat, n \in Nat : m = Len(t) /\ n = Len(E)
  OBVIOUS
<1>2. m > 0 /\ m <= n /\ Len(Tail(t)) = m - 1 /\ Head(t) = t[1]
  BY <1>1
<1>3. \A i \in 1 .. m - 1 : Tail(t)[i] = t[i + 1]
  BY <1>1
<1>4. \A i \in 1 .. m : t[i] = E[n - m + i]
  BY <1>1 DEF Rest
<1>5. Rest(E, Tail(t))
  <2>1. ASSUME NEW i \in 1 .. m - 1 PROVE Tail(t)[i] = E[n - (m - 1) + i]
    <3>1. i + 1 \in 1 .. m /\ n - m + (i + 1) = n - (m - 1) + i
      BY <1>2
    <3>2. t[i + 1] = E[n - m + (i + 1)]
      BY <1>4, <3>1
    <3> QED
      BY <1>3, <3>1, <3>2
  <2> QED
    BY <1>1, <1>2, <2>1 DEF Rest
<1>6. ASSUME NEW i \in 1 .. n - (m - 1), i \notin 1 .. n - m PROVE E[i] = Head(t)
  <2>1. i = n - m + 1 /\ 1 \in 1 .. m
    BY <1>2, <1>6
  <2>2. t[1] = E[n - m + 1]
    BY <1>4, <2>1
  <2> QED
    BY <1>2, <2>1, <2>2
<1>7. DealtWith(E, Tail(t)) = 1 .. n - (m - 1) /\ DealtWith(E, t) = 1 .. n - m
  BY <1>1, <1>2 DEF DealtWith
<1> QED
  BY <1>5, <1>6, <1>7

LEMMA ImportAdvances ==
  ASSUME PhonebookInv, NEW r \in Requests, Covered(r), kind[r] = "import", pc[r] = "insert",
         todo[r] # <<>>, todo' = [todo EXCEPT ![r] = Tail(todo[r])],
         UNCHANGED <<pc, kind, entries, reply>>, rows \subseteq rows',
         \E x \in rows' : x.hash = Head(todo[r]) /\ x.by \in {None, r}
  PROVE  Covered(r)'
<1>1. PICK E \in Seq(Hashes) : E = entries[r] /\ E = entries'[r]
  BY DEF PhonebookInv, Types, TypeOK
<1>2. PICK t \in Seq(Hashes) : t = todo[r]
  BY DEF PhonebookInv, Types, TypeOK
<1>3. todo'[r] = Tail(t)
  BY <1>2 DEF PhonebookInv, Types, TypeOK
<1>4. Len(t) > 0 /\ Len(t) <= Len(E)
  BY <1>1, <1>2, NextEntry DEF PhonebookInv, RequestInv, Stage
<1>5. Rest(E, t) /\ \A i \in DealtWith(E, t) : InTable(E[i], {None, r})
  BY <1>1, <1>2 DEF Covered
<1>6. /\ Rest(E, Tail(t))
      /\ \A i \in DealtWith(E, Tail(t)) : i \in DealtWith(E, t) \/ E[i] = Head(t)
  BY <1>4, <1>5, Advance
<1>7. PICK x \in rows' : x.hash = Head(t) /\ x.by \in {None, r}
  BY <1>2
<1>8. \A i \in DealtWith(E, Tail(t)) : \E y \in rows' : y.hash = E[i] /\ y.by \in {None, r}
  BY <1>5, <1>6, <1>7 DEF InTable
<1>9. reply'[r] # "ok"
  BY PhonebookAssumption DEF PhonebookInv, RequestInv, Stage
<1>10. Rest(entries[r], todo[r])'
  BY <1>1, <1>3, <1>6 DEF Rest
<1>11. DealtWith(entries[r], todo[r])' = DealtWith(E, Tail(t))
  BY <1>1, <1>3 DEF DealtWith
<1>12. \A i \in DealtWith(entries[r], todo[r])' : InTable(entries[r][i], {None, r})'
  BY <1>1, <1>8, <1>11 DEF InTable
<1> QED
  BY <1>9, <1>10, <1>12 DEF Covered

LEMMA ImportSteps ==
  ASSUME PhonebookInv, NEW r \in Requests, Covered(r),
         Begins(r) \/ DatabaseFails(r) \/ Step(r), ~Commit(r)
  PROVE  Covered(r)'
<1> SUFFICES ASSUME kind'[r] = "import", pc'[r] = "insert" PROVE Covered(r)'
  BY OnlyCommitsSucceed DEF Covered
<1>1. /\ Types /\ Stage(r) /\ reply'[r] # "ok"
  BY OnlyCommitsSucceed DEF PhonebookInv, RequestInv
<1>2. \A why : ~Abort(r, why)
  BY <1>1 DEF Abort, Types, TypeOK
<1>3. ~Begins(r)
  BY <1>1 DEF Begins, BeginCreate, BeginImport, BeginEdit, BeginRemove, BeginRemoveBook,
     Begin, Types, TypeOK
<1>4. Step(r) /\ ~EditRefused(r) /\ ~BookGone(r) /\ ~Deadlock(r)
  BY <1>2, <1>3 DEF DatabaseFails, EditRefused, BookGone, Deadlock
<1>5. LoadBook(r) \/ InsertContact(r) \/ InsertRefused(r)
  <2>1. ~LoadContact(r) /\ ~LockContact(r) /\ ~WriteHash(r) /\ ~InsertFields(r)
    BY <1>1, <1>2 DEF LoadContact, LockContact, WriteHash, InsertFields, GoTo, Types, TypeOK
  <2>2. /\ ~DeleteLoadedFields(r) /\ ~DeleteContact(r) /\ ~CascadeContact(r) /\ ~DeleteBook(r)
        /\ ~CascadeRow(r) /\ ~CascadeFields(r)
    BY <1>1 DEF DeleteLoadedFields, DeleteContact, CascadeContact, DeleteBook, CascadeRow,
       CascadeFields, GoTo, Types, TypeOK
  <2> QED
    BY <1>4, <2>1, <2>2 DEF Step
<1>6. CASE LoadBook(r)
  <2>1. todo' = [todo EXCEPT ![r] = entries[r]] /\ entries' = entries
    BY <1>2, <1>6 DEF LoadBook, GoTo, input
  <2>2. PICK E \in Seq(Hashes) : E = entries'[r] /\ E = todo'[r]
    BY <1>1, <2>1 DEF Types, TypeOK
  <2>3. Rest(E, E) /\ DealtWith(E, E) = {}
    BY DEF Rest, DealtWith
  <2>4. Rest(entries[r], todo[r])' /\ DealtWith(entries[r], todo[r])' = {}
    BY <2>2, <2>3 DEF Rest, DealtWith
  <2> QED
    BY <1>1, <2>4 DEF Covered
<1>7. CASE InsertContact(r) \/ InsertRefused(r)
  <2>1. /\ UNCHANGED <<pc, kind, entries, reply>> /\ todo[r] # <<>>
        /\ todo' = [todo EXCEPT ![r] = Tail(todo[r])]
        /\ rows' = rows \/ rows' = rows \cup {Version(r, NextUuid(r), Head(todo[r]), r)}
    BY <1>2, <1>7 DEF InsertContact, InsertRefused, Insert, input, table
  <2>2. kind[r] = "import" /\ pc[r] = "insert" /\ RequestInv(r)
    BY <2>1 DEF PhonebookInv
  <2>4. \E x \in rows' : x.hash = Head(todo[r]) /\ x.by \in {None, r}
    <3>1. CASE InsertContact(r)
      <4>1. Version(r, NextUuid(r), Head(todo[r]), r) \in rows'
        BY <3>1 DEF InsertContact, Insert
      <4> QED
        BY <4>1 DEF Version
    <3>2. CASE InsertRefused(r)
      <4>1. PICK x \in Rivals(r) : x.by \in {None, r}
        BY <3>2 DEF InsertRefused, Holders
      <4>2. PICK n \in 1..MaxEntries : n = Len(todo[r])
        BY <2>1, <2>2, NextEntry
      <4>3. x \in rows /\ (x.uuid = NewUuid(r, n) \/ x.hash = Head(todo[r]))
        BY <4>2 DEF Rivals, Clashing, NextUuid
      <4>4. x.uuid # NewUuid(r, n)
        BY <2>2, <4>2, <4>3 DEF RequestInv, Known
      <4>5. rows' = rows
        BY <1>2, <3>2 DEF InsertRefused, table
      <4> QED
        BY <4>1, <4>3, <4>4, <4>5
    <3> QED
      BY <1>7, <3>1, <3>2
  <2> QED
    BY <2>1, <2>2, <2>4, ImportAdvances DEF InTable
<1> QED
  BY <1>5, <1>6, <1>7

(* What the others have inserted, or found in the table, stays there.       *)
LEMMA TableGrows ==
  ASSUME PhonebookInv, OnlyInserts, NEW r \in Requests, Quiet(r) \/ Commit(r),
         NEW q \in Requests \ {r}, NEW h, NEW W \in {{None}, {None, q}}, InTable(h, W)
  PROVE  InTable(h, W)'
<1>1. PICK x \in rows : x.hash = h /\ x.by \in W
  BY DEF InTable
<1>2. /\ q # r /\ q # None /\ r # None
      /\ x.del = None
  BY NothingDeleted, TableAssumption
<1>3. CASE x.by = None
  <2>1. CASE Quiet(r)
    <3>1. <<x.uuid, x.hash>> \in Contacts'
      BY <1>3, <2>1 DEF Contacts, Committed, Quiet, NoCommit
    <3>2. PICK y \in rows' : y.by = None /\ y.hash = x.hash
      BY <3>1 DEF Contacts, Committed
    <3> QED
      BY <1>1, <3>2 DEF InTable
  <2>2. CASE Commit(r)
    <3>1. PICK y \in rows' : y.hash = x.hash /\ y = x
      BY <1>2, <1>3, <2>2, CommitKeeps DEF KeptRows
    <3> QED
      BY <1>1, <1>3, <3>1 DEF InTable
  <2> QED
    BY <2>1, <2>2
<1>4. CASE x.by = q
  <2>1. CASE Quiet(r)
    <3>1. x \in rows'
      BY <1>2, <1>4, <2>1 DEF Quiet, TableStep, Anothers
    <3> QED
      BY <1>1, <3>1 DEF InTable
  <2>2. CASE Commit(r)
    <3>1. PICK y \in rows' : y.hash = x.hash /\ y = x
      BY <1>2, <1>4, <2>2, CommitKeeps DEF KeptRows
    <3> QED
      BY <1>1, <3>1 DEF InTable
  <2> QED
    BY <2>1, <2>2
<1> QED
  BY <1>1, <1>3, <1>4

LEMMA OthersAreCovered ==
  ASSUME PhonebookInv, OnlyInserts, NEW r \in Requests, Quiet(r) \/ Commit(r),
         NEW q \in Requests \ {r}, Covered(q)
  PROVE  Covered(q)'
<1>1. /\ pc'[q] = pc[q] /\ kind'[q] = kind[q] /\ entries'[q] = entries[q]
      /\ todo'[q] = todo[q] /\ reply'[q] = reply[q]
  BY CommitKeeps DEF Quiet, Untouched
<1>2. \A h : InTable(h, {None}) => InTable(h, {None})'
  BY TableGrows
<1>3. \A h : InTable(h, {None, q}) => InTable(h, {None, q})'
  BY TableGrows
<1>4. PICK E, t : E = entries[q] /\ t = todo[q] /\ E = entries'[q] /\ t = todo'[q]
  BY <1>1
<1>5. /\ \A i \in DealtWith(E, t) : InTable(E[i], {None, q}) => InTable(E[i], {None, q})'
      /\ \A i \in 1 .. Len(E) : InTable(E[i], {None}) => InTable(E[i], {None})'
  BY <1>2, <1>3
<1>6. Covered(q) <=>
        (kind[q] = "import" =>
           /\ pc[q] = "insert" =>
                Rest(E, t) /\ \A i \in DealtWith(E, t) : InTable(E[i], {None, q})
           /\ reply[q] = "ok" => \A i \in 1 .. Len(E) : InTable(E[i], {None}))
  BY <1>4 DEF Covered
<1>7. Covered(q)' <=>
        (kind[q] = "import" =>
           /\ pc[q] = "insert" =>
                Rest(E, t) /\ \A i \in DealtWith(E, t) : InTable(E[i], {None, q})'
           /\ reply[q] = "ok" => \A i \in 1 .. Len(E) : InTable(E[i], {None})')
  BY <1>1, <1>4 DEF Covered, Rest, DealtWith, InTable
<1> QED
  BY <1>5, <1>6, <1>7

LEMMA CommitCovers ==
  ASSUME PhonebookInv, OnlyInserts, NEW r \in Requests, Commit(r), Covered(r)
  PROVE  Covered(r)'
<1> SUFFICES ASSUME kind[r] = "import"
             PROVE  \A i \in 1 .. Len(entries[r]) : InTable(entries[r][i], {None})'
  <2>1. pc'[r] = "done" /\ UNCHANGED <<kind, entries>>
    BY DEF Commit, input, PhonebookInv, Types, TypeOK
  <2> QED
    BY <2>1 DEF Covered, InTable
<1>1. pc[r] = "insert" /\ todo[r] = <<>>
  BY DEF Commit, PhonebookInv, RequestInv, Stage
<1>2. PICK E \in Seq(Hashes) : E = entries[r]
  BY DEF PhonebookInv, Types, TypeOK
<1>3. DealtWith(E, <<>>) = 1 .. Len(E)
  BY DEF DealtWith
<1>4. \A i \in 1 .. Len(E) : InTable(E[i], {None, r})
  BY <1>1, <1>2, <1>3 DEF Covered
<1>5. ASSUME NEW h, InTable(h, {None, r}) PROVE InTable(h, {None})'
  <2>1. PICK x \in rows : x.hash = h /\ x.by \in {None, r}
    BY <1>5 DEF InTable
  <2>2. x.del = None /\ r # None
    BY NothingDeleted, TableAssumption
  <2>3. PICK y \in rows' : y.hash = x.hash /\ IF x.by = r THEN y.by = None ELSE y = x
    BY <2>2, CommitKeeps DEF KeptRows
  <2> QED
    BY <2>1, <2>3 DEF InTable
<1>6. entries' = entries
  BY DEF Commit, input
<1> QED
  BY <1>2, <1>4, <1>5, <1>6

LEMMA NextKeepsImports ==
  ASSUME PhonebookInv, ImportInv, [Next]_vars
  PROVE  ImportInv'
<1> SUFFICES ASSUME OnlyInserts' PROVE \A r \in Requests : Covered(r)'
  BY DEF ImportInv
<1>1. CASE UNCHANGED vars
  <2>1. UNCHANGED <<rows, pc, kind, entries, todo, reply>>
    BY <1>1 DEF vars, table, input, work
  <2> QED
    BY <2>1 DEF ImportInv, OnlyInserts, Covered, InTable, Rest, DealtWith
<1>2. ASSUME NEW r \in Requests,
             \/ Commit(r)
             \/ Quiet(r) /\ (Begins(r) \/ DatabaseFails(r) \/ Step(r)) /\ ~Commit(r)
      PROVE  \A q \in Requests : Covered(q)'
  <2>1. OnlyInserts
    <3>1. kind'[r] = kind[r] \/ kind[r] = None
      <4>1. CASE Begins(r)
        <5>1. pc[r] = "idle"
          BY <4>1 DEF Begins, BeginCreate, BeginImport, BeginEdit, BeginRemove,
             BeginRemoveBook, Begin
        <5> QED
          BY <5>1 DEF PhonebookInv, RequestInv, Stage
      <4>2. CASE DatabaseFails(r) \/ Step(r)
        BY <4>2 DEF DatabaseFails, Step, LoadBook, LoadContact, LockContact, WriteHash,
           EditRefused, InsertFields, DeleteLoadedFields, DeleteContact, CascadeContact,
           DeleteBook, CascadeRow, CascadeFields, InsertContact, InsertRefused, BookGone,
           Deadlock, Commit, GoTo, Abort, input
      <4> QED
        BY <1>2, <4>1, <4>2 DEF Step
    <3>2. \A q \in Requests \ {r} : kind'[q] = kind[q]
      BY <1>2, CommitKeeps DEF Quiet, Untouched
    <3> QED
      BY <3>1, <3>2 DEF OnlyInserts
  <2>2. \A q \in Requests : Covered(q)
    BY <2>1 DEF ImportInv
  <2>3. Covered(r)'
    BY <1>2, <2>1, <2>2, ImportSteps, CommitCovers
  <2>4. \A q \in Requests \ {r} : Covered(q)'
    BY <1>2, <2>1, <2>2, OthersAreCovered
  <2> QED
    BY <2>3, <2>4
<1>3. CASE \E r \in Requests : Quiet(r) /\ (Begins(r) \/ DatabaseFails(r) \/ Step(r))
  BY <1>2, <1>3
<1> QED
  BY <1>1, <1>2, <1>3, NextKeeps

(* Every entry of an import that was acknowledged is in the phonebook, as   *)
(* long as nobody edits or removes contacts: an entry is passed over as a   *)
(* duplicate only when the contact it repeats is committed.                 *)
THEOREM SpecImportIsComplete == Spec => []ImportIsComplete
<1>1. Init => ImportInv
  BY PhonebookAssumption DEF Init, ImportInv, Covered
<1>2. PhonebookInv /\ ImportInv /\ [Next]_vars => (PhonebookInv /\ ImportInv)'
  BY NextKeeps, NextKeepsImports
<1>3. PhonebookInv /\ ImportInv => ImportIsComplete
  <2> SUFFICES ASSUME PhonebookInv, ImportInv,
                      \A q \in Requests : kind[q] \in {None, "create", "import"},
                      NEW r \in Requests, kind[r] = "import", reply[r] = "ok"
               PROVE  ToSet(entries[r]) \subseteq {p[2] : p \in Contacts}
    BY DEF ImportIsComplete
  <2>1. OnlyInserts
    BY DEF OnlyInserts, Inserting
  <2>2. \A i \in 1 .. Len(entries[r]) : \E x \in rows : x.hash = entries[r][i] /\ x.by = None
    BY <2>1 DEF ImportInv, Covered, InTable
  <2>3. ToSet(entries[r]) = {entries[r][i] : i \in 1 .. Len(entries[r])}
    <3>1. entries[r] \in Seq(Hashes)
      BY DEF PhonebookInv, Types, TypeOK
    <3> QED
      BY <3>1 DEF ToSet
  <2>4. ASSUME NEW i \in 1 .. Len(entries[r])
        PROVE  entries[r][i] \in {p[2] : p \in Contacts}
    <3>1. PICK x \in rows : x.hash = entries[r][i] /\ x.by = None
      BY <2>2
    <3>2. <<x.uuid, x.hash>> \in Contacts
      BY <3>1 DEF Contacts, Committed
    <3> QED
      BY <3>1, <3>2
  <2> QED
    BY <2>3, <2>4
<1> QED
  BY <1>1, <1>2, <1>3, InitPhonebookInv, PTL DEF Spec

----------------------------------------------------------------------------
(* The phonebook as it is seen from outside.  This takes two more facts: a  *)
(* phonebook that has gone was removed by somebody who has been told so;    *)
(* and of the entries it has dealt with, an import has inserted some and a  *)
(* creation all.                                                            *)
Shut == ~book => Book!Closed

Sent(r) ==
  /\ kind[r] \in {"remove", "removeBook"} => entries[r] = <<>>
  /\ kind[r] = "create" => Len(entries[r]) = 1
  /\ pc[r] = "insert" =>
       /\ Rest(entries[r], todo[r])
       /\ \A x \in rows : x.by = r =>
            \E i \in DealtWith(entries[r], todo[r]) : x.hash = entries[r][i]
       /\ kind[r] = "create" =>
            \A i \in DealtWith(entries[r], todo[r]) :
              \E x \in rows : x.by = r /\ x.hash = entries[r][i]

BookInv == PhonebookInv /\ Shut /\ \A r \in Requests : Sent(r)

Own(r) == {x.hash : x \in {y \in rows : y.by = r}}
Moved(r) ==
  /\ TableStep(r) \/ KeptRows(r)
  /\ \A q \in Requests \ {r} : Untouched(q)

LEMMA QuietMoves ==
  ASSUME NEW r \in Requests, Quiet(r)
  PROVE  Moved(r)
BY DEF Quiet, Moved

(* The rows the others have inserted stay.                                  *)
LEMMA OwnRowsStay ==
  ASSUME PhonebookInv, NEW r \in Requests, Moved(r), NEW q \in Requests \ {r}
  PROVE  /\ \A y \in rows' : y.by = q => \E x \in rows : x.by = q /\ x.hash = y.hash
         /\ \A x \in rows : x.by = q => x \in rows'
         /\ Own(q)' = Own(q)
<1>1. q # r /\ q # None /\ r # None
  BY TableAssumption
<1>2. \A x \in rows : x.by = q => x.del = None
  BY <1>1 DEF PhonebookInv, TableInv, Fitting
<1>3. /\ \A y \in rows' : y.by = q => \E x \in rows : x.by = q /\ x.hash = y.hash
      /\ \A x \in rows : x.by = q => x \in rows'
  <2>1. CASE TableStep(r)
    <3>1. \A y \in rows' : NewRow(r, y) \/ \E x \in rows : Same(r, x, y)
      BY <2>1 DEF TableStep
    <3>2. \A x \in rows : Anothers(r, x) => x \in rows'
      BY <2>1 DEF TableStep
    <3> QED
      BY <1>1, <3>1, <3>2 DEF NewRow, Same, Anothers
  <2>2. CASE KeptRows(r)
    BY <1>1, <1>2, <2>2 DEF KeptRows
  <2> QED
    BY <2>1, <2>2 DEF Moved
<1> QED
  BY <1>3 DEF Own

LEMMA OthersKeepBook ==
  ASSUME BookInv, NEW r \in Requests, Moved(r), NEW q \in Requests \ {r}
  PROVE  Sent(q)'
<1>1. Sent(q) /\ Untouched(q)
  BY DEF BookInv, Moved
<1>2. /\ \A y \in rows' : y.by = q => \E x \in rows : x.by = q /\ x.hash = y.hash
      /\ \A x \in rows : x.by = q => x \in rows'
  BY OwnRowsStay DEF BookInv
<1>3. PICK E, t : E = entries[q] /\ t = todo[q] /\ E = entries'[q] /\ t = todo'[q]
  BY <1>1 DEF Untouched
<1>4. pc[q] = "insert" =>
        /\ Rest(E, t)
        /\ \A x \in rows : x.by = q => \E i \in DealtWith(E, t) : x.hash = E[i]
        /\ kind[q] = "create" =>
             \A i \in DealtWith(E, t) : \E x \in rows : x.by = q /\ x.hash = E[i]
  BY <1>1, <1>3 DEF Sent
<1>5. pc[q] = "insert" =>
        /\ Rest(E, t)
        /\ \A x \in rows' : x.by = q => \E i \in DealtWith(E, t) : x.hash = E[i]
        /\ kind[q] = "create" =>
             \A i \in DealtWith(E, t) : \E x \in rows' : x.by = q /\ x.hash = E[i]
  BY <1>2, <1>4
<1>6. Rest(entries[q], todo[q])' <=> Rest(E, t)
  BY <1>3 DEF Rest
<1>7. DealtWith(entries[q], todo[q])' = DealtWith(E, t)
  BY <1>3 DEF DealtWith
<1>8. pc'[q] = pc[q] /\ kind'[q] = kind[q]
  BY <1>1 DEF Untouched
<1>9. /\ kind'[q] \in {"remove", "removeBook"} => entries'[q] = <<>>
      /\ kind'[q] = "create" => Len(entries'[q]) = 1
  BY <1>1, <1>3, <1>8 DEF Sent
<1> QED
  BY <1>3, <1>5, <1>6, <1>7, <1>8, <1>9 DEF Sent

LEMMA Unanswered ==
  ASSUME PhonebookInv, NEW r \in Requests, pc[r] # "done"
  PROVE  reply[r] = None
BY DEF PhonebookInv, RequestInv, Stage

(* Who was told that the phonebook is removed stays told.                   *)
LEMMA StaysClosed ==
  ASSUME PhonebookInv, NEW r \in Requests, Moved(r), pc[r] # "done", Book!Closed
  PROVE  Book!Closed'
<1>1. PICK q \in Requests : kind[q] = "removeBook" /\ reply[q] = "ok"
  BY DEF Book!Closed
<1>2. q # r
  BY <1>1, Unanswered, PhonebookAssumption
<1> QED
  BY <1>1, <1>2 DEF Book!Closed, Moved, Untouched

LEMMA QuietKeepsBook ==
  ASSUME BookInv, NEW r \in Requests, PhonebookInv', Quiet(r), pc[r] # "done", book' = book,
         Sent(r)'
  PROVE  BookInv'
<1>1. Shut'
  BY QuietMoves, StaysClosed DEF BookInv, Shut
<1>2. \A q \in Requests \ {r} : Sent(q)'
  BY QuietMoves, OthersKeepBook
<1> QED
  BY <1>1, <1>2 DEF BookInv

----------------------------------------------------------------------------
(* What the contact book is told of a step: first, nothing of the plans of  *)
(* the requests that do not make it.                                        *)
LEMMA PlanOfOthers ==
  ASSUME PhonebookInv, NEW r \in Requests, Moved(r), NEW q \in Requests \ {r}
  PROVE  /\ Doomed(q)' = Doomed(q) /\ Skipped(q)' = Skipped(q)
         /\ (q \in Looked') <=> (q \in Looked)
<1>1. Untouched(q) /\ Own(q)' = Own(q)
  BY OwnRowsStay DEF Moved
<1>2. (q \in Looked') <=> (q \in Looked)
  BY <1>1 DEF Looked, Untouched
<1>3. (FoundAlready(q)') <=> FoundAlready(q)
  BY <1>1, <1>2 DEF FoundAlready, Untouched
<1>4. Doomed(q)' = Doomed(q)
  BY <1>1, <1>2, <1>3 DEF Doomed, Untouched
<1>5. Skipped(q)' = Skipped(q)
  <2>1. Skipped(q) = CASE kind[q] = "import" /\ pc[q] = "insert" ->
                            {entries[q][i] : i \in 1 .. Len(entries[q]) - Len(todo[q])} \ Own(q)
                       [] FoundAlready(q) -> ToSet(entries[q])
                       [] OTHER -> {}
    BY DEF Skipped, Own
  <2>2. Skipped(q)' = CASE kind'[q] = "import" /\ pc'[q] = "insert" ->
                             {entries'[q][i] : i \in 1 .. Len(entries'[q]) - Len(todo'[q])}
                               \ Own(q)'
                        [] FoundAlready(q)' -> ToSet(entries'[q])
                        [] OTHER -> {}
    BY DEF Skipped, Own
  <2> QED
    BY <1>1, <1>3, <2>1, <2>2 DEF Untouched
<1> QED
  BY <1>2, <1>4, <1>5

(* So a step of r changes at most the plan of r.                            *)
LEMMA PlanChanges ==
  ASSUME PhonebookInv, NEW r \in Requests, Moved(r)
  PROVE  /\ [q \in Requests |-> Doomed(q)]' =
              [[q \in Requests |-> Doomed(q)] EXCEPT ![r] = Doomed(r)']
         /\ [q \in Requests |-> Skipped(q)]' =
              [[q \in Requests |-> Skipped(q)] EXCEPT ![r] = Skipped(r)']
         /\ Doomed(r)' = Doomed(r) =>
              [q \in Requests |-> Doomed(q)]' = [q \in Requests |-> Doomed(q)]
         /\ Skipped(r)' = Skipped(r) =>
              [q \in Requests |-> Skipped(q)]' = [q \in Requests |-> Skipped(q)]
         /\ r \in Looked' => Looked' = Looked \cup {r}
         /\ r \notin Looked' => Looked' = Looked \ {r}
         /\ ((r \in Looked') <=> (r \in Looked)) => Looked' = Looked
<1>1. \A q \in Requests \ {r} : /\ Doomed(q)' = Doomed(q) /\ Skipped(q)' = Skipped(q)
                                /\ (q \in Looked') <=> (q \in Looked)
  BY PlanOfOthers
<1>2. /\ [q \in Requests |-> Doomed(q)]' = [q \in Requests |-> Doomed(q)']
      /\ [q \in Requests |-> Skipped(q)]' = [q \in Requests |-> Skipped(q)']
  BY DEF Doomed, Skipped, FoundAlready, Looked
<1>3. /\ [q \in Requests |-> Doomed(q)'] = [[q \in Requests |-> Doomed(q)] EXCEPT ![r] = Doomed(r)']
      /\ [q \in Requests |-> Skipped(q)'] =
           [[q \in Requests |-> Skipped(q)] EXCEPT ![r] = Skipped(r)']
  BY <1>1
<1>4. Doomed(r)' = Doomed(r) => [q \in Requests |-> Doomed(q)'] = [q \in Requests |-> Doomed(q)]
  BY <1>1
<1>5. Skipped(r)' = Skipped(r) => [q \in Requests |-> Skipped(q)'] = [q \in Requests |-> Skipped(q)]
  BY <1>1
<1>6. Looked \subseteq Requests /\ Looked' \subseteq Requests
  BY DEF Looked
<1>7. /\ r \in Looked' => Looked' = Looked \cup {r}
      /\ r \notin Looked' => Looked' = Looked \ {r}
      /\ ((r \in Looked') <=> (r \in Looked)) => Looked' = Looked
  BY <1>1, <1>6
<1> QED
  BY <1>2, <1>3, <1>4, <1>5, <1>7

(* The uuids and hashes of the contacts.                                    *)
LEMMA BookValues ==
  /\ \A u : u \in Book!UuidsOf(Contacts) <=> \E x \in Committed(rows) : x.uuid = u
  /\ \A h : h \in Book!HashesOf(Contacts) <=> \E x \in Committed(rows) : x.hash = h
<1>1. \A p \in Contacts : \E x \in Committed(rows) : x.uuid = p[1] /\ x.hash = p[2]
  BY DEF Contacts
<1>2. ASSUME NEW x \in Committed(rows)
      PROVE  \E p \in Contacts : x.uuid = p[1] /\ x.hash = p[2]
  <2>1. <<x.uuid, x.hash>> \in Contacts
    BY DEF Contacts
  <2> QED
    BY <2>1
<1> QED
  BY <1>1, <1>2 DEF Book!UuidsOf, Book!HashesOf

(* A statement the book does not notice.                                    *)
LEMMA BookStutters ==
  ASSUME PhonebookInv, NEW r \in Requests, Quiet(r), UNCHANGED <<kind, target, entries, reply>>,
         (r \in Looked') <=> (r \in Looked),
         Doomed(r)' = Doomed(r), Skipped(r)' = Skipped(r)
  PROVE  UNCHANGED Book!bookVars
<1>1. /\ [q \in Requests |-> Doomed(q)]' = [q \in Requests |-> Doomed(q)]
      /\ [q \in Requests |-> Skipped(q)]' = [q \in Requests |-> Skipped(q)]
      /\ Looked' = Looked
  BY PlanChanges, QuietMoves
<1>2. Contacts' = Contacts
  BY DEF Quiet, NoCommit
<1> QED
  BY <1>1, <1>2 DEF Book!bookVars, Book!request, Book!plan

(* The end of a request, whatever its answer.                               *)
LEMMA BookOver ==
  ASSUME PhonebookInv, NEW r \in Requests, Moved(r), pc'[r] = "done"
  PROVE  Book!Over(r)
<1>1. r \notin Looked' /\ Doomed(r)' = {} /\ Skipped(r)' = {}
  BY DEF Looked, Doomed, Skipped, FoundAlready
<1> QED
  BY <1>1, PlanChanges DEF Book!Over

LEMMA BookUnderWay ==
  ASSUME PhonebookInv, NEW r \in Requests, pc[r] \notin {"idle", "done"}
  PROVE  Book!UnderWay(r)
BY Unanswered DEF Book!UnderWay, PhonebookInv, RequestInv, Stage

LEMMA AbortBook ==
  ASSUME BookInv, NEW r \in Requests, pc[r] \notin {"idle", "done"},
         NEW why \in {"duplicate", "nosuch", "badContacts", "crash", "deadlocked", "unavailable"},
         Abort(r, why), Book!Refused(r, why)
  PROVE  BookInv' /\ [Book!Next]_Book!bookVars
<1>1. PhonebookInv /\ PhonebookInv' /\ Quiet(r)
  BY AbortKeeps DEF BookInv
<1>2. /\ pc' = [pc EXCEPT ![r] = "done"] /\ reply' = [reply EXCEPT ![r] = why]
      /\ UNCHANGED <<book, kind, target, entries>>
  BY DEF Abort, input
<1>3. pc'[r] = "done" /\ reply'[r] = why
  BY <1>1, <1>2 DEF PhonebookInv, Types, TypeOK
<1>4. BookInv'
  <2>1. Sent(r)'
    BY <1>2, <1>3 DEF BookInv, Sent
  <2> QED
    BY <1>1, <1>2, <2>1, QuietKeepsBook
<1>5. Book!Over(r) /\ Book!UnderWay(r)
  BY <1>1, <1>3, QuietMoves, BookOver, BookUnderWay
<1>6. Contacts' = Contacts
  BY <1>1 DEF Quiet, NoCommit
<1>7. why \notin {None, "ok"}
  BY PhonebookAssumption
<1>8. Book!Fail(r)
  BY <1>2, <1>3, <1>5, <1>6, <1>7 DEF Book!Fail, Book!request
<1> QED
  BY <1>4, <1>8 DEF Book!Next

(* The statements of an edit or a removal, once they have loaded what they  *)
(* are about, and those of a removal of the phonebook.                      *)
LEMMA StatementSeen ==
  ASSUME BookInv, NEW r \in Requests, PhonebookInv', Quiet(r),
         UNCHANGED <<book, kind, target, entries, row, reply>>,
         kind[r] \in {"edit", "remove", "removeBook"},
         pc[r] \notin {"idle", "done"}, pc'[r] \notin {"idle", "done"},
         kind[r] # "removeBook" => pc[r] # "load" /\ pc'[r] # "load"
  PROVE  BookInv' /\ [Book!Next]_Book!bookVars
<1>1. pc'[r] # "insert"
  BY DEF PhonebookInv, RequestInv, Stage, Inserting
<1>2. BookInv'
  <2>1. Sent(r)'
    BY <1>1 DEF BookInv, Sent
  <2> QED
    BY <2>1, QuietKeepsBook
<1>3. (r \in Looked') <=> (r \in Looked)
  BY DEF Looked
<1>4. (FoundAlready(r)') <=> FoundAlready(r)
  BY <1>3 DEF FoundAlready
<1>5. Doomed(r)' = Doomed(r)
  BY <1>3, <1>4 DEF Doomed
<1>6. Skipped(r)' = Skipped(r)
  BY <1>4 DEF Skipped
<1>7. UNCHANGED Book!bookVars
  BY <1>3, <1>5, <1>6, BookStutters DEF BookInv
<1> QED
  BY <1>2, <1>7

LEMMA StatementsSeen ==
  ASSUME BookInv, NEW r \in Requests,
         \/ WriteHash(r) \/ DeleteLoadedFields(r) \/ DeleteContact(r) \/ CascadeContact(r)
         \/ DeleteBook(r) \/ CascadeRow(r) \/ CascadeFields(r)
  PROVE  BookInv' /\ [Book!Next]_Book!bookVars
<1>1. PhonebookInv' /\ Quiet(r) /\ PhonebookInv /\ Stage(r)
  BY WriteHashKeeps, DeleteLoadedFieldsKeeps, DeleteContactKeeps, CascadeContactKeeps,
     DeleteBookKeeps, CascadeRowKeeps, CascadeFieldsKeeps DEF BookInv, PhonebookInv, RequestInv
<1> DEFINE steps == {"insertFields", "commit", "delete", "cascade", "cascadeRows"}
<1> USE DEF GoTo, phonebook, input, work
<1>2. /\ pc[r] \in {"write", "fields", "delete", "cascade", "deleteBook", "cascadeRows"}
      /\ pc' = pc \/ \E s \in steps : pc' = [pc EXCEPT ![r] = s]
      /\ UNCHANGED <<book, kind, target, entries, row, reply>>
  <2>1. CASE WriteHash(r)
    <3>1. /\ pc[r] = "write" /\ pc' = [pc EXCEPT ![r] = "insertFields"]
          /\ UNCHANGED <<kind, target, entries, reply, book, row>>
      BY ONLY <2>1, Zenon DEF WriteHash
    <3> QED
      BY <3>1
  <2>2. CASE DeleteLoadedFields(r)
    <3>1. PICK s \in steps : pc' = [pc EXCEPT ![r] = s]
      BY <2>2 DEF DeleteLoadedFields
    <3> QED
      BY <2>2, <3>1 DEF DeleteLoadedFields
  <2>3. CASE DeleteContact(r)
    BY <2>3 DEF DeleteContact
  <2>4. CASE CascadeContact(r)
    BY <2>4 DEF CascadeContact
  <2>5. CASE DeleteBook(r)
    <3>1. PICK s \in steps : pc' = [pc EXCEPT ![r] = s]
      BY <2>5 DEF DeleteBook
    <3> QED
      BY <2>5, <3>1 DEF DeleteBook
  <2>6. CASE CascadeRow(r)
    BY <2>6 DEF CascadeRow
  <2>7. CASE CascadeFields(r)
    BY <2>7 DEF CascadeFields
  <2> QED
    BY <2>1, <2>2, <2>3, <2>4, <2>5, <2>6, <2>7
<1>3. pc'[r] \notin {"idle", "done", "load"}
  BY <1>1, <1>2 DEF PhonebookInv, Types, TypeOK
<1>4. kind[r] \in {"edit", "remove", "removeBook"}
  BY <1>1, <1>2 DEF Stage
<1> QED
  BY <1>1, <1>2, <1>3, <1>4, StatementSeen

(* A contact whose row it has loaded has gone when the row has.             *)
LEMMA LockContactSeen ==
  ASSUME BookInv, NEW r \in Requests, LockContact(r)
  PROVE  BookInv' /\ [Book!Next]_Book!bookVars
<1>1. PhonebookInv' /\ Quiet(r) /\ PhonebookInv /\ pc[r] = "lock" /\ kind[r] = "edit"
  BY LockContactKeeps DEF LockContact, BookInv, PhonebookInv, RequestInv, Stage
<1>2. CASE Loaded(r) = {}
  <2>1. \A x \in Committed(rows) : x.uuid # target[r]
    BY <1>1, <1>2, TargetRow DEF Loaded, RowOf, Committed
  <2>2. Book!Refused(r, "crash")
    BY <2>1, BookValues DEF Book!Refused
  <2> QED
    BY <1>1, <1>2, <2>2, AbortBook DEF LockContact
<1>3. CASE Loaded(r) # {}
  <2>1. /\ pc' = [pc EXCEPT ![r] = "write"]
        /\ UNCHANGED <<book, kind, target, entries, row, reply>>
    BY <1>3 DEF LockContact, GoTo, phonebook, input, work
  <2>2. pc'[r] = "write"
    BY <1>1, <2>1 DEF PhonebookInv, Types, TypeOK
  <2> QED
    BY <1>1, <2>1, <2>2, StatementSeen
<1> QED
  BY <1>2, <1>3

LEMMA InsertFieldsSeen ==
  ASSUME BookInv, NEW r \in Requests, InsertFields(r)
  PROVE  BookInv' /\ [Book!Next]_Book!bookVars
<1> DEFINE X == {x \in rows : x.uuid = target[r] /\ x.by \in {None, r} /\ x.del # r}
<1>1. /\ PhonebookInv' /\ Quiet(r) /\ PhonebookInv /\ pc[r] = "insertFields" /\ kind[r] = "edit"
      /\ RequestInv(r) /\ TableInv /\ r # None
  BY InsertFieldsKeeps, TableAssumption
     DEF InsertFields, BookInv, PhonebookInv, RequestInv, Stage
<1>2. CASE X = {}
  <2>1. ASSUME NEW x \in Committed(rows), x.uuid = target[r] PROVE FALSE
    <3>1. x \in rows /\ x.by = None /\ x.del = r
      BY <1>2, <2>1 DEF Committed
    <3>2. Rewrites(r) /\ x.id = row[r].id
      BY <1>1, <3>1 DEF RequestInv, Deletes
    <3>3. PICK y \in rows : y.by = r /\ y.id = row[r].id
      BY <1>1, <3>2 DEF RequestInv, Writes
    <3>4. y.uuid = x.uuid /\ y.del = None
      BY <1>1, <3>1, <3>2, <3>3 DEF TableInv, Fitting
    <3> QED
      BY <1>1, <1>2, <2>1, <3>3, <3>4
  <2>2. Book!Refused(r, "crash")
    BY <2>1, BookValues DEF Book!Refused
  <2>3. Abort(r, "crash")
    BY <1>2 DEF InsertFields
  <2> QED
    BY <1>1, <2>2, <2>3, AbortBook
<1>3. CASE X # {}
  <2>1. /\ pc' = [pc EXCEPT ![r] = "fields"]
        /\ UNCHANGED <<book, kind, target, entries, row, reply>>
    BY <1>3 DEF InsertFields, GoTo, phonebook, input, work
  <2>2. pc'[r] = "fields"
    BY <1>1, <2>1 DEF PhonebookInv, Types, TypeOK
  <2> QED
    BY <1>1, <2>1, <2>2, StatementSeen
<1> QED
  BY <1>2, <1>3

(* The contact that keeps r from writing a hash is there to be seen.        *)
LEMMA DuplicateIsTrue ==
  ASSUME PhonebookInv, NEW r \in Requests, kind[r] # "removeBook",
         NEW x \in Committed(rows), x.uuid \notin Doomed(r), x.hash \in ToSet(entries[r])
  PROVE  Book!Refused(r, "duplicate")
<1> DEFINE p == <<x.uuid, x.hash>>
<1>1. p[1] = x.uuid /\ p[2] = x.hash
  OBVIOUS
<1>2. p \in Contacts /\ [q \in Requests |-> Doomed(q)][r] = Doomed(r)
  BY <1>1 DEF Contacts
<1> HIDE DEF p
<1>3. p \in Book!Remaining(r)
  BY <1>1, <1>2 DEF Book!Remaining
<1>4. x.hash \in Book!HashesOf(Book!Remaining(r))
  BY <1>1, <1>3 DEF Book!HashesOf
<1>5. [q \in Requests |-> ToSet(entries[q])][r] = ToSet(entries[r])
  OBVIOUS
<1> QED
  BY <1>4, <1>5 DEF Book!Refused

LEMMA EditRefusedSeen ==
  ASSUME BookInv, NEW r \in Requests, EditRefused(r)
  PROVE  BookInv' /\ [Book!Next]_Book!bookVars
<1>1. /\ pc[r] = "write" /\ Abort(r, "duplicate") /\ PhonebookInv /\ RequestInv(r)
      /\ kind[r] = "edit"
  BY DEF EditRefused, BookInv, PhonebookInv, RequestInv, Stage
<1>2. PICK x \in rows : /\ x.id # row[r].id /\ x.del # r
                        /\ x.uuid = target[r] \/ x.hash = Head(entries[r])
                        /\ x.by \in {None, r}
  BY DEF EditRefused, EditRivals, Conflicting, Clashing, Holders
<1>3. x.uuid # target[r]
  BY <1>1, <1>2, TargetRow
<1>4. x \in Committed(rows)
  BY <1>1, <1>2 DEF RequestInv, Writes, Committed
<1>5. x.uuid \notin Doomed(r)
  BY <1>3 DEF Doomed
<1>6. x.hash \in ToSet(entries[r])
  <2>1. PICK E \in Seq(Hashes) : E = entries[r] /\ Len(E) = 1
    BY <1>1 DEF PhonebookInv, Types, TypeOK, RequestInv, Stage
  <2>2. 1 \in DOMAIN E /\ Head(E) = E[1]
    BY <2>1
  <2> QED
    BY <1>2, <1>3, <2>1, <2>2 DEF ToSet
<1>7. Book!Refused(r, "duplicate")
  BY <1>1, <1>4, <1>5, <1>6, DuplicateIsTrue
<1> QED
  BY <1>1, <1>7, AbortBook

LEMMA LoadContactSeen ==
  ASSUME BookInv, NEW r \in Requests, LoadContact(r)
  PROVE  BookInv' /\ [Book!Next]_Book!bookVars
<1>1. /\ PhonebookInv' /\ Quiet(r) /\ PhonebookInv /\ RequestInv(r)
      /\ pc[r] = "load" /\ kind[r] \in {"edit", "remove"}
  BY LoadContactKeeps DEF LoadContact, BookInv, PhonebookInv
<1>2. Wanted(r) = {x \in Committed(rows) : x.uuid = target[r]}
  BY <1>1 DEF Wanted, Visible, Committed, RequestInv, Writes, Deletes
<1>3. CASE Wanted(r) = {}
  <2>1. target[r] \notin Book!UuidsOf(Contacts)
    BY <1>2, <1>3, BookValues
  <2>2. Book!Refused(r, "nosuch")
    BY <1>1, <2>1 DEF Book!Refused
  <2> QED
    BY <1>1, <1>3, <2>2, AbortBook DEF LoadContact
<1>4. CASE Wanted(r) # {}
  <2>1. PICK x \in Wanted(r) : row' = [row EXCEPT ![r] = [id |-> x.id, hash |-> x.hash]]
    BY <1>4 DEF LoadContact
  <2> DEFINE step == IF kind[r] = "remove" THEN "fields"
                     ELSE IF row'[r].hash = Head(entries[r]) THEN "insertFields" ELSE "lock"
  <2>2. /\ pc' = [pc EXCEPT ![r] = step]
        /\ UNCHANGED <<book, kind, target, entries, reply>>
    BY <1>4 DEF LoadContact, GoTo, phonebook, input
  <2>3. step \in {"fields", "insertFields", "lock"}
    OBVIOUS
  <2> HIDE DEF step
  <2>4. pc'[r] = step /\ row'[r].hash = x.hash
    BY <1>1, <2>1, <2>2 DEF PhonebookInv, Types, TypeOK
  <2>5. BookInv'
    <3>1. Sent(r)'
      BY <1>1, <2>2, <2>3, <2>4 DEF BookInv, Sent
    <3> QED
      BY <1>1, <2>2, <3>1, QuietKeepsBook
  <2>6. r \notin Looked /\ r \in Looked' /\ Looked' = Looked \cup {r}
    <3>1. r \notin Looked /\ r \in Looked'
      BY <1>1, <2>2, <2>3, <2>4 DEF Looked
    <3> QED
      BY <1>1, <3>1, PlanChanges, QuietMoves
  <2>7. x \in Committed(rows) /\ x.uuid = target[r]
    BY <1>2
  <2>8. Contacts' = Contacts /\ Book!UnderWay(r)
    BY <1>1, BookUnderWay DEF Quiet, NoCommit
  <2>9. CASE kind[r] = "edit" /\ x.hash = Head(entries[r])
    <3>1. FoundAlready(r)'
      BY <2>2, <2>4, <2>6, <2>9 DEF FoundAlready
    <3>2. Doomed(r)' = {} /\ Skipped(r)' = ToSet(entries[r])
      BY <2>2, <2>9, <3>1 DEF Doomed, Skipped
    <3>3. /\ [q \in Requests |-> Doomed(q)]' = [[q \in Requests |-> Doomed(q)] EXCEPT ![r] = {}]
          /\ [q \in Requests |-> Skipped(q)]' =
               [[q \in Requests |-> Skipped(q)] EXCEPT ![r] = ToSet(entries[r])]
      BY <1>1, <3>2, PlanChanges, QuietMoves
    <3>4. ASSUME NEW h \in ToSet(entries[r]) PROVE <<target[r], h>> \in Contacts
      <4>1. PICK E \in Seq(Hashes) : E = entries[r] /\ Len(E) = 1
        BY <1>1, <2>9 DEF PhonebookInv, Types, TypeOK, RequestInv, Stage
      <4>2. h = Head(E)
        BY <4>1 DEF ToSet
      <4> QED
        BY <2>7, <2>9, <4>1, <4>2 DEF Contacts
    <3>5. [q \in Requests |-> ToSet(entries[q])][r] = ToSet(entries[r])
      OBVIOUS
    <3>6. Book!Find(r)
      BY <2>2, <2>6, <2>8, <2>9, <3>3, <3>4, <3>5 DEF Book!Find, Book!request
    <3> QED
      BY <2>5, <3>6 DEF Book!Next
  <2>10. CASE ~(kind[r] = "edit" /\ x.hash = Head(entries[r]))
    <3>1. ~FoundAlready(r)'
      BY <2>2, <2>4, <2>10 DEF FoundAlready
    <3>2. ~FoundAlready(r)
      BY <2>6 DEF FoundAlready
    <3>3. Doomed(r)' = {target[r]} /\ Skipped(r)' = {} /\ Skipped(r) = {}
      BY <1>1, <2>2, <2>6, <3>1, <3>2 DEF Doomed, Skipped
    <3>4. /\ [q \in Requests |-> Doomed(q)]' =
               [[q \in Requests |-> Doomed(q)] EXCEPT ![r] = {target[r]}]
          /\ [q \in Requests |-> Skipped(q)]' = [q \in Requests |-> Skipped(q)]
      BY <1>1, <3>3, PlanChanges, QuietMoves
    <3>5. target[r] \in Book!UuidsOf(Contacts)
      BY <2>7, BookValues
    <3>6. Book!Find(r)
      BY <1>1, <2>2, <2>6, <2>8, <3>4, <3>5 DEF Book!Find, Book!request
    <3> QED
      BY <2>5, <3>6 DEF Book!Next
  <2> QED
    BY <2>9, <2>10
<1> QED
  BY <1>3, <1>4

(* Only a phonebook that was removed is not found.                          *)
LEMMA LoadBookSeen ==
  ASSUME BookInv, NEW r \in Requests, LoadBook(r)
  PROVE  BookInv' /\ [Book!Next]_Book!bookVars
<1>1. /\ PhonebookInv' /\ Quiet(r) /\ PhonebookInv /\ RequestInv(r)
      /\ pc[r] = "load" /\ kind[r] \in {"create", "import", "removeBook"}
  BY LoadBookKeeps DEF LoadBook, BookInv, PhonebookInv
<1>2. CASE ~book
  <2>1. Book!Refused(r, "nosuch")
    BY <1>1, <1>2 DEF Book!Refused, BookInv, Shut
  <2> QED
    BY <1>1, <1>2, <2>1, AbortBook DEF LoadBook
<1>3. CASE book
  <2> DEFINE step == IF kind[r] = "removeBook" THEN "deleteBook" ELSE "insert"
  <2>1. /\ pc' = [pc EXCEPT ![r] = step] /\ todo' = [todo EXCEPT ![r] = entries[r]]
        /\ UNCHANGED <<rows, book, kind, target, entries, row, reply>>
    BY <1>3 DEF LoadBook, GoTo, table, phonebook, input
  <2>2. pc'[r] = step /\ todo'[r] = entries[r]
    BY <1>1, <2>1 DEF PhonebookInv, Types, TypeOK
  <2>3. CASE kind[r] = "removeBook"
    BY <1>1, <2>1, <2>2, <2>3, StatementSeen
  <2>4. CASE kind[r] \in {"create", "import"}
    <3>1. PICK E \in Seq(Hashes) : E = entries'[r] /\ E = todo'[r] /\ E = entries[r]
      BY <1>1, <2>1, <2>2 DEF PhonebookInv, Types, TypeOK
    <3>2. 1 .. Len(E) - Len(E) = {}
      OBVIOUS
    <3>3. Rest(E, E) /\ DealtWith(E, E) = {}
      BY <3>2 DEF Rest, DealtWith
    <3>4. Rest(entries[r], todo[r])' /\ DealtWith(entries[r], todo[r])' = {}
      BY <3>1, <3>3 DEF Rest, DealtWith
    <3>5. \A x \in rows : x.by # r
      BY <1>1 DEF RequestInv, Writes
    <3>6. Sent(r)'
      BY <2>1, <3>4, <3>5 DEF BookInv, Sent
    <3>7. BookInv'
      BY <1>1, <2>1, <3>6, QuietKeepsBook
    <3>8. r \notin Looked /\ r \notin Looked'
      BY <2>1, <2>4 DEF Looked
    <3>9. Doomed(r) = {} /\ Doomed(r)' = {}
      BY <3>8 DEF Doomed
    <3>10. Skipped(r) = {} /\ Skipped(r)' = {}
      <4>1. {E[i] : i \in 1 .. Len(E) - Len(E)} = {}
        BY <3>2
      <4>2. ~FoundAlready(r) /\ ~FoundAlready(r)'
        BY <3>8 DEF FoundAlready
      <4> QED
        BY <1>1, <3>1, <4>1, <4>2 DEF Skipped
    <3>11. UNCHANGED Book!bookVars
      BY <1>1, <2>1, <3>8, <3>9, <3>10, BookStutters
    <3> QED
      BY <3>7, <3>11
  <2> QED
    BY <1>1, <2>3, <2>4
<1> QED
  BY <1>2, <1>3

LEMMA BookGoneSeen ==
  ASSUME BookInv, NEW r \in Requests, BookGone(r)
  PROVE  BookInv' /\ [Book!Next]_Book!bookVars
<1>1. pc[r] = "insert" /\ ~book /\ kind[r] \in {"create", "import"}
  BY DEF BookGone, BookInv, PhonebookInv, RequestInv, Stage, Inserting
<1>2. PICK why \in {"nosuch", "badContacts"} : Abort(r, why)
  BY DEF BookGone
<1>3. Book!Refused(r, why)
  BY <1>1, <1>2 DEF Book!Refused, BookInv, Shut
<1> QED
  BY <1>1, <1>2, <1>3, AbortBook

(* The entries a request has dealt with, and one more.                      *)
Dealt(E, t) == {E[i] : i \in 1 .. Len(E) - Len(t)}

LEMMA DealtAdvances ==
  ASSUME NEW S, NEW E \in Seq(S), NEW t \in Seq(S), Len(t) > 0, Len(t) <= Len(E), Rest(E, t)
  PROVE  /\ Dealt(E, Tail(t)) = Dealt(E, t) \cup {Head(t)}
         /\ Dealt(E, Tail(t)) \subseteq ToSet(E)
         /\ DealtWith(E, t) \subseteq DealtWith(E, Tail(t))
         /\ \E i \in DealtWith(E, Tail(t)) : E[i] = Head(t)
<1>1. PICK m \in Nat, n \in Nat : m = Len(t) /\ n = Len(E)
  OBVIOUS
<1>2. m > 0 /\ m <= n /\ Len(Tail(t)) = m - 1 /\ Head(t) = t[1] /\ DOMAIN E = 1 .. n
  BY <1>1
<1>3. DealtWith(E, Tail(t)) = 1 .. n - (m - 1) /\ DealtWith(E, t) = 1 .. n - m
  BY <1>1, <1>2 DEF DealtWith
<1>4. E[n - m + 1] = Head(t)
  <2>1. 1 \in 1 .. Len(t) /\ Len(E) - Len(t) + 1 = n - m + 1
    BY <1>1, <1>2
  <2>2. t[1] = E[Len(E) - Len(t) + 1]
    BY <2>1 DEF Rest
  <2> QED
    BY <1>2, <2>1, <2>2
<1>5. \A i \in 1 .. n - (m - 1) : (i \in 1 .. n - m \/ i = n - m + 1) /\ i \in DOMAIN E
  BY <1>2
<1>6. \A i \in 1 .. n - m : i \in 1 .. n - (m - 1)
  OBVIOUS
<1>7. n - m + 1 \in 1 .. n - (m - 1)
  BY <1>2
<1>8. /\ Dealt(E, Tail(t)) = {E[i] : i \in 1 .. n - (m - 1)}
      /\ Dealt(E, t) = {E[i] : i \in 1 .. n - m}
  BY <1>1, <1>2 DEF Dealt
<1>9. Dealt(E, Tail(t)) = Dealt(E, t) \cup {Head(t)}
  BY <1>4, <1>5, <1>6, <1>7, <1>8
<1>10. Dealt(E, Tail(t)) \subseteq ToSet(E)
  BY <1>5, <1>8 DEF ToSet
<1> QED
  BY <1>3, <1>4, <1>6, <1>7, <1>9, <1>10

(* The entry a request is at.                                               *)
LEMMA AtEntry ==
  ASSUME BookInv, NEW r \in Requests, pc[r] = "insert", todo[r] # <<>>
  PROVE  \E E \in Seq(Hashes), t \in Seq(Hashes) :
           /\ E = entries[r] /\ t = todo[r] /\ Len(t) > 0 /\ Len(t) <= Len(E) /\ Rest(E, t)
           /\ kind[r] \in {"create", "import"} /\ (kind[r] = "create" => Len(E) = 1)
<1>1. PICK E \in Seq(Hashes), t \in Seq(Hashes) : E = entries[r] /\ t = todo[r]
  BY DEF BookInv, PhonebookInv, Types, TypeOK
<1>2. /\ kind[r] \in {"create", "import"} /\ Len(t) <= Len(E) /\ Rest(E, t)
      /\ (kind[r] = "create" => Len(E) = 1)
  BY <1>1 DEF BookInv, PhonebookInv, RequestInv, Stage, Inserting, Sent
<1>3. Len(t) > 0
  BY <1>1
<1> QED
  BY <1>1, <1>2, <1>3

LEMMA SentAdvances ==
  ASSUME BookInv, NEW r \in Requests, pc[r] = "insert", todo[r] # <<>>,
         todo' = [todo EXCEPT ![r] = Tail(todo[r])], UNCHANGED <<pc, kind, entries>>,
         \/ kind[r] = "import" /\ rows' = rows
         \/ \E v : rows' = rows \cup {v} /\ v.by = r /\ v.hash = Head(todo[r])
  PROVE  Sent(r)'
<1>1. PICK E \in Seq(Hashes), t \in Seq(Hashes) :
        /\ E = entries[r] /\ t = todo[r] /\ Len(t) > 0 /\ Len(t) <= Len(E) /\ Rest(E, t)
        /\ kind[r] \in {"create", "import"}
  BY AtEntry
<1>2. todo'[r] = Tail(t)
  BY <1>1 DEF BookInv, PhonebookInv, Types, TypeOK
<1>3. /\ Rest(E, Tail(t))
      /\ \A i \in DealtWith(E, Tail(t)) : i \in DealtWith(E, t) \/ E[i] = Head(t)
  BY <1>1, Advance
<1>4. /\ DealtWith(E, t) \subseteq DealtWith(E, Tail(t))
      /\ \E i \in DealtWith(E, Tail(t)) : E[i] = Head(t)
  BY <1>1, DealtAdvances
<1>5. /\ \A x \in rows : x.by = r => \E i \in DealtWith(E, t) : x.hash = E[i]
      /\ kind[r] = "create" =>
           \A i \in DealtWith(E, t) : \E x \in rows : x.by = r /\ x.hash = E[i]
      /\ kind[r] \in {"remove", "removeBook"} => E = <<>>
      /\ kind[r] = "create" => Len(E) = 1
  BY <1>1 DEF BookInv, Sent
<1>6. /\ \A x \in rows' : x.by = r => \E i \in DealtWith(E, Tail(t)) : x.hash = E[i]
      /\ kind[r] = "create" =>
           \A i \in DealtWith(E, Tail(t)) : \E x \in rows' : x.by = r /\ x.hash = E[i]
  <2>1. CASE kind[r] = "import" /\ rows' = rows
    BY <1>4, <1>5, <2>1
  <2>2. CASE \E v : rows' = rows \cup {v} /\ v.by = r /\ v.hash = Head(t)
    BY <1>3, <1>4, <1>5, <2>2
  <2> QED
    BY <1>1, <2>1, <2>2
<1>7. entries'[r] = E
  BY <1>1
<1>8. Rest(entries[r], todo[r])' /\ DealtWith(entries[r], todo[r])' = DealtWith(E, Tail(t))
  BY <1>2, <1>3, <1>7 DEF Rest, DealtWith
<1> QED
  BY <1>5, <1>6, <1>7, <1>8 DEF Sent

(* An import passes over an entry only if it is there.                      *)
LEMMA ImportSeen ==
  ASSUME BookInv, BookInv', NEW r \in Requests, pc[r] = "insert", todo[r] # <<>>,
         kind[r] = "import", Quiet(r),
         todo' = [todo EXCEPT ![r] = Tail(todo[r])],
         UNCHANGED <<pc, kind, target, entries, reply>>,
         \/ Own(r)' = Own(r) \cup {Head(todo[r])}
         \/ Own(r)' = Own(r) /\ Head(todo[r]) \in Own(r) \cup Book!HashesOf(Contacts)
  PROVE  [Book!Next]_Book!bookVars
<1>1. PICK E \in Seq(Hashes), t \in Seq(Hashes) :
        /\ E = entries[r] /\ t = todo[r] /\ Len(t) > 0 /\ Len(t) <= Len(E) /\ Rest(E, t)
  BY AtEntry
<1>2. todo'[r] = Tail(t) /\ entries'[r] = E
  BY <1>1 DEF BookInv, PhonebookInv, Types, TypeOK
<1>3. /\ Dealt(E, Tail(t)) = Dealt(E, t) \cup {Head(t)}
      /\ Dealt(E, Tail(t)) \subseteq ToSet(E)
  BY <1>1, DealtAdvances
<1>4. Skipped(r) = Dealt(E, t) \ Own(r) /\ Skipped(r)' = Dealt(E, Tail(t)) \ Own(r)'
  <2>1. kind'[r] = "import" /\ pc'[r] = "insert"
    OBVIOUS
  <2>2. ~FoundAlready(r) /\ ~FoundAlready(r)'
    BY <2>1 DEF FoundAlready, Looked
  <2>3. Skipped(r) = Dealt(entries[r], todo[r]) \ Own(r)
    BY <2>2 DEF Skipped, Dealt, Own
  <2>4. Skipped(r)' = Dealt(entries'[r], todo'[r]) \ Own(r)'
    BY <2>1, <2>2 DEF Skipped, Dealt, Own
  <2> QED
    BY <1>1, <1>2, <2>3, <2>4
<1>5. r \notin Looked /\ r \notin Looked' /\ Doomed(r) = {} /\ Doomed(r)' = {}
  BY DEF Looked, Doomed
<1>6. CASE Skipped(r)' = Skipped(r)
  BY <1>5, <1>6, BookStutters DEF BookInv
<1>7. CASE Skipped(r)' # Skipped(r)
  <2> DEFINE after == Skipped(r)'
  <2>1. after \subseteq ToSet(entries[r]) /\ after \ Skipped(r) \subseteq Book!HashesOf(Contacts)
    BY <1>1, <1>3, <1>4
  <2>2. /\ Looked' = Looked
        /\ [q \in Requests |-> Doomed(q)]' = [q \in Requests |-> Doomed(q)]
        /\ [q \in Requests |-> Skipped(q)]' =
             [[q \in Requests |-> Skipped(q)] EXCEPT ![r] = after]
    BY <1>5, PlanChanges, QuietMoves DEF BookInv
  <2> HIDE DEF after
  <2>3. /\ [q \in Requests |-> Skipped(q)][r] = Skipped(r)
        /\ [q \in Requests |-> Skipped(q)]'[r] = after
        /\ [q \in Requests |-> ToSet(entries[q])][r] = ToSet(entries[r])
    BY <2>2
  <2>4. Contacts' = Contacts /\ Book!UnderWay(r)
    BY BookUnderWay DEF BookInv, Quiet, NoCommit
  <2>5. after # Skipped(r)
    BY <1>7 DEF after
  <2>6. Book!Skip(r)
    BY <2>1, <2>2, <2>3, <2>4, <2>5 DEF Book!Skip, Book!request
  <2> QED
    BY <2>6 DEF Book!Next
<1> QED
  BY <1>6, <1>7

LEMMA InsertContactSeen ==
  ASSUME BookInv, NEW r \in Requests, InsertContact(r)
  PROVE  BookInv' /\ [Book!Next]_Book!bookVars
<1>1. /\ PhonebookInv' /\ Quiet(r) /\ PhonebookInv
      /\ pc[r] = "insert" /\ todo[r] # <<>> /\ todo' = [todo EXCEPT ![r] = Tail(todo[r])]
      /\ UNCHANGED <<book, pc, kind, target, entries, row, reply>>
  BY InsertContactKeeps DEF InsertContact, phonebook, input, BookInv
<1>2. PICK v : rows' = rows \cup {v} /\ v.by = r /\ v.hash = Head(todo[r])
  <2>1. rows' = rows \cup {Version(r, NextUuid(r), Head(todo[r]), r)}
    BY DEF InsertContact, Insert
  <2>2. /\ Version(r, NextUuid(r), Head(todo[r]), r).by = r
        /\ Version(r, NextUuid(r), Head(todo[r]), r).hash = Head(todo[r])
    BY DEF Version
  <2> QED
    BY <2>1, <2>2
<1>3. BookInv'
  <2>1. Sent(r)'
    BY <1>1, <1>2, SentAdvances
  <2> QED
    BY <1>1, <2>1, QuietKeepsBook
<1>4. kind[r] \in {"create", "import"}
  BY <1>1, AtEntry
<1>5. CASE kind[r] = "import"
  <2>1. Own(r)' = Own(r) \cup {Head(todo[r])}
    BY <1>2 DEF Own
  <2> QED
    BY <1>1, <1>3, <1>5, <2>1, ImportSeen
<1>6. CASE kind[r] = "create"
  <2>1. r \notin Looked /\ r \notin Looked'
    BY <1>1, <1>6 DEF Looked
  <2>2. Doomed(r) = {} /\ Doomed(r)' = {} /\ Skipped(r) = {} /\ Skipped(r)' = {}
    BY <1>1, <1>6, <2>1 DEF Doomed, Skipped, FoundAlready
  <2>3. UNCHANGED Book!bookVars
    BY <1>1, <2>1, <2>2, BookStutters
  <2> QED
    BY <1>3, <2>3
<1> QED
  BY <1>4, <1>5, <1>6

LEMMA InsertRefusedSeen ==
  ASSUME BookInv, NEW r \in Requests, InsertRefused(r)
  PROVE  BookInv' /\ [Book!Next]_Book!bookVars
<1>1. /\ PhonebookInv' /\ Quiet(r) /\ PhonebookInv /\ RequestInv(r)
      /\ pc[r] = "insert" /\ todo[r] # <<>>
  BY InsertRefusedKeeps DEF InsertRefused, BookInv, PhonebookInv
<1>2. PICK E \in Seq(Hashes), t \in Seq(Hashes) :
        /\ E = entries[r] /\ t = todo[r] /\ Len(t) > 0 /\ Len(t) <= Len(E) /\ Rest(E, t)
        /\ kind[r] \in {"create", "import"} /\ (kind[r] = "create" => Len(E) = 1)
  BY <1>1, AtEntry
<1>3. PICK x \in rows : x.hash = Head(t) /\ x.by \in {None, r}
  <2>1. PICK x \in Rivals(r) : x.by \in {None, r}
    BY DEF InsertRefused, Holders
  <2>2. PICK n \in 1..MaxEntries : n = Len(todo[r])
    BY <1>1, NextEntry
  <2>3. x \in rows /\ (x.uuid = NewUuid(r, n) \/ x.hash = Head(t))
    BY <1>2, <2>1, <2>2 DEF Rivals, Clashing, NextUuid
  <2>4. ~(n > Len(todo[r])) /\ pc[r] # "done"
    BY <1>1, <2>2
  <2>5. x.uuid # NewUuid(r, n)
    BY <1>1, <2>3, <2>4 DEF RequestInv, Known
  <2> QED
    BY <2>1, <2>3, <2>5
<1>4. x.by = None => Head(t) \in Book!HashesOf(Contacts)
  BY <1>3, BookValues DEF Committed
<1>5. x.by = r => Head(t) \in Own(r)
  BY <1>3 DEF Own
<1>6. CASE kind[r] = "create"
  <2>1. DealtWith(E, t) = {}
    <3>1. PICK m \in Nat : m = Len(t)
      BY <1>2
    <3>2. 1 .. 1 - m = {}
      BY <1>2, <1>6, <3>1
    <3> QED
      BY <1>2, <1>6, <3>1, <3>2 DEF DealtWith
  <2>2. x.by # r
    BY <1>1, <1>2, <1>3, <2>1 DEF BookInv, Sent
  <2>3. Doomed(r) = {}
    BY <1>6 DEF Doomed, Looked
  <2>4. Head(t) \in ToSet(E)
    BY <1>2, DealtAdvances
  <2>5. x \in Committed(rows)
    BY <1>3, <2>2 DEF Committed
  <2>6. Book!Refused(r, "duplicate")
    BY <1>1, <1>2, <1>3, <1>6, <2>3, <2>4, <2>5, DuplicateIsTrue
  <2> QED
    BY <1>1, <1>6, <2>6, AbortBook DEF InsertRefused
<1>7. CASE kind[r] = "import"
  <2>1. /\ todo' = [todo EXCEPT ![r] = Tail(todo[r])]
        /\ UNCHANGED <<rows, book, pc, kind, target, entries, reply>>
    BY <1>7 DEF InsertRefused, table, phonebook, input
  <2>2. BookInv'
    <3>1. Sent(r)'
      BY <1>1, <1>7, <2>1, SentAdvances
    <3> QED
      BY <1>1, <2>1, <3>1, QuietKeepsBook
  <2>3. Own(r)' = Own(r)
    BY <2>1 DEF Own
  <2>4. Head(todo[r]) \in Own(r) \cup Book!HashesOf(Contacts)
    BY <1>2, <1>3, <1>4, <1>5
  <2> QED
    BY <1>1, <1>7, <2>1, <2>2, <2>3, <2>4, ImportSeen
<1> QED
  BY <1>2, <1>6, <1>7

(* COMMIT: what it leaves of the contacts and what it adds to them.         *)
LEMMA CommittingNow ==
  ASSUME BookInv, NEW r \in Requests, Commit(r)
  PROVE  /\ PhonebookInv /\ RequestInv(r) /\ TableInv /\ Sent(r) /\ r # None
         /\ \/ pc[r] = "insert" /\ todo[r] = <<>> /\ kind[r] \in {"create", "import"}
            \/ pc[r] = "commit" /\ kind[r] \in {"edit", "remove", "removeBook"}
<1>1. pc[r] = "commit" \/ (pc[r] = "insert" /\ todo[r] = <<>>)
  BY DEF Commit
<1>2. PhonebookInv /\ RequestInv(r) /\ TableInv /\ Sent(r) /\ r # None
  BY TableAssumption DEF BookInv, PhonebookInv
<1> QED
  BY <1>1, <1>2 DEF RequestInv, Stage, Inserting

LEMMA DeletedIsDoomed ==
  ASSUME BookInv, NEW r \in Requests, Commit(r), kind[r] # "removeBook",
         NEW x \in rows, x.by = None
  PROVE  x.del = r <=> x.uuid \in Doomed(r)
<1>1. /\ PhonebookInv /\ RequestInv(r) /\ TableInv /\ r # None
      /\ \/ pc[r] = "insert" /\ kind[r] \in {"create", "import"}
         \/ pc[r] = "commit" /\ kind[r] \in {"edit", "remove"}
  BY CommittingNow
<1>2. CASE pc[r] = "insert"
  <2>1. Doomed(r) = {}
    BY <1>1, <1>2 DEF Doomed, Looked
  <2>2. x.del # r
    BY <1>1, <1>2 DEF RequestInv, Deletes
  <2> QED
    BY <2>1, <2>2
<1>3. CASE pc[r] = "commit"
  <2>1. r \in Looked
    BY <1>1, <1>3 DEF Looked
  <2>2. ASSUME x.del = r PROVE x.uuid \in Doomed(r)
    <3>1. x.id = row[r].id /\ (kind[r] = "edit" => Rewrites(r))
      BY <1>1, <1>3, <2>2 DEF RequestInv, Deletes, Rewrites
    <3>2. row[r].id[2] = target[r] /\ x.id[2] = x.uuid
      BY <1>1, <1>3 DEF RequestInv, Stage, TableInv, Fitting
    <3>3. ~FoundAlready(r)
      BY <3>1 DEF FoundAlready, Rewrites
    <3> QED
      BY <2>1, <3>1, <3>2, <3>3 DEF Doomed
  <2>3. ASSUME x.uuid \in Doomed(r) PROVE x.del = r
    <3>1. x.uuid = target[r] /\ ~FoundAlready(r)
      BY <2>3 DEF Doomed
    <3>2. CASE kind[r] = "remove"
      BY <1>1, <1>3, <3>1, <3>2 DEF RequestInv, Gone
    <3>3. CASE kind[r] = "edit"
      <4>1. Rewrites(r)
        BY <2>1, <3>1, <3>3 DEF FoundAlready, Rewrites
      <4>2. PICK y \in rows : y.by = r /\ y.id = row[r].id
        BY <1>1, <1>3, <4>1 DEF RequestInv, Writes
      <4>3. x.id = row[r].id
        BY <1>1, <1>3, <3>1, <3>3, TargetRow
      <4>4. y.uuid = target[r]
        BY <1>1, <3>1, <4>2, <4>3 DEF TableInv, Fitting
      <4>5. ~Inserted(y)
        BY <1>1, <1>3, <3>3, <4>4, TargetRow
      <4>6. PICK z \in rows : z.by = None /\ z.id = y.id /\ z.del = r
        BY <1>1, <4>2, <4>5 DEF TableInv, Updated
      <4>7. z.uuid = x.uuid
        BY <1>1, <4>2, <4>3, <4>6 DEF TableInv, Fitting
      <4>8. z = x
        BY <1>1, <4>6, <4>7, CommittedRowsDiffer DEF Committed, Share
      <4> QED
        BY <4>6, <4>8
    <3> QED
      BY <1>1, <1>3, <3>2, <3>3
  <2> QED
    BY <2>2, <2>3
<1> QED
  BY <1>1, <1>2, <1>3

LEMMA CommitContacts ==
  ASSUME BookInv, NEW r \in Requests, Commit(r)
  PROVE  /\ Book!Remaining(r) \subseteq Contacts'
         /\ \A p : p \in Contacts' \ Book!Remaining(r) <=>
              \E x \in rows : x.by = r /\ p = <<x.uuid, x.hash>>
         /\ kind[r] = "removeBook" => Contacts' = {}
<1>1. PhonebookInv /\ RequestInv(r) /\ TableInv /\ KeptRows(r) /\ r # None
  BY CommittingNow, CommitKeeps
<1>2. CASE kind[r] = "removeBook"
  <2>1. pc[r] = "commit"
    BY <1>2, CommittingNow
  <2>2. \A x \in rows : x.by = None /\ x.del = r
    BY <1>1, <1>2, <2>1 DEF RequestInv, Closing, PhonebookInv, NoBook
  <2>3. rows' = {}
    BY <1>1, <2>2 DEF KeptRows
  <2>4. Contacts' = {}
    BY <2>3 DEF Contacts, Committed
  <2>5. Book!Remaining(r) = {}
    BY <1>2 DEF Book!Remaining
  <2> QED
    BY <1>1, <2>2, <2>4, <2>5
<1>3. CASE kind[r] # "removeBook"
  <2>1. \A p : p \in Book!Remaining(r) <=>
          \E x \in rows : x.by = None /\ x.del # r /\ p = <<x.uuid, x.hash>>
    <3>1. Book!Remaining(r) = {p \in Contacts : p[1] \notin Doomed(r)}
      BY <1>3 DEF Book!Remaining
    <3>2. \A x \in rows : x.by = None => (x.uuid \notin Doomed(r) <=> x.del # r)
      BY <1>3, DeletedIsDoomed
    <3>3. \A x \in rows : <<x.uuid, x.hash>>[1] = x.uuid
      OBVIOUS
    <3> QED
      BY <3>1, <3>2, <3>3 DEF Contacts, Committed
  <2>2. \A p : p \in Contacts' <=>
          \E x \in rows : x.by \in {None, r} /\ x.del # r /\ p = <<x.uuid, x.hash>>
    <3>1. \A y \in Committed(rows') :
            \E x \in rows : x.by \in {None, r} /\ x.del # r /\ y.uuid = x.uuid /\ y.hash = x.hash
      BY <1>1 DEF Committed, KeptRows
    <3>2. \A x \in rows : x.by \in {None, r} /\ x.del # r =>
            \E y \in Committed(rows') : y.uuid = x.uuid /\ y.hash = x.hash
      BY <1>1 DEF Committed, KeptRows
    <3> QED
      BY <3>1, <3>2 DEF Contacts, Committed
  <2>3. \A x, y \in rows : x.by = r /\ y.by = None /\ y.del # r => x.uuid # y.uuid
    <3> SUFFICES ASSUME NEW x \in rows, NEW y \in rows, x.by = r, y.by = None, y.del # r,
                        x.uuid = y.uuid
                 PROVE  FALSE
      OBVIOUS
    <3>1. x.del = None /\ x # y
      BY <1>1 DEF TableInv, Fitting
    <3>2. Replaces(x, y) \/ Replaces(y, x)
      BY <1>1, <3>1 DEF TableInv, Unique, Share
    <3> QED
      BY <3>1, <3>2 DEF Replaces
  <2>4. \A x \in rows : x.by = r => x.del # r
    BY <1>1 DEF TableInv, Fitting
  <2>5. \A x, y \in rows : x.by = r /\ y.by = None /\ y.del # r =>
          <<x.uuid, x.hash>> # <<y.uuid, y.hash>>
    BY <2>3
  <2>6. Book!Remaining(r) \subseteq Contacts'
    BY <2>1, <2>2
  <2>7. \A p : p \in Contacts' /\ p \notin Book!Remaining(r) <=>
           \E x \in rows : x.by = r /\ p = <<x.uuid, x.hash>>
    BY <2>1, <2>2, <2>4, <2>5
  <2> QED
    BY <1>3, <2>6, <2>7
<1> QED
  BY <1>2, <1>3

(* It adds what it was sent, but for what it leaves out.                    *)
LEMMA CommitHashes ==
  ASSUME BookInv, NEW r \in Requests, Commit(r)
  PROVE  Own(r) = ToSet(entries[r]) \ Skipped(r)
<1>1. /\ PhonebookInv /\ RequestInv(r) /\ Sent(r)
      /\ \/ pc[r] = "insert" /\ todo[r] = <<>> /\ kind[r] \in {"create", "import"}
         \/ pc[r] = "commit" /\ kind[r] \in {"edit", "remove", "removeBook"}
  BY CommittingNow
<1>2. PICK E \in Seq(Hashes) : E = entries[r]
  BY <1>1 DEF PhonebookInv, Types, TypeOK
<1>3. \A h : h \in ToSet(E) <=> \E i \in 1 .. Len(E) : h = E[i]
  BY <1>2 DEF ToSet
<1>4. CASE pc[r] = "insert"
  <2>1. Len(todo[r]) = 0 /\ 1 .. Len(E) - 0 = 1 .. Len(E)
    BY <1>1, <1>2, <1>4
  <2>2. DealtWith(entries[r], todo[r]) = 1 .. Len(E) /\ Dealt(entries[r], todo[r]) = ToSet(E)
    BY <1>2, <1>3, <2>1 DEF DealtWith, Dealt
  <2>3. Own(r) \subseteq ToSet(E)
    BY <1>1, <1>2, <1>3, <1>4, <2>2 DEF Sent, Own
  <2>4. ~FoundAlready(r)
    BY <1>1, <1>4 DEF FoundAlready
  <2>5. CASE kind[r] = "create"
    <3>1. ToSet(E) \subseteq Own(r)
      BY <1>1, <1>2, <1>3, <1>4, <2>2, <2>5 DEF Sent, Own
    <3>2. Skipped(r) = {}
      BY <2>4, <2>5 DEF Skipped
    <3> QED
      BY <1>2, <2>3, <3>1, <3>2
  <2>6. CASE kind[r] = "import"
    <3>1. Skipped(r) = Dealt(entries[r], todo[r]) \ Own(r)
      BY <1>4, <2>4, <2>6 DEF Skipped, Dealt, Own
    <3> QED
      BY <1>2, <2>2, <2>3, <3>1
  <2> QED
    BY <1>1, <1>4, <2>5, <2>6
<1>5. CASE pc[r] = "commit"
  <2>1. \A x \in rows : x.by = r => Rewrites(r) /\ x.hash = Head(entries[r])
    BY <1>1, <1>5 DEF RequestInv, Writes
  <2>2. CASE kind[r] \in {"remove", "removeBook"}
    <3>1. E = <<>>
      BY <1>1, <1>2, <2>2 DEF Sent
    <3>2. ToSet(E) = {}
      BY <3>1 DEF ToSet
    <3>3. Own(r) = {}
      BY <2>1, <2>2 DEF Own, Rewrites
    <3> QED
      BY <1>2, <3>2, <3>3
  <2>3. CASE kind[r] = "edit" /\ ~Rewrites(r)
    <3>1. Own(r) = {}
      BY <2>1, <2>3 DEF Own
    <3>2. FoundAlready(r)
      BY <1>5, <2>3 DEF FoundAlready, Looked, Rewrites
    <3>3. Skipped(r) = ToSet(entries[r])
      BY <2>3, <3>2 DEF Skipped
    <3> QED
      BY <3>1, <3>3
  <2>4. CASE kind[r] = "edit" /\ Rewrites(r)
    <3>1. ~FoundAlready(r)
      BY <2>4 DEF FoundAlready, Rewrites
    <3>2. Skipped(r) = {}
      BY <2>4, <3>1 DEF Skipped
    <3>3. PICK y \in rows : y.by = r
      BY <1>1, <1>5, <2>4 DEF RequestInv, Writes
    <3>4. Own(r) = {Head(entries[r])}
      BY <2>1, <3>3 DEF Own
    <3>5. Len(E) = 1 /\ Head(E) = E[1] /\ 1 .. 1 = {1}
      BY <1>1, <1>2, <2>4 DEF RequestInv, Stage
    <3>6. ToSet(E) = {Head(E)}
      BY <1>3, <3>5
    <3> QED
      BY <1>2, <3>2, <3>4, <3>6
  <2> QED
    BY <1>1, <1>5, <2>2, <2>3, <2>4
<1> QED
  BY <1>1, <1>4, <1>5

(* What it adds has new uuids, but for the contact that is edited.          *)
LEMMA CommitUuids ==
  ASSUME BookInv, NEW r \in Requests, Commit(r), NEW x \in rows, x.by = r
  PROVE  IF kind[r] = "edit"
         THEN x.uuid = target[r]
         ELSE /\ \A y \in Committed(rows) : y.uuid # x.uuid
              /\ \A q \in Requests : target[q] # x.uuid
<1>1. /\ PhonebookInv /\ RequestInv(r) /\ TableInv
      /\ \/ pc[r] = "insert" /\ kind[r] \in {"create", "import"}
         \/ pc[r] = "commit" /\ kind[r] \in {"edit", "remove", "removeBook"}
  BY CommittingNow
<1>2. CASE pc[r] = "commit"
  <2>1. Rewrites(r) /\ x.id = row[r].id
    BY <1>1, <1>2 DEF RequestInv, Writes
  <2>2. kind[r] = "edit" /\ row[r].id[2] = target[r]
    BY <1>1, <1>2, <2>1 DEF RequestInv, Stage, Rewrites
  <2> QED
    BY <1>1, <2>1, <2>2 DEF TableInv, Fitting
<1>3. CASE pc[r] = "insert"
  <2>1. x.id[1] = r /\ Born(x.id) /\ x.id[2] = x.uuid
    BY <1>1, <1>3 DEF RequestInv, Writes, Rewrites, TableInv, Rooted, Fitting
  <2>2. r # 0
    BY TableAssumption
  <2>3. PICK n \in 1..MaxEntries : x.uuid = NewUuid(r, n)
    BY <2>1, <2>2 DEF Born
  <2>4. ASSUME NEW y \in rows, y.by = None, y.uuid = x.uuid PROVE FALSE
    <3>1. y.by = r
      BY <1>1, <1>3, <2>3, <2>4 DEF RequestInv, Known
    <3> QED
      BY <2>4, <3>1, TableAssumption
  <2>5. \A q \in Requests : target[q] # x.uuid
    BY <1>1, <1>3, <2>3 DEF PhonebookInv, RequestInv, Known
  <2> QED
    BY <1>1, <1>3, <2>4, <2>5 DEF Committed
<1> QED
  BY <1>1, <1>2, <1>3

(* An edit has changed a contact that is there.                             *)
LEMMA EditedIsThere ==
  ASSUME BookInv, NEW r \in Requests, Commit(r), kind[r] = "edit"
  PROVE  target[r] \in Book!UuidsOf(Contacts)
<1>1. PhonebookInv /\ RequestInv(r) /\ TableInv /\ pc[r] = "commit" /\ r # None
  BY CommittingNow
<1>2. PICK g \in fields : g.by = r /\ g.uuid = target[r]
  BY <1>1 DEF RequestInv, Writes
<1>3. PICK x \in rows : x.uuid = target[r] /\ x.by \in {None, r}
  BY <1>1, <1>2 DEF TableInv, Backed
<1>4. \E z \in rows : z.by = None /\ z.uuid = target[r]
  <2>1. CASE x.by = r
    <3>1. ~Inserted(x)
      BY <1>1, <1>3, TargetRow
    <3>2. PICK z \in rows : z.by = None /\ z.id = x.id
      BY <1>1, <2>1, <3>1 DEF TableInv, Updated
    <3> QED
      BY <1>1, <1>3, <3>2 DEF TableInv, Fitting
  <2> QED
    BY <1>3, <2>1
<1> QED
  BY <1>4, BookValues DEF Committed

LEMMA ContactsDiffer ==
  ASSUME TableInv
  PROVE  Book!OneToOne(Contacts)
<1> SUFFICES ASSUME NEW p \in Contacts, NEW q \in Contacts, p[1] = q[1] \/ p[2] = q[2]
             PROVE  p = q
  BY DEF Book!OneToOne
<1>1. PICK x \in Committed(rows) : p = <<x.uuid, x.hash>>
  BY DEF Contacts
<1>2. PICK y \in Committed(rows) : q = <<y.uuid, y.hash>>
  BY DEF Contacts
<1>3. x.uuid = y.uuid \/ x.hash = y.hash
  BY <1>1, <1>2
<1>4. x = y
  BY <1>3, CommittedRowsDiffer DEF Share
<1> QED
  BY <1>1, <1>2, <1>4

(* After a phonebook that was removed nothing is committed.                 *)
LEMMA ClosedIsEmpty ==
  ASSUME PhonebookInv, Book!Closed
  PROVE  rows = {} /\ fields = {} /\ ~book
BY DEF Book!Closed, PhonebookInv, RequestInv, Closing, NoBook

LEMMA CommitSeen ==
  ASSUME BookInv, NEW r \in Requests, Commit(r)
  PROVE  BookInv' /\ [Book!Next]_Book!bookVars
<1>1. /\ PhonebookInv' /\ KeptRows(r) /\ Moved(r)
      /\ reply' = [reply EXCEPT ![r] = "ok"] /\ pc' = [pc EXCEPT ![r] = "done"]
      /\ book' = (book /\ bookDeleter # r) /\ reply'[r] = "ok"
      /\ UNCHANGED <<kind, target, entries>>
  BY CommitKeeps DEF BookInv, Moved, Commit, input
<1>2. /\ PhonebookInv /\ RequestInv(r) /\ Sent(r) /\ pc[r] \in {"insert", "commit"}
      /\ kind[r] \in {"edit", "remove"} => pc[r] = "commit"
      /\ kind[r] \in {"create", "import", "edit", "remove", "removeBook"}
  BY CommittingNow
<1>3. pc'[r] = "done"
  BY <1>1, <1>2 DEF PhonebookInv, Types, TypeOK
<1>4. BookInv'
  <2>1. \A q \in Requests \ {r} : Sent(q)'
    BY <1>1, OthersKeepBook
  <2>2. Sent(r)'
    BY <1>1, <1>2, <1>3 DEF Sent
  <2>3. Shut'
    <3>1. CASE bookDeleter = r
      <4>1. kind'[r] = "removeBook" /\ reply'[r] = "ok"
        BY <1>1, <1>2, <3>1 DEF RequestInv, Closing
      <4> QED
        BY <4>1 DEF Shut, Book!Closed
    <3>2. CASE bookDeleter # r
      BY <1>1, <1>2, <3>2, StaysClosed DEF BookInv, Shut
    <3> QED
      BY <3>1, <3>2
  <2> QED
    BY <1>1, <2>1, <2>2, <2>3 DEF BookInv
<1> DEFINE new == Contacts' \ Book!Remaining(r)
<1>5. /\ Book!Remaining(r) \subseteq Contacts'
      /\ \A p : p \in new <=> \E x \in rows : x.by = r /\ p = <<x.uuid, x.hash>>
  BY CommitContacts
<1>6. Book!Succeed(r) <=>
        /\ Book!UnderWay(r)
        /\ reply' = [reply EXCEPT ![r] = "ok"]
        /\ kind[r] \in {"edit", "remove", "purge"} => r \in Looked
        /\ kind[r] = "edit" => target[r] \in Book!UuidsOf(Contacts)
        /\ Book!Remaining(r) \subseteq Contacts'
        /\ Book!HashesOf(new) = [q \in Requests |-> ToSet(entries[q])][r]
                                  \ [q \in Requests |-> Skipped(q)][r]
        /\ \A p \in new : Book!RightUuid(r, p)
        /\ Book!OneToOne(Contacts')
        /\ Book!Closed => Contacts' = {}
        /\ Book!Over(r)
        /\ UNCHANGED Book!request
  BY DEF Book!Succeed
<1> HIDE DEF new
<1>7. /\ \A h : h \in Book!HashesOf(new) <=> \E x \in rows : x.by = r /\ x.hash = h
      /\ \A u : u \in Book!UuidsOf(new) <=> \E x \in rows : x.by = r /\ x.uuid = u
  <2>1. \A p \in new : \E x \in rows : x.by = r /\ x.uuid = p[1] /\ x.hash = p[2]
    BY <1>5
  <2>2. ASSUME NEW x \in rows, x.by = r
        PROVE  \E p \in new : x.uuid = p[1] /\ x.hash = p[2]
    <3>1. <<x.uuid, x.hash>> \in new
      BY <1>5, <2>2
    <3> QED
      BY <3>1
  <2> QED
    BY <2>1, <2>2 DEF Book!HashesOf, Book!UuidsOf
<1>8. Book!UnderWay(r) /\ Book!Over(r)
  BY <1>1, <1>2, <1>3, BookUnderWay, BookOver
<1>9. kind[r] \in {"edit", "remove", "purge"} => r \in Looked
  BY <1>2 DEF Looked
<1>10. Book!HashesOf(new) = [q \in Requests |-> ToSet(entries[q])][r]
                              \ [q \in Requests |-> Skipped(q)][r]
  <2>1. Book!HashesOf(new) = Own(r)
    BY <1>7 DEF Own
  <2> QED
    BY <2>1, CommitHashes
<1>11. ASSUME NEW p \in new PROVE Book!RightUuid(r, p)
  <2>1. PICK x \in rows : x.by = r /\ p = <<x.uuid, x.hash>>
    BY <1>5
  <2>2. CASE kind[r] = "edit"
    BY <2>1, <2>2, CommitUuids DEF Book!RightUuid
  <2>3. CASE kind[r] # "edit"
    <3>1. /\ p[1] \notin Book!UuidsOf(Contacts) /\ p[1] # None
          /\ \A q \in Requests : target[q] # p[1]
      <4>1. x.uuid # None /\ p[1] = x.uuid
        BY <1>2, <2>1, PhonebookAssumption DEF PhonebookInv, Types, TypeOK, TableTypeOK
      <4> QED
        BY <2>1, <2>3, <4>1, CommitUuids, BookValues
    <3>2. \A q \in Requests : p[1] \notin Book!Named(q)
      BY <3>1 DEF Book!Named
    <3>3. p[2] \in ToSet(entries[r])
      BY <1>10, <1>7, <2>1
    <3> QED
      BY <2>3, <3>1, <3>2, <3>3 DEF Book!RightUuid
  <2> QED
    BY <2>2, <2>3
<1>12. Book!OneToOne(Contacts')
  <2> SUFFICES ASSUME NEW p \in Contacts', NEW q \in Contacts', p[1] = q[1] \/ p[2] = q[2]
               PROVE  p = q
    BY DEF Book!OneToOne
  <2>1. PICK x \in rows' : x.by = None /\ p = <<x.uuid, x.hash>>
    BY DEF Contacts, Committed
  <2>2. PICK y \in rows' : y.by = None /\ q = <<y.uuid, y.hash>>
    BY DEF Contacts, Committed
  <2>3. x.uuid = y.uuid \/ x.hash = y.hash
    BY <2>1, <2>2
  <2>4. x = y
    BY <1>1, <2>1, <2>2, <2>3 DEF PhonebookInv, TableInv, Unique, Share, Replaces
  <2> QED
    BY <2>1, <2>2, <2>4
<1>13. Book!Closed => Contacts' = {}
  <2>1. Book!Closed => rows' = {}
    BY <1>1, <1>2, ClosedIsEmpty DEF KeptRows
  <2> QED
    BY <2>1 DEF Contacts, Committed
<1>14. UNCHANGED Book!request
  BY <1>1 DEF Book!request
<1>15. Book!Succeed(r)
  BY <1>1, <1>5, <1>6, <1>8, <1>9, <1>10, <1>11, <1>12, <1>13, <1>14, EditedIsThere
<1> QED
  BY <1>4, <1>15 DEF Book!Next

(* A request comes in.                                                      *)
LEMMA BeginSeen ==
  ASSUME BookInv, PhonebookInv', NEW r \in Requests, Quiet(r),
         NEW k, NEW u, NEW E \in Seq(Hashes), Begin(r, k, u, E),
         \/ k \in {"edit", "remove"} /\ u \in Uuids
         \/ k \in {"create", "import", "removeBook"} /\ u = None,
         k \in {"create", "edit"} => \E h \in Hashes : E = <<h>>,
         k \in {"remove", "removeBook"} => E = <<>>
  PROVE  BookInv' /\ [Book!Next]_Book!bookVars
<1>1. /\ pc[r] = "idle" /\ k \in Kinds /\ pc' = [pc EXCEPT ![r] = "load"]
      /\ kind' = [kind EXCEPT ![r] = k] /\ target' = [target EXCEPT ![r] = u]
      /\ entries' = [entries EXCEPT ![r] = E]
      /\ UNCHANGED <<book, reply>>
  BY DEF Begin, phonebook
<1>2. /\ PhonebookInv /\ kind[r] = None
      /\ pc'[r] = "load" /\ kind'[r] = k /\ entries'[r] = E
  BY <1>1 DEF BookInv, PhonebookInv, Types, TypeOK, RequestInv, Stage
<1>3. \A h \in Hashes : <<h>> \in Seq(Hashes) /\ Len(<<h>>) = 1 /\ ToSet(<<h>>) = {h}
  BY DEF ToSet
<1>4. BookInv'
  <2>1. Sent(r)'
    BY <1>2, <1>3 DEF Sent
  <2> QED
    BY <1>1, <2>1, QuietKeepsBook
<1>5. r \notin Looked /\ r \notin Looked'
  BY <1>1, <1>2 DEF Looked
<1>6. Doomed(r) = {} /\ Doomed(r)' = {} /\ Skipped(r) = {} /\ Skipped(r)' = {}
  BY <1>1, <1>2, <1>5 DEF Doomed, Skipped, FoundAlready
<1>7. /\ Looked' = Looked
      /\ [q \in Requests |-> Doomed(q)]' = [q \in Requests |-> Doomed(q)]
      /\ [q \in Requests |-> Skipped(q)]' = [q \in Requests |-> Skipped(q)]
  BY <1>2, <1>5, <1>6, PlanChanges, QuietMoves
<1>8. Contacts' = Contacts
  BY DEF Quiet, NoCommit
<1>9. u \in IF k \in {"edit", "remove"} THEN Book!UuidsOf(Contacts) ELSE {None}
  BY DEF Uuids, Book!UuidsOf
<1>10. ToSet(E) \in CASE k \in {"create", "edit"} -> {{h} : h \in Hashes}
                      [] k = "import" -> SUBSET Hashes
                      [] OTHER -> {{}}
  <2>1. ToSet(<<>>) = {} /\ ToSet(E) \subseteq Hashes
    BY DEF ToSet
  <2>2. CASE k \in {"create", "edit"}
    BY <1>3, <2>2
  <2>3. CASE k = "import"
    BY <2>1, <2>3
  <2>4. CASE k \in {"remove", "removeBook"}
    BY <2>1, <2>4
  <2> QED
    BY <2>2, <2>3, <2>4
<1>11. [q \in Requests |-> ToSet(entries[q])]' =
         [[q \in Requests |-> ToSet(entries[q])] EXCEPT ![r] = ToSet(E)]
  BY <1>1, <1>2 DEF PhonebookInv, Types, TypeOK
<1> DEFINE sent == [q \in Requests |-> [h \in ToSet(entries[q]) |-> None]]
<1>12. /\ sent' = [sent EXCEPT ![r] = sent'[r]]
       /\ DOMAIN (sent'[r]) = ToSet(E) /\ \A h \in ToSet(E) : sent'[r][h] = None
  <2>1. sent' = [q \in Requests |-> [h \in ToSet(entries'[q]) |-> None]]
    BY DEF ToSet
  <2>2. sent'[r] = [h \in ToSet(E) |-> None]
    BY <1>2, <2>1
  <2>3. \A q \in Requests \ {r} : entries'[q] = entries[q]
    BY <1>1, <1>2 DEF PhonebookInv, Types, TypeOK
  <2> QED
    BY <2>1, <2>2, <2>3
<1>13. /\ [q \in Requests |-> ToSet(entries[q])]'[r] = ToSet(E)
       /\ k # None
  BY <1>1, <1>11, PhonebookAssumption
<1> HIDE DEF sent
<1>14. Book!Ask(r) <=>
         /\ kind[r] = None /\ kind'[r] # None
         /\ \E kk \in Kinds :
              /\ kind' = [kind EXCEPT ![r] = kk]
              /\ \E v \in IF kk \in {"edit", "remove"} THEN Book!UuidsOf(Contacts) ELSE {None} :
                   target' = [target EXCEPT ![r] = v]
              /\ \E H \in CASE kk \in {"create", "edit"} -> {{h} : h \in Hashes}
                            [] kk = "import" -> SUBSET Hashes
                            [] OTHER -> {{}} :
                   [q \in Requests |-> ToSet(entries[q])]' =
                     [[q \in Requests |-> ToSet(entries[q])] EXCEPT ![r] = H]
              /\ DOMAIN (sent'[r]) = [q \in Requests |-> ToSet(entries[q])]'[r]
              /\ kk = "edit" => \A h \in [q \in Requests |-> ToSet(entries[q])]'[r] :
                                   sent'[r][h] = None
              /\ sent' = [sent EXCEPT ![r] = sent'[r]]
         /\ UNCHANGED <<Contacts, Book!plan, reply>>
  BY DEF Book!Ask, sent
<1>15. Book!Ask(r)
  BY <1>1, <1>2, <1>7, <1>8, <1>9, <1>10, <1>11, <1>12, <1>13, <1>14 DEF Book!plan
<1> QED
  BY <1>4, <1>15 DEF Book!Next

LEMMA BeginsSeen ==
  ASSUME BookInv, PhonebookInv', NEW r \in Requests, Begins(r)
  PROVE  BookInv' /\ [Book!Next]_Book!bookVars
<1>1. Quiet(r)
  BY BeginsKeep DEF BookInv
<1>2. CASE BeginCreate(r)
  <2>1. PICK h \in Hashes : Begin(r, "create", None, <<h>>)
    BY <1>2 DEF BeginCreate
  <2>2. <<h>> \in Seq(Hashes)
    OBVIOUS
  <2> QED
    BY <1>1, <2>1, <2>2, BeginSeen
<1>3. CASE BeginImport(r)
  <2>1. PICK n \in 1..MaxEntries : \E E \in [1..n -> Hashes] : Begin(r, "import", None, E)
    BY <1>3 DEF BeginImport
  <2>2. PICK E \in [1..n -> Hashes] : Begin(r, "import", None, E)
    BY <2>1
  <2>3. E \in Seq(Hashes)
    BY PhonebookAssumption, TableAssumption
  <2> QED
    BY <1>1, <2>2, <2>3, BeginSeen
<1>4. CASE BeginEdit(r)
  <2>1. PICK u \in Uuids, h \in Hashes : Begin(r, "edit", u, <<h>>)
    BY <1>4 DEF BeginEdit
  <2>2. <<h>> \in Seq(Hashes)
    OBVIOUS
  <2> QED
    BY <1>1, <2>1, <2>2, BeginSeen
<1>5. CASE BeginRemove(r)
  <2>1. PICK u \in Uuids : Begin(r, "remove", u, <<>>)
    BY <1>5 DEF BeginRemove
  <2>2. <<>> \in Seq(Hashes)
    OBVIOUS
  <2> QED
    BY <1>1, <2>1, <2>2, BeginSeen
<1>6. CASE BeginRemoveBook(r)
  <2>1. <<>> \in Seq(Hashes) /\ Begin(r, "removeBook", None, <<>>)
    BY <1>6 DEF BeginRemoveBook
  <2> QED
    BY <1>1, <2>1, BeginSeen
<1> QED
  BY <1>2, <1>3, <1>4, <1>5, <1>6 DEF Begins

LEMMA InitSeen == Init => BookInv /\ Book!Init
<1> SUFFICES ASSUME Init PROVE BookInv /\ Book!Init
  OBVIOUS
<1>1. PhonebookInv /\ Shut
  BY InitPhonebookInv DEF Init, Shut
<1>2. \A r \in Requests : Sent(r)
  BY PhonebookAssumption DEF Init, Sent
<1>3. Book!OneToOne(Contacts)
  BY <1>1, ContactsDiffer DEF PhonebookInv
<1>4. Looked = {} /\ \A r \in Requests : Doomed(r) = {} /\ Skipped(r) = {}
  <2>1. Looked = {}
    BY DEF Init, Looked
  <2>2. \A r \in Requests : ~FoundAlready(r)
    BY <2>1 DEF FoundAlready
  <2>3. \A r \in Requests : Skipped(r) = {}
    BY <2>2 DEF Init, Skipped
  <2> QED
    BY <2>1, <2>3 DEF Doomed
<1>5. [r \in Requests |-> ToSet(entries[r])] = [r \in Requests |-> {}]
  <2>1. ToSet(<<>>) = {}
    BY DEF ToSet
  <2> QED
    BY <2>1 DEF Init
<1>6. Book!Init
  BY <1>3, <1>4, <1>5 DEF Init, Book!Init
<1> QED
  BY <1>1, <1>2, <1>6 DEF BookInv

LEMMA FailureSeen ==
  ASSUME BookInv, NEW r \in Requests, DatabaseFails(r) \/ Deadlock(r)
  PROVE  BookInv' /\ [Book!Next]_Book!bookVars
<1>1. pc[r] \notin {"idle", "done"}
  <2>1. ASSUME Deadlock(r), pc[r] \in {"idle", "done"} PROVE FALSE
    <3>1. Blockers[r] = {}
      BY <2>1 DEF Blockers
    <3>2. InCycle(r, Blockers)
      BY <2>1 DEF Deadlock
    <3> QED
      BY <3>1, <3>2 DEF InCycle
  <2> QED
    BY <2>1 DEF DatabaseFails
<1>2. PICK why \in {"deadlocked", "unavailable"} : Abort(r, why)
  BY DEF DatabaseFails, Deadlock
<1>3. Book!Refused(r, why)
  BY <1>2 DEF Book!Refused
<1> QED
  BY <1>1, <1>2, <1>3, AbortBook

LEMMA NextSeen ==
  ASSUME BookInv, [Next]_vars
  PROVE  BookInv' /\ [Book!Next]_Book!bookVars
<1>1. PhonebookInv'
  BY NextKeeps DEF BookInv
<1>2. CASE UNCHANGED vars
  <2>1. UNCHANGED <<rows, fields, book, pc, kind, target, entries, row, todo, reply>>
    BY <1>2 DEF vars, table, phonebook, input, work
  <2>2. BookInv'
    <3>1. Shut'
      BY <2>1 DEF BookInv, Shut, Book!Closed
    <3>2. ASSUME NEW q \in Requests PROVE Sent(q)'
      <4>1. /\ Rest(entries[q], todo[q])' <=> Rest(entries[q], todo[q])
            /\ DealtWith(entries[q], todo[q])' = DealtWith(entries[q], todo[q])
        BY <2>1 DEF Rest, DealtWith
      <4>2. Sent(q)' <=> Sent(q)
        BY <2>1, <4>1, Zenon DEF Sent
      <4> QED
        BY <4>2 DEF BookInv
    <3> QED
      BY <1>1, <3>1, <3>2 DEF BookInv
  <2>3. /\ Contacts' = Contacts /\ Looked' = Looked
        /\ \A q \in Requests : (FoundAlready(q)') <=> FoundAlready(q)
    BY <2>1 DEF Contacts, Committed, Looked, FoundAlready
  <2>4. \A q \in Requests : Doomed(q)' = Doomed(q) /\ Skipped(q)' = Skipped(q)
    BY <2>1, <2>3 DEF Doomed, Skipped
  <2>5. /\ [q \in Requests |-> Doomed(q)]' = [q \in Requests |-> Doomed(q)]
        /\ [q \in Requests |-> Skipped(q)]' = [q \in Requests |-> Skipped(q)]
        /\ [q \in Requests |-> ToSet(entries[q])]' = [q \in Requests |-> ToSet(entries[q])]
    BY <2>1, <2>4 DEF Doomed, Skipped, FoundAlready, Looked
  <2>6. UNCHANGED Book!bookVars
    BY <2>1, <2>3, <2>5 DEF Book!bookVars, Book!request, Book!plan
  <2> QED
    BY <2>2, <2>6
<1>3. ASSUME NEW r \in Requests, Step(r)
      PROVE  BookInv' /\ [Book!Next]_Book!bookVars
  BY <1>3, LoadBookSeen, LoadContactSeen, LockContactSeen, StatementsSeen, EditRefusedSeen,
     InsertFieldsSeen, InsertContactSeen, InsertRefusedSeen, BookGoneSeen, CommitSeen, FailureSeen
     DEF Step
<1>4. ASSUME NEW r \in Requests, Begins(r)
      PROVE  BookInv' /\ [Book!Next]_Book!bookVars
  BY <1>1, <1>4, BeginsSeen
<1> QED
  BY <1>2, <1>3, <1>4, FailureSeen DEF Next, Begins, Terminated

(***************************************************************************)
(* Whatever the statements of its requests do, the removal of the          *)
(* phonebook among them, seen from outside its contacts change as those    *)
(* of a book do whose requests take effect at once: what is acknowledged   *)
(* is all there, what failed has changed nothing, and the reason given is  *)
(* true.                                                                   *)
(***************************************************************************)
THEOREM SpecKeepsBook == Spec => KeepsBook
<1>1. Init => BookInv /\ Book!Init
  BY InitSeen
<1>2. BookInv /\ [Next]_vars => BookInv' /\ [Book!Next]_Book!bookVars
  BY NextSeen
<1> QED
  BY <1>1, <1>2, PTL DEF Spec, KeepsBook, Book!Spec
=============================================================================
