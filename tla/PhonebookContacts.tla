------------------------- MODULE PhonebookContacts -------------------------
(***************************************************************************)
(* The contacts of one phonebook (PhonebookContactCRUD and the phonebook   *)
(* service above it) and the deletion of the phonebook.  Every HTTP        *)
(* request runs one transaction; its SQL statements are the steps.  An     *)
(* edit updates the hash of the contact and then replaces its fields: it   *)
(* inserts the new ones and deletes those it has loaded.                   *)
(***************************************************************************)
EXTENDS ContactTable, Sequences, SequencesExt

CONSTANTS
  Kinds,       \* the operations requests may be
  Initial,     \* hashes of the contacts there are to begin with
  MaxEntries   \* bound: contacts in an import

ASSUME PhonebookAssumption ==
  /\ Kinds \subseteq {"create", "import", "edit", "remove", "removeBook"}
  /\ Initial \subseteq Hashes
  /\ MaxEntries \in 1 .. Radix - 1
  /\ None \notin Nat
  /\ None \notin {"create", "import", "edit", "remove", "removeBook"}
  /\ None \notin {"ok", "duplicate", "nosuch", "badContacts", "crash", "deadlocked", "unavailable"}

VARIABLES
  book,         \* is the dird_phonebook row there
  bookDeleter,  \* the transaction that is deleting it
  pc, kind, target, entries,   \* per request: step, operation, contact, hashes sent
  row,          \* the contact its session has loaded: row identifier and hash
  fieldsLeft,   \* identifiers of the fields it is to delete
  todo,         \* hashes left to insert
  reply,        \* what the caller was told
  told          \* uuids some caller was told of and nobody removed since (ghost)

phonebook == <<book, bookDeleter>>
input == <<kind, target, entries>>
work == <<row, fieldsLeft, todo>>
vars == <<table, phonebook, pc, input, work, reply, told>>

TypeOK ==
  /\ TableTypeOK
  /\ book \in BOOLEAN
  /\ bookDeleter \in Requests \cup {None}
  /\ pc \in [Requests -> {"idle", "load", "lock", "write", "insertFields", "fields", "delete",
                          "cascade", "deleteBook", "cascadeRows", "insert", "commit", "done"}]
  /\ kind \in [Requests -> Kinds \cup {None}]
  /\ target \in [Requests -> Nat \cup {None}]
  /\ entries \in [Requests -> Seq(Hashes)]
  /\ todo \in [Requests -> Seq(Hashes)]
  /\ reply \in [Requests -> {None, "ok", "duplicate", "nosuch", "badContacts", "crash",
                             "deadlocked", "unavailable"}]
  /\ told \subseteq Nat

Uuids == {p[1] : p \in Contacts}

Init ==
  /\ TableInit(Initial)
  /\ book = TRUE
  /\ bookDeleter = None
  /\ pc = [r \in Requests |-> "idle"]
  /\ kind = [r \in Requests |-> None]
  /\ target = [r \in Requests |-> None]
  /\ entries = [r \in Requests |-> <<>>]
  /\ row = [r \in Requests |-> None]
  /\ fieldsLeft = [r \in Requests |-> {}]
  /\ todo = [r \in Requests |-> <<>>]
  /\ reply = [r \in Requests |-> None]
  /\ told = Uuids

Begin(r, k, u, E) ==
  /\ pc[r] = "idle"
  /\ k \in Kinds
  /\ kind' = [kind EXCEPT ![r] = k]
  /\ target' = [target EXCEPT ![r] = u]
  /\ entries' = [entries EXCEPT ![r] = E]
  /\ pc' = [pc EXCEPT ![r] = "load"]
  /\ UNCHANGED <<table, phonebook, work, reply, told>>

BeginCreate(r) == \E h \in Hashes : Begin(r, "create", None, <<h>>)
BeginImport(r) ==
  \E n \in 1..MaxEntries : \E E \in [1..n -> Hashes] : Begin(r, "import", None, E)
BeginEdit(r) == \E u \in Uuids, h \in Hashes : Begin(r, "edit", u, <<h>>)
BeginRemove(r) == \E u \in Uuids : Begin(r, "remove", u, <<>>)
BeginRemoveBook(r) == Begin(r, "removeBook", None, <<>>)

GoTo(r, step) == pc' = [pc EXCEPT ![r] = step] /\ UNCHANGED <<input, reply, told>>

(* new_session: rollback, and the error for the caller.                    *)
Abort(r, why) ==
  /\ RollbackTable(r)
  /\ bookDeleter' = IF bookDeleter = r THEN None ELSE bookDeleter
  /\ pc' = [pc EXCEPT ![r] = "done"]
  /\ reply' = [reply EXCEPT ![r] = why]
  /\ UNCHANGED <<book, input, work, told>>

(* The connection to the database is lost: DatabaseServiceUnavailable.     *)
DatabaseFails(r) ==
  /\ pc[r] \notin {"idle", "done"}
  /\ Abort(r, "unavailable")

(* _get_phonebook, and _get_contact, which loads the fields as well.       *)
LoadBook(r) ==
  /\ pc[r] = "load"
  /\ kind[r] \in {"create", "import", "removeBook"}
  /\ IF ~book
     THEN Abort(r, "nosuch")
     ELSE /\ todo' = [todo EXCEPT ![r] = entries[r]]
          /\ GoTo(r, IF kind[r] = "removeBook" THEN "deleteBook" ELSE "insert")
          /\ UNCHANGED <<table, phonebook, row, fieldsLeft>>

Wanted(r) == {x \in Visible(r, rows) : x.uuid = target[r]}

LoadContact(r) ==
  /\ pc[r] = "load"
  /\ kind[r] \in {"edit", "remove"}
  /\ IF Wanted(r) = {}
     THEN Abort(r, "nosuch")
     ELSE /\ \E x \in Wanted(r) : row' = [row EXCEPT ![r] = [id |-> x.id, hash |-> x.hash]]
          /\ fieldsLeft' = [fieldsLeft EXCEPT ![r] =
                              {g.id : g \in {f \in Visible(r, fields) : f.uuid = target[r]}}]
          /\ GoTo(r, IF kind[r] = "remove" THEN "fields"
                     ELSE IF row'[r].hash = Head(entries[r]) THEN "insertFields" ELSE "lock")
          /\ UNCHANGED <<table, phonebook, todo>>

(* To change the hash of a row, which a foreign key could refer to, or to  *)
(* delete it, nobody else may have inserted fields that refer to it.       *)
RowUsers(r, x) == Holders(r, {x} \cup {g \in fields : g.uuid = x.uuid /\ g.by # None})

Loaded(r) == RowOf(row[r].id)
LoadedUsers(r) == UNION {RowUsers(r, x) : x \in Loaded(r)}

(* Mutant: an edit deletes the contact, and commits that, before it inserts *)
(* the new one.                                                            *)
LockContactDeletes(r) ==
  /\ pc[r] = "lock"
  /\ IF Loaded(r) = {}
     THEN Abort(r, "crash")
     ELSE /\ LoadedUsers(r) = {}
          /\ rows' = rows \ Loaded(r)
          /\ fields' = {g \in fields : g.uuid # target[r]}
          /\ GoTo(r, "write")
          /\ UNCHANGED <<phonebook, work>>

(* UPDATE of the hash: StaleDataError when the contact has gone.           *)
LockContact(r) ==
  /\ pc[r] = "lock"
  /\ IF Loaded(r) = {}
     THEN Abort(r, "crash")
     ELSE /\ LoadedUsers(r) = {}
          /\ rows' = Marked(r, rows, Loaded(r))
          /\ GoTo(r, "write")
          /\ UNCHANGED <<fields, phonebook, work>>

EditRivals(r) == Conflicting(r, row[r].id, target[r], Head(entries[r]))

(* Mutant: the attributes are replaced and the hash is not.                *)
WriteHashUnchanged(r) ==
  /\ pc[r] = "write"
  /\ EditRivals(r) = {}
  /\ rows' = rows \cup {[x EXCEPT !.by = r, !.del = None] : x \in Loaded(r)}
  /\ GoTo(r, "insertFields")
  /\ UNCHANGED <<fields, phonebook, work>>

WriteHash(r) ==
  /\ pc[r] = "write"
  /\ EditRivals(r) = {}
  /\ rows' = rows \cup {[x EXCEPT !.hash = Head(entries[r]), !.by = r, !.del = None] :
                          x \in Loaded(r)}
  /\ GoTo(r, "insertFields")
  /\ UNCHANGED <<fields, phonebook, work>>

EditRefused(r) ==
  /\ pc[r] = "write"
  /\ EditRivals(r) # {}
  /\ Holders(r, EditRivals(r)) = {}
  /\ Abort(r, "duplicate")

(* _set_contact_fields replaces the collection.  The flush at the commit   *)
(* inserts the new fields first: the contact must still be there.          *)
InsertFields(r) ==
  /\ pc[r] = "insertFields"
  /\ LET X == {x \in rows : x.uuid = target[r] /\ x.by \in {None, r} /\ x.del # r}
     IN  IF X = {}
         THEN Abort(r, "crash")
         ELSE /\ Holders(r, X) = {}
              /\ fields' = fields \cup {Version(r, target[r], Head(entries[r]), r)}
              /\ GoTo(r, "fields")
              /\ UNCHANGED <<rows, phonebook, work>>

(* The fields that were loaded; that some are gone is only a warning.      *)
DeleteLoadedFields(r) ==
  /\ pc[r] = "fields"
  /\ DeleteFields(r, fieldsLeft[r])
  /\ fieldsLeft' = [fieldsLeft EXCEPT ![r] = {}]
  /\ GoTo(r, IF kind[r] = "edit" THEN "commit" ELSE "delete")
  /\ UNCHANGED <<phonebook, row, todo>>

(* Mutant: a contact somebody is editing is taken for one that has gone.   *)
DeleteContactUnlessLocked(r) ==
  /\ pc[r] = "delete"
  /\ IF Loaded(r) = {} \/ LoadedUsers(r) # {}
     THEN /\ GoTo(r, "commit")
          /\ UNCHANGED <<table, phonebook, work>>
     ELSE /\ DeleteRow(r, row[r].id)
          /\ GoTo(r, "cascade")
          /\ UNCHANGED <<phonebook, work>>

(* A contact that has gone is only a warning too.                          *)
DeleteContact(r) ==
  /\ pc[r] = "delete"
  /\ IF Loaded(r) = {}
     THEN /\ GoTo(r, "commit")
          /\ UNCHANGED <<table, phonebook, work>>
     ELSE /\ LoadedUsers(r) = {}
          /\ DeleteRow(r, row[r].id)
          /\ GoTo(r, "cascade")
          /\ UNCHANGED <<phonebook, work>>

CascadeContact(r) ==
  /\ pc[r] = "cascade"
  /\ kind[r] = "remove"
  /\ Cascade(r, target[r])
  /\ GoTo(r, "commit")
  /\ UNCHANGED <<phonebook, work>>

(* DELETE of the phonebook waits for those who have inserted contacts.     *)
Inserters(r) == {x.by : x \in {y \in rows : y.by = y.id[1]}} \ {r}

DeleteBook(r) ==
  /\ pc[r] = "deleteBook"
  /\ Inserters(r) = {}
  /\ bookDeleter = None
  /\ bookDeleter' = IF book THEN r ELSE None
  /\ GoTo(r, IF book THEN "cascadeRows" ELSE "commit")
  /\ UNCHANGED <<table, book, work>>

(* ON DELETE CASCADE: the contacts, then their fields.                     *)
CascadeRow(r) ==
  /\ pc[r] = "cascadeRows"
  /\ \E x \in Visible(r, rows) :
       /\ RowUsers(r, x) = {}
       /\ rows' = Marked(r, rows, {x})
  /\ UNCHANGED <<fields, phonebook, pc, input, work, reply, told>>

CascadeFields(r) ==
  /\ pc[r] = "cascadeRows"
  /\ Visible(r, rows) = {}
  /\ Holders(r, Visible(r, fields)) = {}
  /\ fields' = Marked(r, fields, Visible(r, fields))
  /\ GoTo(r, "commit")
  /\ UNCHANGED <<rows, phonebook, work>>

(* _create_one                                                             *)
NextUuid(r) == NewUuid(r, Len(todo[r]))

Rivals(r) == Clashing(r, NextUuid(r), Head(todo[r]))

InsertContact(r) ==
  /\ pc[r] = "insert"
  /\ todo[r] # <<>>
  /\ book
  /\ bookDeleter = None
  /\ Insert(r, NextUuid(r), Head(todo[r]))
  /\ todo' = [todo EXCEPT ![r] = Tail(@)]
  /\ UNCHANGED <<phonebook, pc, input, row, fieldsLeft, reply, told>>

(* Mutant: an entry somebody else is still inserting counts as a duplicate. *)
InsertRefusedEarly(r) ==
  /\ pc[r] = "insert"
  /\ todo[r] # <<>>
  /\ Rivals(r) # {}
  /\ IF kind[r] = "create"
     THEN Abort(r, "duplicate")
     ELSE /\ todo' = [todo EXCEPT ![r] = Tail(@)]
          /\ UNCHANGED <<table, phonebook, pc, input, row, fieldsLeft, reply, told>>

(* The unique constraint: DuplicatedContactException.  An import undoes    *)
(* the entry alone, by its savepoint, and goes on.                         *)
InsertRefused(r) ==
  /\ pc[r] = "insert"
  /\ todo[r] # <<>>
  /\ Rivals(r) # {}
  /\ Holders(r, Rivals(r)) = {}
  /\ IF kind[r] = "create"
     THEN Abort(r, "duplicate")
     ELSE /\ todo' = [todo EXCEPT ![r] = Tail(@)]
          /\ UNCHANGED <<table, phonebook, pc, input, row, fieldsLeft, reply, told>>

(* Mutant: the failure is not noticed.                                     *)
BookGoneWaits(r) ==
  /\ pc[r] = "insert"
  /\ todo[r] # <<>>
  /\ ~book
  /\ UNCHANGED vars

(* Each insertion looks for the phonebook again: NoSuchPhonebook.  If it is *)
(* deleted after that, the foreign key refuses the contact, which is       *)
(* reported (ContactCreationError) unless another one is left to insert.   *)
BookGone(r) ==
  /\ pc[r] = "insert"
  /\ todo[r] # <<>>
  /\ ~book
  /\ \/ Abort(r, "nosuch")
     \/ Len(todo[r]) = 1 /\ Abort(r, "badContacts")

Removes(r) ==
  CASE kind[r] = "removeBook" -> told
    [] kind[r] = "remove" -> {target[r]}
    [] OTHER -> {}

Commit(r) ==
  /\ pc[r] = "commit" \/ (pc[r] = "insert" /\ todo[r] = <<>>)
  /\ CommitTable(r)
  /\ book' = (book /\ bookDeleter # r)
  /\ bookDeleter' = IF bookDeleter = r THEN None ELSE bookDeleter
  /\ pc' = [pc EXCEPT ![r] = "done"]
  /\ reply' = [reply EXCEPT ![r] = "ok"]
  /\ told' = (told \ Removes(r)) \cup {x.uuid : x \in {y \in rows : y.by = r}}
                                  \cup IF kind[r] = "edit" THEN {target[r]} ELSE {}
  /\ UNCHANGED <<input, work>>

(* Whom each request waits for.                                            *)
Blockers ==
  [r \in Requests |->
     CASE pc[r] = "lock" -> LoadedUsers(r)
       [] pc[r] = "write" -> Holders(r, EditRivals(r))
       [] pc[r] = "insertFields" -> Holders(r, {x \in Committed(rows) : x.uuid = target[r]})
       [] pc[r] = "fields" -> Holders(r, FieldsOf(fieldsLeft[r]))
       [] pc[r] = "delete" -> LoadedUsers(r)
       [] pc[r] = "cascade" -> Holders(r, Dependent(r, target[r]))
       [] pc[r] = "deleteBook" -> Inserters(r) \cup ({bookDeleter} \ {None})
       [] pc[r] = "cascadeRows" ->
            IF \E x \in Visible(r, rows) : RowUsers(r, x) = {} THEN {}
            ELSE UNION {RowUsers(r, x) : x \in Visible(r, rows)}
                   \cup Holders(r, Visible(r, fields))
       [] pc[r] = "insert" /\ todo[r] # <<>> ->
            IF Rivals(r) # {} THEN Holders(r, Rivals(r)) ELSE {bookDeleter} \ {None}
       [] OTHER -> {}]

(* Mutant: an import goes on to commit what it has inserted.               *)
DeadlockKeepsOthers(r) ==
  /\ InCycle(r, Blockers)
  /\ IF kind[r] = "import"
     THEN /\ CommitTable(r)
          /\ pc' = [pc EXCEPT ![r] = "done"]
          /\ reply' = [reply EXCEPT ![r] = "deadlocked"]
          /\ UNCHANGED <<phonebook, input, work, told>>
     ELSE Abort(r, "deadlocked")

(* PostgreSQL ends one of the transactions that wait for one another: an   *)
(* OperationalError, which the caller sees as a 503 too.                   *)
Deadlock(r) == InCycle(r, Blockers) /\ Abort(r, "deadlocked")

Terminated == (\A r \in Requests : pc[r] \in {"idle", "done"}) /\ UNCHANGED vars

Step(r) ==
  \/ LoadBook(r) \/ LoadContact(r)
  \/ LockContact(r) \/ WriteHash(r) \/ EditRefused(r) \/ InsertFields(r)
  \/ DeleteLoadedFields(r) \/ DeleteContact(r) \/ CascadeContact(r)
  \/ DeleteBook(r) \/ CascadeRow(r) \/ CascadeFields(r)
  \/ InsertContact(r) \/ InsertRefused(r) \/ BookGone(r)
  \/ Commit(r) \/ Deadlock(r)

Next ==
  \/ \E r \in Requests :
       \/ BeginCreate(r) \/ BeginImport(r) \/ BeginEdit(r) \/ BeginRemove(r)
       \/ BeginRemoveBook(r)
       \/ Step(r)
       \/ DatabaseFails(r)
  \/ Terminated

Spec == Init /\ [][Next]_vars

----------------------------------------------------------------------------
(* A contact its caller was told of, by its creation or an edit, stays in  *)
(* the phonebook until its deletion is acknowledged.                       *)
NothingLost == told \subseteq Uuids

(* A contact whose deletion was acknowledged is not there, whatever edits  *)
(* were under way: an edit fails rather than bring it back.                *)
RemovedIsGone ==
  \A r \in Requests : reply[r] = "ok" =>
    /\ kind[r] = "remove" => target[r] \notin Uuids
    /\ kind[r] = "removeBook" => rows = {} /\ fields = {}

(* The requests that have loaded the contact they are to delete or change, *)
(* its uuid unless the edit has found its hash already there, and the      *)
(* hashes a request leaves out.                                            *)
Looked == {r \in Requests : kind[r] \in {"edit", "remove"} /\ pc[r] \notin {"idle", "load", "done"}}

FoundAlready(r) == r \in Looked /\ kind[r] = "edit" /\ row[r].hash = Head(entries[r])

Doomed(r) == IF r \in Looked /\ ~FoundAlready(r) THEN {target[r]} ELSE {}

Skipped(r) ==
  CASE kind[r] = "import" /\ pc[r] = "insert" ->
         {entries[r][i] : i \in 1 .. Len(entries[r]) - Len(todo[r])}
           \ {x.hash : x \in {y \in rows : y.by = r}}
    [] FoundAlready(r) -> ToSet(entries[r])
    [] OTHER -> {}

Book == INSTANCE ContactBook WITH
  contacts <- Contacts, InPlace <- TRUE, looked <- Looked,
  hashes <- [r \in Requests |-> ToSet(entries[r])],
  ids <- [r \in Requests |-> [h \in ToSet(entries[r]) |-> None]],
  since <- [r \in Requests |-> {}],
  doomed <- [r \in Requests |-> Doomed(r)], skip <- [r \in Requests |-> Skipped(r)]

(* However the statements of its requests interleave and fail, what becomes *)
(* of the contacts is what a book does whose requests take effect at once:  *)
(* a request that fails has changed nothing, an import that fails added    *)
(* none of its contacts, and the reason of a refusal is true.              *)
KeepsBook == Book!Spec

(* The entries an import passes over as duplicates are in the phonebook    *)
(* when it is acknowledged: as long as nobody edits or removes contacts,   *)
(* each of them is there, inserted by the import or by somebody else.      *)
ImportIsComplete ==
  (\A q \in Requests : kind[q] \in {None, "create", "import"}) =>
    \A r \in Requests : kind[r] = "import" /\ reply[r] = "ok" =>
      ToSet(entries[r]) \subseteq {p[2] : p \in Contacts}

(* A contact always has the fields its hash was computed from, and only     *)
(* those unless two edits of it have succeeded: the UPDATE of the hash is   *)
(* serialised, the replacement of the fields is not.                       *)
FieldsFollowHash ==
  \A x \in Committed(rows) :
    LET hashes == {g.hash : g \in {f \in Committed(fields) : f.uuid = x.uuid}}
        edits == {r \in Requests : kind[r] = "edit" /\ target[r] = x.uuid /\ reply[r] = "ok"}
    IN  x.hash \in hashes /\ ((\A q, r \in edits : q = r) => hashes = {x.hash})

TablesAreSound == TypeOK /\ FieldsFollowHash

UnderWay(r) == pc[r] \notin {"idle", "done"}

(* Every request ends: it can always take a step, unless it waits for the  *)
(* row, key or unique value of another one that has not ended yet.  The    *)
(* steps of a request are finitely many, and waits for one another are     *)
(* broken by Deadlock.                                                     *)
NobodyIsStuck ==
  \A r \in Requests : UnderWay(r) =>
    ENABLED <<Step(r)>>_vars \/ \E q \in Blockers[r] : UnderWay(q)
=============================================================================
