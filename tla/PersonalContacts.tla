-------------------------- MODULE PersonalContacts --------------------------
(***************************************************************************)
(* The personal contacts of one user (PersonalContactCRUD and the personal *)
(* service above it).  Every HTTP request runs one transaction, an import   *)
(* two; its SQL statements are the steps, and they interleave.  The user's  *)
(* row is inserted by whoever first needs it.  A client may send an id with *)
(* what it creates: the contact gets that uuid, when it is free.  A uuid    *)
(* that a contact of somebody else has is refused as one of this user's;   *)
(* the column uuid of an import, which is compared as the id is but not    *)
(* stored as one, is left out.                                             *)
(***************************************************************************)
EXTENDS ContactTable, Sequences, SequencesExt

CONSTANTS
  Kinds,      \* the operations requests may be
  Ids,        \* the uuids that clients may send with what they create
  Imports,    \* what an import may be of: hashes, and the uuid sent with each, or None
  Initial     \* hashes of the contacts there are to begin with, or none

ASSUME PersonalAssumption ==
  /\ Kinds \subseteq {"create", "import", "edit", "remove", "purge"}
  /\ Ids \subseteq Nat
  /\ \A f \in Imports : DOMAIN f \subseteq Hashes /\ f \in [DOMAIN f -> Ids \cup {None}]
  /\ Initial \subseteq Hashes
  /\ None \notin Nat
  /\ None \notin {"create", "import", "edit", "remove", "purge"}
  /\ None \notin {"ok", "duplicate", "nosuch", "nothing", "error"}

VARIABLES
  tenant, user,   \* writers of the rows the contacts depend on: {None} once committed
  pc, kind, target, bodies,   \* per request: step, operation, contact, hashes sent
  ids,          \* the uuid sent with each of them, or None
  fieldsLeft,   \* identifiers of the fields the session is to delete
  left,         \* uuids of the contacts it is to delete
  aim,          \* the row its DELETE has found and may be waiting for
  failed,       \* the lines of an import whose uuid a contact has
  todo,         \* hashes left to insert, in order
  reply,        \* what the caller was told
  told,         \* contacts some caller was told of and nobody removed since (ghost)
  since         \* uuids inserted since a removal, an edit or a purge was sent (ghost)

owner == <<tenant, user>>
input == <<kind, target, bodies, ids>>
work == <<fieldsLeft, left, aim, failed, todo>>
ghosts == <<told, since>>
vars == <<table, owner, pc, input, work, reply, ghosts>>

Writers == {{}, {None}} \cup {{r} : r \in Requests}

TypeOK ==
  /\ TableTypeOK
  /\ tenant \in Writers /\ user \in Writers
  /\ pc \in [Requests -> {"idle", "load", "fields", "rows", "waitRow", "cascade", "check",
                          "list", "user", "tenant", "addTenant", "addUser", "find", "insert", "done"}]
  /\ kind \in [Requests -> Kinds \cup {None}]
  /\ target \in [Requests -> Nat \cup {None}]
  /\ bodies \in [Requests -> SUBSET Hashes]
  /\ \A r \in Requests : ids[r] \in [bodies[r] -> Ids \cup {None}]
  /\ \A r \in Requests : left[r] \subseteq Nat
  /\ failed \in [Requests -> SUBSET Hashes]
  /\ todo \in [Requests -> Seq(Hashes)]
  /\ reply \in [Requests -> {None, "ok", "duplicate", "nosuch", "nothing", "error"}]
  /\ \A p \in told : p[1] \in Nat /\ p[2] \in Hashes
  /\ \A r \in Requests : since[r] \subseteq Nat

Init ==
  /\ \/ /\ TableInit({})
        /\ user = {}
        /\ tenant \in {{}, {None}}
     \/ /\ TableInit(Initial)
        /\ user = {None}
        /\ tenant = {None}
  /\ pc = [r \in Requests |-> "idle"]
  /\ kind = [r \in Requests |-> None]
  /\ target = [r \in Requests |-> None]
  /\ bodies = [r \in Requests |-> {}]
  /\ ids = [r \in Requests |-> [h \in {} |-> None]]
  /\ fieldsLeft = [r \in Requests |-> {}]
  /\ left = [r \in Requests |-> {}]
  /\ aim = [r \in Requests |-> None]
  /\ failed = [r \in Requests |-> {}]
  /\ todo = [r \in Requests |-> <<>>]
  /\ reply = [r \in Requests |-> None]
  /\ told = Contacts
  /\ since = [r \in Requests |-> {}]

NoIds(B) == [h \in B |-> None]

Begin(r, k, u, B, f) ==
  /\ pc[r] = "idle"
  /\ k \in Kinds
  /\ kind' = [kind EXCEPT ![r] = k]
  /\ target' = [target EXCEPT ![r] = u]
  /\ bodies' = [bodies EXCEPT ![r] = B]
  /\ ids' = [ids EXCEPT ![r] = f]
  /\ pc' = [pc EXCEPT ![r] = CASE k = "create" -> "user" [] k = "import" -> "list" [] OTHER -> "load"]
  /\ UNCHANGED <<table, owner, work, reply, ghosts>>

(* What a client may send as the id of a contact: nothing, or a uuid.  It   *)
(* knows of a generated one once a caller was shown the contact, and may    *)
(* send it again when the contact has gone.                                *)
Sendable ==
  {None} \cup {u \in Ids : \A q \in Requests, h \in Hashes : u = NewUuid(q, h) => reply[q] = "ok"}

(* The uuids a client can know of are those of contacts it was shown.      *)
BeginCreate(r) ==
  \E h \in Hashes, u \in Sendable : Begin(r, "create", None, {h}, [g \in {h} |-> u])
BeginImport(r) ==
  \E f \in Imports :
    (\A h \in DOMAIN f : f[h] \in Sendable) /\ Begin(r, "import", None, DOMAIN f, f)
BeginEdit(r) == \E p \in Contacts, h \in Hashes : Begin(r, "edit", p[1], {h}, NoIds({h}))
BeginRemove(r) == \E p \in Contacts : Begin(r, "remove", p[1], {}, NoIds({}))
BeginPurge(r) == Begin(r, "purge", None, {}, NoIds({}))

GoTo(r, step) == pc' = [pc EXCEPT ![r] = step] /\ UNCHANGED <<input, reply, ghosts>>

(* new_session: rollback, and the error for the caller.                    *)
RollbackOwner(r) ==
  /\ tenant' = tenant \ {r}
  /\ user' = user \ {r}

Abort(r, why) ==
  /\ RollbackTable(r)
  /\ RollbackOwner(r)
  /\ pc' = [pc EXCEPT ![r] = "done"]
  /\ reply' = [reply EXCEPT ![r] = why]
  /\ UNCHANGED <<input, work, ghosts>>

(* The connection to the database is lost: DatabaseServiceUnavailable.     *)
DatabaseFails(r) ==
  /\ pc[r] \notin {"idle", "done"}
  /\ Abort(r, "error")

(* _delete_personal_contacts_with_filter: the contacts, and their fields   *)
(* with them (lazy='subquery').                                            *)
Wanted(r) == {x \in Visible(r, rows) : kind[r] = "purge" \/ x.uuid = target[r]}

Load(r) ==
  /\ pc[r] = "load"
  /\ IF Wanted(r) = {} /\ kind[r] # "purge"
     THEN Abort(r, "nosuch")
     ELSE /\ left' = [left EXCEPT ![r] = {x.uuid : x \in Wanted(r)}]
          /\ fieldsLeft' = [fieldsLeft EXCEPT ![r] =
                              {g.id : g \in {f \in Visible(r, fields) : f.uuid \in left'[r]}}]
          /\ GoTo(r, "fields")
          /\ UNCHANGED <<table, owner, aim, failed, todo>>

(* The session's flush deletes the fields it has loaded, by their          *)
(* identifiers; that some are gone is only a warning.                      *)
NextFields(r) == {i \in fieldsLeft[r] : \A j \in fieldsLeft[r] : i[2] <= j[2]}

DeleteLoadedFields(r) ==
  /\ pc[r] = "fields"
  /\ IF fieldsLeft[r] = {}
     THEN /\ GoTo(r, "rows")
          /\ UNCHANGED <<table, owner, work>>
     ELSE /\ \E i \in NextFields(r) :
               /\ DeleteFields(r, {i})
               /\ fieldsLeft' = [fieldsLeft EXCEPT ![r] = @ \ {i}]
          /\ UNCHANGED <<owner, pc, input, left, aim, failed, todo, reply, ghosts>>

(* Then the contacts, by their uuids and in that order.                    *)
NextUuid(r) == {u \in left[r] : \A v \in left[r] : u <= v}

AimAt(r) ==
  /\ pc[r] = "rows"
  /\ \E u \in NextUuid(r) :
       LET X == {x \in Visible(r, rows) : x.uuid = u}
       IN  IF X = {}
           THEN /\ left' = [left EXCEPT ![r] = @ \ {u}]
                /\ UNCHANGED <<pc, input, aim, reply, ghosts>>
           ELSE /\ \E x \in X : aim' = [aim EXCEPT ![r] = x.id]
                /\ GoTo(r, "waitRow")
                /\ UNCHANGED left
  /\ UNCHANGED <<table, owner, fieldsLeft, failed, todo>>

AimedUuid(r) == aim[r][2]

(* A row that another transaction deletes meanwhile is not deleted again,  *)
(* and a row inserted meanwhile under the same uuid is not seen.           *)
DeleteContact(r) ==
  /\ pc[r] = "waitRow"
  /\ IF RowOf(aim[r]) = {}
     THEN /\ left' = [left EXCEPT ![r] = @ \ {AimedUuid(r)}]
          /\ GoTo(r, "rows")
          /\ UNCHANGED table
     ELSE /\ DeleteRow(r, aim[r])
          /\ GoTo(r, "cascade")
          /\ UNCHANGED left
  /\ UNCHANGED <<owner, fieldsLeft, aim, failed, todo>>

(* Mutant: the fields of a deleted contact are left behind.                *)
CascadeContactNothing(r) ==
  /\ pc[r] = "cascade"
  /\ left' = [left EXCEPT ![r] = @ \ {AimedUuid(r)}]
  /\ GoTo(r, "rows")
  /\ UNCHANGED <<table, owner, fieldsLeft, aim, failed, todo>>

CascadeContact(r) ==
  /\ pc[r] = "cascade"
  /\ Cascade(r, AimedUuid(r))
  /\ left' = [left EXCEPT ![r] = @ \ {AimedUuid(r)}]
  /\ GoTo(r, "rows")
  /\ UNCHANGED <<owner, fieldsLeft, aim, failed, todo>>

DeletedForEdit(r) ==
  /\ pc[r] = "rows"
  /\ left[r] = {}
  /\ kind[r] = "edit"
  /\ GoTo(r, "check")
  /\ UNCHANGED <<table, owner, work>>

(* _find_existing_contact_by_hash                                          *)
Existing(r) == bodies[r] \cap {x.hash : x \in Visible(r, rows)}

(* Mutant: the duplicate is reported without rolling the deletion back.    *)
CheckDuplicateKeepsDeletion(r) ==
  /\ pc[r] = "check"
  /\ IF Existing(r) # {}
     THEN /\ CommitTable(r)
          /\ pc' = [pc EXCEPT ![r] = "done"]
          /\ reply' = [reply EXCEPT ![r] = "duplicate"]
          /\ UNCHANGED <<owner, input, work, ghosts>>
     ELSE /\ GoTo(r, "user")
          /\ UNCHANGED <<table, owner, work>>

CheckDuplicate(r) ==
  /\ pc[r] = "check"
  /\ IF Existing(r) # {}
     THEN Abort(r, "duplicate")
     ELSE /\ GoTo(r, "user")
          /\ UNCHANGED <<table, owner, work>>

(* create_contacts: what an import is to fail for is looked up first, in a  *)
(* transaction of its own.                                                 *)
ListContacts(r) ==
  /\ pc[r] = "list"
  /\ failed' = [failed EXCEPT ![r] =
                  {h \in bodies[r] : ids[r][h] \in {x.uuid : x \in Visible(r, rows)}}]
  /\ GoTo(r, "user")
  /\ UNCHANGED <<table, owner, fieldsLeft, left, aim, todo>>

(* _get_dird_user: the user and its tenant are inserted by whoever first   *)
(* needs them.                                                             *)
FindUser(r) ==
  /\ pc[r] = "user"
  /\ GoTo(r, IF user \in {{None}, {r}} THEN "find" ELSE "tenant")
  /\ UNCHANGED <<table, owner, work>>

FindTenant(r) ==
  /\ pc[r] = "tenant"
  /\ GoTo(r, IF tenant = {None} THEN "addUser" ELSE "addTenant")
  /\ UNCHANGED <<table, owner, work>>

(* _create_tenant: if somebody else has inserted it, a rollback and on.    *)
AddTenant(r) ==
  /\ pc[r] = "addTenant"
  /\ \/ tenant = {} /\ tenant' = {r} /\ UNCHANGED <<table, user>>
     \/ tenant = {None} /\ RollbackTable(r) /\ RollbackOwner(r)
  /\ GoTo(r, "addUser")
  /\ UNCHANGED work

AddUser(r) ==
  /\ pc[r] = "addUser"
  /\ \/ /\ user = {}
        /\ user' = {r}
        /\ GoTo(r, "find")
        /\ UNCHANGED <<table, tenant, work>>
     \/ /\ user = {None}
        /\ Abort(r, "error")

Find(r) ==
  /\ pc[r] = "find"
  /\ IF kind[r] = "create" /\ Existing(r) # {}
     THEN Abort(r, "duplicate")
     ELSE /\ \E s \in SetToSeqs(bodies[r] \ (Existing(r) \cup failed[r])) :
               todo' = [todo EXCEPT ![r] = s]
          /\ GoTo(r, "insert")
          /\ UNCHANGED <<table, owner, fieldsLeft, left, aim, failed>>

(* An edit inserts under the uuid it has deleted, a creation or an import   *)
(* under the one it was sent with the contact; else it is generated.       *)
UuidFor(r, h) ==
  CASE kind[r] = "edit" -> target[r]
    [] kind[r] # "edit" /\ ids[r][h] # None -> ids[r][h]
    [] OTHER -> NewUuid(r, h)

Rivals(r) == Clashing(r, UuidFor(r, Head(todo[r])), Head(todo[r]))

InsertContact(r) ==
  /\ pc[r] = "insert"
  /\ todo[r] # <<>>
  /\ Insert(r, UuidFor(r, Head(todo[r])), Head(todo[r]))
  /\ todo' = [todo EXCEPT ![r] = Tail(@)]
  /\ UNCHANGED <<owner, pc, input, fieldsLeft, left, aim, failed, reply, ghosts>>

(* Mutant: the insertion is tried again and again.                         *)
InsertRefusedRetries(r) ==
  /\ pc[r] = "insert"
  /\ todo[r] # <<>>
  /\ Rivals(r) # {}
  /\ Holders(r, Rivals(r)) = {}
  /\ UNCHANGED vars

(* Mutant: what was inserted before the refusal is committed.              *)
InsertRefusedKeepsOthers(r) ==
  /\ pc[r] = "insert"
  /\ todo[r] # <<>>
  /\ Rivals(r) # {}
  /\ Holders(r, Rivals(r)) = {}
  /\ CommitTable(r)
  /\ pc' = [pc EXCEPT ![r] = "done"]
  /\ reply' = [reply EXCEPT ![r] = "error"]
  /\ UNCHANGED <<owner, input, work, ghosts>>

(* Another transaction got there first, or the uuid that was sent is that   *)
(* of a contact: IntegrityError, a 500.                                    *)
InsertRefused(r) ==
  /\ pc[r] = "insert"
  /\ todo[r] # <<>>
  /\ Rivals(r) # {}
  /\ Holders(r, Rivals(r)) = {}
  /\ Abort(r, "error")

Removes(r) ==
  CASE kind[r] = "purge" -> {p \in told : \E x \in rows : x.uuid = p[1] /\ x.del = r}
    [] kind[r] \in {"edit", "remove"} -> {p \in told : p[1] = target[r]}
    [] OTHER -> {}

Inserted(r) == {x \in rows : x.by = r}

(* An import of which every line has failed commits, and is answered 400.  *)
Acknowledge(r) ==
  /\ reply' = [reply EXCEPT ![r] =
                 IF kind[r] = "import" /\ bodies[r] \subseteq failed[r] THEN "nothing" ELSE "ok"]
  /\ told' = (told \ Removes(r)) \cup {<<x.uuid, x.hash>> : x \in Inserted(r)}
  /\ since' = [q \in Requests |->
                 IF kind[q] \in {"edit", "remove", "purge"}
                 THEN since[q] \cup {x.uuid : x \in Inserted(r)}
                 ELSE since[q]]

(* Mutant: the session of a removal is closed without a commit.            *)
CommitExceptRemoval(r) ==
  /\ \/ pc[r] = "insert" /\ todo[r] = <<>>
     \/ pc[r] = "rows" /\ left[r] = {} /\ kind[r] # "edit"
  /\ IF kind[r] = "remove" THEN RollbackTable(r) ELSE CommitTable(r)
  /\ tenant' = IF tenant = {r} THEN {None} ELSE tenant
  /\ user' = IF user = {r} THEN {None} ELSE user
  /\ pc' = [pc EXCEPT ![r] = "done"]
  /\ Acknowledge(r)
  /\ UNCHANGED <<input, work>>

Commit(r) ==
  /\ \/ pc[r] = "insert" /\ todo[r] = <<>>
     \/ pc[r] = "rows" /\ left[r] = {} /\ kind[r] # "edit"
  /\ CommitTable(r)
  /\ tenant' = IF tenant = {r} THEN {None} ELSE tenant
  /\ user' = IF user = {r} THEN {None} ELSE user
  /\ pc' = [pc EXCEPT ![r] = "done"]
  /\ Acknowledge(r)
  /\ UNCHANGED <<input, work>>

(* Whom each request waits for.                                            *)
Blockers ==
  [r \in Requests |->
     CASE pc[r] = "addTenant" -> tenant \ {None, r}
       [] pc[r] = "addUser" -> user \ {None, r}
       [] pc[r] = "insert" /\ todo[r] # <<>> -> Holders(r, Rivals(r))
       [] pc[r] = "fields" /\ fieldsLeft[r] # {} -> Holders(r, FieldsOf(NextFields(r)))
       [] pc[r] = "waitRow" -> Holders(r, RowOf(aim[r]))
       [] pc[r] = "cascade" -> Holders(r, Dependent(r, AimedUuid(r)))
       [] OTHER -> {}]

(* PostgreSQL ends one of the transactions that wait for one another.      *)
Deadlock(r) == InCycle(r, Blockers) /\ Abort(r, "error")

Terminated == (\A r \in Requests : pc[r] \in {"idle", "done"}) /\ UNCHANGED vars

Step(r) ==
  \/ Load(r) \/ DeleteLoadedFields(r) \/ AimAt(r) \/ DeleteContact(r) \/ CascadeContact(r)
  \/ DeletedForEdit(r) \/ CheckDuplicate(r) \/ ListContacts(r)
  \/ FindUser(r) \/ FindTenant(r) \/ AddTenant(r) \/ AddUser(r) \/ Find(r) \/ InsertContact(r) \/ InsertRefused(r)
  \/ Commit(r) \/ Deadlock(r)

Next ==
  \/ \E r \in Requests :
       \/ BeginCreate(r) \/ BeginImport(r) \/ BeginEdit(r) \/ BeginRemove(r) \/ BeginPurge(r)
       \/ Step(r)
       \/ DatabaseFails(r)
  \/ Terminated

Spec == Init /\ [][Next]_vars

----------------------------------------------------------------------------
(* A contact its owner was told of stays as it is until a request that     *)
(* removes or edits it has been acknowledged: an edit, which deletes and   *)
(* inserts, never loses it, whatever fails or interleaves.                 *)
NothingLost == told \subseteq Contacts

(* The requests that have loaded what they are to delete, the uuids one is  *)
(* still to delete or has deleted, and the hashes it will not insert:       *)
(* lines that have failed, and what it has found.                          *)
Looked ==
  {r \in Requests :
     kind[r] \in {"edit", "remove", "purge"} /\ pc[r] \notin {"idle", "load", "done"}}

Doomed(r) ==
  IF r \in Looked THEN left[r] \cup {x.uuid : x \in {y \in rows : y.del = r}} ELSE {}

Skipped(r) ==
  CASE pc[r] = "insert" -> bodies[r] \ (ToSet(todo[r]) \cup {x.hash : x \in Inserted(r)})
    [] pc[r] = "done" -> {}
    [] OTHER -> failed[r]

Book == INSTANCE ContactBook WITH
  contacts <- Contacts, hashes <- bodies, InPlace <- FALSE, looked <- Looked,
  doomed <- [r \in Requests |-> Doomed(r)], skip <- [r \in Requests |-> Skipped(r)]

(* However the statements of its requests interleave and fail, what becomes *)
(* of the contacts is what a book does whose requests take effect at once:  *)
(* an import adds all it announces or nothing, an error has changed nothing *)
(* and its reason is true.                                                 *)
KeepsBook == Book!Spec

(* Whatever statements of edits and failures interleave, a contact that is  *)
(* committed has the fields its hash was computed from.                    *)
TablesAreSound == TypeOK /\ HashMatchesFields

(* "Replace personal contact's attributes", "Attribute `id` can not be      *)
(* changed." (plugins/personal/api.yml:101): a contact whose edit was       *)
(* acknowledged has the hash sent, unless somebody else changed it too.     *)
EditsReplace ==
  \A r \in Requests :
    kind[r] = "edit" /\ reply[r] = "ok"
      /\ (\A q \in Requests \ {r} : kind[q] \in {None, "create", "import"}) =>
    \A h \in bodies[r] : <<target[r], h>> \in Contacts

UnderWay(r) == pc[r] \notin {"idle", "done"}

(* Every request ends: it can always take a step, unless it waits for the  *)
(* row, key or unique value of another one that has not ended yet.  The    *)
(* steps of a request are finitely many, and waits for one another are     *)
(* broken by Deadlock.                                                     *)
NobodyIsStuck ==
  \A r \in Requests : UnderWay(r) =>
    ENABLED <<Step(r)>>_vars \/ \E q \in Blockers[r] : UnderWay(q)

(* A contact whose removal was acknowledged (plugins/personal/api.yml: "The *)
(* personal contact was removed.") is gone, and stays away unless a request *)
(* that inserts one under its uuid is acknowledged after the removal was   *)
(* sent: an edit that had loaded it, although its own DELETE found nothing, *)
(* or a creation or an import that was sent the uuid.  KeepsBook says that  *)
(* nobody else does.                                                       *)
RemovedIsGone ==
  \A r \in Requests : kind[r] = "remove" /\ reply[r] = "ok" =>
    target[r] \in since[r] \/ \A p \in Contacts : p[1] # target[r]
=============================================================================
