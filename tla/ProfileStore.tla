----------------------------- MODULE ProfileStore -----------------------------
(***************************************************************************)
(* The rows of a profile, its display and the tenant's sources, under the   *)
(* statements of ProfileCRUD and DisplayCRUD and the deletions, each in the *)
(* READ COMMITTED transaction of its request.  A profile holds a row for a  *)
(* service, with links to sources; a display holds a row for its columns.   *)
(***************************************************************************)
EXTENDS Naturals, FiniteSets, Sequences

CONSTANTS
  Requests,     \* numbers from 1
  StoreSources, \* numbers from 1
  Bodies,       \* [kind, sources, renamed, stranger, source]
  Unset

VARIABLES
  body,     \* of each request
  at,       \* the statement it has come to, 0 before it comes
  there,    \* the committed rows
  added,    \* rows a request has inserted and not committed
  removed,  \* rows it has deleted, whose locks it holds
  updated,  \* rows it has updated
  todo,     \* rows its DELETE has yet to reach
  named,    \* who inserts the service's name: Unset, There once it is committed
  answer,   \* the status of its response
  overlaps  \* requests that were in progress together with it

storeVars == <<body, at, there, added, removed, updated, todo, named, answer, overlaps>>
held == <<added, removed, updated, todo, named>>

There == 0

(* A row: its table, the request that wrote it (0 at first), its source.    *)
Profile(w) == <<"profile", w, 0>>
Display == <<"display", 0, 0>>
SourceRow(s) == <<"source", 0, s>>
Shown == <<"shown", 0, 0>>           \* display_uuid of profile 0
Service(w) == <<"service", w, 0>>
Link(w, s) == <<"link", w, s>>
Column(w) == <<"column", w, 0>>

ProfileOf(w) == IF w # 0 /\ body[w].kind = "createProfile" THEN Profile(w) ELSE Profile(0)

(* The rows its foreign keys refer to.  They take it with them when they are *)
(* deleted, except that a profile loses its display only.                  *)
Parents(x) ==
  CASE x[1] = "service" -> {ProfileOf(x[2])}
    [] x[1] = "link" -> {Service(x[2]), SourceRow(x[3])}
    [] x[1] = "column" -> {Display}
    [] x[1] = "shown" -> {Display, Profile(0)}
    [] x[1] = "profile" -> {Display}
    [] OTHER -> {}

Visible(r) == (there \cup added[r]) \ removed[r]
Children(r, x) == {c \in Visible(r) : x \in Parents(c) /\ c[1] # "profile"}

(* What a request keeps the others from.  The name of a profile is part of  *)
(* a key and that of a display is not: a renamed profile has no child       *)
(* inserted, a renamed display may.                                        *)
Others(r) == Requests \ {r}
Deleters(r, x) == {q \in Others(r) : x \in removed[q]}
Updaters(r, x) == {q \in Others(r) : x \in updated[q]}
Inserters(r, x) == {q \in Others(r) : \E c \in added[q] : x \in Parents(c)}
KeyHolders(r, x) == Deleters(r, x) \cup IF x[1] = "profile" THEN Updaters(r, x) ELSE {}
DeleteWaits(r, x) ==
  IF x = Shown THEN UNION {Deleters(r, y) \cup Updaters(r, y) : y \in {Shown, Profile(0)}}
  ELSE Deleters(r, x) \cup Updaters(r, x) \cup Inserters(r, x)
         \cup IF x = Profile(0) THEN Deleters(r, Shown) ELSE {}
UpdateWaits(r, x) ==
  Deleters(r, x) \cup Updaters(r, x)
    \cup IF x[1] = "profile" THEN Inserters(r, x) \cup Deleters(r, Shown) ELSE {}

(***************************************************************************)
(* The statements of each method, in order.                                 *)
(***************************************************************************)
EditProfileKeeping == <<"select", "update", "service", "name", "row">>
EditProfile == <<"clear", "select", "update", "service", "name", "row">>
CreateProfile == <<"tenant", "parent", "service", "name", "row">>
EditDisplay == <<"select", "clear", "update", "row">>
Delete == <<"remove">>

Statements(r) ==
  CASE body[r].kind = "editProfile" -> EditProfile
    [] body[r].kind = "createProfile" -> CreateProfile
    [] body[r].kind = "editDisplay" -> EditDisplay
    [] OTHER -> Delete

Linked(r) == body[r].sources[at[r] - Len(Statements(r))]
Ended(r) == at[r] > Len(Statements(r)) + Len(body[r].sources)
Active(r) == at[r] > 0 /\ answer[r] = Unset
Doing(r, statement) ==
  /\ Active(r) /\ ~Ended(r)
  /\ statement = IF at[r] > Len(Statements(r)) THEN "link" ELSE Statements(r)[at[r]]

Target(r) ==
  CASE body[r].kind \in {"editProfile", "deleteProfile"} -> Profile(0)
    [] body[r].kind = "createProfile" -> Profile(r)
    [] body[r].kind = "deleteSource" -> SourceRow(body[r].source)
    [] OTHER -> Display

Advance(r, n) == at' = [at EXCEPT ![r] = @ + n] /\ UNCHANGED <<body, there, answer, overlaps>>

(* new_session: the transaction ends, and its locks with it.                *)
Release(r) ==
  /\ added' = [added EXCEPT ![r] = {}]
  /\ removed' = [removed EXCEPT ![r] = {}]
  /\ updated' = [updated EXCEPT ![r] = {}]
  /\ todo' = [todo EXCEPT ![r] = Unset]
  /\ UNCHANGED <<body, at, overlaps>>

RollbackKeepsLocks(r, status) ==
  /\ UNCHANGED <<body, at, overlaps, there, removed>>
  /\ added' = [added EXCEPT ![r] = {}]
  /\ updated' = [updated EXCEPT ![r] = {}]
  /\ todo' = [todo EXCEPT ![r] = Unset]
  /\ answer' = [answer EXCEPT ![r] = status]
  /\ named' = IF named = r THEN Unset ELSE named
Rollback(r, status) ==
  /\ Release(r)
  /\ answer' = [answer EXCEPT ![r] = status]
  /\ named' = IF named = r THEN Unset ELSE named
  /\ UNCHANGED there

Begin(r) ==
  /\ at[r] = 0
  /\ at' = [at EXCEPT ![r] = 1]
  /\ LET busy == {q \in Requests : Active(q)}
     IN overlaps' = [q \in Requests |->
          IF q = r THEN busy ELSE IF q \in busy THEN overlaps[q] \cup {r} ELSE overlaps[q]]
  /\ UNCHANGED <<body, there, answer, held>>

(***************************************************************************)
(* DELETE: the rows it sees when it starts, one by one, and then the rows   *)
(* that refer to them.  One that another request has deleted is skipped.    *)
(***************************************************************************)
StartDelete(r) ==
  /\ todo[r] = Unset
  /\ \/ Doing(r, "clear") /\ todo' = [todo EXCEPT ![r] = Children(r, Target(r)) \ {Shown}]
     \/ Doing(r, "remove")
        /\ todo' = [todo EXCEPT ![r] = IF body[r].stranger THEN {} ELSE {Target(r)} \cap Visible(r)]
  /\ UNCHANGED <<body, at, there, added, removed, updated, named, answer, overlaps>>

(* Every scan meets the rows in one order.                                 *)
Tables == [profile |-> 1, display |-> 2, source |-> 3, column |-> 4, service |-> 5, shown |-> 6, link |-> 7]
Before(x, y) ==
  \/ Tables[x[1]] < Tables[y[1]]
  \/ Tables[x[1]] = Tables[y[1]] /\ (x[2] < y[2] \/ (x[2] = y[2] /\ x[3] < y[3]))
First(rows) == {x \in rows : \A y \in rows : ~Before(y, x)}
InDelete(r) == todo[r] \notin {Unset, {}}

DeleteRow(r) ==
  /\ InDelete(r)
  /\ \E x \in First(todo[r]) :
       /\ DeleteWaits(r, x) = {}
       /\ IF x \in Visible(r)
          THEN /\ removed' = [removed EXCEPT ![r] = @ \cup {x}]
               /\ todo' = [todo EXCEPT ![r] = (@ \ {x}) \cup Children(r, x)]
          ELSE todo' = [todo EXCEPT ![r] = @ \ {x}] /\ UNCHANGED removed
  /\ UNCHANGED <<body, at, there, added, updated, named, answer, overlaps>>

EndDelete(r) ==
  /\ todo[r] = {}
  /\ Advance(r, 1)
  /\ todo' = [todo EXCEPT ![r] = Unset]
  /\ UNCHANGED <<added, removed, updated, named>>

(***************************************************************************)
(* SELECT, within the tenants of the caller, and the UPDATE of what differs *)
(* from the row that was read.  A profile whose display was gone by then    *)
(* gets it again, and its foreign key refuses it.                          *)
(***************************************************************************)
SelectAfterBlock(r) ==
  /\ Doing(r, "select")
  /\ IF Target(r) \notin Visible(r) \/ body[r].stranger
     THEN /\ Release(r) /\ answer' = [answer EXCEPT ![r] = 404]
          /\ there' = there \ removed[r] /\ UNCHANGED named
     ELSE IF Target(r) = Profile(0) /\ Shown \notin Visible(r) THEN Rollback(r, 400)
     ELSE Advance(r, 1) /\ UNCHANGED held
Select(r) ==
  /\ Doing(r, "select")
  /\ IF Target(r) \notin Visible(r) \/ body[r].stranger THEN Rollback(r, 404)
     ELSE IF Target(r) = Profile(0) /\ Shown \notin Visible(r) THEN Rollback(r, 400)
     ELSE Advance(r, 1) /\ UNCHANGED held

Update(r) ==
  /\ Doing(r, "update")
  /\ IF ~body[r].renamed THEN Advance(r, 1) /\ UNCHANGED held
     ELSE /\ UpdateWaits(r, Target(r)) = {}
          /\ IF Target(r) \notin Visible(r) THEN Rollback(r, 500)
             ELSE \/ /\ Advance(r, 1)
                     /\ updated' = [updated EXCEPT ![r] = {Target(r)}]
                     /\ UNCHANGED <<added, removed, todo, named>>
                  \/ body[r].kind = "editProfile" /\ Rollback(r, 409)

(***************************************************************************)
(* _create_service: the row of the service's name is shared by the profiles *)
(* of every tenant and is unique.  Who does not see it inserts it, after    *)
(* whoever is doing so, and fails once that one commits.                   *)
(***************************************************************************)
FindService(r) ==
  /\ Doing(r, "service")
  /\ Advance(r, IF named \in {There, r} THEN 2 ELSE 1)
  /\ UNCHANGED held

InsertName(r) ==
  /\ Doing(r, "name")
  /\ \/ named = Unset /\ Advance(r, 1) /\ named' = r /\ UNCHANGED <<added, removed, updated, todo>>
     \/ named = There /\ Rollback(r, 500)

(* _create_tenant: the row is there, for the first profile has it, and the   *)
(* transaction that is rolled back has done nothing else.                  *)
CreateTenant(r) ==
  /\ Doing(r, "tenant")
  /\ Advance(r, 1)
  /\ UNCHANGED held

(* INSERT: the rows its foreign keys refer to must be there, and stay.  The  *)
(* name of a new profile may be that of another one of the tenant.          *)
Inserted(r) ==
  IF Doing(r, "parent") THEN Profile(r)
  ELSE IF Doing(r, "link") THEN Link(r, Linked(r))
  ELSE IF body[r].kind = "editDisplay" THEN Column(r) ELSE Service(r)
Inserting(r) == \E statement \in {"parent", "row", "link"} : Doing(r, statement)
InsertWaits(r) == UNION {KeyHolders(r, p) : p \in Parents(Inserted(r))}

Insert(r) ==
  /\ Inserting(r) /\ InsertWaits(r) = {}
  /\ IF Parents(Inserted(r)) \subseteq Visible(r) /\ Inserted(r) \notin added[r]
     THEN \/ /\ added' = [added EXCEPT ![r] = @ \cup {Inserted(r)}]
             /\ Advance(r, 1)
             /\ UNCHANGED <<removed, updated, todo, named>>
          \/ Doing(r, "parent") /\ Rollback(r, 409)
     ELSE Rollback(r, IF ~Doing(r, "row") /\ Inserted(r) \notin added[r] THEN 400 ELSE 500)

(***************************************************************************)
(* The end: COMMIT, or the server breaks a deadlock.                        *)
(***************************************************************************)
CommitStatus(r) ==
  IF Statements(r) = Delete /\ removed[r] = {} THEN 404
  ELSE IF body[r].kind = "createProfile" THEN 201 ELSE 204

Commit(r) ==
  /\ Active(r) /\ Ended(r)
  /\ there' = (there \cup added[r]) \ removed[r]
  /\ named' = IF named = r THEN There ELSE named
  /\ answer' = [answer EXCEPT ![r] = CommitStatus(r)]
  /\ Release(r)

Waits(r) ==
  IF ~Active(r) THEN {}
  ELSE IF InDelete(r) THEN UNION {DeleteWaits(r, x) : x \in First(todo[r])}
  ELSE IF Doing(r, "update") /\ body[r].renamed THEN UpdateWaits(r, Target(r))
  ELSE IF Doing(r, "name") THEN {named} \cap Others(r)
  ELSE IF Inserting(r) THEN InsertWaits(r) ELSE {}

WaitsOf(requests) == UNION {Waits(q) : q \in requests}
Deadlocked(r) == r \in WaitsOf(Waits(r)) \cup WaitsOf(WaitsOf(Waits(r)))
DeadlockAbort(r) == Deadlocked(r) /\ Rollback(r, 500)

Step(r) ==
  \/ StartDelete(r) \/ DeleteRow(r) \/ EndDelete(r)
  \/ Select(r) \/ Update(r)
  \/ CreateTenant(r) \/ FindService(r) \/ InsertName(r) \/ Insert(r)
  \/ Commit(r)

FirstRows == {Profile(0), Display, Shown, Column(0)} \cup {SourceRow(s) : s \in StoreSources}
ServiceRows == {Service(0)} \cup {Link(0, s) : s \in StoreSources}
RowsOfRequest(r) == {Profile(r), Service(r), Column(r)} \cup {Link(r, s) : s \in StoreSources}
AllRows == FirstRows \cup ServiceRows \cup UNION {RowsOfRequest(r) : r \in Requests}

(* Only what is written has sources: a deletion has none in its body.       *)
ASSUME StoreAssumption ==
  /\ Requests \subseteq Nat \ {0} /\ StoreSources \subseteq Nat
  /\ \A b \in Bodies :
       /\ b.kind \in {"editProfile", "createProfile", "editDisplay", "deleteProfile",
                      "deleteDisplay", "deleteSource"}
       /\ b.sources \in Seq(StoreSources)
       /\ b.kind \notin {"editProfile", "createProfile"} => b.sources = << >>
       /\ b.renamed \in BOOLEAN
  /\ Unset \notin Nat /\ \A rows \in SUBSET AllRows : Unset # rows

StoreInit ==
  /\ body \in [Requests -> Bodies]
  /\ at = [r \in Requests |-> 0]
  /\ named \in {Unset, There}
  /\ there \in {FirstRows} \cup IF named = There THEN {FirstRows \cup ServiceRows} ELSE {}
  /\ added = [r \in Requests |-> {}]
  /\ removed = [r \in Requests |-> {}]
  /\ updated = [r \in Requests |-> {}]
  /\ todo = [r \in Requests |-> Unset]
  /\ answer = [r \in Requests |-> Unset]
  /\ overlaps = [r \in Requests |-> {}]

StoreNext == \E r \in Requests : Begin(r) \/ Step(r) \/ DeadlockAbort(r)

StoreTypeOK ==
  /\ body \in [Requests -> Bodies]
  /\ \A r \in Requests :
       /\ at[r] \in 0 .. Len(Statements(r)) + Len(body[r].sources) + 1
       /\ answer[r] \in {Unset, 201, 204, 400, 404, 409, 500}
       /\ todo[r] # Unset => Doing(r, "clear") \/ Doing(r, "remove")
  /\ named \in Requests \cup {Unset, There}
  /\ overlaps \in [Requests -> SUBSET Requests]

-------------------------------------------------------------------------------
Done(r, kind) == body[r].kind = kind /\ answer[r] = 204
ServicesOf(p) == {x \in there : x[1] = "service" /\ ProfileOf(x[2]) = p}
Columns == {x \in there : x[1] = "column"}
Together(v, w) == v \in overlaps[w]

(* A profile has one row for the service, and a display one row of columns, *)
(* unless two edits of it overlapped: what both wrote then stays, since a   *)
(* DELETE does not see the rows another request has not committed.         *)
DuplicatesOnlyByOverlap ==
  \A rows \in {ServicesOf(Profile(0)), Columns} :
    \A x, y \in rows : x = y \/ (x[2] # 0 /\ y[2] # 0 /\ Together(x[2], y[2]))

(* An edited profile always has a service: two edits never delete each      *)
(* other's rows.                                                           *)
AnEditRemains ==
  (Profile(0) \in there /\ \E r \in Requests : Done(r, "editProfile")) =>
    ServicesOf(Profile(0)) # {}

(* The sources of a service are those its request asked for, all of them,   *)
(* but for the sources deleted since.                                      *)
EditIsWhole ==
  \A r \in Requests : Service(r) \in there =>
    {x[3] : x \in {y \in there : y[1] = "link" /\ y[2] = r}} =
      {s \in StoreSources : SourceRow(s) \in there /\ \E i \in DOMAIN body[r].sources : body[r].sources[i] = s}

(* A request that is refused has changed nothing, though the edit of a       *)
(* stranger deletes the services before it looks for the profile, and others *)
(* are refused by a foreign key or a deadlock in the middle of their rows.   *)
RefusedChangesNothing ==
  [][\A r \in Requests : answer'[r] \notin {answer[r], 201, 204} => there' = there]_storeVars

(* A deadlock between requests takes a deletion, or an edit that renames     *)
(* while the name of the service is being inserted for the first time.      *)
DeadlocksAreKnown ==
  (\E r \in Requests : Deadlocked(r)) =>
    \/ \E r \in Requests : Active(r) /\ Statements(r) = Delete
    \/ named \in Requests /\ \E r \in Requests : Deadlocked(r) /\ body[r].kind = "editProfile" /\ body[r].renamed

(* Requests that overlap leave whole edits behind, and stop one another     *)
(* only where a row of several is deleted or a name is new.                *)
EditsAreKept ==
  /\ StoreTypeOK /\ DuplicatesOnlyByOverlap /\ AnEditRemains /\ EditIsWhole
  /\ DeadlocksAreKnown

(* Every request is answered.                                              *)
EveryoneIsAnswered == \A r \in Requests : [](Active(r) => <>(answer[r] # Unset))
StoreFairness == \A r \in Requests : WF_storeVars(Step(r)) /\ WF_storeVars(DeadlockAbort(r))
=============================================================================
