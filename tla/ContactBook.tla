----------------------------- MODULE ContactBook -----------------------------
(***************************************************************************)
(* What the contacts of one owner, a user or a phonebook, promise to those *)
(* who send requests: a request changes the contacts in one step, when it  *)
(* is acknowledged, or it fails and changes nothing.  Before, it only      *)
(* looks: for the contacts it is to remove or replace, and for those that  *)
(* have the values it was sent.  It acts on what it saw then.              *)
(***************************************************************************)
CONSTANTS
  Requests, Kinds, Hashes, None,
  InPlace   \* does an edit change the contact, or delete it and insert another

VARIABLES
  contacts,   \* pairs of a uuid and a hash
  kind, target, hashes,   \* per request: operation, uuid, hashes sent
  ids,        \* the uuid sent with each of them, or None
  looked,     \* the requests that have looked for what they remove or replace
  doomed,     \* per request: uuids it is to remove or replace
  skip,       \* hashes it has found in the contacts, or whose uuid, and will not add
  since,      \* uuids that others have added since
  reply       \* what the caller was told

request == <<kind, target, hashes, ids>>
plan == <<looked, doomed, skip, since>>
bookVars == <<contacts, request, plan, reply>>

UuidsOf(C) == {p[1] : p \in C}
HashesOf(C) == {p[2] : p \in C}

(* A uuid tells the contact, and so does a hash.                           *)
OneToOne(C) == \A p, q \in C : p[1] = q[1] \/ p[2] = q[2] => p = q

Init ==
  /\ OneToOne(contacts)
  /\ kind = [r \in Requests |-> None]
  /\ target = [r \in Requests |-> None]
  /\ hashes = [r \in Requests |-> {}]
  /\ ids = [r \in Requests |-> [h \in {} |-> None]]
  /\ looked = {}
  /\ doomed = [r \in Requests |-> {}]
  /\ skip = [r \in Requests |-> {}]
  /\ since = [r \in Requests |-> {}]
  /\ reply = [r \in Requests |-> None]

Ask(r) ==
  /\ kind[r] = None /\ kind'[r] # None
  /\ \E k \in Kinds :
       /\ kind' = [kind EXCEPT ![r] = k]
       /\ \E u \in IF k \in {"edit", "remove"} THEN UuidsOf(contacts) ELSE {None} :
            target' = [target EXCEPT ![r] = u]
       /\ \E H \in CASE k \in {"create", "edit"} -> {{h} : h \in Hashes}
                     [] k = "import" -> SUBSET Hashes
                     [] OTHER -> {{}} :
            hashes' = [hashes EXCEPT ![r] = H]
       /\ DOMAIN ids'[r] = hashes'[r]
       /\ k = "edit" => \A h \in hashes'[r] : ids'[r][h] = None
       /\ ids' = [ids EXCEPT ![r] = ids'[r]]
  /\ UNCHANGED <<contacts, plan, reply>>

UnderWay(r) == kind[r] # None /\ reply[r] = None

(* The phonebook itself was removed.                                       *)
Closed == \E q \in Requests : kind[q] = "removeBook" /\ reply[q] = "ok"

(* A removal or an edit looks for its contacts.  An edit in place that     *)
(* finds the hash it was sent leaves it as it is.                          *)
Find(r) ==
  /\ UnderWay(r)
  /\ r \notin looked
  /\ kind[r] \in {"edit", "remove", "purge"}
  /\ looked' = looked \cup {r}
  /\ \/ /\ kind[r] = "purge"
        /\ doomed' = [doomed EXCEPT ![r] = UuidsOf(contacts)]
        /\ UNCHANGED skip
     \/ /\ kind[r] \in {"edit", "remove"}
        /\ target[r] \in UuidsOf(contacts)
        /\ doomed' = [doomed EXCEPT ![r] = {target[r]}]
        /\ UNCHANGED skip
     \/ /\ InPlace
        /\ kind[r] = "edit"
        /\ \A h \in hashes[r] : <<target[r], h>> \in contacts
        /\ doomed' = [doomed EXCEPT ![r] = {}]
        /\ skip' = [skip EXCEPT ![r] = hashes[r]]
  /\ UNCHANGED <<contacts, request, since, reply>>

(* A contact that has gone since, or that has been replaced by another one  *)
(* under its uuid, is not removed again.                                   *)
Forget(r) ==
  /\ UnderWay(r)
  /\ \E u \in doomed[r] :
       /\ doomed' = [doomed EXCEPT ![r] = @ \ {u}]
       /\ u \notin UuidsOf(contacts) \/ u \in since[r]
  /\ UNCHANGED <<contacts, request, looked, skip, since, reply>>

(* An import passes over what is there, and over what has the uuid of a     *)
(* contact.  So does an edit that is not in place, although it has looked   *)
(* for duplicates before.                                                  *)
Skip(r) ==
  /\ UnderWay(r)
  /\ kind[r] = "import" \/ (kind[r] = "edit" /\ ~InPlace)
  /\ skip'[r] # skip[r]
  /\ skip'[r] \subseteq hashes[r]
  /\ \A h \in skip'[r] \ skip[r] : h \in HashesOf(contacts) \/ ids[r][h] \in UuidsOf(contacts)
  /\ skip' = [skip EXCEPT ![r] = skip'[r]]
  /\ UNCHANGED <<contacts, request, looked, doomed, since, reply>>

Remaining(r) ==
  IF kind[r] = "removeBook" THEN {} ELSE {p \in contacts : p[1] \notin doomed[r]}

Over(r) ==
  /\ looked' = looked \ {r}
  /\ doomed' = [doomed EXCEPT ![r] = {}]
  /\ skip' = [skip EXCEPT ![r] = {}]

(* The uuids that a request names, of which it must know.                  *)
Named(q) == {target[q]} \cup {ids[q][h] : h \in hashes[q]}

(* What is added has the uuid of the contact that is edited, else the one   *)
(* that was sent with it, else one that nobody knows.                      *)
RightUuid(r, p) ==
  CASE kind[r] = "edit" -> p[1] = target[r]
    [] kind[r] # "edit" /\ ids[r][p[2]] # None -> p[1] = ids[r][p[2]]
    [] OTHER -> p[1] \notin UuidsOf(contacts) /\ \A q \in Requests : p[1] \notin Named(q)

(* The acknowledgment.                                                     *)
Succeed(r) ==
  /\ UnderWay(r)
  /\ reply' = [reply EXCEPT ![r] = "ok"]
  /\ kind[r] \in {"edit", "remove", "purge"} => r \in looked
  /\ kind[r] = "edit" /\ InPlace => target[r] \in UuidsOf(contacts)
  /\ LET new == contacts' \ Remaining(r)
     IN  /\ Remaining(r) \subseteq contacts'
         /\ HashesOf(new) = hashes[r] \ skip[r]
         /\ \A p \in new : RightUuid(r, p)
         /\ \A q \in Requests :
              since[q] \subseteq since'[q] /\ since'[q] \subseteq since[q] \cup UuidsOf(new)
  /\ OneToOne(contacts')
  /\ Closed => contacts' = {}
  /\ Over(r)
  /\ UNCHANGED request

(* The reasons a request may be refused for are true when it is.  It may   *)
(* fail for others at any time: the database is lost, or another request   *)
(* is in its way.                                                          *)
Refused(r, why) ==
  /\ why = "duplicate" => hashes[r] \cap HashesOf(Remaining(r)) # {}
  /\ why = "crash" => target[r] \notin UuidsOf(contacts)
  /\ why = "nosuch" => IF kind[r] \in {"edit", "remove"}
                       THEN target[r] \notin UuidsOf(contacts)
                       ELSE Closed
  /\ why = "nothing" => kind[r] = "import" /\ hashes[r] \subseteq skip[r]
  /\ why = "badContacts" => Closed

Fail(r) ==
  /\ UnderWay(r)
  /\ reply'[r] \notin {None, "ok"}
  /\ Refused(r, reply'[r])
  /\ reply' = [reply EXCEPT ![r] = reply'[r]]
  /\ Over(r)
  /\ UNCHANGED <<contacts, request, since>>

Next == \E r \in Requests : Ask(r) \/ Find(r) \/ Forget(r) \/ Skip(r) \/ Succeed(r) \/ Fail(r)

Spec == Init /\ [][Next]_bookVars
=============================================================================
