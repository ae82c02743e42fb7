---------------------------- MODULE ContactSearch ----------------------------
(***************************************************************************)
(* The searches of the contacts of a phonebook and of a user               *)
(* (PhonebookContactSearchEngine, PersonalContactSearchEngine), and the    *)
(* view that lists the contacts of a phonebook source.  A search is two    *)
(* queries, the identifiers and then the fields; the view is three         *)
(* transactions: the total, the filtered count and the contacts.  At READ  *)
(* COMMITTED each query sees what is committed when it starts, and the     *)
(* contacts are edited in between.                                         *)
(* A contact is a value, of those a column may hold, or Gone.              *)
(***************************************************************************)
EXTENDS Integers, FiniteSets

CONSTANTS
  Users,         \* threads that search
  Contacts,
  Values,
  Matched,       \* the values the filter of the queries lets through
  Gone,
  MaxTableEdits  \* bound: how many times the contacts change

ASSUME SearchAssumption ==
  /\ Matched \subseteq Values /\ Gone \notin Values
  /\ IsFiniteSet(Contacts) /\ MaxTableEdits \in Nat

VARIABLES
  table,         \* the committed contacts
  tableEdits,
  engine,        \* what each thread calls: "search", "first" or "view"
  searchPc,
  uuids,         \* answer of the first query
  reply,         \* contact -> value, of the second query
  total, filtered,
  steady         \* history: the contacts nobody touched since the call began

searchVars == <<table, tableEdits, engine, searchPc, uuids, reply, total, filtered, steady>>

Present(values) == {c \in Contacts : values[c] # Gone}
Found(values) == {c \in Contacts : values[c] \in Matched}

SearchTypeOK ==
  /\ table \in [Contacts -> Values \cup {Gone}]
  /\ tableEdits \in 0 .. MaxTableEdits
  /\ engine \in [Users -> {"search", "first", "view"}]
  /\ searchPc \in [Users -> {"idle", "uuids", "fields", "total", "filtered", "items", "done"}]
  /\ uuids \in [Users -> SUBSET Contacts]
  /\ reply \in [Users -> UNION {[C -> Values] : C \in SUBSET Contacts}]
  /\ total \in [Users -> Nat] /\ filtered \in [Users -> Nat]
  /\ steady \in [Users -> SUBSET Contacts]

SearchInit ==
  /\ table \in [Contacts -> Values \cup {Gone}]
  /\ tableEdits = 0
  /\ engine = [t \in Users |-> "search"]
  /\ searchPc = [t \in Users |-> "idle"]
  /\ uuids = [t \in Users |-> {}]
  /\ reply = [t \in Users |-> [c \in {} |-> Gone]]
  /\ total = [t \in Users |-> 0] /\ filtered = [t \in Users |-> 0]
  /\ steady = [t \in Users |-> {}]

(* A transaction that creates, edits or deletes a contact commits.         *)
EditTable ==
  /\ tableEdits < MaxTableEdits
  /\ tableEdits' = tableEdits + 1
  /\ \E c \in Contacts, v \in Values \cup {Gone} :
       /\ v # table[c]
       /\ table' = [table EXCEPT ![c] = v]
       /\ steady' = [t \in Users |-> steady[t] \ {c}]
  /\ UNCHANGED <<engine, searchPc, uuids, reply, total, filtered>>

SearchGoTo(t, step) == searchPc' = [searchPc EXCEPT ![t] = step]

BeginSearch(t) ==
  /\ searchPc[t] \in {"idle", "done"}
  /\ \E kind \in {"search", "first", "view"} :
       /\ engine' = [engine EXCEPT ![t] = kind]
       /\ SearchGoTo(t, IF kind = "view" THEN "total" ELSE "uuids")
  /\ steady' = [steady EXCEPT ![t] = Contacts]
  /\ UNCHANGED <<table, tableEdits, uuids, reply, total, filtered>>

UuidAnswers(t) ==
  IF engine[t] = "first" /\ Found(table) # {} THEN {{c} : c \in Found(table)} ELSE {Found(table)}

(* find_contacts: SELECT DISTINCT contact_uuid ... WHERE value ILIKE; with  *)
(* LIMIT 1 for find_first_contact, whichever row comes first.              *)
SearchUuids(t) ==
  /\ searchPc[t] = "uuids"
  /\ \E found \in UuidAnswers(t) : uuids' = [uuids EXCEPT ![t] = found]
  /\ SearchGoTo(t, "fields")
  /\ UNCHANGED <<table, tableEdits, engine, reply, total, filtered, steady>>

(* list_contacts_by_uuid: the fields of these contacts now.                 *)
ContactsByUuid(t) == uuids[t] \cap Present(table)

SearchFields(t) ==
  /\ searchPc[t] = "fields"
  /\ reply' = [reply EXCEPT ![t] = [c \in ContactsByUuid(t) |-> table[c]]]
  /\ SearchGoTo(t, "done")
  /\ UNCHANGED <<table, tableEdits, engine, uuids, total, filtered, steady>>

(* count_contact(): a transaction of its own.                              *)
CountContacts(t) ==
  /\ searchPc[t] = "total"
  /\ total' = [total EXCEPT ![t] = Cardinality(Present(table))]
  /\ SearchGoTo(t, "filtered")
  /\ UNCHANGED <<table, tableEdits, engine, uuids, reply, filtered, steady>>

(* contact_search_filter, which the count and the list share.              *)
SearchFilter(values) == Found(values)

(* count_contact(search).                                                  *)
CountMatches(t) ==
  /\ searchPc[t] = "filtered"
  /\ filtered' = [filtered EXCEPT ![t] = Cardinality(SearchFilter(table))]
  /\ SearchGoTo(t, "items")
  /\ UNCHANGED <<table, tableEdits, engine, uuids, reply, total, steady>>

(* PhonebookContactCRUD.list: one query for the fields of the contacts.     *)
ListItems(t) ==
  /\ searchPc[t] = "items"
  /\ reply' = [reply EXCEPT ![t] = [c \in Found(table) |-> table[c]]]
  /\ SearchGoTo(t, "done")
  /\ UNCHANGED <<table, tableEdits, engine, uuids, total, filtered, steady>>

SearchStep(t) ==
  \/ SearchUuids(t) \/ SearchFields(t)
  \/ CountContacts(t) \/ CountMatches(t) \/ ListItems(t)

SearchNext == EditTable \/ \E t \in Users : BeginSearch(t) \/ SearchStep(t)

(***************************************************************************)
(* Properties.                                                             *)
(***************************************************************************)
Done(t, kind) == searchPc[t] = "done" /\ engine[t] = kind
Steady(t, values) == Found(values) \cap steady[t]

(* A search finds the contacts that match, those that others edit while it  *)
(* runs apart (the two queries of _find_contacts_with_filter).             *)
SearchIsExact ==
  \A t \in Users : Done(t, "search") =>
    DOMAIN reply[t] \cap steady[t] = Steady(t, table)

(* first_match answers None although a contact matches only when the one   *)
(* that the first query chose was deleted before the second one.           *)
FirstMatchMissesOnlyADeletedOne ==
  \A t \in Users : Done(t, "first") /\ DOMAIN reply[t] = {} /\ Steady(t, table) # {} =>
    uuids[t] # {} /\ uuids[t] \cap steady[t] = {}

(* The counts of the view fit its list: the items are those counted, and    *)
(* are no more than the total, unless contacts changed between the three   *)
(* transactions.                                                           *)
CountsFitTheList ==
  \A t \in Users : Done(t, "view") =>
    /\ filtered[t] >= Cardinality(DOMAIN reply[t] \cap steady[t])
    /\ filtered[t] <= Cardinality(DOMAIN reply[t] \cup (Contacts \ steady[t]))
    /\ total[t] >= Cardinality(DOMAIN reply[t] \cap steady[t])
=============================================================================
