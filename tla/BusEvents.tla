----------------------------- MODULE BusEvents -----------------------------
(***************************************************************************)
(* The events dird consumes from the bus, one at a time in the thread of   *)
(* the consumer: user_deleted (cleanup service), tenant_created and        *)
(* localization_edited (config service).  The handlers share the scoped    *)
(* session of that thread.  Creating and editing go through new_session,   *)
(* which rolls back and removes it; the deletion of a user does not: when  *)
(* its transaction fails, the session stays unusable until somebody else   *)
(* removes it.  A tenant gets a source per back-end, a display and a       *)
(* profile, each created in a transaction of its own whose failure is      *)
(* swallowed.                                                              *)
(***************************************************************************)
EXTENDS Naturals, FiniteSets

CONSTANTS Users, Tenants, Backends, None

(* None is no event, no tenant and no profile, and a back-end is not one   *)
(* of the other things that can go wrong with an event.                    *)
ASSUME BusAssumption ==
  /\ \A t \in Tenants : None # t
  /\ \A what \in {"user_deleted", "tenant_created", "localization_edited"},
         x \in Users \cup Tenants : None # <<what, x>>
  /\ None \notin [sources : SUBSET Backends, display : Tenants \cup {None}]
  /\ Backends \cap {"display", "profile", "end", "api"} = {}

VARIABLES
  waiting,    \* events the bus has not delivered yet
  current,    \* the event being handled, or None
  step,       \* where its handler is: "sources", "display", "profile", "end"
  untried,    \* back-ends whose source it has yet to create
  made,       \* back-ends of the sources it has created
  session,    \* the session of the consumer thread: "clean" or "broken"
  users,      \* rows of dird_user
  country,    \* tenants whose country has been recorded
  sources,    \* rows of dird_source, <<tenant, back-end>>
  displays,   \* tenants whose display there is
  display,    \* the display the handler has created, or None
  defaults,   \* the default profile of each tenant: None or its sources and display
  disturbed   \* <<event, what>>: what of its handling the database or a user spoilt

handler == <<current, step, untried, made, display>>
database == <<users, country, sources, displays, defaults>>
busVars == <<waiting, handler, session, database, disturbed>>

Events ==
  ({"user_deleted"} \X Users) \cup ({"tenant_created", "localization_edited"} \X Tenants)

BusTypeOK ==
  /\ waiting \subseteq Events
  /\ current \in Events \cup {None}
  /\ step \in {"sources", "display", "profile", "end"}
  /\ untried \subseteq Backends /\ made \subseteq Backends
  /\ session \in {"clean", "broken"}
  /\ users \subseteq Users
  /\ country \subseteq Tenants
  /\ sources \subseteq Tenants \X Backends
  /\ displays \subseteq Tenants
  /\ display \in Tenants \cup {None}
  /\ defaults \in [Tenants ->
       {None} \cup [sources : SUBSET Backends, display : Tenants \cup {None}]]
  /\ disturbed \subseteq Events \X (Backends \cup {"display", "profile", "end", "api"})

BusInit ==
  /\ waiting = Events
  /\ current = None
  /\ step = "end"
  /\ untried = {}
  /\ made = {}
  /\ display = None
  /\ session = "clean"
  /\ users = Users
  /\ country = {}
  /\ sources = {}
  /\ displays = {}
  /\ defaults = [t \in Tenants |-> None]
  /\ disturbed = {}

Deliver(e) ==
  /\ current = None
  /\ e \in waiting
  /\ waiting' = waiting \ {e}
  /\ current' = e
  /\ step' = IF e[1] = "tenant_created" THEN "sources" ELSE "end"
  /\ untried' = IF e[1] = "tenant_created" THEN Backends ELSE {}
  /\ made' = {}
  /\ display' = None
  /\ UNCHANGED <<session, database, disturbed>>

(* What a handler raises is logged; the event is over.                     *)
Over == current' = None /\ UNCHANGED <<step, untried, made, display>>

Subject == current[2]

Disturb(what) == disturbed' = disturbed \cup {<<current, what>>}

DeletingUser == current # None /\ current[1] = "user_deleted"

(* Mutant: the deletion is not committed.                                  *)
RemoveUserUncommitted ==
  /\ DeletingUser
  /\ session = "clean"
  /\ Over
  /\ UNCHANGED <<waiting, session, database, disturbed>>

(* _remove_user                                                            *)
RemoveUser ==
  /\ DeletingUser
  /\ session = "clean"
  /\ users' = users \ {Subject}
  /\ Over
  /\ UNCHANGED <<waiting, session, country, sources, displays, defaults, disturbed>>

(* No connection could be opened: the session has no transaction.          *)
RemoveUserCannotConnect ==
  /\ DeletingUser
  /\ session = "clean"
  /\ Disturb("end")
  /\ Over
  /\ UNCHANGED <<waiting, session, database>>

(* The DELETE or the COMMIT fails, and nobody rolls back.                  *)
RemoveUserFails ==
  /\ DeletingUser
  /\ session = "clean"
  /\ session' = "broken"
  /\ Disturb("end")
  /\ Over
  /\ UNCHANGED <<waiting, database>>

(* Mutant: the message goes back to the queue.                             *)
RemoveUserRequeued ==
  /\ DeletingUser
  /\ session = "broken"
  /\ waiting' = waiting \cup {current}
  /\ Over
  /\ UNCHANGED <<session, database, disturbed>>

(* PendingRollbackError and its like.                                      *)
RemoveUserOnBrokenSession ==
  /\ DeletingUser
  /\ session = "broken"
  /\ Over
  /\ UNCHANGED <<waiting, session, database, disturbed>>

(* new_session: the outcome of a transaction on the session, which is      *)
(* clean afterwards in any case.                                           *)
Succeeds == session = "clean" /\ UNCHANGED <<session, disturbed>>

(* Mutant: the session is not removed after an error.                      *)
FailsWithoutRemove(what) ==
  /\ UNCHANGED session
  /\ IF session = "broken" THEN UNCHANGED disturbed ELSE Disturb(what)

Fails(what) ==
  /\ session' = "clean"
  /\ IF session = "broken" THEN UNCHANGED disturbed ELSE Disturb(what)

(* _add_source: None when it fails.                                        *)
AddSource(b) ==
  /\ step = "sources"
  /\ current # None
  /\ b \in untried
  /\ \/ /\ Succeeds
        /\ sources' = sources \cup {<<Subject, b>>}
        /\ made' = made \cup {b}
     \/ Fails(b) /\ UNCHANGED <<sources, made>>
  /\ untried' = untried \ {b}
  /\ step' = IF untried' = {} THEN "display" ELSE step
  /\ UNCHANGED <<waiting, current, display, users, country, displays, defaults>>

(* _auto_create_display                                                    *)
CreateDisplay ==
  /\ step = "display"
  /\ current # None
  /\ \/ /\ Succeeds
        /\ displays' = displays \cup {Subject}
        /\ display' = Subject
     \/ Fails("display") /\ UNCHANGED <<displays, display>>
  /\ step' = "profile"
  /\ UNCHANGED <<waiting, current, untried, made, users, country, sources, defaults>>

(* The profile refers to the sources and the display, by foreign keys.     *)
References ==
  /\ \A b \in made : <<Subject, b>> \in sources
  /\ display = None \/ display \in displays

(* _auto_create_profile                                                    *)
CreateProfile ==
  /\ step = "profile"
  /\ current # None
  /\ \/ /\ Succeeds
        /\ defaults[Subject] = None
        /\ References
        /\ defaults' = [defaults EXCEPT ![Subject] = [sources |-> made, display |-> display]]
     \/ /\ session = "clean"
        /\ defaults[Subject] # None \/ ~References
        /\ UNCHANGED <<defaults, session, disturbed>>
     \/ Fails("profile") /\ UNCHANGED defaults
  /\ Over
  /\ UNCHANGED <<waiting, users, country, sources, displays>>

(* _on_localization_edited_event                                           *)
RecordCountry ==
  /\ current # None
  /\ current[1] = "localization_edited"
  /\ \/ Succeeds /\ country' = country \cup {Subject}
     \/ Fails("end") /\ UNCHANGED country
  /\ Over
  /\ UNCHANGED <<waiting, users, sources, displays, defaults>>

(* Meanwhile the REST API deletes what the handler has created, or creates *)
(* a default profile first.  ON DELETE CASCADE and ON DELETE SET NULL keep *)
(* the profiles consistent.                                                *)
Interfere(t) ==
  /\ disturbed' = disturbed \cup {<<<<"tenant_created", t>>, "api">>}
  /\ UNCHANGED <<waiting, handler, session, users, country>>

WithoutSource(p, b) ==
  IF p = None THEN None ELSE [p EXCEPT !.sources = p.sources \ {b}]

DeleteSource(t, b) ==
  /\ <<t, b>> \in sources
  /\ sources' = sources \ {<<t, b>>}
  /\ defaults' = [defaults EXCEPT ![t] = WithoutSource(defaults[t], b)]
  /\ UNCHANGED displays
  /\ Interfere(t)

WithoutDisplay(p) == IF p = None THEN None ELSE [p EXCEPT !.display = None]

DeleteDisplay(t) ==
  /\ t \in displays
  /\ displays' = displays \ {t}
  /\ defaults' = [defaults EXCEPT ![t] = WithoutDisplay(defaults[t])]
  /\ UNCHANGED sources
  /\ Interfere(t)

PostProfile(t) ==
  /\ defaults[t] = None
  /\ defaults' = [defaults EXCEPT ![t] = [sources |-> {}, display |-> None]]
  /\ UNCHANGED <<sources, displays>>
  /\ Interfere(t)

ConsumeEvent ==
  \/ \E e \in Events : Deliver(e)
  \/ RemoveUser \/ RemoveUserCannotConnect \/ RemoveUserFails \/ RemoveUserOnBrokenSession
  \/ \E b \in Backends : AddSource(b)
  \/ CreateDisplay \/ CreateProfile \/ RecordCountry

Done == waiting = {} /\ current = None

BusNext ==
  \/ ConsumeEvent
  \/ \E t \in Tenants :
       \/ DeleteDisplay(t) \/ PostProfile(t)
       \/ \E b \in Backends : DeleteSource(t, b)
  \/ Done /\ UNCHANGED busVars

BusSpec == BusInit /\ [][BusNext]_busVars

BusFairSpec == BusSpec /\ WF_busVars(ConsumeEvent)

----------------------------------------------------------------------------
Handled(e) == e \notin waiting /\ current # e

(* A failure of the database costs only what it hits.  Unless its own      *)
(* transaction failed or a user of the API interfered, the default profile *)
(* of a tenant exists, with its display and every source that could be     *)
(* created.  One more source may be missing: a session that the deletion   *)
(* of a user left broken is healed by the first source that fails on it.   *)
TenantIsProvisioned ==
  \A t \in Tenants :
    LET e == <<"tenant_created", t>>
        creatable == {b \in Backends : <<e, b>> \notin disturbed}
        healing == IF \E u \in Users : <<<<"user_deleted", u>>, "end">> \in disturbed
                   THEN 1 ELSE 0
    IN  Handled(e) /\ <<e, "profile">> \notin disturbed /\ <<e, "api">> \notin disturbed =>
          /\ defaults[t] # None
          /\ defaults[t].sources \subseteq creatable
          /\ Cardinality(creatable \ defaults[t].sources) <= healing
          /\ defaults[t].display = IF <<e, "display">> \in disturbed THEN None ELSE t

(* Creating or editing leaves the consumer thread with a usable session,   *)
(* whatever state the deletion of a user has left it in.                   *)
SessionHeals ==
  [][current # None /\ current[1] # "user_deleted" /\ current' = None =>
       session' = "clean"]_busVars

(* The deletion of a user during which nothing fails is only lost to the    *)
(* failed deletion of another one, whose session it inherits: to no other   *)
(* event and to nothing that fails before or after                          *)
(* (integration_tests/suite/test_bus.py:52, test_personal.py:64).           *)
UserIsDeleted ==
  \A u \in Users :
    LET e == <<"user_deleted", u>>
    IN  Handled(e) /\ <<e, "end">> \notin disturbed =>
          \/ u \notin users
          \/ \E v \in Users \ {u} : <<<<"user_deleted", v>>, "end">> \in disturbed

(* What an event asks for is done, but for what failed in its own handling. *)
EventsTakeEffect == BusTypeOK /\ TenantIsProvisioned /\ UserIsDeleted

(* Every event is handled, whatever fails: no error stops the consumer.    *)
EveryEventIsHandled == <>Done
=============================================================================
