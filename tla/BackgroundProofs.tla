-------------------------- MODULE BackgroundProofs --------------------------
(***************************************************************************)
(* Proofs about what dird does besides answering its clients.              *)
(*                                                                         *)
(* BusEvents: whatever the events, the back-ends and the failures, an      *)
(* event takes effect but for what failed in its own handling              *)
(* (EventsTakeEffect), and creating or editing leaves the thread of the    *)
(* consumer with a usable session (SessionHeals).                          *)
(*                                                                         *)
(* ServiceDiscovery and the life cycle it runs in: whatever the services,  *)
(* the servers, the signals and the failures, dird serves with its source  *)
(* service and for no other reason stops (ServesWhole), and the thread,    *)
(* the events and earlier runs agree on the sources (DiscoveryAgrees).     *)
(***************************************************************************)
EXTENDS BusEvents, ServiceDiscovery, FiniteSetTheorems, TLAPS

----------------------------------------------------------------------------
(* The events of the bus.                                                  *)
Created(t) == <<"tenant_created", t>>

Deleted(u) == <<"user_deleted", u>>

Hit(e, what) == <<e, what>> \in disturbed

(* The deletion of some user has failed, and may have left the session     *)
(* broken.                                                                 *)
SomeDeletionFailed == \E u \in Users : Hit(Deleted(u), "end")

(* What the consumer thread is at: an event is waiting, being handled or   *)
(* handled, only tenant_created has several steps, and only a failed       *)
(* deletion breaks the session.                                            *)
Consumer ==
  /\ current \notin waiting
  /\ current # None /\ step # "end" => current[1] = "tenant_created"
  /\ session = "broken" => SomeDeletionFailed

(* The back-ends whose source failed on a session that was broken before.  *)
Missing(t) == {b \in Backends \ (untried \cup made) : ~Hit(Created(t), b)}

AtMostOneMissing(t) ==
  \/ Missing(t) = {}
  \/ /\ session = "clean"
     /\ SomeDeletionFailed
     /\ \E b \in Backends : Missing(t) = {b}

(* What holds while a tenant is being provisioned.                         *)
Provisioning(t) ==
  /\ step \in {"sources", "display", "profile"}
  /\ made \cap untried = {}
  /\ \A b \in made \cup untried : ~Hit(Created(t), b)
  /\ AtMostOneMissing(t)
  /\ step # "sources" => untried = {} /\ session = "clean"
  /\ step # "profile" => display = None /\ ~Hit(Created(t), "display")
  /\ step = "profile" =>
       display = IF Hit(Created(t), "display") THEN None ELSE t
  /\ ~Hit(Created(t), "api") =>
       /\ defaults[t] = None
       /\ \A b \in made : <<t, b>> \in sources
       /\ display = None \/ display \in displays

NotYet(t) ==
  /\ \A b \in Backends : ~Hit(Created(t), b)
  /\ ~Hit(Created(t), "display")
  /\ ~Hit(Created(t), "api") => defaults[t] = None

(* What TenantIsProvisioned says of one tenant.                            *)
Creatable(t) == {b \in Backends : ~Hit(Created(t), b)}

Provisioned(t) ==
  ~Hit(Created(t), "profile") /\ ~Hit(Created(t), "api") =>
    /\ defaults[t] # None
    /\ defaults[t].sources \subseteq Creatable(t)
    /\ \/ Creatable(t) \ defaults[t].sources = {}
       \/ /\ SomeDeletionFailed
          /\ \E b \in Backends : Creatable(t) \ defaults[t].sources = {b}
    /\ defaults[t].display = IF Hit(Created(t), "display") THEN None ELSE t

TenantInv(t) ==
  /\ Created(t) \in waiting => NotYet(t)
  /\ current = Created(t) => Provisioning(t)
  /\ Handled(Created(t)) => Provisioned(t)

(* What UserIsDeleted says of one user.                                    *)
UserInv(u) ==
  Handled(Deleted(u)) /\ ~Hit(Deleted(u), "end") =>
    u \notin users \/ \E v \in Users \ {u} : Hit(Deleted(v), "end")

BusInv ==
  /\ BusTypeOK
  /\ Consumer
  /\ \A t \in Tenants : TenantInv(t)
  /\ \A u \in Users : UserInv(u)

----------------------------------------------------------------------------
(* Events and their subjects                                               *)

LEMMA EventFacts ==
  /\ \A t \in Tenants : /\ Created(t) \in Events
                        /\ Created(t) # None
                        /\ Created(t)[1] = "tenant_created"
                        /\ Created(t)[2] = t
  /\ \A u \in Users : /\ Deleted(u) \in Events
                      /\ Deleted(u) # None
                      /\ Deleted(u)[1] = "user_deleted"
                      /\ Deleted(u)[2] = u
  /\ \A e \in Events : e # None
  /\ \A e \in Events : e[1] = "tenant_created" => e[2] \in Tenants /\ e = Created(e[2])
  /\ \A e \in Events : e[1] = "user_deleted" => e[2] \in Users /\ e = Deleted(e[2])
  /\ \A e \in Events : e[1] = "localization_edited" => e[2] \in Tenants
BY BusAssumption DEF Events, Created, Deleted

(* A step that lets a tenant's event and profile alone, and spoils nothing *)
(* of the handling of the event, disturbs nothing of what holds of it.     *)
LEMMA OtherTenant ==
  ASSUME NEW t \in Tenants, TenantInv(t),
         current # Created(t), current' # Created(t),
         Created(t) \in waiting <=> Created(t) \in waiting',
         defaults'[t] = defaults[t],
         disturbed \subseteq disturbed',
         \A what : <<Created(t), what>> \in disturbed' => <<Created(t), what>> \in disturbed
  PROVE  TenantInv(t)'
<1>1. \A what : Hit(Created(t), what)' <=> Hit(Created(t), what)
  BY DEF Hit, Created
<1>2. SomeDeletionFailed => SomeDeletionFailed'
  BY DEF SomeDeletionFailed, Hit, Deleted
<1>3. Creatable(t)' = Creatable(t)
  BY <1>1 DEF Creatable
<1>4. NotYet(t) => NotYet(t)'
  BY <1>1 DEF NotYet
<1>5. Provisioned(t) => Provisioned(t)'
  BY <1>1, <1>2, <1>3 DEF Provisioned
<1>6. /\ (current = Created(t))' = FALSE
      /\ Handled(Created(t))' <=> Handled(Created(t))
  BY DEF Handled, Created
<1>7. (Created(t) \in waiting)' <=> Created(t) \in waiting
  BY DEF Created
<1> QED
  BY <1>4, <1>5, <1>6, <1>7 DEF TenantInv

(* So does a step that handles no more deletions and loses no user's.      *)
LEMMA OtherUser ==
  ASSUME NEW u \in Users, UserInv(u),
         users' \subseteq users, disturbed \subseteq disturbed',
         Handled(Deleted(u))' => Handled(Deleted(u))
  PROVE  UserInv(u)'
BY DEF UserInv, Hit, Deleted

(* The session stays what it was, or a failed deletion explains it.        *)
LEMMA DeletionsStayFailed ==
  ASSUME disturbed \subseteq disturbed', SomeDeletionFailed
  PROVE  SomeDeletionFailed'
BY DEF SomeDeletionFailed, Hit, Deleted

----------------------------------------------------------------------------
(* Every step keeps the types.                                             *)

LEMMA DeliverTypes ==
  ASSUME BusTypeOK, NEW e \in Events, Deliver(e) PROVE BusTypeOK'
BY DEF BusTypeOK, Deliver, database

LEMMA RemoveUserTypes ==
  ASSUME BusTypeOK,
         RemoveUser \/ RemoveUserCannotConnect \/ RemoveUserFails \/ RemoveUserOnBrokenSession
  PROVE  BusTypeOK'
<1>1. current \in Events
  BY DEF BusTypeOK, RemoveUser, RemoveUserCannotConnect, RemoveUserFails,
         RemoveUserOnBrokenSession, DeletingUser
<1> QED
  BY <1>1 DEF BusTypeOK, RemoveUser, RemoveUserCannotConnect, RemoveUserFails, Over, Disturb,
     RemoveUserOnBrokenSession, DeletingUser, database

LEMMA SubjectIsTenant ==
  ASSUME BusTypeOK, Consumer, current # None,
         step # "end" \/ current[1] \in {"localization_edited", "tenant_created"}
  PROVE  Subject \in Tenants /\ current \in Events
BY EventFacts DEF BusTypeOK, Consumer, Subject

LEMMA AddSourceTypes ==
  ASSUME BusTypeOK, Consumer, NEW b \in Backends, AddSource(b) PROVE BusTypeOK'
<1>1. Subject \in Tenants /\ current \in Events
  BY SubjectIsTenant DEF AddSource
<1>2. /\ untried' \subseteq Backends
      /\ made' \subseteq Backends
      /\ step' \in {"sources", "display", "profile", "end"}
  BY DEF AddSource, BusTypeOK
<1>3. sources' \subseteq Tenants \X Backends
  BY <1>1 DEF AddSource, BusTypeOK
<1>4. /\ session' \in {"clean", "broken"}
      /\ disturbed' \subseteq Events \X (Backends \cup {"display", "profile", "end", "api"})
  BY <1>1 DEF AddSource, BusTypeOK, Succeeds, Fails, Disturb
<1> QED
  BY <1>1, <1>2, <1>3, <1>4 DEF AddSource, BusTypeOK

LEMMA CreateDisplayTypes ==
  ASSUME BusTypeOK, Consumer, CreateDisplay PROVE BusTypeOK'
<1>1. Subject \in Tenants /\ current \in Events
  BY SubjectIsTenant DEF CreateDisplay
<1> QED
  BY <1>1 DEF CreateDisplay, BusTypeOK, Succeeds, Fails, Disturb

LEMMA CreateProfileTypes ==
  ASSUME BusTypeOK, Consumer, CreateProfile PROVE BusTypeOK'
<1>1. Subject \in Tenants /\ current \in Events
  BY SubjectIsTenant DEF CreateProfile
<1>2. defaults' \in [Tenants ->
        {None} \cup [sources : SUBSET Backends, display : Tenants \cup {None}]]
  BY <1>1 DEF CreateProfile, BusTypeOK
<1>3. /\ session' \in {"clean", "broken"}
      /\ disturbed' \subseteq Events \X (Backends \cup {"display", "profile", "end", "api"})
  BY <1>1 DEF CreateProfile, BusTypeOK, Succeeds, Fails, Disturb
<1> QED
  BY <1>1, <1>2, <1>3 DEF CreateProfile, BusTypeOK, Over

LEMMA RecordCountryTypes ==
  ASSUME BusTypeOK, Consumer, RecordCountry PROVE BusTypeOK'
<1>1. Subject \in Tenants /\ current \in Events
  BY SubjectIsTenant DEF RecordCountry
<1> QED
  BY <1>1 DEF RecordCountry, BusTypeOK, Succeeds, Fails, Disturb, Over

LEMMA InterfereTypes ==
  ASSUME BusTypeOK, NEW t \in Tenants,
         DeleteDisplay(t) \/ PostProfile(t) \/ \E b \in Backends : DeleteSource(t, b)
  PROVE  BusTypeOK'
<1> DEFINE Profile == [sources : SUBSET Backends, display : Tenants \cup {None}]
<1>1. Interfere(t)
  BY DEF DeleteDisplay, PostProfile, DeleteSource
<1>2. Created(t) \in Events
  BY EventFacts
<1>3. disturbed' \subseteq Events \X (Backends \cup {"display", "profile", "end", "api"})
  BY <1>1, <1>2 DEF Interfere, BusTypeOK, Created
<1>4. \A p \in {None} \cup Profile :
        /\ WithoutDisplay(p) \in {None} \cup Profile
        /\ \A b \in Backends : WithoutSource(p, b) \in {None} \cup Profile
  BY DEF WithoutSource, WithoutDisplay
<1>5. [sources |-> {}, display |-> None] \in Profile
  OBVIOUS
<1>6. defaults \in [Tenants -> {None} \cup Profile]
  BY DEF BusTypeOK
<1>7. defaults' \in [Tenants -> {None} \cup Profile]
  <2> HIDE DEF Profile
  <2>1. \E p \in {None} \cup Profile : defaults' = [defaults EXCEPT ![t] = p]
    <3>1. CASE DeleteDisplay(t)
      BY <1>4, <1>6, <3>1 DEF DeleteDisplay
    <3>2. CASE PostProfile(t)
      BY <1>5, <3>2 DEF PostProfile
    <3>3. ASSUME NEW b \in Backends, DeleteSource(t, b)
          PROVE  \E p \in {None} \cup Profile : defaults' = [defaults EXCEPT ![t] = p]
      BY <1>4, <1>6, <3>3 DEF DeleteSource
    <3> QED
      BY <3>1, <3>2, <3>3
  <2> QED
    BY <2>1, <1>6
<1>8. sources' \subseteq Tenants \X Backends /\ displays' \subseteq Tenants
  BY DEF DeleteDisplay, PostProfile, DeleteSource, BusTypeOK
<1> QED
  BY <1>1, <1>3, <1>7, <1>8 DEF Interfere, BusTypeOK, handler

----------------------------------------------------------------------------
(* Every step keeps what holds of the consumer, of a tenant and of a user. *)

LEMMA DeliverKeeps ==
  ASSUME BusInv, NEW e \in Events, Deliver(e) PROVE BusInv'
<1> USE DEF BusInv
<1>1. BusTypeOK'
  BY DeliverTypes
<1>2. Consumer'
  BY EventFacts DEF Consumer, Deliver, SomeDeletionFailed, Hit, Deleted
<1>3. ASSUME NEW t \in Tenants PROVE TenantInv(t)'
  <2>1. TenantInv(t)
    OBVIOUS
  <2>2. CASE e # Created(t)
    BY <2>1, <2>2, OtherTenant, EventFacts DEF Deliver, database
  <2>3. CASE e = Created(t)
    <3>1. /\ NotYet(t)
          /\ current' = Created(t)
          /\ Created(t) \notin waiting'
          /\ step' = "sources" /\ untried' = Backends /\ made' = {} /\ display' = None
          /\ UNCHANGED <<session, defaults, sources, displays, disturbed>>
      BY <2>1, <2>3, EventFacts DEF TenantInv, Deliver, database
    <3>2. Missing(t)' = {}
      BY <3>1 DEF Missing
    <3>3. Provisioning(t)'
      BY <3>1, <3>2 DEF Provisioning, NotYet, AtMostOneMissing, Hit, Created
    <3> QED
      BY <3>1, <3>3 DEF TenantInv, Handled, Created
  <2> QED
    BY <2>2, <2>3
<1>4. ASSUME NEW u \in Users PROVE UserInv(u)'
  <2>1. Handled(Deleted(u))' => Handled(Deleted(u))
    BY EventFacts DEF Deliver, Handled, Deleted
  <2> QED
    BY <2>1, OtherUser DEF Deliver, database
<1> QED
  BY <1>1, <1>2, <1>3, <1>4

LEMMA RemoveUserKeeps ==
  ASSUME BusInv,
         RemoveUser \/ RemoveUserCannotConnect \/ RemoveUserFails \/ RemoveUserOnBrokenSession
  PROVE  BusInv'
<1> USE DEF BusInv
<1>1. BusTypeOK'
  BY RemoveUserTypes
<1>2. PICK v \in Users : current = Deleted(v)
  BY EventFacts DEF BusTypeOK, RemoveUser, RemoveUserCannotConnect, RemoveUserFails,
     RemoveUserOnBrokenSession, DeletingUser
<1>3. /\ current' = None
      /\ UNCHANGED <<waiting, step, defaults>>
      /\ users' \subseteq users
      /\ disturbed' = disturbed \/ disturbed' = disturbed \cup {<<Deleted(v), "end">>}
  BY <1>2 DEF RemoveUser, RemoveUserCannotConnect, RemoveUserFails,
     RemoveUserOnBrokenSession, Over, Disturb, database
<1>4. session' = "broken" => SomeDeletionFailed'
  <2>1. CASE RemoveUserFails
    BY <1>2, <2>1 DEF RemoveUserFails, Disturb, SomeDeletionFailed, Hit, Deleted
  <2>2. CASE ~RemoveUserFails
    <3>1. session' = session
      BY <2>2 DEF RemoveUser, RemoveUserCannotConnect, RemoveUserOnBrokenSession
    <3> QED
      BY <3>1, <1>3, DeletionsStayFailed DEF Consumer
  <2> QED
    BY <2>1, <2>2
<1>5. Consumer'
  BY <1>3, <1>4, EventFacts DEF Consumer, BusTypeOK
<1>6. ASSUME NEW t \in Tenants PROVE TenantInv(t)'
  <2>1. current # Created(t) /\ current' # Created(t)
    BY <1>2, <1>3, EventFacts
  <2>2. \A what : <<Created(t), what>> \in disturbed' => <<Created(t), what>> \in disturbed
    BY <1>3, EventFacts DEF Created, Deleted
  <2> QED
    BY <1>3, <2>1, <2>2, OtherTenant
<1>7. ASSUME NEW u \in Users PROVE UserInv(u)'
  <2>1. CASE u # v
    <3>1. Handled(Deleted(u))' => Handled(Deleted(u))
      BY <2>1, <1>2, <1>3, EventFacts DEF Handled, Deleted
    <3> QED
      BY <3>1, <1>3, OtherUser
  <2>2. CASE u = v
    <3>1. CASE RemoveUser
      BY <1>2, <2>2, <3>1, EventFacts DEF RemoveUser, Subject, UserInv
    <3>2. CASE RemoveUserCannotConnect \/ RemoveUserFails
      BY <1>2, <2>2, <3>2
         DEF RemoveUserCannotConnect, RemoveUserFails, Disturb, UserInv, Hit, Deleted
    <3>3. CASE RemoveUserOnBrokenSession
      <4>1. SomeDeletionFailed'
        BY <3>3, <1>3, DeletionsStayFailed DEF RemoveUserOnBrokenSession, Consumer
      <4> QED
        BY <2>2, <4>1 DEF SomeDeletionFailed, UserInv
    <3> QED
      BY <3>1, <3>2, <3>3
  <2> QED
    BY <2>1, <2>2
<1> QED
  BY <1>1, <1>5, <1>6, <1>7

LEMMA InterfereKeeps ==
  ASSUME BusInv, NEW t \in Tenants,
         DeleteDisplay(t) \/ PostProfile(t) \/ \E b \in Backends : DeleteSource(t, b)
  PROVE  BusInv'
<1> USE DEF BusInv
<1>1. BusTypeOK'
  BY InterfereTypes
<1>2. Interfere(t)
  BY DEF DeleteDisplay, PostProfile, DeleteSource
<1>3. /\ disturbed' = disturbed \cup {<<Created(t), "api">>}
      /\ UNCHANGED <<waiting, current, step, untried, made, display, session, users>>
  BY <1>2 DEF Interfere, handler, Created
<1>4. Consumer'
  BY <1>3, DeletionsStayFailed DEF Consumer
<1>5. ASSUME NEW s \in Tenants PROVE TenantInv(s)'
  <2>1. CASE s = t
    <3>1. \A what \in Backends \cup {"display", "profile"} :
            Hit(Created(s), what)' <=> Hit(Created(s), what)
      BY <1>3, BusAssumption DEF Hit, Created
    <3>2. Hit(Created(s), "api")'
      BY <1>3, <2>1 DEF Hit, Created
    <3>3. SomeDeletionFailed => SomeDeletionFailed'
      BY <1>3, DeletionsStayFailed
    <3>4. Missing(s)' = Missing(s)
      BY <1>3, <3>1 DEF Missing
    <3>5. Provisioning(s) => Provisioning(s)'
      <4>1. made \subseteq Backends /\ untried \subseteq Backends
        BY DEF BusTypeOK
      <4> QED
        BY <1>3, <3>1, <3>2, <3>3, <3>4, <4>1 DEF Provisioning, AtMostOneMissing
    <3>6. NotYet(s) => NotYet(s)'
      BY <3>1, <3>2 DEF NotYet
    <3>7. Provisioned(s)'
      BY <3>2 DEF Provisioned
    <3> QED
      BY <1>3, <3>5, <3>6, <3>7 DEF TenantInv, Created
  <2>2. CASE s # t
    <3>1. \A what : <<Created(s), what>> \in disturbed' => <<Created(s), what>> \in disturbed
      BY <1>3, <2>2 DEF Created
    <3>2. defaults'[s] = defaults[s]
      BY <2>2 DEF DeleteDisplay, PostProfile, DeleteSource, BusTypeOK
    <3>3. CASE current # Created(s)
      BY <1>3, <3>1, <3>2, <3>3, OtherTenant
    <3>4. CASE current = Created(s)
      <4>1. \A what : Hit(Created(s), what)' <=> Hit(Created(s), what)
        BY <1>3, <3>1 DEF Hit, Created
      <4>2. /\ \A b \in made : <<s, b>> \in sources => <<s, b>> \in sources'
            /\ s \in displays => s \in displays'
        BY <2>2 DEF DeleteDisplay, PostProfile, DeleteSource
      <4>3. Provisioning(s)
        BY <3>4 DEF TenantInv
      <4>4. display = None \/ display = s
        BY <4>3 DEF Provisioning
      <4>5. SomeDeletionFailed => SomeDeletionFailed'
        BY <1>3, DeletionsStayFailed
      <4>6. Missing(s)' = Missing(s)
        BY <1>3, <4>1 DEF Missing
      <4>7. AtMostOneMissing(s)'
        BY <1>3, <4>3, <4>5, <4>6 DEF AtMostOneMissing, Provisioning
      <4>8. Provisioning(s)'
        BY <1>3, <3>2, <4>1, <4>2, <4>3, <4>4, <4>7 DEF Provisioning
      <4>9. Created(s) \notin waiting /\ current' = Created(s)'
        BY <1>3, <3>4 DEF Consumer, Created
      <4> QED
        BY <1>3, <4>8, <4>9 DEF TenantInv, Handled, Created
    <3> QED
      BY <3>3, <3>4
  <2> QED
    BY <2>1, <2>2
<1>6. ASSUME NEW u \in Users PROVE UserInv(u)'
  <2>1. Handled(Deleted(u))' => Handled(Deleted(u))
    BY <1>3 DEF Handled, Deleted
  <2> QED
    BY <1>3, <2>1, OtherUser
<1> QED
  BY <1>1, <1>4, <1>5, <1>6

(* new_session: the session is clean afterwards, and what is spoilt is     *)
(* spoilt of the current event.                                            *)
LEMMA NewSession ==
  ASSUME NEW what, Succeeds \/ Fails(what)
  PROVE  /\ session' = "clean"
         /\ disturbed' = disturbed \/ disturbed' = disturbed \cup {<<current, what>>}
BY DEF Succeeds, Fails, Disturb

(* A step of the handler of tenant_created or localization_edited concerns *)
(* no other event, and no user.                                            *)
LEMMA OthersKeep ==
  ASSUME BusInv,
         current # None, current[1] # "user_deleted",
         current' = current \/ current' = None,
         UNCHANGED <<waiting, users>>,
         NEW what, disturbed' = disturbed \/ disturbed' = disturbed \cup {<<current, what>>},
         \A t \in Tenants : current # Created(t) => defaults'[t] = defaults[t]
  PROVE  /\ \A t \in Tenants : current # Created(t) => TenantInv(t)'
         /\ \A u \in Users : UserInv(u)'
<1> USE DEF BusInv
<1>1. ASSUME NEW t \in Tenants, current # Created(t) PROVE TenantInv(t)'
  <2>1. current' # Created(t)
    BY <1>1, EventFacts
  <2>2. \A w : <<Created(t), w>> \in disturbed' => <<Created(t), w>> \in disturbed
    BY <1>1
  <2> QED
    BY <1>1, <2>1, <2>2, OtherTenant
<1>2. ASSUME NEW u \in Users PROVE UserInv(u)'
  <2>1. Handled(Deleted(u))' => Handled(Deleted(u))
    BY EventFacts DEF Handled, Deleted
  <2> QED
    BY <2>1, OtherUser
<1> QED
  BY <1>1, <1>2

(* An event that is being handled and the tenant it is about.              *)
LEMMA CurrentTenant ==
  ASSUME BusInv, current # None, step # "end"
  PROVE  \E t \in Tenants :
           /\ Subject = t
           /\ current = Created(t)
           /\ current[1] # "user_deleted"
           /\ Created(t) \notin waiting
           /\ Provisioning(t)
BY EventFacts DEF BusInv, BusTypeOK, Consumer, Subject, TenantInv

LEMMA AddSourceKeeps ==
  ASSUME BusInv, NEW b \in Backends, AddSource(b) PROVE BusInv'
<1> USE DEF BusInv
<1>1. BusTypeOK'
  BY AddSourceTypes
<1>2. PICK t \in Tenants :
        /\ Subject = t
        /\ current = Created(t)
        /\ current[1] # "user_deleted"
        /\ Created(t) \notin waiting
        /\ Provisioning(t)
  BY CurrentTenant DEF AddSource
<1>3. /\ session' = "clean"
      /\ disturbed' = disturbed \/ disturbed' = disturbed \cup {<<current, b>>}
  BY NewSession DEF AddSource
<1>4. /\ step = "sources" /\ b \in untried
      /\ untried' = untried \ {b}
      /\ step' = IF untried \ {b} = {} THEN "display" ELSE "sources"
      /\ UNCHANGED <<waiting, current, display, users, displays, defaults>>
  BY DEF AddSource
<1>5. Consumer'
  BY <1>2, <1>3, <1>4 DEF Consumer
<1>6. /\ \A s \in Tenants : current # Created(s) => TenantInv(s)'
      /\ \A u \in Users : UserInv(u)'
  <2> HIDE DEF BusInv
  <2>1. current # None /\ UNCHANGED <<current, waiting, users, defaults>>
    BY <1>4 DEF AddSource
  <2> QED
    BY <1>2, <1>3, <2>1, OthersKeep
<1>7. TenantInv(t)'
  <2>1. SomeDeletionFailed => SomeDeletionFailed'
    BY <1>3, DeletionsStayFailed
  <2>2. \A what : what # b => (Hit(Created(t), what)' <=> Hit(Created(t), what))
    BY <1>3 DEF Hit, Created
  <2>3. b \notin {"display", "profile", "end", "api"}
    BY BusAssumption
  <2>4. \A a \in Backends \ {b} : a \in made' <=> a \in made
    BY DEF AddSource
  <2>5. AtMostOneMissing(t)'
    <3>1. CASE session = "clean"
      <4>1. b \in made' \/ Hit(Created(t), b)'
        BY <1>2, <3>1 DEF AddSource, Succeeds, Fails, Disturb, Hit, Created
      <4>2. Missing(t)' = Missing(t)
        <5>1. b \notin Missing(t) /\ b \notin Missing(t)'
          BY <1>4, <4>1 DEF Missing
        <5>2. \A a \in Backends \ {b} : a \in Missing(t)' <=> a \in Missing(t)
          BY <1>4, <2>2, <2>4 DEF Missing
        <5> QED
          BY <5>1, <5>2 DEF Missing
      <4> QED
        BY <1>2, <1>3, <2>1, <4>2 DEF Provisioning, AtMostOneMissing
    <3>2. CASE session # "clean"
      <4>1. /\ Missing(t) = {}
            /\ SomeDeletionFailed
        BY <1>2, <3>2 DEF Provisioning, AtMostOneMissing, Consumer, BusTypeOK
      <4>2. made' = made /\ disturbed' = disturbed
        BY <3>2, <4>1 DEF AddSource, Succeeds, Fails, Consumer, BusTypeOK
      <4>3. Missing(t)' = {b}
        <5>1. \A a \in Backends \ {b} : a \notin Missing(t)'
          BY <1>4, <2>2, <2>4, <4>1 DEF Missing
        <5>2. b \in Missing(t)'
          BY <1>2, <1>4, <4>2 DEF Missing, Provisioning, Hit, Created
        <5> QED
          BY <5>1, <5>2 DEF Missing
      <4> QED
        BY <1>3, <2>1, <4>1, <4>3 DEF AtMostOneMissing
    <3> QED
      BY <3>1, <3>2
  <2>6. \A a \in made' \cup untried' : ~Hit(Created(t), a)'
    <3>1. ASSUME b \in made' PROVE ~Hit(Created(t), b)'
      <4>1. disturbed' = disturbed
        BY <1>2, <1>4, <3>1 DEF AddSource, Succeeds, Provisioning
      <4> QED
        BY <1>2, <1>4, <4>1 DEF Provisioning, Hit, Created
    <3>2. \A a \in made' \cup untried' : a # b => a \in made \cup untried
      BY <1>4 DEF AddSource
    <3> QED
      BY <1>2, <1>4, <2>2, <3>1, <3>2 DEF Provisioning
  <2>7. ~Hit(Created(t), "api") =>
          \A a \in made' : <<t, a>> \in sources'
    BY <1>2 DEF AddSource, Provisioning
  <2>8. made' \cap untried' = {}
    BY <1>2, <1>4 DEF AddSource, Provisioning
  <2>9. Provisioning(t)'
    BY <1>2, <1>3, <1>4, <2>2, <2>3, <2>5, <2>6, <2>7, <2>8 DEF Provisioning
  <2> QED
    BY <1>2, <1>4, <2>9 DEF TenantInv, Handled, Created
<1>8. ASSUME NEW s \in Tenants PROVE TenantInv(s)'
  BY <1>2, <1>6, <1>7, EventFacts
<1> QED
  BY <1>1, <1>5, <1>6, <1>8

LEMMA CreateDisplayKeeps ==
  ASSUME BusInv, CreateDisplay PROVE BusInv'
<1>1. PICK t \in Tenants :
        /\ Subject = t
        /\ current = Created(t)
        /\ current[1] # "user_deleted"
        /\ Created(t) \notin waiting
        /\ Provisioning(t)
  BY CurrentTenant DEF CreateDisplay
<1>2. /\ session' = "clean"
      /\ disturbed' = disturbed \/ disturbed' = disturbed \cup {<<current, "display">>}
  BY NewSession DEF CreateDisplay
<1>3. /\ current # None /\ step = "display" /\ step' = "profile"
      /\ UNCHANGED <<waiting, current, untried, made, users, sources, defaults>>
  BY DEF CreateDisplay
<1>4. /\ \A s \in Tenants : current # Created(s) => TenantInv(s)'
      /\ \A u \in Users : UserInv(u)'
  BY <1>1, <1>2, <1>3, OthersKeep
<1> USE DEF BusInv
<1>5. BusTypeOK'
  BY CreateDisplayTypes
<1>6. Consumer'
  BY <1>1, <1>2, <1>3 DEF Consumer
<1>7. TenantInv(t)'
  <2>1. /\ untried = {} /\ session = "clean"
        /\ display = None /\ ~Hit(Created(t), "display")
    BY <1>1, <1>3 DEF Provisioning
  <2>2. \A what : what # "display" => (Hit(Created(t), what)' <=> Hit(Created(t), what))
    BY <1>1, <1>2 DEF Hit, Created
  <2>3. \A b \in Backends : b # "display" /\ b # "api"
    BY BusAssumption
  <2>4. Missing(t)' = Missing(t)
    BY <1>3, <2>2, <2>3 DEF Missing
  <2>5. AtMostOneMissing(t)'
    BY <1>1, <1>2, <2>4, DeletionsStayFailed DEF Provisioning, AtMostOneMissing
  <2>6. \A b \in made' \cup untried' : ~Hit(Created(t), b)'
    BY <1>1, <1>3, <2>2, <2>3 DEF Provisioning, BusTypeOK
  <2>7. /\ display' = IF Hit(Created(t), "display")' THEN None ELSE t
        /\ display' = None \/ display' \in displays'
    <3>1. CASE Succeeds /\ displays' = displays \cup {Subject} /\ display' = Subject
      BY <1>1, <2>1, <3>1 DEF Succeeds, Hit, Created
    <3>2. CASE Fails("display") /\ UNCHANGED <<displays, display>>
      BY <1>1, <2>1, <3>2 DEF Fails, Disturb, Hit, Created
    <3> QED
      BY <3>1, <3>2 DEF CreateDisplay
  <2>8. Provisioning(t)'
    BY <1>1, <1>2, <1>3, <2>1, <2>2, <2>5, <2>6, <2>7 DEF Provisioning
  <2> QED
    BY <1>1, <1>3, <2>8 DEF TenantInv, Handled, Created
<1>8. ASSUME NEW s \in Tenants PROVE TenantInv(s)'
  BY <1>1, <1>4, <1>7, EventFacts
<1> QED
  BY <1>4, <1>5, <1>6, <1>8

LEMMA CreateProfileKeeps ==
  ASSUME BusInv, CreateProfile PROVE BusInv'
<1>1. PICK t \in Tenants :
        /\ Subject = t
        /\ current = Created(t)
        /\ current[1] # "user_deleted"
        /\ Created(t) \notin waiting
        /\ Provisioning(t)
  BY CurrentTenant DEF CreateProfile
<1>2. /\ session = "clean" /\ untried = {}
      /\ step = "profile"
      /\ display = IF Hit(Created(t), "display") THEN None ELSE t
  BY <1>1 DEF CreateProfile, Provisioning
<1>3. /\ session' = "clean"
      /\ disturbed' = disturbed \/ disturbed' = disturbed \cup {<<current, "profile">>}
  BY <1>2, NewSession DEF CreateProfile
<1>4. /\ current # None /\ current' = None /\ step' = step
      /\ UNCHANGED <<waiting, users>>
  BY DEF CreateProfile, Over
<1>5. ASSUME NEW s \in Tenants, current # Created(s) PROVE defaults'[s] = defaults[s]
  BY <1>1, <1>5 DEF CreateProfile, BusInv, BusTypeOK
<1>6. /\ \A s \in Tenants : current # Created(s) => TenantInv(s)'
      /\ \A u \in Users : UserInv(u)'
  BY <1>1, <1>3, <1>4, <1>5, OthersKeep
<1> USE DEF BusInv
<1>7. BusTypeOK'
  BY CreateProfileTypes
<1>8. Consumer'
  BY <1>3, <1>4, EventFacts DEF Consumer, BusTypeOK
<1>9. TenantInv(t)'
  <2>1. Provisioned(t)'
    <3>1. CASE /\ Succeeds
               /\ defaults' = [defaults EXCEPT
                                 ![Subject] = [sources |-> made, display |-> display]]
      <4>1. defaults'[t] = [sources |-> made, display |-> display]
        BY <1>1, <3>1 DEF BusTypeOK
      <4>2. \A what : Hit(Created(t), what)' <=> Hit(Created(t), what)
        BY <3>1 DEF Succeeds, Hit, Created
      <4>3. Creatable(t)' = Creatable(t)
        BY <4>2 DEF Creatable
      <4>4. made \subseteq Creatable(t)
        BY <1>1 DEF Provisioning, Creatable, BusTypeOK
      <4>5. Creatable(t) \ made = Missing(t)
        BY <1>2 DEF Creatable, Missing
      <4>6. SomeDeletionFailed => SomeDeletionFailed'
        BY <1>3, DeletionsStayFailed
      <4>7. defaults'[t] # None
        BY <1>7, <4>1, BusAssumption DEF BusTypeOK
      <4> QED
        BY <1>1, <1>2, <4>1, <4>2, <4>3, <4>4, <4>5, <4>6, <4>7
           DEF Provisioned, Provisioning, AtMostOneMissing
    <3>2. CASE /\ defaults[Subject] # None \/ ~References
               /\ UNCHANGED <<defaults, session, disturbed>>
      <4>1. Hit(Created(t), "api")
        BY <1>1, <3>2 DEF Provisioning, References
      <4> QED
        BY <3>2, <4>1 DEF Provisioned, Hit, Created
    <3>3. CASE Fails("profile")
      BY <1>1, <1>2, <3>3 DEF Fails, Disturb, Provisioned, Hit, Created
    <3> QED
      BY <3>1, <3>2, <3>3 DEF CreateProfile
  <2>2. (Created(t) \notin waiting)' /\ (current # Created(t))'
    BY <1>1, <1>4, EventFacts DEF Created
  <2> QED
    BY <2>1, <2>2 DEF TenantInv
<1>10. ASSUME NEW s \in Tenants PROVE TenantInv(s)'
  BY <1>1, <1>6, <1>9, EventFacts
<1> QED
  BY <1>6, <1>7, <1>8, <1>10

LEMMA RecordCountryKeeps ==
  ASSUME BusInv, RecordCountry PROVE BusInv'
<1>1. /\ current # None /\ current' = None
      /\ current[1] = "localization_edited"
      /\ UNCHANGED <<waiting, users, defaults, step>>
  BY DEF RecordCountry, Over
<1>2. /\ session' = "clean"
      /\ disturbed' = disturbed \/ disturbed' = disturbed \cup {<<current, "end">>}
  BY NewSession DEF RecordCountry
<1>3. \A t \in Tenants : current # Created(t)
  BY <1>1, EventFacts
<1>4. /\ \A t \in Tenants : TenantInv(t)'
      /\ \A u \in Users : UserInv(u)'
  BY <1>1, <1>2, <1>3, OthersKeep
<1>5. BusTypeOK'
  BY RecordCountryTypes DEF BusInv
<1>6. Consumer'
  BY <1>1, <1>2, EventFacts DEF Consumer, BusInv, BusTypeOK
<1> QED
  BY <1>4, <1>5, <1>6 DEF BusInv

LEMMA StutterKeeps ==
  ASSUME BusInv, UNCHANGED busVars PROVE BusInv'
<1>1. UNCHANGED <<waiting, current, step, untried, made, display, session, users, country,
                  sources, displays, defaults, disturbed>>
  BY DEF busVars, handler, database
<1>2. BusTypeOK' /\ Consumer'
  BY <1>1 DEF BusInv, BusTypeOK, Consumer, SomeDeletionFailed, Hit
<1>3. ASSUME NEW t \in Tenants PROVE TenantInv(t)'
  BY <1>1 DEF BusInv, TenantInv, NotYet, Provisioning, Provisioned, Creatable, AtMostOneMissing,
     Missing, SomeDeletionFailed, Handled, Hit
<1>4. ASSUME NEW u \in Users PROVE UserInv(u)'
  BY <1>1 DEF BusInv, UserInv, Handled, Hit
<1> QED
  BY <1>2, <1>3, <1>4 DEF BusInv

LEMMA NextKeeps ==
  ASSUME BusInv, [BusNext]_busVars PROVE BusInv'
<1>1. CASE \E e \in Events : Deliver(e)
  BY <1>1, DeliverKeeps
<1>2. CASE RemoveUser \/ RemoveUserCannotConnect \/ RemoveUserFails
             \/ RemoveUserOnBrokenSession
  BY <1>2, RemoveUserKeeps
<1>3. CASE \E b \in Backends : AddSource(b)
  BY <1>3, AddSourceKeeps
<1>4. CASE CreateDisplay
  BY <1>4, CreateDisplayKeeps
<1>5. CASE CreateProfile
  BY <1>5, CreateProfileKeeps
<1>6. CASE RecordCountry
  BY <1>6, RecordCountryKeeps
<1>7. CASE \E t \in Tenants :
             \/ DeleteDisplay(t) \/ PostProfile(t)
             \/ \E b \in Backends : DeleteSource(t, b)
  BY <1>7, InterfereKeeps
<1>8. CASE UNCHANGED busVars
  BY <1>8, StutterKeeps
<1> QED
  BY <1>1, <1>2, <1>3, <1>4, <1>5, <1>6, <1>7, <1>8 DEF BusNext, ConsumeEvent

LEMMA InitBusInv == BusInit => BusInv
<1> SUFFICES ASSUME BusInit PROVE BusInv
  OBVIOUS
<1>1. BusTypeOK
  BY DEF BusInit, BusTypeOK
<1>2. Consumer
  BY EventFacts DEF BusInit, Consumer
<1>3. ASSUME NEW t \in Tenants PROVE TenantInv(t)
  BY EventFacts DEF BusInit, TenantInv, NotYet, Handled, Hit
<1>4. ASSUME NEW u \in Users PROVE UserInv(u)
  BY EventFacts DEF BusInit, UserInv, Handled
<1> QED
  BY <1>1, <1>2, <1>3, <1>4 DEF BusInv

(* The inductive invariant of the consumer, whatever the events it is sent *)
(* and whatever fails.                                                     *)
THEOREM SpecBusInv == BusSpec => []BusInv
<1>1. BusInv /\ [BusNext]_busVars => BusInv'
  BY NextKeeps
<1> QED
  BY InitBusInv, <1>1, PTL DEF BusSpec

(* A set of at most one back-end.                                          *)
LEMMA NoneMissing ==
  ASSUME NEW S, NEW b, S = {} \/ S = {b}
  PROVE  Cardinality(S) <= 1 /\ (S = {} => Cardinality(S) = 0)
<1>1. CASE S = {}
  BY <1>1, FS_EmptySet
<1>2. CASE S = {b}
  <2>1. Cardinality(S) = 1
    BY <1>2, FS_Singleton
  <2> QED
    BY <1>2, <2>1
<1> QED
  BY <1>1, <1>2

LEMMA InvEventsTakeEffect == BusInv => EventsTakeEffect
<1> SUFFICES ASSUME BusInv PROVE EventsTakeEffect
  OBVIOUS
<1>1. TenantIsProvisioned
  <2> SUFFICES ASSUME NEW t \in Tenants,
                      Handled(Created(t)),
                      ~Hit(Created(t), "profile"), ~Hit(Created(t), "api")
               PROVE  /\ defaults[t] # None
                      /\ defaults[t].sources \subseteq Creatable(t)
                      /\ Cardinality(Creatable(t) \ defaults[t].sources)
                           <= IF SomeDeletionFailed THEN 1 ELSE 0
                      /\ defaults[t].display =
                           IF Hit(Created(t), "display") THEN None ELSE t
    BY DEF TenantIsProvisioned, Creatable, SomeDeletionFailed, Hit, Created, Deleted
  <2>1. Provisioned(t)
    BY DEF BusInv, TenantInv
  <2>2. Cardinality(Creatable(t) \ defaults[t].sources)
           <= IF SomeDeletionFailed THEN 1 ELSE 0
    BY <2>1, NoneMissing DEF Provisioned
  <2> QED
    BY <2>1, <2>2 DEF Provisioned
<1>2. UserIsDeleted
  BY DEF BusInv, UserInv, UserIsDeleted, Hit, Deleted
<1> QED
  BY <1>1, <1>2 DEF EventsTakeEffect, BusInv

(* A failure of the database costs only what it hits: whatever the tenants *)
(* and the users, whichever transactions fail and whatever the users of    *)
(* the API delete meanwhile, a tenant whose event is over has its profile  *)
(* with all that could be created (tenant_created of the config service),  *)
(* and a deleted user is gone, unless the session was broken before        *)
(* (_remove_user of the cleanup service).                                  *)
THEOREM SpecEventsTakeEffect == BusSpec => []EventsTakeEffect
BY SpecBusInv, InvEventsTakeEffect, PTL

LEMMA EndIsClean ==
  ASSUME BusInv, [BusNext]_busVars, current # None, current[1] # "user_deleted", current' = None
  PROVE  session' = "clean"
<1>1. CreateProfile \/ RecordCountry
  <2>1. ~DeletingUser
    BY DEF DeletingUser
  <2>2. \A e \in Events : ~Deliver(e)
    BY DEF Deliver
  <2>3. ~CreateDisplay /\ \A b \in Backends : ~AddSource(b)
    BY DEF CreateDisplay, AddSource
  <2>4. \A t \in Tenants : ~Interfere(t)
    BY DEF Interfere, handler
  <2>5. current' # current
    OBVIOUS
  <2>6. ~UNCHANGED busVars
    BY <2>5 DEF busVars, handler
  <2>7. ~RemoveUser /\ ~RemoveUserCannotConnect /\ ~RemoveUserFails
          /\ ~RemoveUserOnBrokenSession
    BY <2>1 DEF RemoveUser, RemoveUserCannotConnect, RemoveUserFails,
       RemoveUserOnBrokenSession
  <2>8. \A t \in Tenants : /\ ~DeleteDisplay(t) /\ ~PostProfile(t)
                           /\ \A b \in Backends : ~DeleteSource(t, b)
    BY <2>4 DEF DeleteDisplay, PostProfile, DeleteSource
  <2> QED
    BY <2>2, <2>3, <2>6, <2>7, <2>8 DEF BusNext, ConsumeEvent
<1>2. CASE CreateProfile
  <2>1. session = "clean"
    BY <1>2, CurrentTenant DEF CreateProfile, Provisioning
  <2> QED
    BY <1>2, <2>1, NewSession DEF CreateProfile
<1>3. CASE RecordCountry
  BY <1>3, NewSession DEF RecordCountry
<1> QED
  BY <1>1, <1>2, <1>3

(* Creating and editing (new_session) leave the thread of the consumer     *)
(* with a usable session, whatever state the deletion of a user left it    *)
(* in.                                                                     *)
THEOREM SpecSessionHeals == BusSpec => SessionHeals
<1>1. BusInv /\ [BusNext]_busVars =>
        [current # None /\ current[1] # "user_deleted" /\ current' = None =>
           session' = "clean"]_busVars
  BY EndIsClean
<1> QED
  BY <1>1, SpecBusInv, PTL DEF BusSpec, SessionHeals

----------------------------------------------------------------------------
(* The life cycle and the discovery of services.                           *)
AllServices == {Services[i] : i \in DOMAIN Services}

(* The services are loaded in their order, and the others see them once all *)
(* of them are.                                                            *)
LoadedInOrder ==
  \E n \in 0 .. Len(Services) :
    loaded = {Services[i] : i \in 1 .. n} /\ Cardinality(loaded) = n /\ IsFiniteSet(loaded)

Wired == {"bus", "server", "serving", "joining", "stopping the bus"}

PhasesFollow ==
  /\ phase \in {"loading", "wiring", "exited"} \cup Wired
  /\ phase = "loading" => services = Unset
  /\ services # Unset => services = AllServices \ {failing}
  /\ phase = "wiring" => services # Unset
  /\ phase \in Wired => services # Unset /\ Source \in services
  /\ phase \in {"server", "serving"} => bus
  /\ bus => services # Unset /\ phase \in Wired

(* The server that serves stops for a signal only, and what follows with it, *)
(* but for the server that cannot start.                                   *)
OnlyForASignal ==
  /\ server # "none" => services # Unset /\ Source \in services
  /\ server \in {"created", "ready"} => phase = "serving"
  /\ stopper # "none" \/ server = "stopped" => signals > 0
  /\ phase \in {"joining", "stopping the bus"} => signals > 0 \/ server = "failed"
  /\ phase = "exited" => signals > 0 \/ failing = Source \/ server = "failed"

LifeInv ==
  LifeTypeOK /\ LoadedInOrder /\ PhasesFollow /\ OnlyForASignal

(* A source is made once, and its maker, alone, adds it to the profiles.    *)
Updating == {host[a] : a \in {b \in Actors : doing[b] = "update"}}

MakersAreAlone ==
  /\ \A a \in Actors : doing[a] \in {"check", "create", "update"} => host[a] \in Hosts
  /\ \A a \in Actors : doing[a] = "update" => host[a] \in created
  /\ \A a, b \in Actors :
       doing[a] = "update" /\ doing[b] = "update" /\ host[a] = host[b] => a = b
  /\ profiles = created \ Updating

(* What keeps a server from a source has kept it so far.                    *)
ObstaclesHold ==
  /\ obstacle \in [Hosts -> {"none", "template", "homonym"}]
  /\ \A h \in Hosts : obstacle[h] # "none" => rows[h] = 0
  /\ \A a \in Actors : doing[a] \in {"create", "update"} => obstacle[host[a]] # "template"

DiscoveryInv ==
  /\ TypeOK
  /\ ObstaclesHold
  /\ rows \in [Hosts -> {0, 1}]
  /\ doing \in [Actors -> {"off", "idle", "list", "next", "check", "create", "update", "done"}]
  /\ host \in [Actors -> Hosts \cup {Unset}]
  /\ MakersAreAlone
  /\ doing[Handler] # "idle" => services # Unset

IInv == LifeInv /\ DiscoveryInv

-------------------------------------------------------------------------------
LEMMA ServicesFacts ==
  /\ DOMAIN Services = 1 .. Len(Services) /\ Len(Services) \in Nat
  /\ Source \in AllServices
  /\ \A s : Unset # AllServices \ {s}
<1>1. DOMAIN Services = 1 .. Len(Services) /\ Len(Services) \in Nat
  BY LifeAssumption DEF LifeAssumption
<1>2. Source \in AllServices
  BY LifeAssumption DEF LifeAssumption, AllServices
<1>3. \A s : AllServices \ {s} \in SUBSET AllServices
  OBVIOUS
<1>4. \A s : Unset # AllServices \ {s}
  BY <1>3, LifeAssumption DEF LifeAssumption, AllServices
<1> QED BY <1>1, <1>2, <1>4

(* One more service is loaded: it is not one that was loaded before.        *)
LEMMA LoadOneMore ==
  ASSUME LoadedInOrder, Cardinality(loaded) < Len(Services),
         loaded' = loaded \cup {Services[Cardinality(loaded) + 1]}
  PROVE  LoadedInOrder' /\ loaded' \subseteq AllServices
<1>1. PICK n \in 0 .. Len(Services) :
        loaded = {Services[i] : i \in 1 .. n} /\ Cardinality(loaded) = n /\ IsFiniteSet(loaded)
  BY DEF LoadedInOrder
<1>2. n + 1 \in 0 .. Len(Services) /\ n \in Nat
  BY <1>1, ServicesFacts
<1>3. loaded' = {Services[i] : i \in 1 .. n + 1}
  <2>1. 1 .. n + 1 = (1 .. n) \cup {n + 1}
    BY <1>2
  <2>2. loaded' = {Services[i] : i \in 1 .. n} \cup {Services[n + 1]}
    BY <1>1
  <2> QED BY <2>1, <2>2
<1>4. Services[n + 1] \notin loaded
  <2>1. \A i \in 1 .. n : i \in DOMAIN Services /\ n + 1 \in DOMAIN Services /\ i # n + 1
    BY <1>2, ServicesFacts
  <2>2. \A i \in 1 .. n : Services[i] # Services[n + 1]
    BY <2>1, LifeAssumption DEF LifeAssumption
  <2> QED BY <2>2, <1>1
<1>5. Cardinality(loaded') = n + 1 /\ IsFiniteSet(loaded')
  BY <1>1, <1>2, <1>4, FS_AddElement
<1>6. loaded' \subseteq AllServices
  BY <1>2, <1>3, ServicesFacts DEF AllServices
<1> QED BY <1>2, <1>3, <1>5, <1>6 DEF LoadedInOrder

LEMMA AllAreLoaded ==
  ASSUME LoadedInOrder, Cardinality(loaded) = Len(Services)
  PROVE  loaded = AllServices
BY ServicesFacts DEF LoadedInOrder, AllServices

-------------------------------------------------------------------------------
(***************************************************************************)
(* The life cycle.                                                         *)
(***************************************************************************)
LEMMA LifeInitInv == LifeInit => LifeInv
<1> SUFFICES ASSUME LifeInit PROVE LifeInv OBVIOUS
<1> USE DEF LifeInit
<1>1. LifeTypeOK
  <2>1. signals \in Nat /\ signals + runs <= MaxSignalsAndRuns /\ runs \in 1 .. MaxRuns
    BY LifeAssumption DEF LifeAssumption
  <2> QED BY <2>1 DEF LifeTypeOK
<1>2. LoadedInOrder
  <2>1. 0 \in 0 .. Len(Services) /\ loaded = {Services[i] : i \in 1 .. 0}
    BY ServicesFacts
  <2> QED BY <2>1, FS_EmptySet DEF LoadedInOrder
<1>3. PhasesFollow
  BY DEF PhasesFollow, Wired
<1>4. OnlyForASignal
  BY DEF OnlyForASignal
<1> QED BY <1>1, <1>2, <1>3, <1>4 DEF LifeInv

LEMMA LifeStutter == LifeInv /\ UNCHANGED lifeVars => LifeInv'
<1> SUFFICES ASSUME LifeInv, UNCHANGED lifeVars PROVE LifeInv' OBVIOUS
<1> USE DEF LifeInv, lifeVars, plugins, signalling
<1>1. LifeTypeOK'
  BY DEF LifeTypeOK
<1>2. LoadedInOrder'
  BY DEF LoadedInOrder
<1>3. PhasesFollow' /\ OnlyForASignal'
  BY DEF PhasesFollow, OnlyForASignal
<1> QED BY <1>1, <1>2, <1>3

(* Whoever leaves the plugins alone has only the phases to answer for.      *)
LEMMA PluginsStay ==
  LifeInv /\ UNCHANGED plugins => LoadedInOrder' /\ (services = Unset \/ services \subseteq loaded)'
                                  /\ (loaded \subseteq {Services[i] : i \in DOMAIN Services})'
BY DEF LifeInv, LifeTypeOK, LoadedInOrder, plugins

LEMMA LoadingKeepsLifeInv == LifeInv /\ (LoadService \/ LoadViews) => LifeInv'
<1> SUFFICES ASSUME LifeInv, LoadService \/ LoadViews PROVE LifeInv' OBVIOUS
<1> USE DEF LifeInv
<1>1. CASE LoadService
  <2> USE DEF LoadService, Main, signalling
  <2>1. LoadedInOrder' /\ loaded' \subseteq AllServices
    BY <1>1, LoadOneMore
  <2>2. services = Unset /\ services' = Unset
    BY <1>1 DEF PhasesFollow
  <2>3. LifeTypeOK'
    BY <1>1, <2>1, <2>2 DEF LifeTypeOK, AllServices
  <2>4. PhasesFollow' /\ OnlyForASignal'
    BY <1>1, <2>2 DEF PhasesFollow, OnlyForASignal, Wired
  <2> QED BY <2>1, <2>3, <2>4
<1>2. CASE LoadViews
  <2> USE DEF LoadViews, Main, signalling
  <2>1. services' = AllServices \ {failing} /\ services' \subseteq loaded'
    BY <1>2, AllAreLoaded
  <2>2. services = Unset /\ server = "none" /\ ~bus
    BY <1>2 DEF PhasesFollow, OnlyForASignal, LifeTypeOK
  <2>3. LoadedInOrder'
    BY <1>2 DEF LoadedInOrder
  <2>4. LifeTypeOK'
    BY <1>2, <2>1 DEF LifeTypeOK
  <2>5. PhasesFollow' /\ OnlyForASignal'
    BY <1>2, <2>1, <2>2, ServicesFacts DEF PhasesFollow, OnlyForASignal, Wired
  <2> QED BY <2>3, <2>4, <2>5
<1> QED BY <1>1, <1>2

LEMMA WiringKeepsLifeInv ==
  LifeInv /\ (SetSourceService \/ StartBus \/ CreateServer \/ Serve \/ CannotServe) => LifeInv'
<1> SUFFICES ASSUME LifeInv, SetSourceService \/ StartBus \/ CreateServer \/ Serve \/ CannotServe
             PROVE  LifeInv'
  OBVIOUS
<1> USE DEF LifeInv, SetSourceService, StartBus, CreateServer, Serve, CannotServe, Main, signalling, plugins
<1>1. UNCHANGED plugins
  OBVIOUS
<1>2. LifeTypeOK'
  BY PluginsStay, <1>1 DEF LifeTypeOK
<1>3. LoadedInOrder'
  BY PluginsStay, <1>1
<1>4. PhasesFollow'
  <2>1. phase \in {"wiring", "bus", "server", "serving"} /\ services # Unset /\ services' = services
    BY DEF PhasesFollow, Wired
  <2>2. phase' \in Wired => Source \in services
    BY <2>1 DEF PhasesFollow, Wired
  <2>3. phase' \in {"bus", "server", "serving", "exited"}
    OBVIOUS
  <2>4. bus' => phase' \in Wired
    BY DEF PhasesFollow, Wired
  <2>5. phase' \in {"server", "serving"} => bus'
    BY DEF PhasesFollow, Wired
  <2> QED BY <2>1, <2>2, <2>3, <2>4, <2>5 DEF PhasesFollow, Wired
<1>5. OnlyForASignal'
  <2>1. services # Unset
    BY DEF PhasesFollow, Wired
  <2>2. Source \in AllServices
    BY ServicesFacts
  <2> QED BY <2>1, <2>2 DEF PhasesFollow, OnlyForASignal, Wired
<1> QED BY <1>2, <1>3, <1>4, <1>5

LEMMA EndingKeepsLifeInv == LifeInv /\ (Unload \/ Join \/ StopBus) => LifeInv'
<1> SUFFICES ASSUME LifeInv, Unload \/ Join \/ StopBus PROVE LifeInv' OBVIOUS
<1> USE DEF LifeInv, Unload, Join, StopBus, Main, signalling, plugins
<1>1. UNCHANGED plugins
  OBVIOUS
<1>2. LifeTypeOK'
  BY PluginsStay, <1>1 DEF LifeTypeOK
<1>3. LoadedInOrder'
  BY PluginsStay, <1>1
<1>4. PhasesFollow'
  BY DEF PhasesFollow, Wired
<1>5. OnlyForASignal'
  BY DEF PhasesFollow, OnlyForASignal, Wired
<1> QED BY <1>2, <1>3, <1>4, <1>5

LEMMA SignalsKeepLifeInv == LifeInv /\ (Signal \/ StopServer \/ Hang) => LifeInv'
<1> SUFFICES ASSUME LifeInv, Signal \/ StopServer \/ Hang PROVE LifeInv' OBVIOUS
<1> USE DEF LifeInv, Signal, StartStopper, StopServer, Hang, signalling, plugins
<1>1. UNCHANGED <<plugins, phase, bus>>
  OBVIOUS
<1>2. LifeTypeOK'
  <2>1. signals' \in Nat /\ (signals + runs <= MaxSignalsAndRuns)' /\ (runs \in 1 .. MaxRuns)'
    BY LifeAssumption DEF LifeAssumption, LifeTypeOK
  <2> QED BY PluginsStay, <1>1, <2>1 DEF LifeTypeOK
<1>3. LoadedInOrder'
  BY PluginsStay, <1>1
<1>4. PhasesFollow'
  BY <1>1 DEF PhasesFollow
<1>5. OnlyForASignal'
  <2>1. CASE Signal
    <3>1. signals' > 0 /\ UNCHANGED server
      BY <2>1 DEF LifeTypeOK
    <3> QED BY <1>1, <3>1 DEF OnlyForASignal
  <2>2. CASE StopServer
    <3>1. signals' > 0 /\ (server' # "none" => server # "none")
      BY <2>2 DEF OnlyForASignal
    <3> QED BY <1>1, <3>1 DEF OnlyForASignal
  <2>3. CASE Hang
    BY <1>1, <2>3 DEF OnlyForASignal
  <2> QED BY <2>1, <2>2, <2>3
<1> QED BY <1>2, <1>3, <1>4, <1>5

LEMMA RestartKeepsLifeInv == LifeInv /\ Restart => LifeInv'
<1> SUFFICES ASSUME LifeInv, Restart PROVE LifeInv' OBVIOUS
<1> USE DEF LifeInv, Restart
<1>1. LifeTypeOK'
  <2>1. signals' \in Nat /\ (signals + runs <= MaxSignalsAndRuns)' /\ (runs \in 1 .. MaxRuns)'
    BY LifeAssumption DEF LifeAssumption, LifeTypeOK
  <2> QED BY <2>1 DEF LifeTypeOK
<1>2. LoadedInOrder'
  <2>1. 0 \in 0 .. Len(Services) /\ loaded' = {Services[i] : i \in 1 .. 0}
    BY ServicesFacts
  <2> QED BY <2>1, FS_EmptySet DEF LoadedInOrder
<1>3. PhasesFollow' /\ OnlyForASignal'
  BY DEF PhasesFollow, OnlyForASignal, Wired
<1> QED BY <1>1, <1>2, <1>3

LEMMA LifeNextKeepsLifeInv == LifeInv /\ LifeNext => LifeInv'
BY LoadingKeepsLifeInv, WiringKeepsLifeInv, EndingKeepsLifeInv, SignalsKeepLifeInv
   DEF LifeNext, MainStep

(* In a run of the process, the services do not go away again.              *)
LEMMA ServicesStay == LifeInv /\ LifeNext /\ services # Unset => services' = services
BY DEF LifeInv, PhasesFollow, LifeNext, MainStep, LoadService, LoadViews, SetSourceService, StartBus,
       CreateServer, Serve, CannotServe, Unload, Join, StopBus, Signal, StopServer, Hang, plugins, Main

-------------------------------------------------------------------------------
(***************************************************************************)
(* The discovery.                                                          *)
(***************************************************************************)
LEMMA DiscoveryInitInv == LifeInv /\ Init => DiscoveryInv
<1> SUFFICES ASSUME LifeInv, Init PROVE DiscoveryInv OBVIOUS
<1> USE DEF Init, Actors, Fetcher, Handler
<1>1. TypeOK
  BY DiscoveryAssumption DEF DiscoveryAssumption, TypeOK, LifeInv
<1>2. MakersAreAlone
  BY DEF MakersAreAlone, Updating
<1>3. ObstaclesHold
  BY DiscoveryAssumption DEF DiscoveryAssumption, ObstaclesHold
<1> QED BY <1>1, <1>2, <1>3 DEF DiscoveryInv

LEMMA LiveKeepsDiscoveryInv == IInv /\ Live => IInv'
<1> SUFFICES ASSUME IInv, Live PROVE IInv' OBVIOUS
<1>1. LifeInv'
  BY LifeNextKeepsLifeInv DEF Live, IInv
<1>2. UNCHANGED discoveryVars
  BY DEF Live
<1>3. TypeOK'
  BY <1>1, <1>2 DEF LifeInv, IInv, DiscoveryInv, TypeOK, discoveryVars, fetching, sourceVars
<1>4. (doing[Handler] # "idle" => services # Unset)'
  BY <1>2, ServicesStay DEF IInv, DiscoveryInv, Live, discoveryVars
<1>5. MakersAreAlone' /\ ObstaclesHold'
  BY <1>2 DEF IInv, DiscoveryInv, MakersAreAlone, ObstaclesHold, Updating, discoveryVars, sourceVars
<1> QED BY <1>1, <1>2, <1>3, <1>4, <1>5 DEF IInv, DiscoveryInv, discoveryVars, sourceVars

LEMMA BeginKeepsInv == IInv /\ Begin => IInv'
<1> SUFFICES ASSUME IInv, Begin PROVE IInv' OBVIOUS
<1> USE DEF Begin, Actors, Fetcher, Handler
<1>1. LifeInv'
  BY RestartKeepsLifeInv DEF IInv
<1>2. TypeOK'
  BY <1>1, DiscoveryAssumption DEF DiscoveryAssumption, LifeInv, IInv, DiscoveryInv, TypeOK
<1>3. MakersAreAlone' /\ ObstaclesHold'
  BY DEF IInv, DiscoveryInv, MakersAreAlone, ObstaclesHold, Updating
<1> QED BY <1>1, <1>2, <1>3 DEF IInv, DiscoveryInv

(***************************************************************************)
(* The thread and the handler leave the life cycle alone.                  *)
(***************************************************************************)
ActorTypes == {"off", "idle", "list", "next", "check", "create", "update", "done"}

LEMMA RegisterKeepsInv == IInv /\ (\E h \in Hosts : Register(h)) => IInv'
<1> SUFFICES ASSUME IInv, NEW h \in Hosts, Register(h) PROVE IInv' OBVIOUS
<1> USE DEF IInv, Register, fetching, sourceVars
<1>1. LifeInv'
  BY LifeStutter
<1>2. UNCHANGED <<services, doing, host, obstacle, rows, profiles, created>>
  BY DEF lifeVars, plugins
<1>3. TypeOK'
  BY <1>1, <1>2 DEF LifeInv, DiscoveryInv, TypeOK
<1>4. MakersAreAlone' /\ ObstaclesHold'
  BY <1>2 DEF DiscoveryInv, MakersAreAlone, ObstaclesHold, Updating
<1> QED BY <1>1, <1>2, <1>3, <1>4 DEF DiscoveryInv

(* Whoever only turns to its next call, which is no update, keeps the        *)
(* makers apart.                                                           *)
LEMMA OthersMakeNothing ==
  ASSUME DiscoveryInv, NEW a \in Actors, NEW call \in ActorTypes \ {"update"},
         NEW h \in Hosts \cup {Unset},
         doing[a] # "update", doing' = [doing EXCEPT ![a] = call], host' = [host EXCEPT ![a] = h],
         call \in {"check", "create"} => h \in Hosts,
         call = "create" => obstacle[h] # "template",
         UNCHANGED <<obstacle, rows, profiles, created>>
  PROVE  MakersAreAlone' /\ ObstaclesHold' /\ doing' \in [Actors -> ActorTypes] /\ host' \in [Actors -> Hosts \cup {Unset}]
<1> USE DEF DiscoveryInv, ActorTypes
<1>1. \A b \in Actors : doing'[b] = (IF b = a THEN call ELSE doing[b])
  OBVIOUS
<1>2. \A b \in Actors : host'[b] = (IF b = a THEN h ELSE host[b])
  OBVIOUS
<1>3. \A b \in Actors : doing'[b] = "update" => doing[b] = "update" /\ host'[b] = host[b]
  BY <1>1, <1>2
<1>4. Updating' = Updating
  BY <1>1, <1>2, <1>3 DEF Updating
<1>5. MakersAreAlone'
  BY <1>1, <1>2, <1>3, <1>4 DEF MakersAreAlone
<1>6. ObstaclesHold'
  BY <1>1, <1>2 DEF ObstaclesHold
<1> QED BY <1>5, <1>6

LEMMA FetchKeepsInv == IInv /\ Fetch => IInv'
<1> SUFFICES ASSUME IInv, Fetch PROVE IInv' OBVIOUS
<1> USE DEF IInv, Fetch, StartFetcher, List, HandleNext, ListIsHandled, Does, Handles, fetching, sourceVars
<1>1. LifeInv'
  BY LifeStutter
<1>2. UNCHANGED <<services, obstacle, rows, profiles, created, healthy, events>>
  BY DEF lifeVars, plugins
<1>3. PICK call \in {"list", "next", "check", "done"}, h \in Hosts \cup {Unset} :
        /\ doing' = [doing EXCEPT ![Fetcher] = call] /\ host' = [host EXCEPT ![Fetcher] = h]
        /\ call = "check" => h \in Hosts
  <2>1. host = [host EXCEPT ![Fetcher] = host[Fetcher]] /\ host[Fetcher] \in Hosts \cup {Unset}
    BY DEF DiscoveryInv, Actors
  <2>2. doing = [doing EXCEPT ![Fetcher] = doing[Fetcher]]
    BY DEF DiscoveryInv
  <2>3. batch \subseteq Hosts
    BY DEF DiscoveryInv, TypeOK
  <2>4. CASE StartFetcher
    BY <2>1, <2>4
  <2>5. CASE List
    BY <2>1, <2>2, <2>5
  <2>6. CASE HandleNext
    BY <2>3, <2>6
  <2>7. CASE ListIsHandled
    BY <2>1, <2>7
  <2> QED BY <2>4, <2>5, <2>6, <2>7
<1>4. doing[Fetcher] # "update" /\ Fetcher \in Actors /\ call \in ActorTypes \ {"update"}
  BY DEF Actors, ActorTypes
<1>5. MakersAreAlone' /\ ObstaclesHold' /\ doing' \in [Actors -> ActorTypes] /\ host' \in [Actors -> Hosts \cup {Unset}]
  BY <1>2, <1>3, <1>4, OthersMakeNothing
<1>6. doing'[Fetcher] = call /\ doing'[Handler] = doing[Handler]
  BY <1>3 DEF DiscoveryInv, Actors, Fetcher, Handler
<1>7. batch' \subseteq healthy /\ listed' \in 0 .. Len(Names)
  BY DiscoveryAssumption DEF DiscoveryAssumption, DiscoveryInv, TypeOK
<1>8. TypeOK'
  BY <1>1, <1>2, <1>6, <1>7 DEF LifeInv, DiscoveryInv, TypeOK
<1> QED BY <1>1, <1>2, <1>5, <1>6, <1>8 DEF DiscoveryInv, ActorTypes

LEMMA ConsumeKeepsInv == IInv /\ Consume => IInv'
<1> SUFFICES ASSUME IInv, Consume PROVE IInv' OBVIOUS
<1> USE DEF IInv, Consume, Does, Handles, fetching, sourceVars
<1>1. LifeInv'
  BY LifeStutter
<1>2. UNCHANGED <<services, sourceVars, healthy, fetching>> /\ services # Unset
  BY DEF lifeVars, plugins, LifeInv, PhasesFollow
<1>3. PICK h \in events : events' = events \ {h} /\ host' = [host EXCEPT ![Handler] = h]
  OBVIOUS
<1>4. h \in Hosts
  BY DEF DiscoveryInv, TypeOK
<1>5. MakersAreAlone' /\ ObstaclesHold' /\ doing' \in [Actors -> ActorTypes] /\ host' \in [Actors -> Hosts \cup {Unset}]
  BY <1>2, <1>3, <1>4, OthersMakeNothing DEF Actors, ActorTypes
<1>6. doing'[Handler] = "check" /\ doing'[Fetcher] = doing[Fetcher]
  BY DEF DiscoveryInv, Actors, Fetcher, Handler
<1>7. TypeOK'
  BY <1>1, <1>2, <1>3, <1>6 DEF LifeInv, DiscoveryInv, TypeOK
<1> QED BY <1>1, <1>2, <1>5, <1>7 DEF DiscoveryInv, ActorTypes

(* An actor that turns to a call of its own, and what TypeOK asks of it.    *)
LEMMA TurnKeepsTypes ==
  ASSUME IInv, LifeInv', NEW a \in Actors, NEW call \in ActorTypes,
         doing' = [doing EXCEPT ![a] = call],
         doing[a] \in {"check", "create", "update"},
         call \in {"create", "update"} \/ call = AfterError(a) \/ (a = Fetcher /\ call = "next")
                                       \/ (a = Handler /\ call = "idle"),
         UNCHANGED <<lifeVars, healthy, events>>,
         batch' = batch \/ batch' = {}, listed' = listed \/ listed' = 0,
         created' \subseteq {h \in Hosts : rows'[h] > 0}
  PROVE  TypeOK' /\ (doing[Handler] # "idle" => services # Unset)'
<1> USE DEF IInv, DiscoveryInv
<1>1. services' = services
  BY DEF lifeVars, plugins
<1>2. \A b \in Actors : doing'[b] = (IF b = a THEN call ELSE doing[b])
  OBVIOUS
<1>3. Fetcher \in Actors /\ Handler \in Actors /\ Fetcher # Handler
  BY DEF Actors, Fetcher, Handler
<1>4. doing'[Fetcher] \in {"off", "list", "next", "check", "create", "update", "done"}
  BY <1>2, <1>3 DEF TypeOK, AfterError
<1>5. doing'[Handler] \in {"idle", "check", "create", "update"}
  BY <1>2, <1>3 DEF TypeOK, AfterError
<1>6. TypeOK'
  BY <1>4, <1>5, DiscoveryAssumption DEF DiscoveryAssumption, LifeInv, TypeOK
<1> QED BY <1>1, <1>2, <1>3, <1>6

(* What an actor turns to once it has looked for the source.                *)
LEMMA CheckTurns ==
  ASSUME IInv, NEW a \in Actors, Check(a) \/ CannotCheck(a)
  PROVE  \E call \in ActorTypes \ {"update"}, h \in Hosts \cup {Unset} :
           /\ doing' = [doing EXCEPT ![a] = call] /\ host' = [host EXCEPT ![a] = h]
           /\ call = "create" \/ call = AfterError(a) \/ (a = Fetcher /\ call = "next")
                              \/ (a = Handler /\ call = "idle")
           /\ call # "check" /\ (call = "create" => h \in Hosts /\ obstacle[h] # "template")
<1>1. CASE Check(a) /\ ~Exists(host[a])
  <2>1. doing' = [doing EXCEPT ![a] = "create"] /\ host' = host /\ obstacle[host[a]] # "template"
    BY <1>1 DEF Check, Does
  <2>2. host[a] \in Hosts /\ host = [host EXCEPT ![a] = host[a]]
    BY <1>1 DEF Check, IInv, DiscoveryInv, MakersAreAlone
  <2> QED BY <2>1, <2>2 DEF ActorTypes
<1>2. CASE Check(a) /\ Exists(host[a])
  <2>1. doing' = [doing EXCEPT ![a] = IF a = Fetcher THEN "next" ELSE "idle"]
        /\ host' = [host EXCEPT ![a] = Unset]
    BY <1>2 DEF Check, Return, Leaves, Does, Handles
  <2>2. a = Fetcher \/ (a = Handler /\ a # Fetcher)
    BY DEF Actors, Fetcher, Handler
  <2>3. PICK call \in {"next", "idle"} :
          /\ doing' = [doing EXCEPT ![a] = call]
          /\ (a = Fetcher /\ call = "next") \/ (a = Handler /\ call = "idle")
    BY <2>1, <2>2
  <2>4. call \in ActorTypes \ {"update"} /\ call \notin {"check", "create"}
    BY DEF ActorTypes
  <2> QED BY <2>1, <2>3, <2>4
<1>3. CASE CannotCheck(a)
  <2>1. doing' = [doing EXCEPT ![a] = AfterError(a)] /\ host' = [host EXCEPT ![a] = Unset]
    BY <1>3 DEF CannotCheck, Raise, Leaves, Does, Handles
  <2>2. AfterError(a) \in ActorTypes \ {"update", "check", "create"}
    BY DEF AfterError, ActorTypes
  <2> QED BY <2>1, <2>2
<1> QED BY <1>1, <1>2, <1>3

LEMMA CheckKeepsInv == ASSUME IInv, NEW a \in Actors, Check(a) \/ CannotCheck(a) PROVE IInv'
<1> USE DEF IInv
<1>1. LifeInv' /\ UNCHANGED <<lifeVars, healthy, events, profiles, created, rows, obstacle>>
  BY LifeStutter DEF Check, CannotCheck, sourceVars
<1>2. doing[a] = "check" /\ (batch' = batch \/ batch' = {}) /\ (listed' = listed \/ listed' = 0)
  BY DEF Check, CannotCheck, Raise, fetching
<1>3. PICK call \in ActorTypes \ {"update"}, h \in Hosts \cup {Unset} :
        /\ doing' = [doing EXCEPT ![a] = call] /\ host' = [host EXCEPT ![a] = h]
        /\ call = "create" \/ call = AfterError(a) \/ (a = Fetcher /\ call = "next")
                           \/ (a = Handler /\ call = "idle")
        /\ call # "check" /\ (call = "create" => h \in Hosts /\ obstacle[h] # "template")
  BY CheckTurns
<1>4. MakersAreAlone' /\ ObstaclesHold' /\ doing' \in [Actors -> ActorTypes]
      /\ host' \in [Actors -> Hosts \cup {Unset}]
  BY <1>1, <1>2, <1>3, OthersMakeNothing
<1>5. TypeOK' /\ (doing[Handler] # "idle" => services # Unset)'
  <2>1. created' \subseteq {x \in Hosts : rows'[x] > 0}
    BY <1>1 DEF DiscoveryInv, TypeOK
  <2> QED BY <1>1, <1>2, <1>3, <2>1, TurnKeepsTypes
<1> QED BY <1>1, <1>4, <1>5 DEF DiscoveryInv, ActorTypes

(* A maker finds that nobody made the source: it is the only one to update.  *)
LEMMA MakeKeepsMakers ==
  ASSUME DiscoveryInv, NEW a \in Actors, doing[a] = "create", rows[host[a]] = 0,
         doing' = [doing EXCEPT ![a] = "update"], UNCHANGED <<host, profiles>>,
         created' = created \cup {host[a]}
  PROVE  MakersAreAlone'
<1> USE DEF DiscoveryInv
<1>1. \A b \in Actors : doing'[b] = (IF b = a THEN "update" ELSE doing[b])
  OBVIOUS
<1>2. host[a] \in Hosts /\ host[a] \notin created
  BY DEF MakersAreAlone, TypeOK
<1>3. \A b \in Actors : doing[b] = "update" => host[b] # host[a]
  BY <1>2 DEF MakersAreAlone
<1>4. Updating' = Updating \cup {host[a]}
  BY <1>1 DEF Updating
<1>5. profiles' = created' \ Updating'
  BY <1>2, <1>3, <1>4 DEF MakersAreAlone, Updating
<1> QED BY <1>1, <1>2, <1>3, <1>5 DEF MakersAreAlone

LEMMA CreateKeepsInv == ASSUME IInv, NEW a \in Actors, Create(a) PROVE IInv'
<1> USE DEF IInv, Create, Does, fetching
<1>1. LifeInv'
  BY LifeStutter
<1>2. host[a] \in Hosts /\ doing[a] = "create" /\ rows[host[a]] = 0 /\ obstacle[host[a]] = "none"
  BY DEF DiscoveryInv, MakersAreAlone, ObstaclesHold, Refuses
<1>3. rows' = [rows EXCEPT ![host[a]] = 1] /\ rows' \in [Hosts -> {0, 1}]
  BY <1>2 DEF DiscoveryInv
<1>4. MakersAreAlone'
  BY <1>2, MakeKeepsMakers
<1>5. created' \subseteq {h \in Hosts : rows'[h] > 0}
  BY <1>2, <1>3 DEF DiscoveryInv, TypeOK
<1>6. TypeOK' /\ (doing[Handler] # "idle" => services # Unset)'
  BY <1>1, <1>2, <1>5, TurnKeepsTypes DEF ActorTypes
<1>7. doing' \in [Actors -> ActorTypes] /\ \A b \in Actors : doing'[b] = (IF b = a THEN "update" ELSE doing[b])
  BY DEF DiscoveryInv, ActorTypes
<1>8. ObstaclesHold'
  BY <1>2, <1>3, <1>7 DEF DiscoveryInv, ObstaclesHold
<1> QED BY <1>1, <1>3, <1>4, <1>6, <1>7, <1>8 DEF DiscoveryInv, ActorTypes

LEMMA CannotCreateKeepsInv == ASSUME IInv, NEW a \in Actors, CannotCreate(a) PROVE IInv'
<1> USE DEF IInv, CannotCreate, Does, Raise, Leaves, Handles, sourceVars
<1>1. LifeInv'
  BY LifeStutter
<1>2. AfterError(a) \in ActorTypes \ {"update", "check", "create"} /\ doing[a] = "create"
  BY DEF AfterError, ActorTypes
<1>3. MakersAreAlone' /\ ObstaclesHold' /\ doing' \in [Actors -> ActorTypes] /\ host' \in [Actors -> Hosts \cup {Unset}]
  BY <1>2, OthersMakeNothing
<1>4. created' \subseteq {h \in Hosts : rows'[h] > 0}
  BY DEF DiscoveryInv, TypeOK
<1>5. TypeOK' /\ (doing[Handler] # "idle" => services # Unset)'
  BY <1>1, <1>2, <1>4, TurnKeepsTypes
<1> QED BY <1>1, <1>3, <1>5 DEF DiscoveryInv, ActorTypes

LEMMA UpdateKeepsInv == ASSUME IInv, NEW a \in Actors, UpdateProfiles(a) PROVE IInv'
<1> USE DEF IInv, UpdateProfiles, Does, Return, Leaves, Handles, fetching
<1>1. LifeInv'
  BY LifeStutter
<1>2. PICK call \in {"next", "idle"} :
        doing' = [doing EXCEPT ![a] = call] /\ call = IF a = Fetcher THEN "next" ELSE "idle"
  OBVIOUS
<1>3. doing[a] = "update" /\ host' = [host EXCEPT ![a] = Unset] /\ UNCHANGED <<obstacle, rows, created>>
  OBVIOUS
<1>4. \A b \in Actors : /\ doing'[b] = (IF b = a THEN call ELSE doing[b])
                        /\ host'[b] = (IF b = a THEN Unset ELSE host[b])
  BY <1>2, <1>3 DEF DiscoveryInv
<1>5. Updating' = Updating \ {host[a]}
  BY <1>3, <1>4 DEF DiscoveryInv, MakersAreAlone, Updating
<1>6. profiles' = created' \ Updating'
  BY <1>3, <1>5 DEF DiscoveryInv, MakersAreAlone
<1>7. MakersAreAlone'
  BY <1>2, <1>3, <1>4, <1>6 DEF DiscoveryInv, MakersAreAlone
<1>8. ObstaclesHold'
  BY <1>2, <1>3, <1>4 DEF DiscoveryInv, ObstaclesHold
<1>9. TypeOK' /\ (doing[Handler] # "idle" => services # Unset)'
  <2>1. created' \subseteq {h \in Hosts : rows'[h] > 0}
    BY <1>3 DEF DiscoveryInv, TypeOK
  <2> QED BY <1>1, <1>2, <2>1, TurnKeepsTypes DEF ActorTypes, Actors
<1>10. doing' \in [Actors -> ActorTypes] /\ host' \in [Actors -> Hosts \cup {Unset}]
  BY <1>2, <1>3 DEF DiscoveryInv, ActorTypes
<1> QED BY <1>1, <1>3, <1>7, <1>8, <1>9, <1>10 DEF DiscoveryInv, ActorTypes

-------------------------------------------------------------------------------
(* The inductive invariant: the phases of the life cycle follow each other   *)
(* for their reasons, and each source has one maker.                       *)
THEOREM SpecIInv == Spec => []IInv
<1>1. Init => IInv
  BY LifeInitInv, DiscoveryInitInv DEF Init, IInv
<1>2. IInv /\ [Next]_vars => IInv'
  <2> SUFFICES ASSUME IInv, [Next]_vars PROVE IInv' OBVIOUS
  <2>1. CASE Live
    BY <2>1, LiveKeepsDiscoveryInv
  <2>2. CASE Begin
    BY <2>2, BeginKeepsInv
  <2>3. CASE \E h \in Hosts : Register(h)
    BY <2>3, RegisterKeepsInv
  <2>4. CASE Fetch
    BY <2>4, FetchKeepsInv
  <2>5. CASE Consume
    BY <2>5, ConsumeKeepsInv
  <2>6. ASSUME NEW a \in Actors, ActorStep(a) PROVE IInv'
    BY <2>6, CheckKeepsInv, CreateKeepsInv, CannotCreateKeepsInv, UpdateKeepsInv DEF ActorStep
  <2>7. CASE UNCHANGED vars
    <3>1. LifeInv'
      BY <2>7, LifeStutter DEF vars, IInv
    <3>2. UNCHANGED <<discoveryVars, services>>
      BY <2>7 DEF vars, lifeVars, plugins
    <3>3. TypeOK' /\ MakersAreAlone' /\ ObstaclesHold'
      BY <3>1, <3>2
         DEF LifeInv, IInv, DiscoveryInv, TypeOK, MakersAreAlone, ObstaclesHold, Updating, discoveryVars,
             fetching, sourceVars
    <3> QED BY <3>1, <3>2, <3>3 DEF IInv, DiscoveryInv, discoveryVars, sourceVars
  <2> QED BY <2>1, <2>2, <2>3, <2>4, <2>5, <2>6, <2>7 DEF Next
<1> QED BY <1>1, <1>2, PTL DEF Spec

(* dird serves with the bus and every service that could be loaded, and ends *)
(* for a signal, for want of the source service or of a server that starts,  *)
(* the bus being stopped (Controller.run).                                 *)
THEOREM SpecServesWhole == Spec => []ServesWhole
<1>1. IInv => ServesWhole
  BY DEF IInv, LifeInv, PhasesFollow, OnlyForASignal, ServesWhole, Wired, AllServices
<1> QED BY <1>1, SpecIInv, PTL

(* One source per server, handled once the services are there, and added    *)
(* to the profiles by whoever made it (_on_service_added).                 *)
THEOREM SpecDiscoveryAgrees == Spec => []DiscoveryAgrees
<1>1. IInv => DiscoveryAgrees
  <2> SUFFICES ASSUME IInv PROVE DiscoveryAgrees OBVIOUS
  <2>1. OneSourcePerServer
    BY DEF IInv, DiscoveryInv, ObstaclesHold, OneSourcePerServer
  <2>2. HandlersFindServices /\ ProfilesFollowSources
    BY DEF IInv, DiscoveryInv, MakersAreAlone, Updating, HandlersFindServices, ProfilesFollowSources
  <2> QED BY <2>1, <2>2 DEF IInv, DiscoveryInv, DiscoveryAgrees
<1> QED BY <1>1, SpecIInv, PTL
=============================================================================
