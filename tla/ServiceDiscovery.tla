--------------------------- MODULE ServiceDiscovery ---------------------------
(***************************************************************************)
(* The service that makes a source of each Wazo server that registers in    *)
(* Consul: a thread that lists the healthy ones, from when the service is   *)
(* loaded until it succeeds, and the events of those that register later.   *)
(* Both do _on_service_added, at their own pace, in the process of          *)
(* Lifecycle, over rows that outlive it.                                   *)
(***************************************************************************)
EXTENDS Lifecycle

CONSTANTS
  Hosts,        \* the servers that the configuration has a template for
  Names,        \* the names of the services it watches, in their order
  ServiceOf,    \* [server -> name of its service]
  Obstacles,    \* what may keep servers from a source: values of obstacle
  MaxFailures   \* bound on the failures of Consul and of the database

VARIABLES
  healthy,   \* servers registered in Consul
  events,    \* service.registered, in the queue of the consumer
  doing,     \* of the fetcher and of the consumer's thread: its next call
  host,      \* the server it handles
  listed,    \* how many of Names the fetcher has listed
  batch,     \* servers of the last that it has still to handle
  obstacle,  \* [host -> why it never gets a source: "none", "template" or "homonym"]
  rows,      \* [host -> wazo sources of that name in the database]
  profiles,  \* servers added to the configuration in memory
  created,   \* servers whose source this process created
  missed,    \* servers whose event came too early or could not be handled
  failures

fetching == <<listed, batch>>
sourceVars == <<obstacle, rows, profiles, created>>
discoveryVars == <<healthy, events, doing, host, fetching, sourceVars, missed, failures>>
vars == <<lifeVars, discoveryVars>>

(* The watched services are the keys of a dictionary.                       *)
ASSUME DiscoveryAssumption ==
  /\ Names \in Seq(STRING) /\ \A i, j \in DOMAIN Names : Names[i] = Names[j] => i = j
  /\ ServiceOf \in [Hosts -> {Names[i] : i \in DOMAIN Names}]
  /\ Obstacles \subseteq [Hosts -> {"none", "template", "homonym"}]
  /\ MaxFailures \in Nat

Fetcher == "fetcher"
Handler == "handler"
Actors == {Fetcher, Handler}

Does(a, call) == doing' = [doing EXCEPT ![a] = call]
Handles(a, h) == host' = [host EXCEPT ![a] = h]

IsListed(h) == \E i \in 1 .. listed : Names[i] = ServiceOf[h]

(* A server registers: its event is lost while nobody consumes it.          *)
Register(h) ==
  /\ h \notin healthy /\ healthy' = healthy \cup {h}
  /\ events' = IF bus THEN events \cup {h} ELSE events
  /\ missed' = IF ~bus /\ IsListed(h) THEN missed \cup {h} ELSE missed
  /\ UNCHANGED <<lifeVars, doing, host, fetching, sourceVars, failures>>

(***************************************************************************)
(* _add_remote_services lists and handles one service after the other, and  *)
(* begins again with the first after an error.                             *)
(***************************************************************************)
StartFetcher ==
  /\ ~Ended /\ Discovery \in loaded \ {failing} /\ doing[Fetcher] = "off"
  /\ Does(Fetcher, "list")
  /\ UNCHANGED <<lifeVars, healthy, events, host, fetching, sourceVars, missed, failures>>

List ==
  /\ ~Ended /\ doing[Fetcher] = "list" /\ listed < Len(Names)
  /\ \/ /\ listed' = listed + 1 /\ batch' = {h \in healthy : ServiceOf[h] = Names[listed + 1]}
        /\ Does(Fetcher, "next") /\ UNCHANGED failures
     \/ /\ failures < MaxFailures /\ failures' = failures + 1 /\ listed' = 0
        /\ UNCHANGED <<batch, doing>>
  /\ UNCHANGED <<lifeVars, healthy, events, host, sourceVars, missed>>

HandleNext ==
  /\ ~Ended /\ doing[Fetcher] = "next"
  /\ \E h \in batch : Handles(Fetcher, h) /\ batch' = batch \ {h}
  /\ Does(Fetcher, "check")
  /\ UNCHANGED <<lifeVars, healthy, events, listed, sourceVars, missed, failures>>

ListIsHandled ==
  /\ ~Ended /\ doing[Fetcher] \in {"list", "next"} /\ batch = {}
  /\ IF listed = Len(Names) THEN Does(Fetcher, "done")
     ELSE doing[Fetcher] = "next" /\ Does(Fetcher, "list")
  /\ UNCHANGED <<lifeVars, healthy, events, host, fetching, sourceVars, missed, failures>>

(* _on_service_registered_event, in the thread of the consumer.             *)
Consume ==
  /\ bus /\ doing[Handler] = "idle"
  /\ \E h \in events : events' = events \ {h} /\ Handles(Handler, h)
  /\ Does(Handler, "check")
  /\ UNCHANGED <<lifeVars, healthy, fetching, sourceVars, missed, failures>>

(***************************************************************************)
(* _on_service_added.  What it raises, the fetcher tries again and the      *)
(* consumer drops.                                                         *)
(***************************************************************************)
Leaves(a, call) == Does(a, call) /\ Handles(a, Unset)
Return(a) == Leaves(a, IF a = Fetcher THEN "next" ELSE "idle")
FetcherStopsOnError(a) == IF a = Fetcher THEN "done" ELSE "idle"
AfterError(a) == IF a = Fetcher THEN "list" ELSE "idle"
Raise(a) ==
  /\ Leaves(a, AfterError(a))
  /\ listed' = IF a = Fetcher THEN 0 ELSE listed
  /\ batch' = IF a = Fetcher THEN {} ELSE batch
Drops(a) == missed' = IF a = Handler THEN missed \cup {host[a]} ELSE missed

(* list_ asks for wazo sources only, create for a name that is unique among  *)
(* the sources of the tenant, of whatever back-end.                        *)
Exists(h) == rows[h] > 0
Refuses(h) == rows[h] > 0 \/ obstacle[h] = "homonym"

(* The template is rendered, and the source service looked for.             *)
CannotCheck(a) ==
  /\ ~Ended /\ doing[a] = "check"
  /\ \/ obstacle[host[a]] = "template" /\ UNCHANGED missed
     \/ obstacle[host[a]] # "template" /\ services = Unset /\ Drops(a)
  /\ Raise(a)
  /\ UNCHANGED <<lifeVars, healthy, events, sourceVars, failures>>

CheckThenUpdate(a) ==
  /\ ~Ended /\ doing[a] = "check" /\ obstacle[host[a]] # "template" /\ services # Unset
  /\ Does(a, IF Exists(host[a]) THEN "update" ELSE "create") /\ UNCHANGED host
  /\ UNCHANGED <<lifeVars, healthy, events, fetching, sourceVars, missed, failures>>
Check(a) ==
  /\ ~Ended /\ doing[a] = "check" /\ obstacle[host[a]] # "template" /\ services # Unset
  /\ IF Exists(host[a]) THEN Return(a) ELSE Does(a, "create") /\ UNCHANGED host
  /\ UNCHANGED <<lifeVars, healthy, events, fetching, sourceVars, missed, failures>>

Create(a) ==
  /\ ~Ended /\ doing[a] = "create" /\ ~Refuses(host[a]) /\ Does(a, "update")
  /\ rows' = [rows EXCEPT ![host[a]] = @ + 1] /\ created' = created \cup {host[a]}
  /\ UNCHANGED <<lifeVars, healthy, events, host, fetching, obstacle, profiles, missed, failures>>

CannotCreate(a) ==
  /\ ~Ended /\ doing[a] = "create" /\ Raise(a)
  /\ \/ Refuses(host[a]) /\ UNCHANGED <<missed, failures>>
     \/ failures < MaxFailures /\ failures' = failures + 1 /\ Drops(a)
  /\ UNCHANGED <<lifeVars, healthy, events, sourceVars>>

UpdateProfiles(a) ==
  /\ ~Ended /\ doing[a] = "update"
  /\ profiles' = profiles \cup {host[a]} /\ Return(a)
  /\ UNCHANGED <<lifeVars, healthy, events, fetching, obstacle, rows, created, missed, failures>>

Begin ==
  /\ Restart
  /\ doing' = [a \in Actors |-> IF a = Fetcher THEN "off" ELSE "idle"]
  /\ profiles' = {} /\ created' = {} /\ missed' = {} /\ events' = {}
  /\ listed' = 0 /\ batch' = {}
  /\ host' = [a \in Actors |-> Unset]
  /\ UNCHANGED <<healthy, obstacle, rows, failures>>

Init ==
  /\ LifeInit
  /\ healthy = {} /\ rows = [h \in Hosts |-> 0]
  /\ obstacle \in Obstacles
  /\ events = {} /\ listed = 0 /\ batch = {} /\ profiles = {} /\ created = {} /\ missed = {} /\ failures = 0
  /\ doing = [a \in Actors |-> IF a = Fetcher THEN "off" ELSE "idle"]
  /\ host = [a \in Actors |-> Unset]

ActorStep(a) == CannotCheck(a) \/ Check(a) \/ Create(a) \/ CannotCreate(a) \/ UpdateProfiles(a)
Fetch == StartFetcher \/ List \/ HandleNext \/ ListIsHandled
Live == LifeNext /\ UNCHANGED discoveryVars

Next == Live \/ Begin \/ (\E h \in Hosts : Register(h)) \/ Fetch \/ Consume \/ (\E a \in Actors : ActorStep(a))

Spec == Init /\ [][Next]_vars
Fairness ==
  /\ LifeFairness
  /\ WF_vars(Fetch) /\ WF_vars(Consume) /\ \A a \in Actors : WF_vars(ActorStep(a))
FairSpec == Spec /\ Fairness

TypeOK ==
  /\ LifeTypeOK
  /\ healthy \subseteq Hosts /\ events \subseteq healthy /\ batch \subseteq healthy
  /\ listed \in 0 .. Len(Names)
  /\ doing[Fetcher] \in {"off", "list", "next", "check", "create", "update", "done"}
  /\ doing[Handler] \in {"idle", "check", "create", "update"}
  /\ created \subseteq {h \in Hosts : rows[h] > 0}

-------------------------------------------------------------------------------
(* The thread and an event may both find that a source is missing: one is    *)
(* made, for the name of a source is unique in its tenant, and none when a    *)
(* source of another back-end has the name or the template is wrong.       *)
OneSourcePerServer == \A h \in Hosts : rows[h] <= IF obstacle[h] = "none" THEN 1 ELSE 0

(* A handler of events runs when every service is there: the bus is started  *)
(* after them.  The fetcher, started while they are loaded, may be early.   *)
HandlersFindServices == doing[Handler] # "idle" /\ ~Ended => services # Unset

(* The profiles of the configuration have the sources this process created   *)
(* and no other: what an earlier run created is not added again.            *)
ProfilesFollowSources ==
  ~Ended => profiles = created \ {host[a] : a \in {b \in Actors : doing[b] = "update"}}

(* The thread, the events and earlier runs of the process agree on sources. *)
DiscoveryAgrees ==
  TypeOK /\ OneSourcePerServer /\ HandlersFindServices /\ ProfilesFollowSources

(* A server is found, or nothing will try again: it registered after it was  *)
(* listed and before the bus was consumed, or its event failed.             *)
IsSettled(h) ==
  rows[h] > 0 \/ Ended \/ h \in missed \/ failing = Discovery \/ obstacle[h] # "none"

(* The thread begins again at each error: a server that it can never handle  *)
(* keeps it from those listed with it or after.                            *)
IsStarved(h) ==
  \E g \in healthy : obstacle[g] # "none" /\
     \E i \in DOMAIN Names : Names[i] = ServiceOf[g] /\ \A j \in 1 .. i - 1 : Names[j] # ServiceOf[h]

(* While dird runs with its discovery, a server whose event comes gets a     *)
(* source, unless dird is killed, and one that is listed does too but for    *)
(* one that cannot, before.                                                *)
EveryServerIsFound ==
  \A h \in Hosts : /\ [](h \in events => <>(IsSettled(h) \/ loaded = {}))
                  /\ [](h \in healthy => <>(IsSettled(h) \/ IsStarved(h)))
=============================================================================
