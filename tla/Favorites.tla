------------------------------- MODULE Favorites -------------------------------
(***************************************************************************)
(* _FavoritesService and FavoriteCRUD: users add and remove a contact of a  *)
(* source they name, and list what their favorites are worth, while sources *)
(* are deleted.  A source is found by its name, first among those of the    *)
(* tenant and then among all of them; an event follows the commit; a list   *)
(* is a future per source, on the service's own executor.                  *)
(***************************************************************************)
EXTENDS Naturals, FiniteSets

CONSTANTS
  Clients,       \* requests, numbers from 1
  Asks,          \* what they may be: [kind, user, name, source]
  FavoriteSources, Name, Backend, Owner,  \* sources, with a function for each column
  UserTenant,    \* [user -> tenant]
  Workers,       \* executor_workers
  NoReply

(* A request is on the favorites of a user, or it deletes a source.  A name  *)
(* is unique among the sources of a tenant.                                *)
ASSUME FavoritesAssumption ==
  /\ \A a \in Asks :
       a.kind \in {"add", "remove", "list", "deleteSource"} /\ a.user \in DOMAIN UserTenant
  /\ \A s, t \in FavoriteSources : Name[s] = Name[t] /\ Owner[s] = Owner[t] => s = t
  /\ Workers \in Nat
  /\ NoReply \notin {200, 204, 404, 409, 500}

VARIABLES
  ask, stage, reply,  \* of each request: what it is, where it is, its status
  sources,      \* the rows of dird_source
  favorites,    \* the rows of dird_favorite: <<user, source>>
  found,        \* the sources a request has read
  asked,        \* those a list has yet to get a plugin for
  queue,        \* futures that no worker has taken: <<request, source>>
  working,      \* those that one runs
  results,      \* sources whose contacts a list has
  seen,         \* favorites of a subscriber to the events: <<user, name>>
  health,       \* of each source: "ok", "raises", "hangs", or "missing": it cannot be loaded
  timeout,      \* whether lookup_timeout is configured
  since         \* the requests in progress with this one, or begun after it

favoriteVars == <<ask, stage, reply, sources, favorites, found, asked, queue, working, results, seen, health, timeout, since>>
setting == <<ask, health, timeout>>
lists == <<asked, queue, working, results>>

Named(name) == {s \in sources : Name[s] = name}
OfTenant(u) == {s \in sources : Owner[s] = UserTenant[u]}
Busy(r) == stage[r] \notin {"idle", "end"}

Go(r, next) == stage' = [stage EXCEPT ![r] = next] /\ UNCHANGED reply
End(r, status) ==
  /\ stage' = [stage EXCEPT ![r] = "end"]
  /\ reply' = [reply EXCEPT ![r] = status]
Keep(r, x) == found' = [found EXCEPT ![r] = x]

Arrive(r) ==
  /\ stage[r] = "idle" /\ Go(r, ask[r].kind)
  /\ since' = [q \in Clients |->
       IF q = r THEN {p \in Clients : Busy(p)}
       ELSE IF stage[q] # "idle" THEN since[q] \cup {r} ELSE since[q]]
  /\ UNCHANGED <<sources, favorites, found, lists, seen, setting>>

(***************************************************************************)
(* new_favorite and remove_favorite: the sources of the tenant are listed,  *)
(* and the one of that name gives its back-end.                            *)
(***************************************************************************)
FindSource(r) ==
  /\ stage[r] \in {"add", "remove"}
  /\ LET matching == OfTenant(ask[r].user) \cap Named(ask[r].name)
     IN \/ matching = {} /\ End(r, 404) /\ UNCHANGED found
        \/ \E s \in matching : Keep(r, {s})
             /\ Go(r, IF stage[r] = "add" THEN "create" ELSE "select")
  /\ UNCHANGED <<sources, favorites, lists, seen, setting, since>>

(* FavoriteCRUD.create: the first source of that name and back-end, None if  *)
(* it is gone by now, and the row.  Its keys refuse one that is there, and   *)
(* one whose source was deleted in between.                                *)
Bound(name, first) == {s \in Named(name) : \E t \in first : Backend[s] = Backend[t]}

Create(r) ==
  /\ stage[r] = "create"
  /\ \/ Bound(ask[r].name, found[r]) = {} /\ End(r, 500) /\ UNCHANGED found
     \/ \E s \in Bound(ask[r].name, found[r]) : Keep(r, {s}) /\ Go(r, "insert")
  /\ UNCHANGED <<sources, favorites, lists, seen, setting, since>>

AddFavorite(r) ==
  /\ stage[r] = "insert"
  /\ \E s \in found[r] :
       IF s \notin sources \/ <<ask[r].user, s>> \in favorites
       THEN End(r, 409) /\ UNCHANGED favorites
       ELSE favorites' = favorites \cup {<<ask[r].user, s>>} /\ Go(r, "publish")
  /\ UNCHANGED <<sources, found, lists, seen, setting, since>>

(* FavoriteCRUD.delete: the sources of that name, and then the rows.        *)
Matching(name) == Named(name)
SelectSources(r) ==
  /\ stage[r] = "select"
  /\ IF Named(ask[r].name) = {} THEN End(r, 404) /\ UNCHANGED found
     ELSE Keep(r, Matching(ask[r].name)) /\ Go(r, "delete")
  /\ UNCHANGED <<sources, favorites, lists, seen, setting, since>>

DeleteFavorites(r) ==
  /\ stage[r] = "delete"
  /\ LET mine == {f \in favorites : f[1] = ask[r].user /\ f[2] \in found[r]}
     IN /\ favorites' = favorites \ mine
        /\ IF mine = {} THEN End(r, 404) ELSE Go(r, "publish")
  /\ UNCHANGED <<sources, found, lists, seen, setting, since>>

(* The event follows the commit, in any order with those of other requests. *)
Event(r) ==
  LET favorite == {<<ask[r].user, ask[r].name>>}
  IN IF ask[r].kind = "add" THEN seen \cup favorite ELSE seen \ favorite

PublishEvent(r) ==
  /\ stage[r] = "publish"
  /\ seen' = Event(r)
  /\ End(r, 204)
  /\ UNCHANGED <<sources, favorites, found, lists, setting, since>>

(* A source is deleted with its favorites, and without an event.            *)
DeleteSource(r) ==
  /\ stage[r] = "deleteSource"
  /\ sources' = sources \ {ask[r].source}
  /\ favorites' = {f \in favorites : f[2] # ask[r].source}
  /\ End(r, 204)
  /\ UNCHANGED <<found, lists, seen, setting, since>>

(***************************************************************************)
(* favorites: the profile is read first, with sources that are those of the *)
(* tenant here; favorite_ids keeps those whose name one of the favorites    *)
(* has.  Each is a future, unless there is no plugin for it: it cannot be   *)
(* loaded, or it was deleted and no plugin of it is left in the cache.      *)
(***************************************************************************)
FavoriteNames(u) == {Name[f[2]] : f \in {g \in favorites : g[1] = u}}

ReadProfile(r) ==
  /\ stage[r] = "list"
  /\ asked' = [asked EXCEPT ![r] = OfTenant(ask[r].user)]
  /\ Go(r, "favorites")
  /\ UNCHANGED <<sources, favorites, found, queue, working, results, seen, setting, since>>

ReadFavorites(r) ==
  /\ stage[r] = "favorites"
  /\ Keep(r, {f[2] : f \in {g \in favorites : g[1] = ask[r].user}})
  /\ asked' = [asked EXCEPT ![r] = {s \in @ : Name[s] \in FavoriteNames(ask[r].user)}]
  /\ Go(r, "get")
  /\ UNCHANGED <<sources, favorites, queue, working, results, seen, setting, since>>

AskSourceStops(r) ==
  /\ stage[r] = "get"
  /\ \E s \in asked[r] :
       \/ /\ health[s] # "missing"
          /\ asked' = [asked EXCEPT ![r] = @ \ {s}] /\ queue' = queue \cup {<<r, s>>}
       \/ /\ s \notin sources \/ health[s] = "missing"
          /\ asked' = [asked EXCEPT ![r] = {}] /\ UNCHANGED queue
  /\ UNCHANGED <<stage, reply, sources, favorites, found, working, results, seen, setting, since>>
AskSource(r) ==
  /\ stage[r] = "get"
  /\ \E s \in asked[r] :
       /\ asked' = [asked EXCEPT ![r] = @ \ {s}]
       /\ \/ health[s] # "missing" /\ queue' = queue \cup {<<r, s>>}
          \/ (s \notin sources \/ health[s] = "missing") /\ UNCHANGED queue
  /\ UNCHANGED <<stage, reply, sources, favorites, found, working, results, seen, setting, since>>

Take(task) ==
  /\ Cardinality(working) < Workers
  /\ queue' = queue \ {task} /\ working' = working \cup {task}
  /\ UNCHANGED <<ask, stage, reply, sources, favorites, found, asked, results, seen, health, timeout, since>>

(* RaiseStopper: a source that raises has no contacts to give.              *)
Finish(task) ==
  /\ health[task[2]] # "hangs"
  /\ working' = working \ {task}
  /\ results' = IF stage[task[1]] = "get" /\ health[task[2]] = "ok"
                THEN [results EXCEPT ![task[1]] = @ \cup {task[2]}] ELSE results
  /\ UNCHANGED <<ask, stage, reply, sources, favorites, found, asked, queue, seen, health, timeout, since>>

FuturesOf(r) == {t \in queue \cup working : t[1] = r}
AllCompleted(r) == FuturesOf(r) = {}

Answer(r) ==
  /\ stage[r] = "get" /\ asked[r] = {}
  /\ AllCompleted(r) \/ timeout
  /\ End(r, 200)
  /\ UNCHANGED <<sources, favorites, found, lists, seen, setting, since>>

StepOf(r) ==
  \/ FindSource(r) \/ Create(r) \/ AddFavorite(r) \/ SelectSources(r) \/ DeleteFavorites(r)
  \/ PublishEvent(r) \/ DeleteSource(r)
  \/ ReadProfile(r) \/ ReadFavorites(r) \/ AskSource(r) \/ Answer(r)

FavoritesInit ==
  /\ ask \in [Clients -> Asks]
  /\ stage = [r \in Clients |-> "idle"]
  /\ reply = [r \in Clients |-> NoReply]
  /\ sources = FavoriteSources
  /\ favorites \in SUBSET {f \in (DOMAIN UserTenant) \X FavoriteSources : UserTenant[f[1]] = Owner[f[2]]}
  /\ found = [r \in Clients |-> {}] /\ asked = [r \in Clients |-> {}]
  /\ queue = {} /\ working = {}
  /\ results = [r \in Clients |-> {}]
  /\ seen = {<<f[1], Name[f[2]]>> : f \in favorites}
  /\ health \in {h \in [FavoriteSources -> {"ok", "raises", "hangs", "missing"}] :
                   Cardinality({s \in FavoriteSources : h[s] # "ok"}) <= 1}
  /\ timeout \in {FALSE} \cup {ask[r].kind = "list" : r \in Clients}  \* only a list would tell
  /\ \A s \in FavoriteSources : health[s] # "ok" =>
       \E r \in Clients : ask[r].kind = "list" /\ UserTenant[ask[r].user] = Owner[s]
  /\ since = [r \in Clients |-> {}]

FavoritesNext ==
  \/ \E r \in Clients : Arrive(r) \/ StepOf(r)
  \/ \E task \in queue : Take(task)
  \/ \E task \in working : Finish(task)

FavoritesTypeOK ==
  /\ ask \in [Clients -> Asks] /\ since \in [Clients -> SUBSET Clients]
  /\ asked \in [Clients -> SUBSET FavoriteSources]
  /\ \A r \in Clients :
       /\ stage[r] \in {"idle", "add", "create", "insert", "remove", "select", "delete", "publish", "deleteSource",
                        "list", "favorites", "get", "end"}
       /\ (reply[r] # NoReply) <=> (stage[r] = "end")
  /\ sources \subseteq FavoriteSources
  /\ \A f \in favorites : f[1] \in DOMAIN UserTenant /\ f[2] \in sources
  /\ Cardinality(working) <= Workers /\ queue \cap working = {}

-------------------------------------------------------------------------------
Concerns(r, u, n) == ask[r].kind \in {"add", "remove"} /\ ask[r].user = u /\ ask[r].name = n
Overlap(q, r) == q \in since[r] /\ r \in since[q]
Deleting(s) == \E r \in Clients : ask[r].kind = "deleteSource" /\ ask[r].source = s /\ stage[r] # "idle"

(* A favorite is of a source of its user's tenant, or of one with the same   *)
(* name and back-end in another: create looks for the source in every       *)
(* tenant, and in none other than those that share both.                    *)
FavoritesAreOfTheirTenant ==
  \A f \in favorites : \E s \in FavoriteSources :
    Owner[s] = UserTenant[f[1]] /\ Name[s] = Name[f[2]] /\ Backend[s] = Backend[f[2]]

(* A contact that was removed from the favorites is one no more, whatever    *)
(* source of that name held it, until the user adds it again.               *)
RemovedStaysAway ==
  \A r \in Clients : reply[r] = 204 /\ ask[r].kind = "remove" =>
    \/ \E q \in since[r] : ask[q].kind = "add" /\ Concerns(q, ask[r].user, ask[r].name)
    \/ \A f \in favorites : f[1] = ask[r].user => Name[f[2]] # ask[r].name

(* Who follows the events knows the favorites of a user, unless two requests *)
(* about one overlapped, whose events may come in the other order, or a     *)
(* source was deleted, which tells nobody.                                  *)
SubscribersAgree ==
  \A u \in DOMAIN UserTenant, n \in {Name[s] : s \in FavoriteSources} :
    \/ \E r \in Clients : Concerns(r, u, n) /\ Busy(r)
    \/ \E q, r \in Clients : q # r /\ Concerns(q, u, n) /\ Concerns(r, u, n) /\ Overlap(q, r)
    \/ \E s \in FavoriteSources : Name[s] = n /\ Deleting(s)
    \/ <<u, n>> \in seen <=> n \in FavoriteNames(u)

(* A list has the contacts of every favorite of the user, but for a source   *)
(* that has no plugin or raised, one of another tenant, one that was deleted *)
(* while the list was made, or when lookup_timeout gave up.  The answer is   *)
(* 200 in all of them and does not tell what it lacks.                      *)
ListIsWhole ==
  \A r \in Clients : ask[r].kind = "list" /\ reply[r] = 200 /\ ~timeout =>
    \A s \in found[r] :
      \/ s \in results[r] \/ health[s] # "ok" \/ Owner[s] # UserTenant[ask[r].user]
      \/ \E q \in since[r] : ask[q].kind = "deleteSource" /\ ask[q].source = s

(* Favorites, their events and their list tell of the same contacts.       *)
FavoritesAgree ==
  /\ FavoritesTypeOK /\ FavoritesAreOfTheirTenant /\ RemovedStaysAway /\ SubscribersAgree
  /\ ListIsWhole

(* A list is answered unless a source it asks hangs, or hung futures hold    *)
(* every worker; with lookup_timeout it always is.                          *)
Hung(tasks) == {t \in tasks : health[t[2]] = "hangs"}
ListsAreAnswered ==
  \A r \in Clients :
    (stage[r] \in {"list", "favorites", "get"}) ~>
      (reply[r] # NoReply \/ (~timeout /\ (Hung(FuturesOf(r)) # {} \/ Cardinality(Hung(working)) = Workers)))

(* The threads of the server and of the executor go on; the futures are     *)
(* finitely many, so that each is reached.                                 *)
FavoritesFairness ==
  /\ \A r \in Clients : WF_favoriteVars(StepOf(r))
  /\ WF_favoriteVars(\E task \in queue : Take(task))
  /\ WF_favoriteVars(\E task \in working : Finish(task))
=============================================================================
