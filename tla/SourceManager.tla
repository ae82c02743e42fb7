--------------------------- MODULE SourceManager ---------------------------
(***************************************************************************)
(* The cache of source plugins (wazo_dird/source_manager.py) together with *)
(* everything that writes what it caches: the source service and the       *)
(* source table behind it, the rename of a phonebook (a phonebook source   *)
(* takes its name from it) and the registry of confd clients the wazo and  *)
(* conference back-ends share.                                             *)
(*                                                                         *)
(* HTTP threads call get() while others edit or delete the same sources;   *)
(* the main thread unloads every plugin when the server has been told to   *)
(* stop, while the last requests may still be running.                     *)
(*                                                                         *)
(* A plugin is an object: heap[i] is the i-th plugin ever instantiated and *)
(* the cache maps keys to references, 0 standing for both an absent key    *)
(* and a key bound to None (get() tells them apart by truth value only).   *)
(***************************************************************************)
EXTENDS Naturals, Sequences

CONSTANTS
  Uuids,             \* source uuids, a fresh one for every source created
  Names,             \* source names
  Threads,           \* HTTP threads
  Tenants,
  TenantOf,          \* the tenant each source is created in
  ConfdSources,      \* sources of a back-end that uses the confd registry
  PhonebookSources,  \* sources whose name is the name of their phonebook
  FragileSources,    \* back-ends whose unload() needs what load() sets (LDAP)
  None,
  MaxGen,            \* bound: committed versions of one source
  MaxLoads           \* bound: plugins instantiated

(***************************************************************************)
(* _sources holds uuids and names in one dict; the code relies on no       *)
(* source being named like the uuid of another one.                        *)
(***************************************************************************)
ASSUME ConstantsAssumption ==
  /\ Uuids \cap Names = {}
  /\ TenantOf \in [Uuids -> Tenants]
  /\ None \notin Threads
  /\ ConfdSources \subseteq Uuids
  /\ PhonebookSources \subseteq Uuids
  /\ FragileSources \subseteq Uuids
  /\ MaxGen \in Nat
  /\ MaxLoads \in Nat

VARIABLES
  row,      \* dird_source: what is committed, NoRow when there is no such row
  gen,      \* ghost: versions of the row committed so far
  acked,    \* ghost: newest version whose create or edit call has returned
  heap,     \* every plugin instantiated, in order
  sources,  \* SourceManager._sources
  clients,  \* registry._clients: version of the config the client was built from
  lock,     \* holder of SourceManager._source_lock
  pc, tgt, cfg, mark, got,  \* per thread: step, source, config read, version, result
  phase,    \* of the main thread
  todo,     \* keys unload_sources has not visited yet
  late      \* ghost: a plugin was stored once unload_sources had started

Keys == Uuids \cup Names

NoRow == [ver |-> 0, name |-> None]

NoPlugin == 0

Row == {NoRow} \cup [ver : Nat \ {0}, name : Names]

Plugin == [uuid : Uuids, name : Names, ver : Nat \ {0}, up : BOOLEAN,
           client : Nat, unloads : Nat]

dbVars == <<row, gen, acked>>
threadVars == <<pc, tgt, cfg, mark, got>>
mainVars == <<phase, todo, late>>
vars == <<row, gen, acked, heap, sources, clients, lock, pc, tgt, cfg, mark,
          got, phase, todo, late>>

Init ==
  /\ row = [u \in Uuids |-> NoRow]
  /\ gen = [u \in Uuids |-> 0]
  /\ acked = [u \in Uuids |-> 0]
  /\ heap = <<>>
  /\ sources = [k \in Keys |-> NoPlugin]
  /\ clients = [u \in Uuids |-> 0]
  /\ lock = None
  /\ pc = [t \in Threads |-> "idle"]
  /\ tgt = [t \in Threads |-> None]
  /\ cfg = [t \in Threads |-> NoRow]
  /\ mark = [t \in Threads |-> 0]
  /\ got = [t \in Threads |-> NoPlugin]
  /\ phase = "running"
  /\ todo = {}
  /\ late = FALSE

----------------------------------------------------------------------------
(* The source table, written by the source and phonebook services.         *)

(* Requests are accepted until the server is told to stop; those under way *)
(* go on while the main thread unloads.                                    *)
Serving == phase = "running"

(* unique (name, tenant_uuid), on the stored name: a phonebook source      *)
(* stores a random one.                                                    *)
NameIsFree(u, n) ==
  u \in PhonebookSources \/
  \A v \in Uuids \ ({u} \cup PhonebookSources) :
     row[v] # NoRow /\ TenantOf[v] = TenantOf[u] => row[v].name # n

NextVersion(u, n) ==
  /\ gen[u] < MaxGen
  /\ NameIsFree(u, n)
  /\ gen' = [gen EXCEPT ![u] = @ + 1]
  /\ row' = [row EXCEPT ![u] = [ver |-> gen[u] + 1, name |-> n]]

Create(u, n) ==
  /\ Serving
  /\ gen[u] = 0
  /\ NextVersion(u, n)
  /\ acked' = [acked EXCEPT ![u] = 1]
  /\ UNCHANGED <<heap, sources, clients, lock, threadVars, mainVars>>

(* Mutant: delete() also pops the plugin, as edit() does.                  *)
DeleteDropsPlugin(u) ==
  /\ Serving
  /\ row[u] # NoRow
  /\ row' = [row EXCEPT ![u] = NoRow]
  /\ sources' = [sources EXCEPT ![u] = NoPlugin]
  /\ UNCHANGED <<gen, acked, heap, clients, lock, threadVars, mainVars>>

(* delete() leaves the cache alone.                                        *)
Delete(u) ==
  /\ Serving
  /\ row[u] # NoRow
  /\ row' = [row EXCEPT ![u] = NoRow]
  /\ UNCHANGED <<gen, acked, heap, sources, clients, lock, threadVars, mainVars>>

(* edit(): the transaction commits, then the plugin is invalidated.        *)
EditCommit(t, u, n) ==
  /\ Serving /\ pc[t] = "idle"
  /\ row[u] # NoRow
  /\ u \in PhonebookSources => n = row[u].name
  /\ NextVersion(u, n)
  /\ pc' = [pc EXCEPT ![t] = "invalidate"]
  /\ tgt' = [tgt EXCEPT ![t] = u]
  /\ mark' = [mark EXCEPT ![t] = gen[u] + 1]
  /\ UNCHANGED <<acked, heap, sources, clients, lock, cfg, got, mainVars>>

(* The connection drops after the server committed: new_session turns the  *)
(* OperationalError into DatabaseServiceUnavailable, edit() never reaches  *)
(* invalidate() and its caller is told it failed.                          *)
EditUnacknowledged(t, u, n) ==
  /\ Serving /\ pc[t] = "idle"
  /\ row[u] # NoRow
  /\ u \in PhonebookSources => n = row[u].name
  /\ NextVersion(u, n)
  /\ UNCHANGED <<acked, heap, sources, clients, lock, threadVars, mainVars>>

RenamePhonebook(u, n) ==
  /\ Serving
  /\ u \in PhonebookSources
  /\ row[u] # NoRow
  /\ row' = [row EXCEPT ![u].name = n]
  /\ UNCHANGED <<gen, acked, heap, sources, clients, lock, threadVars, mainVars>>

----------------------------------------------------------------------------
(* SourceManager: every step from GetMiss to the store holds _source_lock. *)

EndRequest(t) ==
  /\ pc' = [pc EXCEPT ![t] = "idle"]
  /\ tgt' = [tgt EXCEPT ![t] = None]
  /\ cfg' = [cfg EXCEPT ![t] = NoRow]
  /\ mark' = [mark EXCEPT ![t] = 0]
  /\ got' = [got EXCEPT ![t] = NoPlugin]

Higher(a, b) == IF a > b THEN a ELSE b

(* A key comes or goes, bound to None maybe: the dict changes size, and      *)
(* unload_sources, which may be walking through it, raises at its next turn. *)
MayResize ==
  /\ \/ UNCHANGED phase
     \/ phase = "unloading" /\ phase' = "aborted"
  /\ UNCHANGED <<todo, late>>

(* Mutant: invalidate() does not wait for the lock.                        *)
InvalidateWithoutLock(t) ==
  /\ pc[t] = "invalidate"
  /\ sources' = [sources EXCEPT ![tgt[t]] = NoPlugin]
  /\ acked' = [acked EXCEPT ![tgt[t]] = Higher(@, mark[t])]
  /\ EndRequest(t)
  /\ MayResize /\ UNCHANGED <<row, gen, heap, clients, lock>>

(* Mutant: the plugin is popped by its name, the other key of the dict.    *)
InvalidateByName(t) ==
  /\ pc[t] = "invalidate"
  /\ lock = None
  /\ sources' = [sources EXCEPT ![row[tgt[t]].name] = NoPlugin]
  /\ acked' = [acked EXCEPT ![tgt[t]] = Higher(@, mark[t])]
  /\ EndRequest(t)
  /\ MayResize /\ UNCHANGED <<row, gen, heap, clients, lock>>

Invalidate(t) ==
  /\ pc[t] = "invalidate"
  /\ lock = None
  /\ sources' = [sources EXCEPT ![tgt[t]] = NoPlugin]
  /\ acked' = [acked EXCEPT ![tgt[t]] = Higher(@, mark[t])]
  /\ EndRequest(t)
  /\ MayResize /\ UNCHANGED <<row, gen, heap, clients, lock>>

CallGet(t, u) ==
  /\ Serving /\ pc[t] = "idle"
  /\ pc' = [pc EXCEPT ![t] = "get"]
  /\ tgt' = [tgt EXCEPT ![t] = u]
  /\ mark' = [mark EXCEPT ![t] = acked[u]]
  /\ UNCHANGED <<dbVars, heap, sources, clients, lock, cfg, got, mainVars>>

GetHit(t) ==
  /\ pc[t] = "get"
  /\ lock = None
  /\ sources[tgt[t]] # NoPlugin
  /\ got' = [got EXCEPT ![t] = sources[tgt[t]]]
  /\ pc' = [pc EXCEPT ![t] = "got"]
  /\ UNCHANGED <<dbVars, heap, sources, clients, lock, tgt, cfg, mark, mainVars>>

(* Mutant: the cache is looked up outside the critical section.            *)
GetMissWithoutLock(t) ==
  /\ pc[t] = "get"
  /\ sources[tgt[t]] = NoPlugin
  /\ lock' = t
  /\ pc' = [pc EXCEPT ![t] = "load"]
  /\ UNCHANGED <<dbVars, heap, sources, clients, tgt, cfg, mark, got, mainVars>>

GetMiss(t) ==
  /\ pc[t] = "get"
  /\ lock = None
  /\ sources[tgt[t]] = NoPlugin
  /\ lock' = t
  /\ pc' = [pc EXCEPT ![t] = "load"]
  /\ UNCHANGED <<dbVars, heap, sources, clients, tgt, cfg, mark, got, mainVars>>

LoadRow(t) ==
  /\ pc[t] = "load"
  /\ row[tgt[t]] # NoRow
  /\ cfg' = [cfg EXCEPT ![t] = row[tgt[t]]]
  /\ pc' = [pc EXCEPT ![t] = "build"]
  /\ UNCHANGED <<dbVars, heap, sources, clients, lock, tgt, mark, got, mainVars>>

(* Mutant: a failing load is tried again until it works.                   *)
LoadNothingRetries(t) ==
  /\ pc[t] \in {"load", "build"}
  /\ pc' = [pc EXCEPT ![t] = "load"]
  /\ UNCHANGED <<dbVars, heap, sources, clients, lock, tgt, cfg, mark, got, mainVars>>

(* get() binds and returns None, or raises and leaves nothing behind: no     *)
(* such row or no database ("load"), no such back-end or a failing           *)
(* constructor ("build").                                                  *)
LoadNothing(t) ==
  /\ pc[t] \in {"load", "build"}
  /\ lock' = None
  /\ EndRequest(t)
  /\ MayResize /\ UNCHANGED <<dbVars, heap, sources, clients>>

(* registry.get(): one client per source uuid, kept until unregister_all.  *)
RegistryGet(u, ver) ==
  IF clients[u] = 0 THEN [clients EXCEPT ![u] = ver] ELSE clients

NewPlugin(t, loaded, client) ==
  [uuid |-> tgt[t], name |-> cfg[t].name, ver |-> cfg[t].ver, up |-> loaded,
   client |-> client, unloads |-> 0]

(* The plugin is stored by the caller and the lock released.               *)
Store(t, plugin, keys) ==
  /\ Len(heap) < MaxLoads
  /\ heap' = Append(heap, plugin)
  /\ sources' = [k \in Keys |-> IF k \in keys THEN Len(heap) + 1 ELSE sources[k]]
  /\ got' = [got EXCEPT ![t] = Len(heap) + 1]
  /\ lock' = None
  /\ pc' = [pc EXCEPT ![t] = "got"]
  /\ cfg' = [cfg EXCEPT ![t] = NoRow]
  /\ late' = (late \/ phase # "running")
  /\ UNCHANGED <<dbVars, tgt, mark, phase, todo>>

(* _add_source_with_config: load() succeeds, the plugin is also bound to   *)
(* its name, over whatever plugin had that name.                           *)
Build(t) ==
  /\ pc[t] = "build"
  /\ clients' = IF tgt[t] \in ConfdSources
                THEN RegistryGet(tgt[t], cfg[t].ver) ELSE clients
  /\ Store(t, NewPlugin(t, TRUE, IF tgt[t] \in ConfdSources THEN clients'[tgt[t]] ELSE 0),
           {tgt[t], cfg[t].name})

(* Mutant: a half-loaded plugin is bound to its name as well.              *)
BuildFailsBound(t) ==
  /\ pc[t] = "build"
  /\ clients' = clients
  /\ Store(t, NewPlugin(t, FALSE, 0), {tgt[t], cfg[t].name})

(* load() raises, before or after it asked the registry for its client:    *)
(* the plugin is cached all the same, without its name.                    *)
BuildFails(t) ==
  /\ pc[t] = "build"
  /\ \/ clients' = clients /\ Store(t, NewPlugin(t, FALSE, 0), {tgt[t]})
     \/ /\ tgt[t] \in ConfdSources
        /\ clients' = RegistryGet(tgt[t], cfg[t].ver)
        /\ Store(t, NewPlugin(t, FALSE, clients'[tgt[t]]), {tgt[t]})

(* GET /backends/{wazo,conference}/sources/<uuid>/contacts reads the row,  *)
(* then takes the client from the registry.                                *)
CallContacts(t, u) ==
  /\ Serving /\ pc[t] = "idle"
  /\ u \in ConfdSources
  /\ row[u] # NoRow
  /\ pc' = [pc EXCEPT ![t] = "contacts"]
  /\ tgt' = [tgt EXCEPT ![t] = u]
  /\ cfg' = [cfg EXCEPT ![t] = row[u]]
  /\ UNCHANGED <<dbVars, heap, sources, clients, lock, mark, got, mainVars>>

Contacts(t) ==
  /\ pc[t] = "contacts"
  /\ \/ clients' = RegistryGet(tgt[t], cfg[t].ver)
     \/ clients' = clients   \* the key file is not readable: KeyError
  /\ EndRequest(t)
  /\ UNCHANGED <<dbVars, heap, sources, lock, mainVars>>

(* The caller has used the plugin get() gave it.                           *)
Return(t) ==
  /\ pc[t] = "got"
  /\ EndRequest(t)
  /\ UNCHANGED <<dbVars, heap, sources, clients, lock, mainVars>>

----------------------------------------------------------------------------
(* The main thread, once rest_api.run() has returned.                      *)

NoClients == [u \in Uuids |-> 0]

(* unload_views: the wazo and conference views empty the registry.         *)
UnloadViews ==
  /\ phase = "running"
  /\ phase' = "unloading"
  /\ todo' = Keys
  /\ clients' = NoClients
  /\ UNCHANGED <<dbVars, heap, sources, lock, threadVars, late>>

(* One iteration of unload_sources, which does not take the lock.          *)
UnloadSource(k) ==
  /\ phase = "unloading"
  /\ k \in todo
  /\ todo' = todo \ {k}
  /\ phase' = IF todo' = {} THEN "stopped" ELSE phase
  /\ IF sources[k] = NoPlugin
     THEN UNCHANGED <<heap, clients>>
     ELSE /\ heap[sources[k]].uuid \notin FragileSources \/ heap[sources[k]].up
          /\ heap' = [heap EXCEPT ![sources[k]].unloads = @ + 1]
          /\ clients' = IF heap[sources[k]].uuid \in ConfdSources
                        THEN NoClients ELSE clients
  /\ UNCHANGED <<dbVars, sources, lock, threadVars, late>>

(* The loop ends early: a load changed the size of the dict under it (see     *)
(* MayResize for what else does), or a half-loaded plugin has nothing to      *)
(* unload and its unload() raises.                                         *)
UnloadRaises ==
  /\ phase = "unloading"
  /\ \/ late
     \/ \E k \in todo : /\ sources[k] # NoPlugin
                        /\ heap[sources[k]].uuid \in FragileSources
                        /\ ~heap[sources[k]].up
  /\ phase' = "aborted"
  /\ UNCHANGED <<dbVars, heap, sources, clients, lock, threadVars, todo, late>>

Terminated ==
  /\ phase \in {"stopped", "aborted"}
  /\ \A t \in Threads : pc[t] = "idle"
  /\ UNCHANGED vars

----------------------------------------------------------------------------
LoadStep(t) == LoadRow(t) \/ LoadNothing(t) \/ Build(t) \/ BuildFails(t)

Next ==
  \/ \E u \in Uuids, n \in Names : Create(u, n) \/ RenamePhonebook(u, n)
  \/ \E u \in Uuids : Delete(u)
  \/ \E t \in Threads, u \in Uuids, n \in Names :
        EditCommit(t, u, n) \/ EditUnacknowledged(t, u, n)
  \/ \E t \in Threads, u \in Uuids : CallGet(t, u) \/ CallContacts(t, u)
  \/ \E t \in Threads : Invalidate(t) \/ GetHit(t) \/ GetMiss(t) \/ Contacts(t) \/ Return(t)
  \/ \E t \in Threads : LoadStep(t)
  \/ UnloadViews \/ (\E k \in Keys : UnloadSource(k)) \/ UnloadRaises
  \/ Terminated

Spec == Init /\ [][Next]_vars

(* A thread inside _load_source keeps running: nothing there waits for     *)
(* another thread.                                                         *)
FairSpec == Spec /\ \A t \in Threads : WF_vars(LoadStep(t))

----------------------------------------------------------------------------
(* The types of the variables; a thread that is past reading its source    *)
(* row has a row in hand, and only a locked thread builds.                 *)
TypeOK ==
  /\ row \in [Uuids -> Row]
  /\ gen \in [Uuids -> Nat]
  /\ acked \in [Uuids -> Nat]
  /\ heap \in Seq(Plugin)
  /\ sources \in [Keys -> Nat]
  /\ \A k \in Keys : sources[k] <= Len(heap)
  /\ clients \in [Uuids -> Nat]
  /\ lock \in Threads \cup {None}
  /\ pc \in [Threads -> {"idle", "invalidate", "get", "load", "build", "got", "contacts"}]
  /\ tgt \in [Threads -> Uuids \cup {None}]
  /\ \A t \in Threads : pc[t] # "idle" => tgt[t] \in Uuids
  /\ cfg \in [Threads -> Row]
  /\ \A t \in Threads : pc[t] = "build" => cfg[t] # NoRow
  /\ mark \in [Threads -> Nat]
  /\ got \in [Threads -> Nat]
  /\ \A t \in Threads : got[t] <= Len(heap)
  /\ phase \in {"running", "unloading", "stopped", "aborted"}
  /\ todo \subseteq Keys
  /\ late \in BOOLEAN

(* edit() "result = crud.edit(...); source_manager.invalidate(...)": once  *)
(* an edit has returned, no get() that is called afterwards answers with a *)
(* plugin built from an older version of the source, whatever loads were   *)
(* under way.                                                              *)
GetIsFresh ==
  \A t \in Threads : got[t] # NoPlugin => heap[got[t]].ver >= mark[t]

(* The cache itself holds no version older than the last acknowledged one. *)
CacheIsFresh ==
  \A u \in Uuids : sources[u] # NoPlugin => heap[sources[u]].ver >= acked[u]

(* The uuid keys hold plugins of that source, the name keys hold plugins   *)
(* that were loaded completely under that name, although renames, failed   *)
(* loads and same-named sources of other tenants share the dict.           *)
KeysMatchPlugins ==
  /\ \A u \in Uuids : sources[u] # NoPlugin => heap[sources[u]].uuid = u
  /\ \A n \in Names : sources[n] # NoPlugin =>
        heap[sources[n]].up /\ heap[sources[n]].name = n

(* Until shutdown, every reachable plugin of a confd back-end talks through *)
(* the one client registered for its source: a reload never starts a       *)
(* second client (and token renewer) beside it.                            *)
OneClientPerSource ==
  phase = "running" =>
    \A k \in Keys : sources[k] # NoPlugin =>
       heap[sources[k]].client \in {0, clients[heap[sources[k]].uuid]}

(* What edits, failed loads, reloads and shared names leave behind is under *)
(* no wrong key of the cache, and beside no client of the registry.        *)
CacheIsSound == TypeOK /\ KeysMatchPlugins /\ OneClientPerSource

(* When unload_sources has gone through undisturbed, the only plugins it   *)
(* never unloaded are those an edit of their source displaced.             *)
OnlyEditsLeakPlugins ==
  phase = "stopped" /\ ~late =>
    \A i \in 1..Len(heap) : heap[i].unloads = 0 => acked[heap[i].uuid] >= 2

(* A plugin that is being served is dropped by an invalidation, never      *)
(* silently replaced by a second concurrent load of the same source.       *)
NoDoubleLoad ==
  [][\A u \in Uuids : sources[u] # NoPlugin => sources'[u] \in {sources[u], NoPlugin}]_vars

(* Every path out of _load_source, errors included, gives the lock back.   *)
LockIsReleased == (lock # None) ~> (lock = None)
=============================================================================
