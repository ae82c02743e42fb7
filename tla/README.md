# A TLA+ model of wazo-dird

wazo-dird is the directory service of Wazo: it answers *lookup*, *reverse* and
*favorites* queries by asking several *sources* of contacts (CSV files, LDAP,
confd, Google, Office 365, phonebooks, personal contacts) in parallel, and
stores sources, profiles, displays, phonebooks, personal contacts and favorites
in PostgreSQL.  It is one Python process: cheroot HTTP threads, one thread pool
per query service, one bus consumer thread, a service discovery thread, token
renewer threads and the main thread.

This directory holds TLA+ specifications of its services, its store, its
back-ends, its views and its life cycle, the TLC configurations that check them
on small instances, and TLAPS proofs, for instances of any size, of what the
runs check of all of these but for liveness and a few data algorithms.  Paths below are relative to
`src/wazo_dird/`.

Contents: [Inventory](#inventory), [Modules](#modules),
[Runs](#runs-bounds-and-what-they-show), [Fairness](#fairness),
[Proofs](#proofs), [Where the code and its documentation
differ](#where-the-code-and-its-documentation-differ),
[Abstractions](#abstractions), [Not modelled](#not-modelled),
[Plan](#plan).

## Inventory

For every component: the state it keeps, its operations, whom it interacts
with, what is hard about it, and what makes it correct.

**Source manager** (`source_manager.py`, written by
`plugins/source_service/plugin.py` and `database/queries/source.py`).
State: `_sources`, one dict from uuid *and* name to the loaded plugin, and a
lock that guards it.  `get(uuid)` answers from the cache or loads the row and
instantiates the plugin; `invalidate(uuid)` drops it after an edit;
`unload_sources()` goes over it at shutdown.  Hard: HTTP threads load while
others edit the row they are reading; `edit()` invalidates after its
transaction; a load may fail half way with the plugin in the cache; the name
key is not invalidated; deletion and the rename of a phonebook do not
invalidate at all.  Correct when nobody is served a version older than an edit
that was acknowledged, a source is not loaded twice at a time, keys and plugins
agree, and the lock comes back.

**Confd client registry** (`plugin_helpers/confd_client_registry.py`).  State:
one confd client and token renewer thread per source uuid, shared by the wazo
and conference back-ends and by the contact lists of the REST API.  Correct
when every plugin of a source uses one and the same client.

**Lookup service** (`plugins/lookup_service/plugin.py`, `helpers.py`).  State:
a thread pool of `max_threads` workers; per request a list of futures.  A
request submits a search per source and waits for all of them, or for the
profile's timeout.  Hard: late searches are not cancelled and keep workers and
queue places; sources raise, hang, or answer as the timeout passes; shutdown
comes half way.  Correct when a reply holds whole answers of the sources that
were asked, all of them unless there is a timeout, and every request ends.

**Reverse service** (`plugins/reverse_service/plugin.py`).  The same pool
design; a request consumes futures as they complete, stops when every number
has been found or its timeout passes, and cancels the futures still pending,
racing the worker that takes them.

**Favorites service** (`plugins/favorites_service/plugin.py`,
`database/queries/favorite.py`).  State: rows of a user and a source, an
executor and its futures.  Additions and removals name a source, look for it,
write, and publish an event after the commit; a list asks every source that
has a favorite, if the source manager has a plugin for it.  Hard: two tenants
share names, sources are deleted between any two steps, or cannot be loaded,
events of overlapping requests come in any order, no timeout is configured by
default.  Correct when a favorite is of its user's tenant, what is removed stays
away, subscribers know the favorites, and lists are whole and answered.

**Personal contacts** (`plugins/personal_service/plugin.py`,
`database/queries/personal.py`).  State: `dird_contact` and
`dird_contact_fields` of a user.  Create, import, edit (a deletion and an
insertion under the same uuid), remove, purge.  A client may send an `id` with
what it creates or imports, and the contact gets that uuid.  Each request runs
one READ COMMITTED transaction of several statements, an import a SELECT before
it.  Correct when no acknowledged
contact is lost, a contact's hash is the one of its fields, errors change
nothing, and no request is stuck.

**Phonebook contacts** (`plugins/phonebook_service/plugin.py`,
`database/queries/phonebook.py`).  The same tables for a phonebook, edited in
place: an UPDATE of the hash, an insertion of the new fields and a deletion of
those the session had loaded.  The deletion of the phonebook cascades.

**Profiles and displays** (`plugins/profile_service/plugin.py`,
`plugins/display_service/plugin.py`, `database/queries/profile.py`,
`display.py`).  State: rows with dependent rows that an edit deletes and
inserts again; the sources and displays they refer to may be deleted meanwhile,
with cascades.  Correct when what overlapping requests leave is made of whole
edits, a refused request changes nothing, and every request is answered.

**Database connection pool** (`controller.py`, `database/helpers.py`,
`database/queries/base.py`).  A bounded pool shared by HTTP threads and by
every worker whose back-end queries the database.

**Bus consumer, cleanup and configuration services** (`bus.py`,
`plugins/cleanup_service/plugin.py`, `plugins/config_service/plugin.py`).
Events in one thread with one scoped session: deletion of a user's data,
default sources, display and profile for a new tenant, its country.

**Service discovery** (`service_discovery.py`,
`plugins/service_discovery_service/plugin.py`).  A fetcher thread and
`service.registered` events both create the sources that are missing, the first
from when the service is loaded, the second once the bus is consumed.  Hard: a
server may register between the two, and one whose source can never be created
makes the thread begin again for ever.  Correct when every server that can have
a source gets one.

**Life cycle** (`controller.py`, `http_server.py`, `main.py`,
`plugin_manager.py`).  Start of services, views, bus and server in an order,
a signal whose handler starts a thread that stops the server, and unloading.
Correct when a signal leads to a stop, nothing runs without what it needs, and
every way out undoes what was started.

**Authentication and tenants** (`auth.py`, `http.py`,
`plugin_helpers/tenant.py`).  The master tenant becomes known with the first
token.

**Back-ends** (`plugins/*_backend/`).  A plugin interface
(`load`/`unload`/`search`/`first_match`/`match_all`/`list`).  LDAP keeps a
lazily bound client that workers share; CSV reads its file again when its date
has changed; Google and Office 365 read an address book page by page; personal
and phonebook contacts are two queries, the identifiers and then the fields;
wazo and conference use the confd registry.  Correct when the four ways to ask
for a contact agree, and when data that changes meanwhile, or a connection that
is lost, costs no more than what changed.

**Views** (`plugins/*/http.py`, `plugins/graphql/`, `http.py`, `exception.py`).
They check arguments, call services one after the other and map errors to a
status.  Correct when the status tells the client whether its change was made.

`PROJECT.json` lists each of these with its status, every hazard with the line
where it bites, and, for every definition that models code, the lines it
models.

### How they interact

- An HTTP thread of a query service reads the profile in one transaction, gets
  its plugins from the source manager, submits searches to the service's
  executor and waits.  Workers take a connection from the pool when the
  back-end is personal or phonebook.
- The source service writes the source table and then invalidates the cache;
  the phonebook and bus handlers write the table without doing so.
- The consumer thread runs the handlers of all services that listen, one event
  at a time, on one scoped session.
- At shutdown, or when the HTTP server cannot start, the main thread unloads
  views (the confd registry is emptied), services (executors are shut down and
  drained), then sources, and stops the bus last.

## Modules

| module | models | composed with |
|---|---|---|
| `SourceManager` | source cache, its lock, writers of `dird_source`, confd registry, unloading | |
| `SearchExecutor` | `ThreadPoolExecutor`, its queue and futures, `RaiseStopper` | |
| `LookupService` | `lookup()`, one request per thread | extends `SearchExecutor`, implements `DirectoryQuery` |
| `DirectoryQuery` | what a directory query promises its caller (abstract) | |
| `ReverseService` | `reverse()` and `reverse_many()` | extends `SearchExecutor` |
| `ContactTable` | the two contact tables under READ COMMITTED | |
| `PersonalContacts` | `PersonalContactCRUD` by SQL statement | extends `ContactTable`, implements `ContactBook` |
| `PhonebookContacts` | `PhonebookContactCRUD`, deletion of the phonebook | extends `ContactTable`, implements `ContactBook` |
| `ContactBook` | what the contacts of one owner promise those who send requests (abstract) | |
| `ConnectionPool` | HTTP threads, executors and the pool | |
| `BusEvents` | cleanup and configuration handlers on the consumer's session | |
| `Matching` | what each back-end finds: search, first_match, match_all, list | |
| `ContactFormats` | the numbers of a Google and of an Office 365 contact | |
| `CsvFile` | the file of a CSV source and its cached content | |
| `LdapClient` | the connection of an LDAP source, its lock, unload | |
| `PagedFetch` | the requests that fetch an address book | |
| `ContactSearch` | the queries of personal and phonebook contacts, the counted list | |
| `Backends` | the back-ends and the connections their searches take | extends the six above and `ConnectionPool` |
| `Views` | calls, commits, errors and status of every view | |
| `ProfileStore` | `ProfileCRUD`, `DisplayCRUD` and deletions by SQL statement | |
| `Favorites` | requests, rows, events and executor of the favorites service | |
| `Store` | the store behind the HTTP API | extends the three above |
| `Lifecycle` | `Controller.run`, signals, restarts | |
| `ServiceDiscovery` | fetcher and events | extends `Lifecycle` |
| `SourceManagerProofs`, `LookupServiceProofs`, `ReverseServiceProofs`, `BackendsProofs`, `StoreProofs`, `PersonalContactsProofs`, `PhonebookContactsProofs` | theorems | each extends the module it is named for |
| `BackgroundProofs` | theorems | extends `BusEvents` and `ServiceDiscovery` |
| `MCSourceManager`, `MCPersonalContacts`, `MCReverseService`, `MCBackends`, `MCStore`, `MCServiceDiscovery` | values of the constants for TLC | extend the above |

State and actions correspond to the code as follows.

**SourceManager.**  `row` is the committed `dird_source`, a version number and
a name per uuid; `sources` is `_sources`, `heap` the plugin objects it refers
to, `clients` the registry, `lock` `_source_lock`; `pc[t]` is the step of an
HTTP thread.  `get()` is `CallGet`, then `GetHit` or `GetMiss` (which takes the
lock), `LoadRow` (the SELECT), `Build` (instantiation and the binding of name
and uuid) or `BuildFails` (`load()` raises: bound under the uuid alone), or
`LoadNothing`.  `edit()` is `EditCommit` and `Invalidate`, two steps, because a
load may run between them.  A commit lost on the wire is `EditUnacknowledged`.
The main thread is `UnloadViews`, `UnloadSource` per key, `UnloadRaises`: a
plugin's `unload()`, or the iteration itself once the dict has changed its size,
as a late `get()` that binds None or a late `invalidate()` does (`MayResize`).
`gen`, `acked`, `mark` and `late` are history variables.

**SearchExecutor, LookupService, ReverseService.**  A future is a pair of a
request and a source; `fut[f]` is its state, `queue` the executor's queue;
`TakeNext` is a worker that takes a future, `Finish` its search returning or
raising (`RaiseStopper` turns the exception into an empty answer).  `pc[r]` is
the step of a request.  Submissions are single steps, so a shutdown, a worker
or a timeout may come between two of them.

**ContactTable** is PostgreSQL as the code uses it: row versions with the
transaction that wrote or is deleting them, statements that see committed rows
and their own, waits on locked rows and on uncommitted unique keys, and
deadlock detection.  **PersonalContacts** and **PhonebookContacts** have one
action per SQL statement; SQLAlchemy's unit of work decides which statements a
commit sends and in which order, which is why an edit of a personal contact is
a SELECT, DELETEs by identifier, a SELECT of duplicates and INSERTs.  `told` is
the history of what callers were told exists.  `ids` are the uuids a client
sends with the contacts of a creation or an import: any it may have made up or
been shown (`Sendable`), a removed contact's included.  `ListContacts` is the
query of the existing uuids that an import makes first, `failed` the lines it
refuses for them; `since` are the uuids that were inserted after a removal, an
edit or a purge was sent.

**ContactBook** has no SQL and no locks: a request looks for the contacts it is
to remove or replace (`Find`), finds out that one has gone (`Forget`) or that a
hash is there already (`Skip`), and then takes effect in one step (`Succeed`) or
fails (`Fail`) for a reason that is true when it is given (`Refused`).  `Looked`,
`Doomed` and `Skipped` of the two modules are what the code holds of it: the
step a request is at, the identifiers its session has loaded or deleted, and the
entries it has passed over.  A contact is added under the uuid that was sent
with it or under one that nobody knows, and comes back under one that was
removed in no other way.  `InPlace` tells the edit of a phonebook contact, an
UPDATE, from that of a personal one, a deletion and an insertion.

**Matching** and **ContactFormats** have no state of their own: operators over
a configuration (`source`) and a `directory`, one per method of each plugin.
Where the code may answer one of several contacts, an operator gives the set of
them.  **CsvFile**: `file` is the file, with the date of its last write,
`content` and `modified` the attributes of the plugin; a worker takes the date,
reads, keeps the content and then the date, a step each.  **LdapClient**:
`ldapObj` is `_ldap_obj`, `lock` the plugin's lock; connecting, binding, sending
and receiving are steps during which the server may stop, start or forget the
connection, and `Close` is `unload()`, which takes no lock.  **PagedFetch**: a
step per HTTP request, the address book being edited in between.
**ContactSearch**: a step per query.

**Views** is a table, `AllViews`: for every route the calls it makes in order,
what each may raise and which ones commit, and the errors the view maps itself.
`Return`, `Raise` and `Respond` run one request; `StatusOf` is what the
decorators of `http.py` and the exception classes make of an error.

**ProfileStore**: a request is a list of statements (`Statements`); `there` are
the committed rows, `added`, `removed` and `updated` what a transaction has done
and holds the locks of; a statement waits for whoever holds what it needs, and
`DeadlockAbort` is the detection.  A DELETE with its cascades is `Remove` and
one step per dependent row.  **Favorites**: one action per query, commit, event
and future; `found` is what a request has read, `seen` what a subscriber to the
events believes.  An addition is `FindSource`, `Create` (the source again, among
all tenants) and `AddFavorite` (the INSERT); a list is `ReadProfile`,
`ReadFavorites`, and `AskSource` per source, which submits a future or passes
over a source that the source manager has no plugin for: its `health` is
"missing" or its row was deleted meanwhile.

**Lifecycle**: `phase` is where the main thread is; `Signal` may come anywhere
and starts the stopper thread, whose `StopServer` does nothing when there is no
server yet; `Serve` is `server.start()` and `CannotServe` its exception;
`Restart` begins a new process over the same rows.
**ServiceDiscovery**: `doing` is the next call of the fetcher thread and of the
consumer, both in `_on_service_added`; the thread lists the servers of one
service name after the other (`List`), handles those it got (`HandleNext`), and
begins with the first name again after any exception.  `obstacle` is what keeps
a server from having a source at all: a template that cannot be rendered, or a
source of another back-end that has the name.

**ConnectionPool** counts who needs and who holds a connection.  **BusEvents**
has an action per transaction of a handler, each of which may fail, the state
of the consumer's session, and the REST API interfering between transactions.

## Runs, bounds and what they show

| run | checks | instance | distinct states |
|---|---|---|---|
| `source_cache` | `GetIsFresh`, `CacheIsFresh`, `NoDoubleLoad`, `LockIsReleased` | 1 phonebook source, 2 threads, 2 names, 3 versions, 2 plugins | 1.2 M |
| `source_unload` | `CacheIsSound`, `OnlyEditsLeakPlugins` | 2 sources of 2 tenants, 1 thread, 2 names, 2 versions, 3 plugins | 3.4 M |
| `lookup` | `TypeOK`, `KeepsPromise`, `EveryoneReplies` | 2 requests, 2 sources, 2 workers | 21 k |
| `reverse` | `FuturesAreSound`, `ResultsAreTrue`, `EveryReverseReplies` | 2 requests, 2 sources, 2 numbers, 1 worker | 364 k |
| `personal` | `TablesAreSound`, `NothingLost`, `RemovedIsGone`, `NobodyIsStuck`, `KeepsBook` | 3 requests of any kind, 2 hashes, imports of one and of both, 1 uuid that clients send | 0.7 M |
| `phonebook` | the same and `ImportIsComplete` | 3 requests of any kind, 2 hashes, imports of 2 | 0.8 M |
| `phonebook_edit` | `HashMatchesFields`, violated | 2 edits, 3 hashes | |
| `personal_edit` | `EditsReplace`, violated | an edit and a creation | |
| `bus` | `EventsTakeEffect`, `SessionHeals`, `EveryEventIsHandled` | 2 users, 1 tenant, 2 back-ends | 23 k |
| `backends` | `AnswersAgree`, `LdapRecovers`, `FetchesAreWhole`, `CsvFollowsFile`, `PoolSuffices` | 4 texts, 3 contacts, 2 workers, 3 versions of a file, 3 LDAP connections, 2 edits; for the pool 3 requests, 2 executors of 2 workers, 1 source, 2 HTTP threads, no spare connection | 122 k |
| `store` | `AnswersAreTrue`, `EditsAreKept`, `RefusedChangesNothing`, `FavoritesAgree`, `RequestsEnd` | every view; 2 requests on 2 sources; 2 requests on 4 sources, 1 worker, 1 source that raises, hangs or cannot be loaded | 182 k |
| `lifecycle` | `ServesWhole`, `DiscoveryAgrees`, `SignalIsObeyed`, `EveryServerIsFound` | 2 services, 2 servers of 2 names, 2 runs, 3 signals and runs, 1 failure, 2 obstacles | 305 k |

Several properties are conjunctions of named parts, which the modules state and
comment one by one; the type invariant of a module is one of them.

What they show:

- *source_cache*: `get()` never answers with a version older than an edit that
  had returned when it was called, although the row is read long before the
  plugin is stored: both the load and the invalidation happen under the lock,
  and the invalidation follows the commit.  Of two threads that ask for a
  source that is not loaded, the second finds the plugin of the first.  Every
  path out of a load gives the lock back.
- *source_unload* (`CacheIsSound` is `TypeOK`, `KeysMatchPlugins` and
  `OneClientPerSource`): the one dict serves two kinds of keys, two tenants may
  use one name, and a half-loaded plugin is bound under its uuid alone; the
  keys still never hold something else.  Reloads keep the registered client.
  Of the plugins loaded, `unload_sources` misses those an edit displaced and no
  others, unless something was loaded after it had started or an `unload()`
  raised.  A completely loaded plugin is bound to two keys and is unloaded
  twice; `tests/test_source_manager.py:25` asserts once, over a hand-made
  dict.
- *lookup* (`EveryoneReplies` is `DeadlineReplies`, `EveryLookupReplies` and
  `ShutdownDrains`): the implementation relation to `DirectoryQuery`; a profile
  with a timeout replies although sources hang and keep all workers; without a
  hanging source every lookup replies and `shutdown()` drains.
- *reverse* (`FuturesAreSound` is `TypeOK`, `NothingLeftBehind` and
  `CancelledAreUnread`): every contact returned is one a source gave for that
  number; a finished request leaves no future in the queue, and `result()` is
  never called on a cancelled future, which would raise; a request ends even
  when the only worker hangs.
- *personal* and *phonebook*: three interleaved requests.  `KeepsBook` is the
  implementation relation to `ContactBook`: whatever the statements of the
  requests do, what can be seen of the contacts is what it would be if each
  request took effect at once, at its commit, or not at all; and a request that
  is refused as a duplicate, for a contact or a phonebook that is not there, is
  refused for that reason.  An edit that deletes and inserts, or a failure at
  any statement, loses no acknowledged contact.  `TablesAreSound` is `TypeOK` and,
  for personal contacts, that a
  contact's fields are those of its hash; for phonebooks (`FieldsFollowHash`)
  that they contain those of its hash, and are no others unless two edits of
  the contact succeeded.  A contact deleted from a phonebook is not brought
  back by an edit.  A personal one may come back by an edit that had loaded it,
  or by a client that sends its uuid, and by nothing else: what is found under
  the uuid was inserted after the removal was sent (`RemovedIsGone`), and
  `KeepsBook` says by whom.
  An import's skipped duplicates are really there, because it waits for the
  transaction that holds them; and everybody who waits waits for somebody who is
  still running, with deadlocks
  broken.  Two imports of the same contacts in opposite orders do deadlock: one
  of them fails with a 503.
- *bus* (`EventsTakeEffect` is `TypeOK`, `TenantIsProvisioned` and
  `UserIsDeleted`): a failed transaction costs what it hits and nothing else,
  except that a session broken by the deletion of a user costs the next
  deletion, or one default source of the next tenant; handlers that use
  `new_session` leave a usable session; the consumer never stops.
- *backends*: what `match_all` answers is what `first_match` could have, a
  contact that can be made a favorite is listed, a number that is found in
  reverse is found by a lookup, and no number of a contact is lost
  (`AnswersAgree`, with the exceptions its parts name); an LDAP connection the
  server has dropped costs a search nothing, only unloading makes one raise,
  and none is left open (`LdapRecovers`); an address book of Office 365 is
  fetched whole or not at all, the two queries of a search find what nobody
  touched, and the counts of a list fit it (`FetchesAreWhole`); a CSV source
  serves the last readable file (`CsvFollowsFile`); the pool of connections is
  never exceeded, and because nobody holds a connection while waiting for
  searches, any size of it lets every request end without a timeout
  (`PoolSuffices`).
- *store*: an error tells that nothing was changed and a success that
  something was, an event that cannot be published and the deprecated import
  apart; which errors end as a 500, those of the csv module among them; that the
  deprecated phonebook API answers
  as the new one (`AnswersAreTrue`).  Overlapping requests on a profile leave
  duplicates only where two edits overlapped, whole edits, and deadlocks only
  in the named cases (`EditsAreKept`); a refused request has changed nothing,
  although an edit deletes first and looks for the profile after.  Favorites,
  events and lists agree but for a homonym source in another tenant, overlapping
  requests, and a list that is answered 200 without the favorites of a source
  that raises, cannot be loaded or is deleted while the list is made
  (`FavoritesAgree`); every request that is begun is
  answered, a list unless a source hangs and no timeout is configured
  (`RequestsEnd`).
- *lifecycle*: a signal to a server that serves ends the process unless a
  future hangs; it never serves without the source service or the bus, and it
  ends for a signal, for want of the source service or of its port, with the bus
  stopped each time; thread and events make one source per server, and miss one
  only in the cases `EveryServerIsFound` names: a server that can have no source
  starves those that are listed with it or after, which are then found by their
  events alone.

The bounds.  Two threads are enough for the races of one cache entry: each
hazard is a pair (a load and an edit, two loads, a load and the unloading),
and three versions let a load overlap two edits.  Two names allow a rename and
a collision.  Two lookups and two sources make one request's leftovers stand in
another's way, with two workers so that searches overlap and one for the
reverse service so that a hanging source stops everything.  Contacts need two
hashes (a conflict and a non-conflict), and three requests because the worst
interleavings are those of an edit, a removal or second edit, and a bystander
that inserts the same values.  One uuid that clients send is that of the first
contact, so a creation may collide with it, follow its removal or overlap its
edit.  `personal` sends its requests in the order of their numbers
(`InTurn`) and forgets of a request that has ended what no action and no property
looks at (`Relevant`): neither tells two behaviours apart.  Pool: more who need a connection than
there are, and a pool without a spare one.  Bus: two users so that one deletion
follows a failed one.
Back-ends: texts that differ by case and by accent and one that holds another,
directories of up to three contacts two of which look the same, pages of two, so
that an address book has two pages and `FirstPage` cuts one off; three versions
of a file so that a write falls between two others; three connections so that
one is left over.  Store: bodies of two requests that cover every pair of
methods, sources that share a name across tenants, one that a favorite is of
alone and that is deleted during a list, one worker so that one hung future stops
all.  Life cycle: two services, the discovery loaded
before the one it needs; two runs, because sources outlive the first; two
servers so that one registers while the other is handled, of two names so that
one is listed before the other.  Where one of them can have no source
(`MCObstacles`), the services all load and a signal and a restart do not both
happen (`MCSpec`).

The parts of `Backends`, and those of `Store`, share no state: a behaviour is
about one of them, chosen in `Init`, and the others stay in an initial state.
That saves the product of their states and loses no behaviour.

`MaxGen`, `MaxLoads`, `MaxEntries`, `MaxVersion`, `MaxBookEdits`,
`MaxTableEdits`, `MaxRuns`, `MaxSignalsAndRuns` and `MaxFailures` are the
counters that are cut off; they are guards, named in the modules.  `Radix`
bounds nothing: it numbers the uuids that requests generate.  Deadlock is
not checked in `backends`, `store` and `lifecycle`: there a behaviour may really
stop, when the data no longer changes, all requests are answered, or the process
has exited for the last time.

Every property of a passing run has a mutant of the code in `PROJECT.json`, an
operator named in the module and commented `Mutant:`, under which TLC finds it
violated: an edit that invalidates by name, a `get()` without the lock, a
timeout that is not passed on, a deletion that is not rolled back, and so on.

## Fairness

No run needs strong fairness.

- `SourceManager`: a thread inside `_load_source` takes its next step
  (`WF(LoadStep)`); it waits for nobody there.
- `LookupService`, `ReverseService`: HTTP threads go on until they wait, a wait
  with a timeout ends, a free worker takes the next future, and a search
  returns unless its source is in `Hanging`.  The executor and the operating
  system guarantee the first three; the last is the assumption itself.  Nothing
  obliges callers to call, the main thread to stop, or a source to hang.
- `BusEvents`: the consumer handles what is delivered.
- `ProfileStore`: a request takes its next statement when nobody holds what it
  needs, and PostgreSQL breaks deadlocks.
- `Favorites`: requests go on, a free worker takes each future that waits, and a
  search returns unless its source hangs (its `health`).
- `ServiceDiscovery`: the main thread, the stopper thread, the fetcher and the
  consumer go on; nothing obliges servers to register, signals to come or the
  database to fail.
- `Backends`: for the pool, threads and workers that can go on do (`GoesOn`);
  timeouts may happen and are not relied on.  The other properties are safety
  properties and need none.
- `PersonalContacts`, `PhonebookContacts`: none.  That requests end is stated as
  the invariant `NobodyIsStuck`; each request has finitely many steps.

## Proofs

What is proved holds for every value of the constants that satisfies the
assumptions named below: any number of requests, threads, sources, tenants and
so on, and any value of the bounds that keep TLC's runs finite.  The argument
is the same everywhere: the property is seldom inductive, so an invariant is
stated that is, TLC checks it on the runs of the module, and one lemma per
action shows that the action preserves it.  Where an invariant speaks of each
request alone, it is an operator of the request, and one lemma says that what a
step leaves alone keeps it for the others.

| module | theorems | assumptions |
|---|---|---|
| `SourceManagerProofs` | `SpecTypeOK`, `SpecCacheIsFresh`, `SpecGetIsFresh`, `SpecNoDoubleLoad`, `SpecCacheIsSound`, `SpecOnlyEditsLeakPlugins` | `ConstantsAssumption`: uuids are not names, `None` is no thread, the sets of kinds are sets of uuids |
| `LookupServiceProofs` | `SpecTypeOK`, `SpecKeepsPromise` | `LookupAssumption`, `WorkersAssumption` |
| `ReverseServiceProofs` | `SpecFuturesAreSound`, `SpecResultsAreTrue` | `ReverseAssumption`: a request asks for one exten at least |
| `BackgroundProofs` | `SpecEventsTakeEffect`, `SpecSessionHeals`, `SpecServesWhole`, `SpecDiscoveryAgrees` | `BusAssumption`: `None` and the steps' names are no event, tenant or back-end; `LifeAssumption`: the services are distinct and `source` is one |
| `BackendsProofs` | `SpecCsvFollowsFile`, `SpecLdapRecovers`, `SpecFetchesAreWhole`, `SpecPoolTypeOK`, `SpecFavoriteIsListed` | `LdapAssumption`: there is a connection object; `PagedAssumption`: a page has an entry; `SearchAssumption`: finitely many contacts; `PoolAssumption`: there is a thread, finitely many requests and sources |
| `StoreProofs` | `SpecFavoritesAgree`, `SpecEditsAreKept`, `SpecRefusedChangesNothing` | `FavoritesAssumption`, `StoreAssumption`: bodies have the fields of their kind |
| `PersonalContactsProofs` | `SpecTablesAreSound`, `SpecNothingLost`, `SpecRemovedIsGone`, `SpecKeepsBook` | `TableAssumption`, `PersonalAssumption` |
| `PhonebookContactsProofs` | `SpecNothingLost`, `SpecRemovedIsGone`, `SpecTablesAreSound`, `SpecImportIsComplete`, `SpecKeepsBook` | `TableAssumption`; `PhonebookAssumption`: `None` is nothing else, an import has fewer entries than `Radix` |

`SourceManagerProofs`.  Neither freshness invariant is inductive.  `IInv` adds
what they rest on: `LockHeld` (whoever is loading holds the lock, so there is
one and no invalidation gets through meanwhile), `RowsCurrent` (what was
acknowledged has been committed, and a row is its newest version) and
`RequestsBounded` (the version a caller may demand had been acknowledged when it
called; the row a loading thread has read is no older than what has been
acknowledged since, because an edit is only acknowledged once its invalidation
has had the lock).  `MissingWhileLoading`, needed for `NoDoubleLoad`, says that
the uuid key is unbound while a thread loads it.  `CacheInv` (a key of the
cache is of the plugin it is bound to; a source has one client in the
registry) is inductive beside `IInv`.  `NothingForgotten` carries
`OnlyEditsLeakPlugins`: a plugin is bound to its uuid or an edit displaced it,
and while `unload_sources` runs undisturbed a bound plugin is still to be
visited or unloaded.

`LookupServiceProofs` shows that `LookupService` implements `DirectoryQuery`
under the refinement mapping of the module: each action maps to `Ask`,
`Answer`, `Reply`, `Reject` or a stutter.

`ReverseServiceProofs`.  `RequestInv` says where the futures of a request stand
at each step (`FuturesInStep`: those still to submit are unborn, those nobody
has taken when it stops reading are those it still has to cancel), what it has
read (`ReadIsTrue`: results come from sources that were heard; an exten without
one is one that none of them has) and why it stopped (`StoppedForAReason`).

`BackgroundProofs`, the events of the bus.  `BusInv` relates what is provisioned
of a tenant to the step of the handler (`Provisioning`).  The point is
`AtMostOneMissing`: a deletion that failed leaves the session broken, the first
statement that uses it fails and rolls it back, so one source at most is missing
for that reason.

`BackgroundProofs`, the life cycle.  `LifeInv`: services are loaded in their
order, the bus runs from before the server is made until the last step, and a
server stops for a signal, or never started (`OnlyForASignal`).
`DiscoveryInv`: a server has one source at most, whoever of the thread and the
consumer made it, none when it has an obstacle (`ObstaclesHold`), and its maker
alone has still to add it to the profiles (`MakersAreAlone`).

`BackendsProofs`.  The parts of `Backends` run apart (`PartsRunApart`), so each
has an invariant of its own.  `CsvInv`: unless two writes share a tick, the date
of the file tells its versions apart and what a thread has noted of it is no
newer than what it has read.  `LdapInv`: until `unload()` the searches share one
connection or none, and a search that nothing troubles has a connection the
server knows or a second try left (`SmoothSearch`).  `PagedInv`: of a book that
did not change, what has been fetched is its beginning up to the next page.
`SearchInv`: the uuids the first query found are, among the contacts nobody
touched, those that match.  `PoolInv`: a request that has not submitted
its searches has none in a queue or under way.

`StoreProofs`.  `FavoritesInv`: requests in progress know one another; what a
request has found stays enough for what it does next; each favorite a list has
found is still to be asked for, is a future, was answered, or has its excuse
(`ListInv`); favorites and events agree but for the event somebody still has to
publish.  `StoreInv`: where a
request is tells what it has inserted (`AddedBy`); what it deletes it was asked
to, or refers to such a row (`Reason`); and two requests hold no locks in common
(`Apart`), so an edit stays whole until another one clears it.

`PersonalContactsProofs`.  `PersonalInv` is about all versions in the two
tables, the uncommitted ones too: `Unique` (two rows share a unique value only
when one is to replace the other), `Owned` and `Complete` (rows and fields go
together by their identifiers), and per request `Inserts` (what it has
inserted has the uuid it was sent, or generated, for it), `Deletes` (it deletes a row with its
fields, but for the step between the two statements) and `Known` (nobody can
name a generated uuid before the commit that reveals it, neither as the contact
to edit or remove nor as the id to insert under), which is why `told` contacts
stay.  `Gone`: a removal that has found its row leaves no other one with its
uuid, but one that was inserted since it was sent.  The lemmas `Insert...`, `Mark...`,
`Commit...` and `Rollback...Effect` about the operators of `ContactTable` say
what a statement does to either table; every action is one of them, a
`TableStep`, for which the frame is proved once (`OthersKeep`).

`PhonebookContactsProofs`.  `PhonebookInv` is about the versions too, but rows
and fields do not go together here: an edit replaces the row at once and the
fields at its end, and an insertion or an edit may meet the deletion of the
phonebook.  `Rooted` and `Known`: a uuid tells the identifier of its row, and
nobody can name the uuid a request generates before it ends.  `Unique` and
`Updated`: two versions share a unique value only when one is to replace the
other, and what an edit writes replaces the committed row it has locked.
`Fresh` and `Backed`: the fields of a contact that is not committed are its
inserter's alone, and whoever has inserted fields keeps their contact from being
deleted, which is why a removed contact stays gone (`Gone`).  `Closing`: while
the phonebook is being deleted nobody inserts contacts, so it leaves none behind
(`NoBook`).  Every step but a commit is `Quiet`: it commits nothing and leaves
the other requests alone.

Two invariants rest on it.  `FieldsInv` carries `TablesAreSound`.  A contact has
a field with its hash that no edit which wants another hash has loaded to delete
(`Matched`).  As long as no edit of it was acknowledged, every edit under way
has loaded all its fields (`Unedited`), so the first to commit leaves its own
alone; the second may not, and the contact then has the fields of both.
`ImportInv` carries `ImportIsComplete`: an entry an import has dealt with has
a row, its own or the committed one it was refused for, and nothing is deleted
while requests only insert.

The refinements (`SpecKeepsBook`, in both modules).  `ContactBook` sees the
committed contacts, the answers, and of the requests under way what they have
looked up; so a statement is a stutter, a `Find`, a `Forget` or a `Skip`, a
rollback is a `Fail`, and the commit is the `Succeed`.  What is to be shown is
that a commit makes visible exactly what the book allows: that the rows with
the deletion mark of a request are those of the uuids it looked for, less those
it has found gone (`CommitContacts`); that the hashes of its own rows are those
it was sent, less those it has passed over (`CommitHashes`); that their uuids
are those it was sent, or unknown to everybody (`Known`, `CommitUuids`).  That takes a second
invariant, `BookInv`, over the first: how far a request is in what it was sent
(`Sent`: the entries still to insert are the last ones, and its rows are among
those it has dealt with, none of them a line of an import that has failed).  For a phonebook it adds `Shut`: one that has gone was
removed by somebody who was told so, hence a refusal for its sake is true.  For
personal contacts it adds that an identifier found again leads to the only
committed row of its uuid unless one was inserted under it meanwhile (`Aimed`),
and that whoever inserts a contact has its user and its tenant (`Housed`,
`Home`).  The steps of the other requests change nothing of the plan of a
request (`PlanOfOthers`, `PlanChanges`), which is proved once for every action.

Only model-checked:

- liveness: `LockIsReleased`, `EveryoneReplies`, `EveryReverseReplies`,
  `EveryRequestEnds` (in `PoolSuffices`), `EveryEventIsHandled`, `RequestsEnd`, `SignalIsObeyed`,
  `EveryServerIsFound`; and `NobodyIsStuck`, which uses `ENABLED`.  The provers
  have no rules for either;
- four of the five parts of `AnswersAgree`: what `SelectSeq` and the folds
  compute from a sequence of any length needs induction over data, and the
  provers do not even unfold `SelectSeq`.  TLC checks them over bounded
  directories; the fifth, `FavoriteIsListed`, is proved for every directory
  (`SpecFavoriteIsListed`);
- `AnswersAreTrue` (a finite table of views, which TLC covers entirely: a
  proof would say no more);
- `ProfileStore`, `Favorites` and the life cycle are proved as parts of `Store`
  and `ServiceDiscovery`, as they are checked.

## Where the code and its documentation differ

Two runs show a documented property violated.  `phonebook_edit` —
`HashMatchesFields`: two PUTs on a phonebook contact each insert their own
fields and delete those they had loaded, the same ones; the contact ends up
with the fields of both and the hash of one
(`plugins/phonebook/api.yml:246`).  `personal_edit` — `EditsReplace`: a PUT on a
personal contact that overlaps a creation with the attributes it sends deletes
the contact, finds the other one when it looks for duplicates a second time,
inserts nothing and is acknowledged, with the identifier of the other contact
(`plugins/personal/api.yml:101`).

What else was met while modelling is in the properties, as the exception they
name, or in the modules' comments:

- A PUT on a personal contact that had loaded it before a DELETE committed puts
  it back (`plugins/personal/api.yml:135`; `RemovedIsGone`).
- A POST or an import of a personal contact whose `id` is that of another one is
  answered 500, but for the line of an import whose contact was there when the
  import began: that one is not inserted (`InsertRefused`, `ListContacts`).
- `controller.py:44` sizes the connection pool for the HTTP threads, on the
  ground that executors need no extra connections.  The workers of up to three
  executors do take one.  It costs waits and timeouts of checkouts, no deadlock.
- `_remove_user` neither rolls back nor removes the session: one failed deletion
  loses the next one on that thread (`UserIsDeleted`).
- The confd registry finds a client by the uuid of its source: an edit of the
  address or key file of the source keeps the old client.
- LDAP: `first_match` asks for one entry at most and answers None when several
  match; `match_all` compares only the attributes it has fetched, the first
  value of each; a source without columns and without a filter matches
  everything.  `first_match` of a phonebook ignores case, `match_all` does not.
  Google reads one page of 1000 contacts, and 30 when it searches.  A wazo
  source whose format columns replace `id` cannot list its favorites.
- Two workers that read a CSV file again at once can leave the older content
  under the newer date (`crossed` in `CsvFile`).
- Views that answer 500: a bad parameter of the list of back-ends, the edit of
  a phonebook source that names an unknown phonebook, a file that is not what
  its charset says, an unknown charset of a personal import, what the csv module
  refuses in a personal import or in the first line of a phonebook's, a
  configuration patch without `op`.  A database that is away is answered 503 by the phonebook
  API alone, and not by its imports.  The deprecated import answers 200 for
  contacts it refused.  A favorite that is stored is answered with the error
  of the bus when its event cannot be published.
- Two edits of one profile or display that overlap leave the rows of both.  An
  edit and a deletion, or an edit that renames while the name of the service is
  first inserted, can deadlock; two first inserts of a service's name end in a
  500 for one.
- A favorite is bound to a source of the same name and back-end in any tenant;
  the deletion of a source removes favorites and publishes nothing; a source deleted
  between the two queries of an addition is answered 500, between the second and
  the INSERT 409; a list is answered 200 without those it has no plugin for;
  events of
  overlapping requests come in any order; without `lookup_timeout` a source
  that hangs holds its request and, in the end, every worker.
- A server that registers after the discovery thread has its list and before
  the bus is consumed is not discovered, nor is one whose event fails.  The
  thread looks for a source among the wazo ones while the name is unique among
  all back-ends: a homonym of another one, or a template that cannot be
  rendered, has it begin again every two seconds, and it never lists the service
  names that come after.  Profiles
  get a discovered source in memory only, in the run that created it.
- A signal before the server is there is lost.  Unloading waits without limit
  for a future that hangs.

## Abstractions

- A contact is the hash of its attributes and its fields are one row group with
  the hash they were computed from; the order of the DELETEs of fields is that
  of their identifiers.
- A contact and its fields are loaded in one step, although the collection is
  loaded by a second query.
- An import whose phonebook has gone ends at once, as an unknown phonebook (the
  next query of it, `phonebook.py:319`), or for its contacts when the last of them
  is the one that is refused.
- A uuid that a client sends and that a contact of another user has is refused
  like one of this user's contacts.  The column `uuid` of an import, which is
  compared to the ids there are but not stored as one, is left out.
- What a source finds is a set of items; scores, formatting and sorting are left
  out.
- The commit of a transaction and the reply to its caller are one step, except
  for `EditUnacknowledged`.
- The registry is emptied and a view is unloaded in one step.
- Names and uuids are disjoint, as the code assumes of them.
- A profile has one service, and a display one row for its columns; rows are
  told apart by the request that wrote them.  A display that does not exist is
  refused at the SELECT, without the wait its foreign key could cause.
- A list of favorites asks all sources of the user's tenant that are enabled,
  which are those there are when its profile is read.  Futures are taken in any
  order.
- A query of a search sees one committed state; the texts it compares have no
  wildcard.
- Two signals start two threads that do the same; the model has one.  At most
  one service cannot be loaded.
- A server has an obstacle for good, or none.

## Not modelled

The sample back-end (a fixed answer), the migrations of the database, the
GraphQL resolver (it passes its arguments to the services that are modelled),
the view that serves the API files, sorting, scores and the formatting of
displays, the details of what makes a body valid (validation is one call of a
view, which fails or not), the verification of tokens (by wazo-auth; the master
tenant is one assignment when the first token arrives), the registration in
Consul with its self check, the renewal of dird's own token, and the queries
that list profiles, sources and phonebooks.  They have no state or none that
outlives a request.  The publisher of the bus is `wazo_bus`, which is not in
this repository: an event is published or raises.  Whether an event is delivered
twice depends on the acknowledgements of `wazo_bus`.  Of the creation and edit
of phonebooks only the answers are modelled (`Views`).

## Plan

Done, in this order: `SourceManager` (checked, proved), `SearchExecutor`,
`LookupService` with `DirectoryQuery` (checked, proved), `ReverseService`,
`ContactTable` with `PersonalContacts` and `PhonebookContacts`,
`ConnectionPool`, `BusEvents`, the back-ends, the store and its views, the life
cycle with the discovery, and `ContactBook` with its two refinements.

The safety properties of every module are proved, but for the table
that TLC covers entirely (`AnswersAreTrue`) and the parts of `AnswersAgree` that
need induction over data, and so are the three refinements:
`LookupService` of `DirectoryQuery`, `PersonalContacts` and `PhonebookContacts`
of `ContactBook`.

Left: `DirectoryQuery` for the reverse and favorites services too, and the
creation and edit of phonebooks by SQL statement.
