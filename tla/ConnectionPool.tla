--------------------------- MODULE ConnectionPool ---------------------------
(***************************************************************************)
(* The connections to the database and those who need them: the threads of *)
(* the HTTP server and the workers of the executors of the lookup, reverse *)
(* and favorites services, each of which has MaxThreads workers unless it  *)
(* is configured otherwise (controller.py, database/helpers.py).  A        *)
(* request reads its profile, gives its connection back, and waits for the *)
(* searches it has submitted, which take a connection each.                *)
(***************************************************************************)
EXTENDS Naturals, FiniteSets

CONSTANTS
  Requests, Executors, Sources,
  MaxThreads,   \* rest_api.max_threads
  Spare         \* DB_POOL_SPARE_CONN

ASSUME PoolAssumption ==
  /\ MaxThreads \in Nat \ {0}
  /\ Spare \in Nat
  /\ IsFiniteSet(Requests) /\ IsFiniteSet(Sources)

VARIABLES
  poolPc,     \* per request: "idle", "profile", "waiting", "done"
  executor,   \* the executor of its searches
  queued,     \* searches, of Requests \X Sources, in the queue of their executor
  running,    \* searches a worker executes
  connected   \* requests and searches that hold a connection

poolVars == <<poolPc, executor, queued, running, connected>>

Searches == Requests \X Sources

PoolTypeOK ==
  /\ poolPc \in [Requests -> {"idle", "profile", "waiting", "done"}]
  /\ executor \in [Requests -> Executors]
  /\ queued \subseteq Searches /\ running \subseteq Searches
  /\ queued \cap running = {}
  /\ connected \subseteq running \cup {<<r>> : r \in Requests}
  /\ Cardinality(connected) <= MaxThreads + Spare

PoolInit ==
  /\ poolPc = [r \in Requests |-> "idle"]
  /\ executor \in [Requests -> Executors]
  /\ queued = {}
  /\ running = {}
  /\ connected = {}

(* min_threads connections in the pool, and an overflow of                 *)
(* max_threads - min_threads + DB_POOL_SPARE_CONN.                         *)
PoolSize == MaxThreads + Spare

(* A request is the one-element tuple <<r>>, a search is <<r, s>>.         *)
PoolUsers == running \cup {<<r>> : r \in {q \in Requests : poolPc[q] = "profile"}}

Active == {r \in Requests : poolPc[r] \in {"profile", "waiting"}}

ReceiveRequest(r) ==
  /\ poolPc[r] = "idle"
  /\ Cardinality(Active) < MaxThreads
  /\ poolPc' = [poolPc EXCEPT ![r] = "profile"]
  /\ UNCHANGED <<executor, queued, running, connected>>

Checkout(u) ==
  /\ u \in PoolUsers \ connected
  /\ Cardinality(connected) < PoolSize
  /\ connected' = connected \cup {u}
  /\ UNCHANGED <<poolPc, executor, queued, running>>

(* Mutant: the connection is kept while the searches are under way.        *)
SubmitKeepsConnection(r) ==
  /\ poolPc[r] = "profile"
  /\ <<r>> \in connected
  /\ poolPc' = [poolPc EXCEPT ![r] = "waiting"]
  /\ queued' = queued \cup {<<r, s>> : s \in Sources}
  /\ UNCHANGED <<executor, running, connected>>

(* new_session removes the scoped session, and its connection with it.     *)
Submit(r) ==
  /\ poolPc[r] = "profile"
  /\ <<r>> \in connected
  /\ connected' = connected \ {<<r>>}
  /\ poolPc' = [poolPc EXCEPT ![r] = "waiting"]
  /\ queued' = queued \cup {<<r, s>> : s \in Sources}
  /\ UNCHANGED <<executor, running>>

StartSearch(w) ==
  /\ w \in queued
  /\ Cardinality({v \in running : executor[v[1]] = executor[w[1]]}) < MaxThreads
  /\ queued' = queued \ {w}
  /\ running' = running \cup {w}
  /\ UNCHANGED <<poolPc, executor, connected>>

EndSearch(w) ==
  /\ w \in running \cap connected
  /\ running' = running \ {w}
  /\ connected' = connected \ {w}
  /\ UNCHANGED <<poolPc, executor, queued>>

(* The checkout times out: the search has no result, the request fails.    *)
CheckoutTimeout(u) ==
  /\ u \in PoolUsers \ connected
  /\ Cardinality(connected) = PoolSize
  /\ running' = running \ {u}
  /\ poolPc' = [r \in Requests |-> IF u = <<r>> THEN "done" ELSE poolPc[r]]
  /\ UNCHANGED <<executor, queued, connected>>

Pending(r) == {w \in queued \cup running : w[1] = r}

Reply(r) ==
  /\ poolPc[r] = "waiting"
  /\ Pending(r) = {}
  /\ poolPc' = [poolPc EXCEPT ![r] = "done"]
  /\ UNCHANGED <<executor, queued, running, connected>>

(* The timeout of the profile; the searches go on without it.              *)
SearchTimeout(r) ==
  /\ poolPc[r] = "waiting"
  /\ Pending(r) # {}
  /\ poolPc' = [poolPc EXCEPT ![r] = "done"]
  /\ UNCHANGED <<executor, queued, running, connected>>

Progress(r) ==
  \/ ReceiveRequest(r) \/ Submit(r) \/ Reply(r) \/ Checkout(<<r>>)
  \/ \E s \in Sources : StartSearch(<<r, s>>) \/ Checkout(<<r, s>>) \/ EndSearch(<<r, s>>)

PoolNext ==
  \E r \in Requests :
    \/ Progress(r)
    \/ SearchTimeout(r)
    \/ CheckoutTimeout(<<r>>)
    \/ \E s \in Sources : CheckoutTimeout(<<r, s>>)

----------------------------------------------------------------------------
(* Those who hold a connection never wait for those who need one: every    *)
(* request is answered, without any timeout, however small the pool.       *)
EveryRequestEnds == \A r \in Requests : poolPc[r] = "profile" ~> poolPc[r] = "done"

(* The pool is never exceeded, and is enough for all to end.               *)
PoolSuffices == []PoolTypeOK /\ EveryRequestEnds
=============================================================================

