--------------------------- MODULE SearchExecutor ---------------------------
(***************************************************************************)
(* The ThreadPoolExecutor one directory service (lookup, reverse) shares   *)
(* between all its requests: a FIFO of futures served by at most MaxWorkers *)
(* threads.  A request submits one future per source, so a future is a     *)
(* pair <<request, source>>.  The pool itself is the standard library's;   *)
(* what is modelled is what the services rely on.                          *)
(***************************************************************************)
EXTENDS Naturals, Sequences, FiniteSets

CONSTANTS
  Requests,    \* requests over the life of the service
  Sources,     \* source plugins
  Items,       \* what there is to find: contacts of a lookup, extens of a reverse
  MaxWorkers   \* executor_workers, or rest_api.max_threads

ASSUME WorkersAssumption == MaxWorkers \in Nat \ {0}

VARIABLES
  fut,         \* state of each future
  found,       \* what its source returned
  queue,       \* the work queue, cancelled futures included
  accepting    \* shutdown() has not been called

execVars == <<fut, found, queue, accepting>>

Futures == Requests \X Sources

ExecTypeOK ==
  /\ fut \in [Futures -> {"none", "pending", "running", "done", "cancelled"}]
  /\ found \in [Futures -> SUBSET Items]
  /\ queue \in Seq(Futures)
  /\ accepting \in BOOLEAN

ExecInit ==
  /\ fut = [f \in Futures |-> "none"]
  /\ found = [f \in Futures |-> {}]
  /\ queue = <<>>
  /\ accepting = TRUE

FuturesOf(r, S) == {r} \X S

IsDone(f) == fut[f] \in {"done", "cancelled"}

Busy == Cardinality({f \in Futures : fut[f] = "running"})

Submit(f) ==
  /\ accepting
  /\ fut' = [fut EXCEPT ![f] = "pending"]
  /\ queue' = Append(queue, f)
  /\ UNCHANGED <<found, accepting>>

(* A free worker takes the oldest future; a cancelled one is dropped.      *)
TakeNext ==
  /\ queue # <<>>
  /\ Busy < MaxWorkers
  /\ queue' = Tail(queue)
  /\ fut' = IF fut[Head(queue)] = "pending"
            THEN [fut EXCEPT ![Head(queue)] = "running"] ELSE fut
  /\ UNCHANGED <<found, accepting>>

(* Mutant: the exception of a source becomes its answer.                   *)
FinishUnstopped(f, answer) ==
  /\ fut[f] = "running"
  /\ fut' = [fut EXCEPT ![f] = "done"]
  /\ found' = [found EXCEPT ![f] = {"exception"}]
  /\ UNCHANGED <<queue, accepting>>

(* RaiseStopper: the source's answer, or nothing when it raised.           *)
Finish(f, answer) ==
  /\ fut[f] = "running"
  /\ fut' = [fut EXCEPT ![f] = "done"]
  /\ found' = [found EXCEPT ![f] = answer]
  /\ UNCHANGED <<queue, accepting>>

(* Future.cancel(): only a future no worker has taken.                     *)
Cancel(f) ==
  /\ fut' = IF fut[f] = "pending" THEN [fut EXCEPT ![f] = "cancelled"] ELSE fut
  /\ UNCHANGED <<found, queue, accepting>>

(* shutdown(): what is queued still runs, what comes later raises.         *)
Shutdown ==
  /\ accepting
  /\ accepting' = FALSE
  /\ UNCHANGED <<fut, found, queue>>

Drained == ~accepting /\ queue = <<>> /\ Busy = 0
=============================================================================
