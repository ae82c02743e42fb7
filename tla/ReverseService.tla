--------------------------- MODULE ReverseService ---------------------------
(***************************************************************************)
(* _ReverseService (plugins/reverse_service/plugin.py).  reverse_many asks  *)
(* every source for a set of extens and merges what it gets as futures     *)
(* complete, until each exten has a result; reverse is the same loop for   *)
(* one exten (first_match instead of match_all).  There is always a        *)
(* timeout (1 s unless the profile says otherwise); on a full result and   *)
(* on a timeout the futures that have not started are cancelled.           *)
(***************************************************************************)
EXTENDS SearchExecutor

CONSTANTS
  None,
  Extens,     \* what each request looks up; one exten when it is a reverse()
  Hanging     \* sources whose search may never return

ASSUME ReverseAssumption ==
  /\ None \notin Sources
  /\ Extens \in [Requests -> (SUBSET Items) \ {{}}]
  /\ Hanging \subseteq Sources

VARIABLES
  pc,         \* step of each request
  asked,      \* the plugins source_from_profile gave it
  left,       \* to submit, then to cancel
  yielded,    \* sources whose future as_completed has given
  results,    \* exten -> source of its result, or None
  late        \* ghost: the request timed out

revVars == <<pc, asked, left, yielded, results, late>>
vars == <<execVars, revVars>>

TypeOK ==
  /\ ExecTypeOK
  /\ pc \in [Requests -> {"idle", "submit", "iterate", "cancel", "replied", "failed"}]
  /\ asked \in [Requests -> SUBSET Sources]
  /\ left \in [Requests -> SUBSET Sources]
  /\ yielded \in [Requests -> SUBSET Sources]
  /\ results \in [Requests -> [Items -> Sources \cup {None}]]
  /\ late \in [Requests -> BOOLEAN]

Init ==
  /\ ExecInit
  /\ pc = [r \in Requests |-> "idle"]
  /\ asked = [r \in Requests |-> {}]
  /\ left = [r \in Requests |-> {}]
  /\ yielded = [r \in Requests |-> {}]
  /\ results = [r \in Requests |-> [e \in Items |-> None]]
  /\ late = [r \in Requests |-> FALSE]

(* reverse and reverse_many: the sources that could be loaded.             *)
Start(r) ==
  /\ pc[r] = "idle"
  /\ pc' = [pc EXCEPT ![r] = "submit"]
  /\ \E S \in SUBSET Sources : asked' = [asked EXCEPT ![r] = S] /\ left' = [left EXCEPT ![r] = S]
  /\ UNCHANGED <<execVars, yielded, results, late>>

SubmitMatch(r) ==
  /\ pc[r] = "submit"
  /\ IF left[r] = {}
     THEN pc' = [pc EXCEPT ![r] = "iterate"] /\ UNCHANGED <<execVars, left>>
     ELSE /\ \E s \in left[r] : Submit(<<r, s>>) /\ left' = [left EXCEPT ![r] = @ \ {s}]
          /\ UNCHANGED pc
  /\ UNCHANGED <<asked, yielded, results, late>>

SubmitRefused(r) ==
  /\ pc[r] = "submit"
  /\ left[r] # {}
  /\ ~accepting
  /\ pc' = [pc EXCEPT ![r] = "failed"]
  /\ UNCHANGED <<execVars, asked, left, yielded, results, late>>

(* Mutant: only running futures are considered pending.                    *)
UnfinishedRunning(r) == {s \in asked[r] : fut[<<r, s>>] = "running"}

Unfinished(r) == {s \in asked[r] : ~IsDone(<<r, s>>)}

(* Mutant: the last answer replaces the results.                           *)
MergeReplaces(r, s) == [e \in Items |-> IF e \in found[<<r, s>>] THEN s ELSE None]

(* results.update(): a later source overwrites an earlier one.             *)
Merge(r, s) == [e \in Items |-> IF e \in found[<<r, s>>] THEN s ELSE results[r][e]]

AllFound(r, res) == \A e \in Extens[r] : res[e] # None

(* as_completed yields a finished future; when it completes the result the *)
(* others are cancelled.                                                   *)
Yield(r, s) ==
  /\ pc[r] = "iterate"
  /\ s \in asked[r] \ yielded[r]
  /\ IsDone(<<r, s>>)
  /\ yielded' = [yielded EXCEPT ![r] = @ \cup {s}]
  /\ results' = [results EXCEPT ![r] = Merge(r, s)]
  /\ IF found[<<r, s>>] # {} /\ AllFound(r, results'[r])
     THEN /\ pc' = [pc EXCEPT ![r] = "cancel"]
          /\ left' = [left EXCEPT ![r] = Unfinished(r)]
     ELSE UNCHANGED <<pc, left>>
  /\ UNCHANGED <<execVars, asked, late>>

Exhausted(r) ==
  /\ pc[r] = "iterate"
  /\ yielded[r] = asked[r]
  /\ pc' = [pc EXCEPT ![r] = "replied"]
  /\ UNCHANGED <<execVars, asked, left, yielded, results, late>>

(* Mutant: the clock is looked at when a future completes.                 *)
TimeOutOnCompletion(r) ==
  /\ pc[r] = "iterate"
  /\ \E s \in asked[r] \ yielded[r] : IsDone(<<r, s>>)
  /\ late' = [late EXCEPT ![r] = TRUE]
  /\ pc' = [pc EXCEPT ![r] = "cancel"]
  /\ left' = [left EXCEPT ![r] = Unfinished(r)]
  /\ UNCHANGED <<execVars, asked, yielded, results>>

(* The timeout passes, possibly just as a future completes.                *)
TimeOut(r) ==
  /\ pc[r] = "iterate"
  /\ yielded[r] # asked[r]
  /\ late' = [late EXCEPT ![r] = TRUE]
  /\ pc' = [pc EXCEPT ![r] = "cancel"]
  /\ left' = [left EXCEPT ![r] = Unfinished(r)]
  /\ UNCHANGED <<execVars, asked, yielded, results>>

(* _cancel_pending cancels one by one the futures that were not done when  *)
(* it began; workers take others meanwhile.                                *)
CancelPending(r) ==
  /\ pc[r] = "cancel"
  /\ IF left[r] = {}
     THEN pc' = [pc EXCEPT ![r] = "replied"] /\ UNCHANGED <<execVars, left>>
     ELSE /\ \E s \in left[r] : Cancel(<<r, s>>) /\ left' = [left EXCEPT ![r] = @ \ {s}]
          /\ UNCHANGED pc
  /\ UNCHANGED <<asked, yielded, results, late>>

Work(f) == \E A \in SUBSET Extens[f[1]] : Finish(f, A) /\ UNCHANGED revVars

Worker == TakeNext /\ UNCHANGED revVars

Stop == Shutdown /\ UNCHANGED revVars

Terminated ==
  /\ \A r \in Requests : pc[r] \in {"replied", "failed"}
  /\ Drained
  /\ UNCHANGED vars

RequestStep(r) ==
  \/ SubmitMatch(r) \/ SubmitRefused(r)
  \/ \E s \in Sources : Yield(r, s)
  \/ Exhausted(r) \/ TimeOut(r) \/ CancelPending(r)

Next ==
  \/ \E r \in Requests : Start(r) \/ RequestStep(r)
  \/ Worker
  \/ \E f \in Futures : Work(f)
  \/ Stop
  \/ Terminated

Spec == Init /\ [][Next]_vars

(* As for lookups; the timeout is part of the request's own steps.         *)
Fairness ==
  /\ \A r \in Requests : WF_vars(RequestStep(r))
  /\ WF_vars(Worker)
  /\ \A f \in Requests \X (Sources \ Hanging) : WF_vars(Work(f))

FairSpec == Spec /\ Fairness

----------------------------------------------------------------------------
(* A result is attributed to a source that did return it, and a missing    *)
(* result means, unless the request timed out, that every source was heard *)
(* and none has it.                                                        *)
ResultsAreTrue ==
  \A r \in Requests : pc[r] = "replied" =>
    \A e \in Extens[r] :
      /\ results[r][e] # None =>
           results[r][e] \in asked[r] /\ e \in found[<<r, results[r][e]>>]
      /\ results[r][e] = None /\ ~late[r] =>
           \A s \in asked[r] : fut[<<r, s>>] = "done" /\ e \notin found[<<r, s>>]

(* _cancel_pending: once a request has replied none of its futures is left *)
(* for a worker to start, however cancelling raced with the workers.       *)
NothingLeftBehind ==
  \A r \in Requests : pc[r] = "replied" =>
    \A s \in Sources : fut[<<r, s>>] # "pending"

(* as_completed gives the loop cancelled futures too, and result() would   *)
(* raise: none is cancelled while its own request can still read it.       *)
CancelledAreUnread ==
  \A r \in Requests, s \in Sources : fut[<<r, s>>] = "cancelled" =>
    pc[r] \in {"cancel", "replied"} /\ s \notin yielded[r]

(* A future is a request's own until it is read or cancelled, never both,   *)
(* and not there after it.                                                 *)
FuturesAreSound == TypeOK /\ NothingLeftBehind /\ CancelledAreUnread

(* Every reverse lookup replies, even when sources hang and hold workers.  *)
EveryReverseReplies ==
  \A r \in Requests : (pc[r] = "submit") ~> (pc[r] \in {"replied", "failed"})
=============================================================================
