------------------------ MODULE ReverseServiceProofs ------------------------
(***************************************************************************)
(* Reverse lookups for any number of requests, sources, extens and workers, *)
(* whatever hangs: what they answer is true, and they leave no future.      *)
(***************************************************************************)
EXTENDS ReverseService, TLAPS

(* Where the futures of a request stand at each of its steps: it has one   *)
(* per source it was given and submitted, and the ones no worker has taken *)
(* are those it still has to cancel.                                       *)
FuturesInStep(r) ==
  /\ left[r] \subseteq asked[r]
  /\ pc[r] = "idle" => asked[r] = {}
  /\ pc[r] = "iterate" => left[r] = {}
  /\ pc[r] = "replied" => left[r] = {}
  /\ \A s \in Sources :
       /\ fut[<<r, s>>] # "none" => s \in asked[r]
       /\ pc[r] = "submit" => (fut[<<r, s>>] = "none" <=> s \notin asked[r] \ left[r])
       /\ fut[<<r, s>>] = "cancelled" => pc[r] \in {"cancel", "replied"}
       /\ pc[r] \in {"cancel", "replied"} /\ fut[<<r, s>>] = "pending" => s \in left[r]

(* What has been read: results come from the sources that were heard, and  *)
(* an exten without a result is one that none of them has.                 *)
ReadIsTrue(r) ==
  /\ yielded[r] \subseteq asked[r]
  /\ \A s \in yielded[r] : fut[<<r, s>>] = "done"
  /\ \A e \in Items :
       /\ results[r][e] # None =>
            results[r][e] \in yielded[r] /\ e \in found[<<r, results[r][e]>>]
       /\ results[r][e] = None => \A s \in yielded[r] : e \notin found[<<r, s>>]

(* Why a request stopped reading.                                          *)
StoppedForAReason(r) ==
  pc[r] \in {"cancel", "replied"} =>
    late[r] \/ yielded[r] = asked[r] \/ AllFound(r, results[r])

RequestInv(r) == FuturesInStep(r) /\ ReadIsTrue(r) /\ StoppedForAReason(r)

IInv == TypeOK /\ \A r \in Requests : RequestInv(r)

USE DEF Futures, FuturesOf, IsDone

(* A worker only takes a future that waits.                                 *)
LEMMA TakeNextEffect ==
  ASSUME ExecTypeOK, TakeNext
  PROVE  /\ ExecTypeOK'
         /\ \A f \in Futures : fut'[f] # fut[f] => fut[f] = "pending" /\ fut'[f] = "running"
<1>1. Head(queue) \in Futures /\ Tail(queue) \in Seq(Futures)
  BY DEF ExecTypeOK, TakeNext
<1> QED
  BY <1>1 DEF ExecTypeOK, TakeNext

(* What others do to a request: its own variables stay, a waiting future   *)
(* may be taken and a running one may end.                                 *)
SameRequest(r) ==
  /\ pc'[r] = pc[r] /\ asked'[r] = asked[r] /\ left'[r] = left[r]
  /\ yielded'[r] = yielded[r] /\ results'[r] = results[r] /\ late'[r] = late[r]

OthersMove(r) ==
  /\ SameRequest(r)
  /\ \A s \in Sources :
       LET f == <<r, s>>
       IN \/ fut'[f] = fut[f] /\ found'[f] = found[f]
          \/ fut[f] = "pending" /\ fut'[f] = "running" /\ found'[f] = found[f]
          \/ fut[f] = "running" /\ fut'[f] = "done"

LEMMA OthersDoNoHarm ==
  ASSUME IInv, NEW r \in Requests, OthersMove(r)
  PROVE  RequestInv(r)'
<1> USE DEF OthersMove, SameRequest
<1>1. yielded[r] \subseteq Sources
  BY DEF IInv, TypeOK
<1>2. RequestInv(r)
  BY DEF IInv
<1>3. FuturesInStep(r)'
  BY <1>2 DEF RequestInv, FuturesInStep
<1>4. ReadIsTrue(r)'
  <2>1. \A s \in yielded[r] : fut'[<<r, s>>] = "done" /\ found'[<<r, s>>] = found[<<r, s>>]
    BY <1>1, <1>2 DEF RequestInv, ReadIsTrue
  <2> QED
    BY <1>2, <2>1 DEF RequestInv, ReadIsTrue
<1>5. StoppedForAReason(r)'
  BY <1>2 DEF RequestInv, StoppedForAReason, AllFound
<1> QED
  BY <1>3, <1>4, <1>5 DEF RequestInv

(* A step of a request leaves the others alone.                            *)
LEMMA OneRequest ==
  ASSUME IInv, TypeOK', NEW r \in Requests, RequestInv(r)',
         \A q \in Requests \ {r} : OthersMove(q)
  PROVE  IInv'
  BY OthersDoNoHarm DEF IInv

LEMMA NobodysStep ==
  ASSUME IInv, TypeOK', \A q \in Requests : OthersMove(q)
  PROVE  IInv'
  BY OthersDoNoHarm DEF IInv

LEMMA InitIInv == Init => IInv
<1> SUFFICES ASSUME Init PROVE IInv
  OBVIOUS
<1> USE DEF Init, ExecInit
<1>1. TypeOK
  BY DEF TypeOK, ExecTypeOK
<1>2. ASSUME NEW r \in Requests PROVE RequestInv(r)
  BY DEF RequestInv, FuturesInStep, ReadIsTrue, StoppedForAReason
<1> QED
  BY <1>1, <1>2 DEF IInv

LEMMA StartIInv ==
  ASSUME IInv, NEW r \in Requests, Start(r)
  PROVE  IInv'
<1>1. PICK S \in SUBSET Sources : /\ asked' = [asked EXCEPT ![r] = S]
                                  /\ left' = [left EXCEPT ![r] = S]
  BY DEF Start
<1> USE <1>1 DEF Start, execVars
<1>2. TypeOK'
  BY DEF IInv, TypeOK, ExecTypeOK
<1>3. \A q \in Requests \ {r} : OthersMove(q)
  BY DEF IInv, TypeOK, OthersMove, SameRequest
<1>4. RequestInv(r) /\ \A s \in Sources : fut[<<r, s>>] = "none"
  BY DEF IInv, RequestInv, FuturesInStep
<1>5. RequestInv(r)'
  <2>1. pc'[r] = "submit" /\ asked'[r] = S /\ left'[r] = S
    BY DEF IInv, TypeOK
  <2>2. asked[r] = {} /\ yielded[r] = {}
    BY <1>4 DEF RequestInv, FuturesInStep, ReadIsTrue
  <2>3. FuturesInStep(r)' /\ StoppedForAReason(r)'
    BY <1>4, <2>1 DEF FuturesInStep, StoppedForAReason
  <2>4. ReadIsTrue(r)'
    BY <1>4, <2>1, <2>2 DEF RequestInv, ReadIsTrue
  <2> QED
    BY <2>3, <2>4 DEF RequestInv
<1> QED
  BY <1>2, <1>3, <1>5, OneRequest

LEMMA SubmitIInv ==
  ASSUME IInv, NEW r \in Requests, SubmitMatch(r), left[r] # {}
  PROVE  IInv'
<1>1. PICK s \in left[r] : Submit(<<r, s>>) /\ left' = [left EXCEPT ![r] = @ \ {s}]
  BY DEF SubmitMatch
<1>2. RequestInv(r) /\ s \in Sources /\ s \in asked[r] /\ fut[<<r, s>>] = "none"
  BY <1>1 DEF IInv, TypeOK, RequestInv, FuturesInStep, SubmitMatch
<1> USE <1>1, <1>2 DEF SubmitMatch, Submit
<1>3. TypeOK'
  BY DEF IInv, TypeOK, ExecTypeOK
<1>4. \A q \in Requests \ {r} : OthersMove(q)
  BY DEF IInv, TypeOK, ExecTypeOK, OthersMove, SameRequest
<1>5. RequestInv(r)'
  <2>1. /\ left'[r] = left[r] \ {s}
        /\ \A q \in Sources : fut'[<<r, q>>] = IF q = s THEN "pending" ELSE fut[<<r, q>>]
    BY DEF IInv, TypeOK, ExecTypeOK
  <2>2. FuturesInStep(r)' /\ StoppedForAReason(r)'
    BY <2>1 DEF RequestInv, FuturesInStep, StoppedForAReason
  <2>3. ReadIsTrue(r)'
    BY <2>1 DEF IInv, TypeOK, RequestInv, ReadIsTrue
  <2> QED
    BY <2>2, <2>3 DEF RequestInv
<1> QED
  BY <1>3, <1>4, <1>5, OneRequest

(* The steps of a request that change no future.                           *)
LEMMA OwnStepIInv ==
  ASSUME IInv, NEW r \in Requests, UNCHANGED <<execVars, asked, yielded, results>>,
         NEW step \in {"iterate", "cancel", "replied", "failed"}, pc' = [pc EXCEPT ![r] = step],
         left' = [left EXCEPT ![r] = left'[r]], left'[r] \subseteq asked[r],
         late' = [late EXCEPT ![r] = late'[r]], late'[r] \in BOOLEAN,
         FuturesInStep(r)', StoppedForAReason(r)'
  PROVE  IInv'
<1>1. TypeOK'
  <2>1. left'[r] \in SUBSET Sources
    BY DEF IInv, TypeOK
  <2> QED
    BY <2>1 DEF IInv, TypeOK, ExecTypeOK, execVars
<1>2. \A q \in Requests \ {r} : OthersMove(q)
  BY DEF IInv, TypeOK, execVars, OthersMove, SameRequest
<1>3. ReadIsTrue(r)'
  BY DEF IInv, RequestInv, ReadIsTrue, execVars
<1> QED
  BY <1>1, <1>2, <1>3, OneRequest DEF RequestInv

LEMMA SubmittedIInv ==
  ASSUME IInv, NEW r \in Requests, (SubmitMatch(r) /\ left[r] = {}) \/ SubmitRefused(r)
  PROVE  IInv'
<1> USE DEF SubmitMatch, SubmitRefused, execVars
<1>1. /\ \/ pc' = [pc EXCEPT ![r] = "iterate"] /\ left[r] = {}
         \/ pc' = [pc EXCEPT ![r] = "failed"]
      /\ UNCHANGED <<execVars, asked, left, yielded, results, late>>
  OBVIOUS
<1>2. pc[r] = "submit" /\ pc'[r] \in {"iterate", "failed"} /\ (pc'[r] = "iterate" => left[r] = {})
  BY <1>1 DEF IInv, TypeOK
<1>3. FuturesInStep(r)' /\ StoppedForAReason(r)'
  BY <1>1, <1>2 DEF IInv, RequestInv, FuturesInStep, StoppedForAReason
<1>4. left = [left EXCEPT ![r] = left[r]] /\ late = [late EXCEPT ![r] = late[r]]
  BY DEF IInv, TypeOK
<1>5. left[r] \subseteq asked[r] /\ late[r] \in BOOLEAN
  BY DEF IInv, TypeOK, RequestInv, FuturesInStep
<1> QED
  BY <1>1, <1>3, <1>4, <1>5, OwnStepIInv

(* Reading one more future keeps what has been read true.                  *)
LEMMA MergeIsTrue ==
  ASSUME IInv, NEW r \in Requests, NEW s \in asked[r], fut[<<r, s>>] = "done"
  PROVE  /\ Merge(r, s) \in [Items -> Sources \cup {None}]
         /\ \A e \in Items :
              /\ Merge(r, s)[e] # None =>
                   /\ Merge(r, s)[e] \in yielded[r] \cup {s}
                   /\ e \in found[<<r, Merge(r, s)[e]>>]
              /\ Merge(r, s)[e] = None =>
                   \A q \in yielded[r] \cup {s} : e \notin found[<<r, q>>]
<1>1. s \in Sources /\ s # None
  BY ReverseAssumption DEF IInv, TypeOK
<1>2. results[r] \in [Items -> Sources \cup {None}]
  BY DEF IInv, TypeOK
<1>3. ReadIsTrue(r)
  BY DEF IInv, RequestInv
<1> QED
  BY <1>1, <1>2, <1>3 DEF ReadIsTrue, Merge

(* The unfinished futures are all that may still wait.                     *)
LEMMA UnfinishedIsRest ==
  ASSUME NEW r \in Requests
  PROVE  /\ Unfinished(r) \subseteq asked[r]
         /\ \A s \in asked[r] : fut[<<r, s>>] = "pending" => s \in Unfinished(r)
  BY DEF Unfinished

LEMMA YieldIInv ==
  ASSUME IInv, NEW r \in Requests, NEW s \in Sources, Yield(r, s)
  PROVE  IInv'
<1> USE DEF Yield, execVars
<1>1. RequestInv(r) /\ s \in asked[r] /\ fut[<<r, s>>] = "done"
  BY DEF IInv, RequestInv, FuturesInStep
<1>2. /\ yielded'[r] = yielded[r] \cup {s}
      /\ results'[r] = Merge(r, s)
      /\ \/ pc'[r] = pc[r] /\ left'[r] = left[r]
         \/ pc'[r] = "cancel" /\ left'[r] = Unfinished(r) /\ AllFound(r, results'[r])
  BY DEF IInv, TypeOK
<1>3. TypeOK'
  <2>1. Merge(r, s) \in [Items -> Sources \cup {None}]
    BY <1>1, MergeIsTrue
  <2>2. Unfinished(r) \in SUBSET Sources
    BY UnfinishedIsRest DEF IInv, TypeOK
  <2> QED
    BY <2>1, <2>2 DEF IInv, TypeOK, ExecTypeOK
<1>4. \A q \in Requests \ {r} : OthersMove(q)
  BY DEF IInv, TypeOK, OthersMove, SameRequest
<1>5. FuturesInStep(r)'
  BY <1>1, <1>2, UnfinishedIsRest DEF RequestInv, FuturesInStep
<1>6. ReadIsTrue(r)'
  <2> DEFINE res == Merge(r, s)
  <2>1. \A e \in Items : /\ res[e] # None => res[e] \in yielded[r] \cup {s} /\ e \in found[<<r, res[e]>>]
                         /\ res[e] = None => \A q \in yielded[r] \cup {s} : e \notin found[<<r, q>>]
    BY <1>1, MergeIsTrue
  <2> HIDE DEF res
  <2>2. results'[r] = res
    BY <1>2 DEF res
  <2> QED
    <3>1. yielded'[r] \subseteq asked'[r]
      BY <1>1, <1>2 DEF RequestInv, ReadIsTrue
    <3>2. \A q \in yielded'[r] : fut'[<<r, q>>] = "done"
      BY <1>1, <1>2 DEF RequestInv, ReadIsTrue
    <3>3. \A e \in Items : /\ results'[r][e] # None =>
                               results'[r][e] \in yielded'[r] /\ e \in found'[<<r, results'[r][e]>>]
                           /\ results'[r][e] = None => \A q \in yielded'[r] : e \notin found'[<<r, q>>]
      BY <1>2, <2>1, <2>2
    <3> QED
      BY <3>1, <3>2, <3>3 DEF ReadIsTrue
<1>7. StoppedForAReason(r)'
  BY <1>1, <1>2 DEF StoppedForAReason, AllFound
<1> QED
  BY <1>3, <1>4, <1>5, <1>6, <1>7, OneRequest DEF RequestInv

LEMMA ExhaustedIInv ==
  ASSUME IInv, NEW r \in Requests, Exhausted(r)
  PROVE  IInv'
<1> USE DEF Exhausted, execVars
<1>1. RequestInv(r) /\ \A s \in Sources : fut[<<r, s>>] # "pending"
  BY DEF IInv, RequestInv, FuturesInStep, ReadIsTrue
<1>2. pc'[r] = "replied"
  BY DEF IInv, TypeOK
<1>3. FuturesInStep(r)' /\ StoppedForAReason(r)'
  BY <1>1, <1>2 DEF RequestInv, FuturesInStep, StoppedForAReason
<1>4. left = [left EXCEPT ![r] = left[r]] /\ late = [late EXCEPT ![r] = late[r]]
  BY DEF IInv, TypeOK
<1>5. left[r] \subseteq asked[r] /\ late[r] \in BOOLEAN
  BY <1>1 DEF IInv, TypeOK, RequestInv, FuturesInStep
<1> QED
  BY <1>3, <1>4, <1>5, OwnStepIInv

LEMMA TimeOutIInv ==
  ASSUME IInv, NEW r \in Requests, TimeOut(r)
  PROVE  IInv'
<1> USE DEF TimeOut, execVars
<1>1. pc'[r] = "cancel" /\ late'[r] = TRUE /\ left'[r] = Unfinished(r)
  BY DEF IInv, TypeOK
<1>2. FuturesInStep(r)' /\ StoppedForAReason(r)'
  BY <1>1, UnfinishedIsRest DEF IInv, RequestInv, FuturesInStep, StoppedForAReason
<1> QED
  BY <1>1, <1>2, UnfinishedIsRest, OwnStepIInv

LEMMA CancelledIInv ==
  ASSUME IInv, NEW r \in Requests, CancelPending(r), left[r] = {}
  PROVE  IInv'
<1> USE DEF CancelPending, execVars
<1>1. pc[r] = "cancel" /\ pc'[r] = "replied"
  BY DEF IInv, TypeOK
<1>2. FuturesInStep(r)' /\ StoppedForAReason(r)'
  BY <1>1 DEF IInv, RequestInv, FuturesInStep, StoppedForAReason, AllFound
<1>3. left = [left EXCEPT ![r] = left[r]] /\ late = [late EXCEPT ![r] = late[r]]
  BY DEF IInv, TypeOK
<1>4. left[r] \subseteq asked[r] /\ late[r] \in BOOLEAN
  BY DEF IInv, TypeOK
<1> QED
  BY <1>2, <1>3, <1>4, OwnStepIInv

LEMMA CancelIInv ==
  ASSUME IInv, NEW r \in Requests, CancelPending(r), left[r] # {}
  PROVE  IInv'
<1>1. PICK s \in left[r] : Cancel(<<r, s>>) /\ left' = [left EXCEPT ![r] = @ \ {s}]
  BY DEF CancelPending
<1>2. RequestInv(r) /\ s \in Sources /\ s \in asked[r]
  BY <1>1 DEF IInv, TypeOK, RequestInv, FuturesInStep
<1> USE <1>1, <1>2 DEF CancelPending, Cancel
<1>3. TypeOK'
  BY DEF IInv, TypeOK, ExecTypeOK
<1>4. \A q \in Requests \ {r} : OthersMove(q)
  BY DEF IInv, TypeOK, ExecTypeOK, OthersMove, SameRequest
<1>5. RequestInv(r)'
  <2>1. /\ left'[r] = left[r] \ {s}
        /\ \A q \in Sources :
             fut'[<<r, q>>] = IF q = s /\ fut[<<r, s>>] = "pending"
                              THEN "cancelled" ELSE fut[<<r, q>>]
    BY DEF IInv, TypeOK, ExecTypeOK
  <2>2. FuturesInStep(r)'
    BY <2>1 DEF RequestInv, FuturesInStep
  <2>3. ReadIsTrue(r)'
    BY <2>1 DEF IInv, TypeOK, RequestInv, ReadIsTrue
  <2>4. StoppedForAReason(r)'
    BY DEF RequestInv, StoppedForAReason, AllFound
  <2> QED
    BY <2>2, <2>3, <2>4 DEF RequestInv
<1> QED
  BY <1>3, <1>4, <1>5, OneRequest

LEMMA WorkerIInv ==
  ASSUME IInv, Worker
  PROVE  IInv'
<1>1. ExecTypeOK' /\ UNCHANGED <<revVars, found>>
  BY TakeNextEffect DEF IInv, TypeOK, Worker, TakeNext
<1>2. \A f \in Futures : fut'[f] # fut[f] => fut[f] = "pending" /\ fut'[f] = "running"
  BY TakeNextEffect DEF IInv, TypeOK, Worker
<1>3. TypeOK'
  BY <1>1 DEF IInv, TypeOK, revVars
<1>4. \A q \in Requests : OthersMove(q)
  BY <1>1, <1>2 DEF OthersMove, SameRequest, revVars
<1> QED
  BY <1>3, <1>4, NobodysStep

LEMMA WorkIInv ==
  ASSUME IInv, NEW f \in Futures, Work(f)
  PROVE  IInv'
<1>1. PICK A \in SUBSET Extens[f[1]] : Finish(f, A) /\ UNCHANGED revVars
  BY DEF Work
<1>2. A \subseteq Items
  BY <1>1, ReverseAssumption
<1>3. TypeOK'
  BY <1>1, <1>2 DEF IInv, TypeOK, ExecTypeOK, Finish, revVars
<1>4. \A q \in Requests : OthersMove(q)
  BY <1>1 DEF IInv, TypeOK, ExecTypeOK, Finish, OthersMove, SameRequest, revVars
<1> QED
  BY <1>3, <1>4, NobodysStep

LEMMA NextIInv == IInv /\ [Next]_vars => IInv'
<1> SUFFICES ASSUME IInv, [Next]_vars PROVE IInv'
  OBVIOUS
<1>1. CASE Stop \/ Terminated \/ UNCHANGED vars
  <2>1. ExecTypeOK' /\ UNCHANGED <<revVars, fut, found>>
    BY <1>1 DEF Stop, Shutdown, Terminated, vars, execVars, IInv, TypeOK, ExecTypeOK
  <2>2. TypeOK' /\ \A q \in Requests : OthersMove(q)
    BY <2>1 DEF revVars, IInv, TypeOK, OthersMove, SameRequest
  <2> QED
    BY <2>2, NobodysStep
<1>2. ASSUME NEW r \in Requests, Start(r) \/ RequestStep(r) PROVE IInv'
  BY <1>2, StartIInv, SubmitIInv, SubmittedIInv, YieldIInv, ExhaustedIInv, TimeOutIInv,
     CancelIInv, CancelledIInv DEF RequestStep
<1> QED
  BY <1>1, <1>2, WorkerIInv, WorkIInv DEF Next

THEOREM SpecIInv == Spec => []IInv
  BY InitIInv, NextIInv, PTL DEF Spec

----------------------------------------------------------------------------
(* A future of a reverse lookup is its request's own until it is read or   *)
(* cancelled: _cancel_pending leaves none behind for a worker, and none is  *)
(* cancelled that the loop has read or may still read.                     *)
THEOREM SpecFuturesAreSound == Spec => []FuturesAreSound
<1>1. IInv => NothingLeftBehind
  BY DEF IInv, RequestInv, FuturesInStep, NothingLeftBehind
<1>2. IInv => CancelledAreUnread
  BY DEF IInv, RequestInv, FuturesInStep, ReadIsTrue, CancelledAreUnread
<1>3. IInv => FuturesAreSound
  BY <1>1, <1>2 DEF IInv, FuturesAreSound
<1> QED
  BY <1>3, SpecIInv, PTL

(* reverse() and reverse_many() attribute a result to a source that gave   *)
(* it, and without a timeout say of an exten that nobody has it only when  *)
(* every source was heard.                                                 *)
THEOREM SpecResultsAreTrue == Spec => []ResultsAreTrue
<1>1. ASSUME IInv, NEW r \in Requests, pc[r] = "replied", NEW e \in Extens[r]
      PROVE  /\ results[r][e] # None =>
                  results[r][e] \in asked[r] /\ e \in found[<<r, results[r][e]>>]
             /\ results[r][e] = None /\ ~late[r] =>
                  \A s \in asked[r] : fut[<<r, s>>] = "done" /\ e \notin found[<<r, s>>]
  <2>1. e \in Items
    BY ReverseAssumption
  <2>2. ReadIsTrue(r) /\ StoppedForAReason(r)
    BY <1>1 DEF IInv, RequestInv
  <2>3. results[r][e] = None /\ ~late[r] => yielded[r] = asked[r]
    BY <1>1, <2>2 DEF StoppedForAReason, AllFound
  <2> QED
    BY <2>1, <2>2, <2>3 DEF ReadIsTrue
<1>2. IInv => ResultsAreTrue
  BY <1>1 DEF ResultsAreTrue
<1> QED
  BY <1>2, SpecIInv, PTL
=============================================================================
