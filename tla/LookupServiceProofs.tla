------------------------ MODULE LookupServiceProofs ------------------------
(***************************************************************************)
(* Lookups keep the promise of a directory query, for any number of        *)
(* requests, sources, workers and items.                                   *)
(***************************************************************************)
EXTENDS LookupService, TLAPS

(* Where each future stands in its request: a source still to submit has   *)
(* none, a future belongs to a source that was asked, a lookup cancels     *)
(* nothing and starts waiting when nothing is left to submit.              *)
FuturesInStep ==
  /\ \A r \in Requests, s \in Sources :
       /\ fut[<<r, s>>] # "none" => s \in asked[r]
       /\ fut[<<r, s>>] # "cancelled"
       /\ s \in left[r] => fut[<<r, s>>] = "none" /\ s \in asked[r]
  /\ \A r \in Requests : pc[r] = "idle" => asked[r] = {}

IInv == TypeOK /\ FuturesInStep

(* What each executor operation does to the futures.                       *)
LEMMA SubmitType ==
  ASSUME TypeOK, NEW f \in Futures, Submit(f)
  PROVE  ExecTypeOK'
  BY DEF TypeOK, ExecTypeOK, Submit

LEMMA TakeNextType ==
  ASSUME TypeOK, TakeNext
  PROVE  /\ ExecTypeOK'
         /\ \A f \in Futures : fut'[f] # fut[f] => fut[f] = "pending" /\ fut'[f] = "running"
<1>1. Head(queue) \in Futures /\ Tail(queue) \in Seq(Futures)
  BY DEF TypeOK, ExecTypeOK, TakeNext
<1> QED
  BY <1>1 DEF TypeOK, ExecTypeOK, TakeNext

LEMMA FinishType ==
  ASSUME TypeOK, NEW f \in Futures, NEW A \in SUBSET Items, Finish(f, A)
  PROVE  ExecTypeOK'
  BY DEF TypeOK, ExecTypeOK, Finish

LEMMA InitIInv == Init => IInv
  BY DEF Init, ExecInit, IInv, TypeOK, ExecTypeOK, FuturesInStep, Futures

LEMMA NextIInv == IInv /\ [Next]_vars => IInv'
<1> SUFFICES ASSUME IInv, [Next]_vars PROVE IInv'
  OBVIOUS
<1> USE DEF IInv
<1>1. ASSUME NEW r \in Requests, Lookup(r) PROVE IInv'
  BY <1>1 DEF Lookup, TypeOK, ExecTypeOK, FuturesInStep, execVars, Futures
<1>2. ASSUME NEW r \in Requests, SubmitSearch(r) PROVE IInv'
  <2>1. PICK s \in left[r] : Submit(<<r, s>>) /\ left' = [left EXCEPT ![r] = @ \ {s}]
    BY <1>2 DEF SubmitSearch
  <2>2. <<r, s>> \in Futures /\ s \in asked[r]
    BY DEF TypeOK, Futures, FuturesInStep
  <2> QED
    BY <1>2, <2>1, <2>2, SubmitType DEF SubmitSearch, Submit, TypeOK, ExecTypeOK, FuturesInStep, Futures
<1>3. ASSUME NEW r \in Requests, SubmitRefused(r) \/ StartWait(r) \/ EndWait(r) PROVE IInv'
  <2>1. Answers(r) \in SUBSET (Sources \X SUBSET Items)
    <3>1. \A s \in Sources : found[<<r, s>>] \in SUBSET Items
      BY DEF TypeOK, ExecTypeOK, Futures
    <3>2. \A s \in asked[r] : s \in Sources
      BY DEF TypeOK
    <3>3. \A s \in asked[r] : <<s, found[<<r, s>>]>> \in Sources \X SUBSET Items
      BY <3>1, <3>2
    <3> QED
      BY <3>3 DEF Answers
  <2>2. TypeOK'
    BY <1>3, <2>1 DEF SubmitRefused, StartWait, EndWait, TypeOK, ExecTypeOK, execVars
  <2>3. FuturesInStep'
    BY <1>3 DEF SubmitRefused, StartWait, EndWait, TypeOK, FuturesInStep, execVars
  <2> QED
    BY <2>2, <2>3
<1>4. CASE Worker
  BY <1>4, TakeNextType DEF Worker, lookupVars, TypeOK, FuturesInStep, Futures
<1>5. ASSUME NEW f \in Futures, Work(f) PROVE IInv'
  BY <1>5, FinishType DEF Work, Finish, lookupVars, TypeOK, ExecTypeOK, FuturesInStep, Futures
<1>6. CASE Stop \/ Terminated \/ UNCHANGED vars
  BY <1>6 DEF Stop, Shutdown, Terminated, vars, execVars, lookupVars, TypeOK, ExecTypeOK, FuturesInStep
<1> QED
  BY <1>1, <1>2, <1>3, <1>4, <1>5, <1>6 DEF Next, RequestStep

THEOREM SpecIInv == Spec => []IInv
  BY InitIInv, NextIInv, PTL DEF Spec

(* The variables of the lookup service and of its executor keep their types. *)
THEOREM SpecTypeOK == Spec => []TypeOK
<1>1. IInv => TypeOK
  BY DEF IInv
<1> QED
  BY <1>1, SpecIInv, PTL

----------------------------------------------------------------------------
(* The refinement.  The status the mapping gives a request.                *)
Status ==
  [r \in Requests |->
    CASE pc[r] = "idle" -> "new"
      [] pc[r] \in {"submit", "wait"} -> "open"
      [] pc[r] = "replied" -> "replied"
      [] pc[r] = "failed" -> "rejected"]

(* A step that leaves futures alone leaves the answers alone.              *)
LEMMA SameAnswers ==
  ASSUME NEW r \in Requests,
         \A s \in asked[r] : (fut'[<<r, s>>] = "done") = (fut[<<r, s>>] = "done"),
         asked'[r] = asked[r], found' = found
  PROVE  Answers(r)' = Answers(r)
  BY DEF Answers

LEMMA InitPromise == Init => Promise!Init
<1> SUFFICES ASSUME Init PROVE Promise!Init
  OBVIOUS
<1>1. \A r \in Requests : Answers(r) = {}
  BY DEF Init, Answers
<1> QED
  BY <1>1 DEF Init, Promise!Init

LEMMA NextPromise ==
  ASSUME IInv, IInv', [Next]_vars
  PROVE  [Promise!Next]_Promise!promiseVars
<1> USE DEF IInv
<1> DEFINE allAnswers == [r \in Requests |-> Answers(r)]
<1> DEFINE Stutter == /\ Status' = Status /\ asked' = asked /\ reply' = reply
                      /\ \A r \in Requests : Answers(r)' = Answers(r)
<1>0. ASSUME Stutter PROVE UNCHANGED Promise!promiseVars
  BY <1>0 DEF Promise!promiseVars, Status
<1>1. ASSUME NEW r \in Requests, Lookup(r) PROVE Promise!Ask(r)
  <2>1. PICK S \in SUBSET Sources : asked' = [asked EXCEPT ![r] = S]
    BY <1>1 DEF Lookup
  <2>2. \A q \in Requests : Answers(q)' = Answers(q)
    <3>1. Answers(r)' = {} /\ Answers(r) = {}
      <4>1. \A s \in Sources : fut[<<r, s>>] = "none" /\ fut'[<<r, s>>] = "none"
        BY <1>1 DEF Lookup, execVars, FuturesInStep
      <4>2. asked[r] \subseteq Sources /\ asked'[r] \subseteq Sources
        BY DEF TypeOK
      <4> QED
        BY <4>1, <4>2 DEF Answers
    <3>2. \A q \in Requests \ {r} : Answers(q)' = Answers(q)
      BY <1>1, <2>1, SameAnswers DEF Lookup, execVars, TypeOK
    <3> QED
      BY <3>1, <3>2
  <2>3. Status[r] = "new" /\ Status' = [Status EXCEPT ![r] = "open"]
    BY <1>1 DEF Lookup, Status, TypeOK
  <2> QED
    BY <1>1, <2>1, <2>2, <2>3 DEF Lookup, Promise!Ask, Status
<1>2. ASSUME NEW r \in Requests, SubmitSearch(r) PROVE Stutter
  <2>1. PICK s \in left[r] : Submit(<<r, s>>)
    BY <1>2 DEF SubmitSearch
  <2>2. <<r, s>> \in Futures /\ fut[<<r, s>>] = "none"
    BY DEF TypeOK, Futures, FuturesInStep
  <2>3. \A q \in Requests : Answers(q)' = Answers(q)
    <3>1. \A q \in Requests, x \in Sources :
             (fut'[<<q, x>>] = "done") = (fut[<<q, x>>] = "done")
      BY <2>1, <2>2 DEF Submit, TypeOK, ExecTypeOK, Futures
    <3>2. asked' = asked /\ found' = found
      BY <1>2, <2>1 DEF SubmitSearch, Submit
    <3> QED
      BY <3>1, <3>2, SameAnswers DEF TypeOK
  <2> QED
    BY <1>2, <2>3 DEF SubmitSearch, Status
<1>3. ASSUME NEW r \in Requests, SubmitRefused(r) PROVE Promise!Reject(r)
  <2>1. \A q \in Requests : Answers(q)' = Answers(q)
    BY <1>3 DEF SubmitRefused, execVars, Answers
  <2>2. Status[r] = "open" /\ Status' = [Status EXCEPT ![r] = "rejected"]
    BY <1>3 DEF SubmitRefused, Status, TypeOK
  <2> QED
    BY <1>3, <2>1, <2>2 DEF SubmitRefused, Promise!Reject, Status
<1>4. ASSUME NEW r \in Requests, StartWait(r) PROVE Stutter
  BY <1>4 DEF StartWait, execVars, Answers, Status, TypeOK
<1>5. ASSUME NEW r \in Requests, EndWait(r) PROVE Promise!Reply(r)
  <2>1. \A q \in Requests : Answers(q)' = Answers(q)
    BY <1>5 DEF EndWait, execVars, Answers
  <2>2. Status[r] = "open" /\ Status' = [Status EXCEPT ![r] = "replied"]
    BY <1>5 DEF EndWait, Status, TypeOK
  <2>3. r \in Deadline \/ \A s \in asked[r] : \E p \in Answers(r) : p[1] = s
    <3> SUFFICES ASSUME r \notin Deadline, NEW s \in asked[r]
                 PROVE  \E p \in Answers(r) : p[1] = s
      OBVIOUS
    <3>1. fut[<<r, s>>] = "done"
      BY <1>5 DEF EndWait, WaitIsOver, IsDone, TypeOK, FuturesInStep
    <3>2. <<s, found[<<r, s>>]>> \in Answers(r)
      BY <3>1 DEF Answers
    <3> QED
      BY <3>2
  <2>4. reply' = [reply EXCEPT ![r] = allAnswers[r]]
    BY <1>5 DEF EndWait
  <2> QED
    BY <1>5, <2>1, <2>2, <2>3, <2>4 DEF EndWait, Promise!Reply, Status
<1>6. ASSUME Worker PROVE Stutter
  <2>1. \A r \in Requests, s \in Sources : (fut'[<<r, s>>] = "done") = (fut[<<r, s>>] = "done")
    BY <1>6, TakeNextType DEF Worker, Futures
  <2>2. asked' = asked /\ found' = found
    BY <1>6 DEF Worker, TakeNext, lookupVars
  <2>3. \A r \in Requests : Answers(r)' = Answers(r)
    BY <2>1, <2>2, SameAnswers DEF TypeOK
  <2> QED
    BY <1>6, <2>3 DEF Worker, lookupVars, Status
<1>7. ASSUME NEW f \in Futures, Work(f) PROVE Promise!Answer(f[1])
  <2>1. PICK A \in SUBSET Items : Finish(f, A)
    BY <1>7 DEF Work
  <2>2. PICK r \in Requests, s \in Sources : f = <<r, s>>
    BY DEF Futures
  <2>3. s \in asked[r] /\ fut[<<r, s>>] = "running" /\ UNCHANGED <<asked, reply, pc>>
    BY <1>7, <2>1, <2>2 DEF Work, Finish, lookupVars, FuturesInStep
  <2>4. \A p \in Answers(r) : p[1] # s
    <3> SUFFICES ASSUME NEW p \in Answers(r), p[1] = s PROVE FALSE
      OBVIOUS
    <3>1. PICK x \in asked[r] : fut[<<r, x>>] = "done" /\ p = <<x, found[<<r, x>>]>>
      BY DEF Answers
    <3> QED
      BY <2>3, <3>1
  <2>5. Answers(r)' = Answers(r) \cup {<<s, A>>}
    <3>1. /\ fut'[<<r, s>>] = "done" /\ found'[<<r, s>>] = A /\ asked'[r] = asked[r]
          /\ \A x \in Sources \ {s} : /\ fut'[<<r, x>>] = fut[<<r, x>>]
                                      /\ found'[<<r, x>>] = found[<<r, x>>]
      BY <2>1, <2>2, <2>3 DEF Finish, TypeOK, ExecTypeOK, Futures
    <3>2. asked[r] \subseteq Sources
      BY DEF TypeOK
    <3>3. \A p : p \in Answers(r)' <=>
                 \E x \in asked[r] : fut'[<<r, x>>] = "done" /\ p = <<x, found'[<<r, x>>]>>
      BY <3>1 DEF Answers
    <3>4. \A p : p \in Answers(r) <=>
                 \E x \in asked[r] : fut[<<r, x>>] = "done" /\ p = <<x, found[<<r, x>>]>>
      BY DEF Answers
    <3>5. ASSUME NEW p \in Answers(r)' PROVE p \in Answers(r) \/ p = <<s, A>>
      <4>1. PICK x \in asked[r] : fut'[<<r, x>>] = "done" /\ p = <<x, found'[<<r, x>>]>>
        BY <3>3
      <4>2. CASE x = s
        BY <3>1, <4>1, <4>2
      <4>3. CASE x # s
        BY <3>1, <3>2, <3>4, <4>1, <4>3
      <4> QED
        BY <4>2, <4>3
    <3>6. ASSUME NEW p \in Answers(r) PROVE p \in Answers(r)'
      <4>1. PICK x \in asked[r] : fut[<<r, x>>] = "done" /\ p = <<x, found[<<r, x>>]>>
        BY <3>4
      <4>2. x # s
        BY <2>3, <4>1
      <4> QED
        BY <3>1, <3>2, <3>3, <4>1, <4>2
    <3>7. <<s, A>> \in Answers(r)'
      BY <2>3, <3>1, <3>3
    <3> QED
      BY <3>5, <3>6, <3>7
  <2>6. \A q \in Requests \ {r} : Answers(q)' = Answers(q)
    BY <2>1, <2>2, <2>3 DEF Finish, Answers, TypeOK, ExecTypeOK, Futures
  <2>7. allAnswers' = [allAnswers EXCEPT ![r] = @ \cup {<<s, A>>}]
    BY <2>5, <2>6
  <2>8. Status' = Status
    BY <2>3 DEF Status
  <2> QED
    <3>1. f[1] = r /\ r \in Requests
      BY <2>2
    <3>2. \E x \in asked[r], B \in SUBSET Items :
             /\ \A p \in allAnswers[r] : p[1] # x
             /\ allAnswers' = [allAnswers EXCEPT ![r] = @ \cup {<<x, B>>}]
      BY <2>3, <2>4, <2>7
    <3> QED
      BY <2>3, <2>8, <3>1, <3>2 DEF Promise!Answer, Status
<1>8. ASSUME Stop \/ Terminated \/ UNCHANGED vars PROVE Stutter
  <2>1. UNCHANGED <<fut, found, pc, asked, reply>>
    BY <1>8 DEF Stop, Shutdown, Terminated, vars, execVars, lookupVars
  <2> QED
    BY <2>1 DEF Answers, Status
<1> QED
  BY <1>0, <1>1, <1>2, <1>3, <1>4, <1>5, <1>6, <1>7, <1>8
     DEF Next, RequestStep, Promise!Next, Futures

(* Every behaviour of the lookup service is one of a directory query: late *)
(* answers never reach a reply, and only a timeout leaves a source out.    *)
THEOREM SpecKeepsPromise == Spec => KeepsPromise
<1>1. IInv /\ IInv' /\ [Next]_vars => [Promise!Next]_Promise!promiseVars
  BY NextPromise
<1> QED
  BY <1>1, InitPromise, SpecIInv, PTL DEF Spec, KeepsPromise, Promise!Spec
=============================================================================
