--------------------------- MODULE DirectoryQuery ---------------------------
(***************************************************************************)
(* What a query of the directory promises its caller: it is put to a set   *)
(* of sources, each of them answers at most once, and the query replies    *)
(* once, with what the sources that had answered by then had found.  Only a *)
(* query with a deadline may reply before every source has answered.       *)
(***************************************************************************)
CONSTANTS Requests, Sources, Items, Deadline

VARIABLES
  status,    \* "new", "open", "replied" or "rejected"
  asked,     \* the sources of each query
  answers,   \* [source -> items] of the sources that have answered
  reply      \* the answers the reply was made of

promiseVars == <<status, asked, answers, reply>>

Init ==
  /\ status = [r \in Requests |-> "new"]
  /\ asked = [r \in Requests |-> {}]
  /\ answers = [r \in Requests |-> {}]
  /\ reply = [r \in Requests |-> {}]

Ask(r) ==
  /\ status[r] = "new"
  /\ status' = [status EXCEPT ![r] = "open"]
  /\ \E S \in SUBSET Sources : asked' = [asked EXCEPT ![r] = S]
  /\ UNCHANGED <<answers, reply>>

Answer(r) ==
  /\ \E s \in asked[r], A \in SUBSET Items :
       /\ \A p \in answers[r] : p[1] # s
       /\ answers' = [answers EXCEPT ![r] = @ \cup {<<s, A>>}]
  /\ UNCHANGED <<status, asked, reply>>

Reply(r) ==
  /\ status[r] = "open"
  /\ r \in Deadline \/ \A s \in asked[r] : \E p \in answers[r] : p[1] = s
  /\ status' = [status EXCEPT ![r] = "replied"]
  /\ reply' = [reply EXCEPT ![r] = answers[r]]
  /\ UNCHANGED <<asked, answers>>

(* The service is shutting down.                                           *)
Reject(r) ==
  /\ status[r] = "open"
  /\ status' = [status EXCEPT ![r] = "rejected"]
  /\ UNCHANGED <<asked, answers, reply>>

Next == \E r \in Requests : Ask(r) \/ Answer(r) \/ Reply(r) \/ Reject(r)

Spec == Init /\ [][Next]_promiseVars
=============================================================================
