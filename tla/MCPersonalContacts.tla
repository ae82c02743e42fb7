------------------------- MODULE MCPersonalContacts -------------------------
EXTENDS PersonalContacts

(* An import of two contacts, of which one is sent with a uuid, and one of  *)
(* a contact that is.                                                      *)
MCImports == {[h \in {1, 2} |-> IF h = 1 THEN None ELSE 1], [h \in {2} |-> 1]}

(* Requests differ in their numbers only, which NewUuid makes uuids from:   *)
(* they are sent in the order of their numbers.                            *)
InTurn == \A q, r \in Requests : q < r /\ kind[r] # None => kind[q] # None

(* Of a request that has ended, actions and properties look at nothing else. *)
Outcome(r) ==
  <<kind[r], target[r], ids[r], reply[r] = "ok", IF kind[r] = "remove" THEN since[r] ELSE {}>>
Progress(r) ==
  <<pc[r], kind[r], target[r], ids[r], fieldsLeft[r], left[r], aim[r], failed[r], todo[r], since[r]>>
Relevant ==
  <<table, owner, told, [r \in Requests |-> IF pc[r] = "done" THEN Outcome(r) ELSE Progress(r)]>>
=============================================================================
