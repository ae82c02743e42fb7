--------------------------- MODULE LookupService ---------------------------
(***************************************************************************)
(* _LookupService.lookup (plugins/lookup_service/plugin.py): one future per *)
(* source of the profile, then wait(ALL_COMPLETED), for ever unless the    *)
(* profile sets a timeout.  Futures that are late are not cancelled: they  *)
(* keep their place in the queue and their worker.                         *)
(***************************************************************************)
EXTENDS SearchExecutor

CONSTANTS
  Deadline,   \* requests whose profile sets options.timeout
  Hanging     \* sources whose search may never return

ASSUME LookupAssumption == Deadline \subseteq Requests /\ Hanging \subseteq Sources

VARIABLES
  pc,         \* step of each request
  asked,      \* the plugins source_from_profile gave it
  left,       \* those not submitted yet
  reply       \* the answers its results come from

lookupVars == <<pc, asked, left, reply>>
vars == <<execVars, lookupVars>>

TypeOK ==
  /\ ExecTypeOK
  /\ pc \in [Requests -> {"idle", "submit", "wait", "replied", "failed"}]
  /\ asked \in [Requests -> SUBSET Sources]
  /\ left \in [Requests -> SUBSET Sources]
  /\ reply \in [Requests -> SUBSET (Sources \X SUBSET Items)]

Init ==
  /\ ExecInit
  /\ pc = [r \in Requests |-> "idle"]
  /\ asked = [r \in Requests |-> {}]
  /\ left = [r \in Requests |-> {}]
  /\ reply = [r \in Requests |-> {}]

Answers(r) == {<<s, found[<<r, s>>]>> : s \in {x \in asked[r] : fut[<<r, x>>] = "done"}}

(* source_from_profile: the sources of the profile that could be loaded.   *)
Lookup(r) ==
  /\ pc[r] = "idle"
  /\ pc' = [pc EXCEPT ![r] = "submit"]
  /\ \E S \in SUBSET Sources : asked' = [asked EXCEPT ![r] = S] /\ left' = [left EXCEPT ![r] = S]
  /\ UNCHANGED <<execVars, reply>>

SubmitSearch(r) ==
  /\ pc[r] = "submit"
  /\ \E s \in left[r] : Submit(<<r, s>>) /\ left' = [left EXCEPT ![r] = @ \ {s}]
  /\ UNCHANGED <<pc, asked, reply>>

(* submit() after shutdown() raises: the futures already queued stay.      *)
SubmitRefused(r) ==
  /\ pc[r] = "submit"
  /\ left[r] # {}
  /\ ~accepting
  /\ pc' = [pc EXCEPT ![r] = "failed"]
  /\ UNCHANGED <<execVars, asked, left, reply>>

StartWait(r) ==
  /\ pc[r] = "submit"
  /\ left[r] = {}
  /\ pc' = [pc EXCEPT ![r] = "wait"]
  /\ UNCHANGED <<execVars, asked, left, reply>>

(* Mutant: return_when=FIRST_COMPLETED.                                    *)
WaitIsOverFirst(r) ==
  \/ asked[r] = {}
  \/ \E s \in asked[r] : IsDone(<<r, s>>)
  \/ r \in Deadline

(* Mutant: the timeout of the profile is not passed to wait().             *)
WaitIsOverUntimed(r) == \A s \in asked[r] : IsDone(<<r, s>>)

(* wait() returns: everything is done, or the timeout has passed.          *)
WaitIsOver(r) ==
  \/ \A s \in asked[r] : IsDone(<<r, s>>)
  \/ r \in Deadline

EndWait(r) ==
  /\ pc[r] = "wait"
  /\ WaitIsOver(r)
  /\ reply' = [reply EXCEPT ![r] = Answers(r)]
  /\ pc' = [pc EXCEPT ![r] = "replied"]
  /\ UNCHANGED <<execVars, asked, left>>

Work(f) == \E A \in SUBSET Items : Finish(f, A) /\ UNCHANGED lookupVars

Worker == TakeNext /\ UNCHANGED lookupVars

(* unload() stops the service once, from the main thread.                  *)
Stop == Shutdown /\ UNCHANGED lookupVars

Terminated ==
  /\ \A r \in Requests : pc[r] \in {"replied", "failed"}
  /\ Drained
  /\ UNCHANGED vars

RequestStep(r) == SubmitSearch(r) \/ SubmitRefused(r) \/ StartWait(r) \/ EndWait(r)

Next ==
  \/ \E r \in Requests : Lookup(r) \/ RequestStep(r)
  \/ Worker
  \/ \E f \in Futures : Work(f)
  \/ Stop
  \/ Terminated

Spec == Init /\ [][Next]_vars

(* An HTTP thread goes on until it waits; a wait with a timeout ends; a    *)
(* free worker takes work; a search returns unless its source hangs.       *)
Fairness ==
  /\ \A r \in Requests : WF_vars(RequestStep(r))
  /\ WF_vars(Worker)
  /\ \A f \in Requests \X (Sources \ Hanging) : WF_vars(Work(f))

FairSpec == Spec /\ Fairness

----------------------------------------------------------------------------
(* Refinement: lookups keep the promise of a directory query.              *)
Promise == INSTANCE DirectoryQuery WITH
  status  <- [r \in Requests |->
               CASE pc[r] = "idle" -> "new"
                 [] pc[r] \in {"submit", "wait"} -> "open"
                 [] pc[r] = "replied" -> "replied"
                 [] pc[r] = "failed" -> "rejected"],
  answers <- [r \in Requests |-> Answers(r)]

KeepsPromise == Promise!Spec

(* A lookup with a timeout replies even when sources hang, keep every      *)
(* worker and leave its own searches in the queue.                         *)
DeadlineReplies ==
  \A r \in Deadline : (pc[r] = "submit") ~> (pc[r] \in {"replied", "failed"})

(* A source that hangs, and may keep a worker for ever, has been asked.    *)
Hung == \E r \in Requests : asked[r] \cap Hanging # {}

(* Without timeouts too, every lookup replies unless a source hangs.       *)
EveryLookupReplies ==
  \A r \in Requests : (pc[r] = "submit") ~> (pc[r] \in {"replied", "failed"} \/ Hung)

(* stop(): shutdown() returns once the searches submitted have returned,   *)
(* those nobody waits for any more included, as long as no source hangs.   *)
ShutdownDrains == ~accepting ~> (Drained \/ Hung)

(* Every call that somebody waits for returns, whatever late searches keep. *)
EveryoneReplies == DeadlineReplies /\ EveryLookupReplies /\ ShutdownDrains
=============================================================================
