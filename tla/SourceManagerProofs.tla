------------------------ MODULE SourceManagerProofs ------------------------
(***************************************************************************)
(* The source cache for any number of sources, names, threads and versions *)
(***************************************************************************)
EXTENDS SourceManager, TLAPS

(* A thread that is loading holds the lock, so there is at most one.       *)
LockHeld == \A t \in Threads : pc[t] \in {"load", "build"} => lock = t

(* What is acknowledged was committed, and a row is its newest version.    *)
RowsCurrent ==
  \A u \in Uuids : /\ acked[u] <= gen[u]
                   /\ row[u] # NoRow => row[u].ver = gen[u]

(* What each thread knows is not ahead of, nor behind, the versions.       *)
RequestsBounded ==
  \A t \in Threads :
    /\ pc[t] = "invalidate" => mark[t] <= gen[tgt[t]]
    /\ pc[t] \in {"get", "load", "build"} => mark[t] <= acked[tgt[t]]
    /\ pc[t] = "build" => acked[tgt[t]] <= cfg[t].ver
    /\ pc[t] # "got" => got[t] = NoPlugin

IInv == /\ TypeOK
        /\ LockHeld
        /\ RowsCurrent
        /\ RequestsBounded
        /\ CacheIsFresh
        /\ GetIsFresh

USE DEF NoPlugin

(* What the references of the cache and of the threads lead to.            *)
LEMMA References ==
  ASSUME TypeOK
  PROVE  /\ \A k \in Keys : sources[k] # NoPlugin =>
               heap[sources[k]] \in Plugin /\ heap[sources[k]].ver \in Nat \ {0}
         /\ \A t \in Threads : got[t] # NoPlugin =>
               heap[got[t]] \in Plugin /\ heap[got[t]].ver \in Nat \ {0}
<1>1. \A i \in 1..Len(heap) : heap[i] \in Plugin
  BY DEF TypeOK
<1>2. \A p \in Plugin : p.ver \in Nat \ {0}
  BY DEF Plugin
<1>3. \A k \in Keys : sources[k] # NoPlugin => sources[k] \in 1..Len(heap)
  BY DEF TypeOK
<1>4. \A t \in Threads : got[t] # NoPlugin => got[t] \in 1..Len(heap)
  BY DEF TypeOK
<1> QED
  BY <1>1, <1>2, <1>3, <1>4

(* The row a loading thread has in hand has a version and a name.          *)
LEMMA RowInHand ==
  ASSUME NEW r \in Row, r # NoRow
  PROVE  r.ver \in Nat \ {0} /\ r.name \in Names
  BY DEF Row

LEMMA InitIInv == Init => IInv
<1> SUFFICES ASSUME Init PROVE IInv
  OBVIOUS
<1> USE DEF Init
<1>1. heap \in Seq(Plugin) /\ Len(heap) = 0
  OBVIOUS
<1>2. TypeOK
  <2>1. row \in [Uuids -> Row] /\ cfg \in [Threads -> Row]
    BY DEF Row
  <2>2. sources \in [Keys -> Nat] /\ \A k \in Keys : sources[k] <= Len(heap)
    BY <1>1
  <2>3. got \in [Threads -> Nat] /\ \A t \in Threads : got[t] <= Len(heap)
    BY <1>1
  <2> QED
    BY <1>1, <2>1, <2>2, <2>3 DEF TypeOK
<1>3. LockHeld /\ RowsCurrent /\ CacheIsFresh /\ GetIsFresh
  BY DEF LockHeld, RowsCurrent, CacheIsFresh, GetIsFresh, Keys, NoRow
<1>4. RequestsBounded
  BY DEF RequestsBounded
<1> QED
  BY <1>2, <1>3, <1>4 DEF IInv

LEMMA CreateIInv ==
  ASSUME IInv, NEW u \in Uuids, NEW n \in Names, Create(u, n)
  PROVE  IInv'
<1> USE DEF IInv, Create, NextVersion, threadVars, mainVars
<1>1. TypeOK'
  BY DEF TypeOK, Row
<1>2. LockHeld'
  BY DEF LockHeld
<1>3. RowsCurrent'
  BY DEF TypeOK, RowsCurrent, NoRow
<1>4. RequestsBounded'
  BY RowInHand DEF TypeOK, RequestsBounded, RowsCurrent
<1>5. CacheIsFresh'
  <2>1. \A v \in Uuids : sources[v] # NoPlugin => heap[sources[v]].ver \in Nat \ {0}
    BY References DEF Keys
  <2> QED
    BY <2>1 DEF TypeOK, CacheIsFresh, Keys
<1>6. GetIsFresh'
  BY DEF GetIsFresh
<1>7. QED
  BY <1>1, <1>2, <1>3, <1>4, <1>5, <1>6

LEMMA DeleteIInv ==
  ASSUME IInv, NEW u \in Uuids, Delete(u)
  PROVE  IInv'
<1> USE DEF IInv, Delete, threadVars, mainVars
<1>1. TypeOK'
  BY DEF TypeOK, Row
<1>2. LockHeld'
  BY DEF TypeOK, LockHeld
<1>3. RowsCurrent'
  BY DEF TypeOK, RowsCurrent
<1>4. RequestsBounded'
  BY DEF TypeOK, RequestsBounded
<1>5. CacheIsFresh'
  BY DEF TypeOK, CacheIsFresh
<1>6. GetIsFresh'
  BY DEF TypeOK, GetIsFresh
<1> QED
  BY <1>1, <1>2, <1>3, <1>4, <1>5, <1>6

LEMMA RenamePhonebookIInv ==
  ASSUME IInv, NEW u \in Uuids, NEW n \in Names, RenamePhonebook(u, n)
  PROVE  IInv'
<1> USE DEF IInv, RenamePhonebook, threadVars, mainVars
<1>1. TypeOK'
  BY RowInHand DEF TypeOK, Row
<1>2. LockHeld'
  BY DEF TypeOK, LockHeld
<1>3. RowsCurrent'
  BY RowInHand DEF TypeOK, RowsCurrent
<1>4. RequestsBounded'
  BY DEF TypeOK, RequestsBounded
<1>5. CacheIsFresh'
  BY DEF TypeOK, CacheIsFresh
<1>6. GetIsFresh'
  BY DEF TypeOK, GetIsFresh
<1> QED
  BY <1>1, <1>2, <1>3, <1>4, <1>5, <1>6

LEMMA EditCommitIInv ==
  ASSUME IInv, NEW t \in Threads, NEW u \in Uuids, NEW n \in Names, EditCommit(t, u, n)
  PROVE  IInv'
<1> USE DEF IInv, EditCommit, NextVersion, mainVars
<1>1. TypeOK'
  BY DEF TypeOK, Row
<1>2. LockHeld'
  BY DEF TypeOK, LockHeld
<1>3. RowsCurrent'
  BY DEF TypeOK, RowsCurrent, NoRow
<1>4. RequestsBounded'
  BY DEF TypeOK, RequestsBounded
<1>5. CacheIsFresh'
  BY DEF TypeOK, CacheIsFresh
<1>6. GetIsFresh'
  BY DEF TypeOK, GetIsFresh, RequestsBounded
<1> QED
  BY <1>1, <1>2, <1>3, <1>4, <1>5, <1>6

LEMMA EditUnacknowledgedIInv ==
  ASSUME IInv, NEW t \in Threads, NEW u \in Uuids, NEW n \in Names, EditUnacknowledged(t, u, n)
  PROVE  IInv'
<1> USE DEF IInv, EditUnacknowledged, NextVersion, threadVars, mainVars
<1>1. TypeOK'
  BY DEF TypeOK, Row
<1>2. LockHeld'
  BY DEF TypeOK, LockHeld
<1>3. RowsCurrent'
  BY DEF TypeOK, RowsCurrent, NoRow
<1>4. RequestsBounded'
  BY DEF TypeOK, RequestsBounded
<1>5. CacheIsFresh'
  BY DEF TypeOK, CacheIsFresh
<1>6. GetIsFresh'
  BY DEF TypeOK, GetIsFresh
<1> QED
  BY <1>1, <1>2, <1>3, <1>4, <1>5, <1>6

LEMMA InvalidateIInv ==
  ASSUME IInv, NEW t \in Threads, Invalidate(t)
  PROVE  IInv'
<1> USE DEF IInv, Invalidate, EndRequest, Higher
<1>1. TypeOK'
  <2>1. phase' \in {"running", "unloading", "stopped", "aborted"} /\ UNCHANGED <<todo, late>>
    BY DEF MayResize, TypeOK
  <2> QED BY <2>1 DEF TypeOK, Keys, Row
<1>2. LockHeld'
  BY DEF TypeOK, LockHeld
<1>3. RowsCurrent'
  BY DEF TypeOK, RowsCurrent, RequestsBounded
<1>4. RequestsBounded'
  <2>1. \A s \in Threads : pc[s] \notin {"load", "build"}
    BY ConstantsAssumption DEF LockHeld
  <2>2. acked' \in [Uuids -> Nat] /\ \A u \in Uuids : acked[u] <= acked'[u]
    BY DEF TypeOK
  <2> QED
    BY <2>1, <2>2 DEF TypeOK, RequestsBounded
<1>5. CacheIsFresh'
  BY DEF TypeOK, CacheIsFresh, Keys
<1>6. GetIsFresh'
  BY DEF TypeOK, GetIsFresh
<1> QED
  BY <1>1, <1>2, <1>3, <1>4, <1>5, <1>6

LEMMA CallGetIInv ==
  ASSUME IInv, NEW t \in Threads, NEW u \in Uuids, CallGet(t, u)
  PROVE  IInv'
<1> USE DEF IInv, CallGet, dbVars, mainVars
<1>1. TypeOK'
  BY DEF TypeOK
<1>2. LockHeld'
  BY DEF TypeOK, LockHeld
<1>3. RowsCurrent'
  BY DEF TypeOK, RowsCurrent
<1>4. RequestsBounded'
  BY DEF TypeOK, RequestsBounded
<1>5. CacheIsFresh'
  BY DEF TypeOK, CacheIsFresh
<1>6. GetIsFresh'
  BY DEF TypeOK, GetIsFresh, RequestsBounded
<1> QED
  BY <1>1, <1>2, <1>3, <1>4, <1>5, <1>6

LEMMA GetHitIInv ==
  ASSUME IInv, NEW t \in Threads, GetHit(t)
  PROVE  IInv'
<1> USE DEF IInv, GetHit, dbVars, mainVars
<1>1. TypeOK'
  BY DEF TypeOK, Keys
<1>2. LockHeld'
  BY DEF TypeOK, LockHeld
<1>3. RowsCurrent'
  BY DEF TypeOK, RowsCurrent
<1>4. RequestsBounded'
  BY DEF TypeOK, RequestsBounded
<1>5. CacheIsFresh'
  BY DEF TypeOK, CacheIsFresh
<1>6. GetIsFresh'
  <2>1. tgt[t] \in Uuids /\ mark[t] <= acked[tgt[t]]
    BY DEF TypeOK, RequestsBounded
  <2>2. acked[tgt[t]] <= heap[sources[tgt[t]]].ver
    BY <2>1 DEF CacheIsFresh
  <2>3. heap[sources[tgt[t]]].ver \in Nat /\ mark[t] \in Nat /\ acked[tgt[t]] \in Nat
    BY <2>1, References DEF TypeOK, Keys
  <2>4. mark[t] <= heap[sources[tgt[t]]].ver
    BY <2>1, <2>2, <2>3
  <2> QED
    BY <2>4 DEF TypeOK, GetIsFresh
<1> QED
  BY <1>1, <1>2, <1>3, <1>4, <1>5, <1>6

LEMMA GetMissIInv ==
  ASSUME IInv, NEW t \in Threads, GetMiss(t)
  PROVE  IInv'
<1> USE DEF IInv, GetMiss, dbVars, mainVars
<1>1. TypeOK'
  BY DEF TypeOK
<1>2. LockHeld'
  BY ConstantsAssumption DEF TypeOK, LockHeld
<1>3. RowsCurrent'
  BY DEF TypeOK, RowsCurrent
<1>4. RequestsBounded'
  BY DEF TypeOK, RequestsBounded
<1>5. CacheIsFresh'
  BY DEF TypeOK, CacheIsFresh
<1>6. GetIsFresh'
  BY DEF TypeOK, GetIsFresh
<1> QED
  BY <1>1, <1>2, <1>3, <1>4, <1>5, <1>6

LEMMA LoadRowIInv ==
  ASSUME IInv, NEW t \in Threads, LoadRow(t)
  PROVE  IInv'
<1> USE DEF IInv, LoadRow, dbVars, mainVars
<1>1. TypeOK'
  BY DEF TypeOK
<1>2. LockHeld'
  BY DEF TypeOK, LockHeld
<1>3. RowsCurrent'
  BY DEF TypeOK, RowsCurrent
<1>4. RequestsBounded'
  BY DEF TypeOK, RequestsBounded, RowsCurrent
<1>5. CacheIsFresh'
  BY DEF TypeOK, CacheIsFresh
<1>6. GetIsFresh'
  BY DEF TypeOK, GetIsFresh
<1> QED
  BY <1>1, <1>2, <1>3, <1>4, <1>5, <1>6

LEMMA LoadNothingIInv ==
  ASSUME IInv, NEW t \in Threads, LoadNothing(t)
  PROVE  IInv'
<1> USE DEF IInv, LoadNothing, EndRequest, dbVars
<1>1. TypeOK'
  <2>1. phase' \in {"running", "unloading", "stopped", "aborted"} /\ UNCHANGED <<todo, late>>
    BY DEF MayResize, TypeOK
  <2> QED BY <2>1 DEF TypeOK, Row
<1>2. LockHeld'
  BY ConstantsAssumption DEF TypeOK, LockHeld
<1>3. RowsCurrent'
  BY DEF TypeOK, RowsCurrent
<1>4. RequestsBounded'
  BY DEF TypeOK, RequestsBounded
<1>5. CacheIsFresh'
  BY DEF TypeOK, CacheIsFresh
<1>6. GetIsFresh'
  BY DEF TypeOK, GetIsFresh
<1> QED
  BY <1>1, <1>2, <1>3, <1>4, <1>5, <1>6

LEMMA CallContactsIInv ==
  ASSUME IInv, NEW t \in Threads, NEW u \in Uuids, CallContacts(t, u)
  PROVE  IInv'
<1> USE DEF IInv, CallContacts, dbVars, mainVars
<1>1. TypeOK'
  BY DEF TypeOK
<1>2. LockHeld'
  BY DEF TypeOK, LockHeld
<1>3. RowsCurrent'
  BY DEF TypeOK, RowsCurrent
<1>4. RequestsBounded'
  BY DEF TypeOK, RequestsBounded
<1>5. CacheIsFresh'
  BY DEF TypeOK, CacheIsFresh
<1>6. GetIsFresh'
  BY DEF TypeOK, GetIsFresh
<1> QED
  BY <1>1, <1>2, <1>3, <1>4, <1>5, <1>6

LEMMA ContactsIInv ==
  ASSUME IInv, NEW t \in Threads, Contacts(t)
  PROVE  IInv'
<1> USE DEF IInv, Contacts, RegistryGet, EndRequest, dbVars, mainVars
<1>1. TypeOK'
  <2>1. tgt[t] \in Uuids /\ cfg[t].ver \in Nat
    BY DEF TypeOK, Row, NoRow
  <2>2. clients' \in [Uuids -> Nat]
    BY <2>1 DEF TypeOK
  <2> QED
    BY <2>2 DEF TypeOK, Row
<1>2. LockHeld'
  BY DEF TypeOK, LockHeld
<1>3. RowsCurrent'
  BY DEF TypeOK, RowsCurrent
<1>4. RequestsBounded'
  BY DEF TypeOK, RequestsBounded
<1>5. CacheIsFresh'
  BY DEF TypeOK, CacheIsFresh
<1>6. GetIsFresh'
  BY DEF TypeOK, GetIsFresh
<1> QED
  BY <1>1, <1>2, <1>3, <1>4, <1>5, <1>6

LEMMA ReturnIInv ==
  ASSUME IInv, NEW t \in Threads, Return(t)
  PROVE  IInv'
<1> USE DEF IInv, Return, EndRequest, dbVars, mainVars
<1>1. TypeOK'
  BY DEF TypeOK, Row
<1>2. LockHeld'
  BY DEF TypeOK, LockHeld
<1>3. RowsCurrent'
  BY DEF TypeOK, RowsCurrent
<1>4. RequestsBounded'
  BY DEF TypeOK, RequestsBounded
<1>5. CacheIsFresh'
  BY DEF TypeOK, CacheIsFresh
<1>6. GetIsFresh'
  BY DEF TypeOK, GetIsFresh
<1> QED
  BY <1>1, <1>2, <1>3, <1>4, <1>5, <1>6

LEMMA UnloadViewsIInv ==
  ASSUME IInv, UnloadViews
  PROVE  IInv'
<1> USE DEF IInv, UnloadViews, NoClients, dbVars, threadVars
<1>1. TypeOK'
  BY DEF TypeOK
<1>2. LockHeld'
  BY DEF TypeOK, LockHeld
<1>3. RowsCurrent'
  BY DEF TypeOK, RowsCurrent
<1>4. RequestsBounded'
  BY DEF TypeOK, RequestsBounded
<1>5. CacheIsFresh'
  BY DEF TypeOK, CacheIsFresh
<1>6. GetIsFresh'
  BY DEF TypeOK, GetIsFresh
<1> QED
  BY <1>1, <1>2, <1>3, <1>4, <1>5, <1>6

LEMMA UnloadRaisesIInv ==
  ASSUME IInv, UnloadRaises
  PROVE  IInv'
<1> USE DEF IInv, UnloadRaises, dbVars, threadVars
<1>1. TypeOK'
  BY DEF TypeOK
<1>2. LockHeld'
  BY DEF TypeOK, LockHeld
<1>3. RowsCurrent'
  BY DEF TypeOK, RowsCurrent
<1>4. RequestsBounded'
  BY DEF TypeOK, RequestsBounded
<1>5. CacheIsFresh'
  BY DEF TypeOK, CacheIsFresh
<1>6. GetIsFresh'
  BY DEF TypeOK, GetIsFresh
<1> QED
  BY <1>1, <1>2, <1>3, <1>4, <1>5, <1>6

(* What storing a plugin preserves, whatever the plugin and its keys, as   *)
(* long as the plugin is built from the row the thread has in hand.        *)
LEMMA StoreIInv ==
  ASSUME IInv, NEW t \in Threads, pc[t] = "build",
         NEW p \in Plugin, p.ver = cfg[t].ver,
         NEW keys, keys \cap Uuids = {tgt[t]},
         Store(t, p, keys), clients' \in [Uuids -> Nat]
  PROVE  IInv'
<1> USE DEF IInv, Store, dbVars
<1>1. /\ Len(heap) \in Nat
      /\ heap' \in Seq(Plugin)
      /\ Len(heap') = Len(heap) + 1
      /\ heap'[Len(heap) + 1] = p
      /\ \A i \in 1..Len(heap) : heap'[i] = heap[i]
  BY DEF TypeOK
<1>2. tgt[t] \in Uuids /\ mark[t] \in Nat /\ mark[t] <= acked[tgt[t]]
                       /\ acked[tgt[t]] \in Nat /\ acked[tgt[t]] <= p.ver
  BY DEF TypeOK, RequestsBounded
<1>3. p.ver \in Nat \ {0}
  BY DEF Plugin
<1>4. TypeOK'
  <2>1. sources' \in [Keys -> Nat] /\ \A k \in Keys : sources'[k] <= Len(heap')
    BY <1>1 DEF TypeOK
  <2>2. got' \in [Threads -> Nat] /\ \A s \in Threads : got'[s] <= Len(heap')
    BY <1>1 DEF TypeOK
  <2>3. cfg' \in [Threads -> Row] /\ \A s \in Threads : pc'[s] = "build" => cfg'[s] # NoRow
    BY DEF TypeOK, Row
  <2> QED
    BY <1>1, <2>1, <2>2, <2>3, ConstantsAssumption DEF TypeOK
<1>5. LockHeld'
  BY ConstantsAssumption DEF TypeOK, LockHeld
<1>6. RowsCurrent'
  BY DEF RowsCurrent
<1>7. RequestsBounded'
  BY DEF TypeOK, RequestsBounded
<1>8. CacheIsFresh'
  <2> SUFFICES ASSUME NEW u \in Uuids, sources'[u] # NoPlugin
               PROVE  heap'[sources'[u]].ver >= acked[u]
    BY DEF CacheIsFresh
  <2>1. CASE u = tgt[t]
    <3>1. sources'[u] = Len(heap) + 1
      BY <2>1 DEF Keys
    <3> QED
      BY <1>1, <1>2, <1>3, <2>1, <3>1
  <2>2. CASE u # tgt[t]
    <3>1. sources'[u] = sources[u]
      BY <2>2 DEF Keys
    <3>2. sources[u] \in 1..Len(heap)
      BY <3>1 DEF TypeOK, Keys
    <3> QED
      BY <1>1, <3>1, <3>2 DEF CacheIsFresh
  <2> QED
    BY <2>1, <2>2
<1>9. GetIsFresh'
  <2> SUFFICES ASSUME NEW s \in Threads, got'[s] # NoPlugin
               PROVE  heap'[got'[s]].ver >= mark[s]
    BY DEF GetIsFresh
  <2>1. CASE s = t
    <3>1. got'[s] = Len(heap) + 1
      BY <2>1 DEF TypeOK
    <3> QED
      BY <1>1, <1>2, <1>3, <2>1, <3>1
  <2>2. CASE s # t
    <3>1. got'[s] = got[s]
      BY <2>2 DEF TypeOK
    <3>2. got[s] \in 1..Len(heap)
      BY <3>1 DEF TypeOK
    <3> QED
      BY <1>1, <3>1, <3>2 DEF GetIsFresh
  <2> QED
    BY <2>1, <2>2
<1> QED
  BY <1>4, <1>5, <1>6, <1>7, <1>8, <1>9

LEMMA BuildIInv ==
  ASSUME IInv, NEW t \in Threads, Build(t)
  PROVE  IInv'
<1> DEFINE client == IF tgt[t] \in ConfdSources THEN clients'[tgt[t]] ELSE 0
           p == NewPlugin(t, TRUE, client)
<1>1. pc[t] = "build" /\ tgt[t] \in Uuids /\ cfg[t].ver \in Nat \ {0} /\ cfg[t].name \in Names
  BY RowInHand DEF Build, IInv, TypeOK
<1>2. clients' \in [Uuids -> Nat] /\ client \in Nat
  BY <1>1 DEF Build, RegistryGet, IInv, TypeOK
<1>3. p \in Plugin /\ p.ver = cfg[t].ver
  BY <1>1, <1>2 DEF NewPlugin, Plugin
<1>4. {tgt[t], cfg[t].name} \cap Uuids = {tgt[t]}
  BY <1>1, ConstantsAssumption
<1>5. Store(t, p, {tgt[t], cfg[t].name})
  BY DEF Build
<1> QED
  BY <1>1, <1>2, <1>3, <1>4, <1>5, StoreIInv

LEMMA BuildFailsIInv ==
  ASSUME IInv, NEW t \in Threads, BuildFails(t)
  PROVE  IInv'
<1>1. pc[t] = "build" /\ tgt[t] \in Uuids /\ cfg[t].ver \in Nat \ {0} /\ cfg[t].name \in Names
  BY RowInHand DEF BuildFails, IInv, TypeOK
<1>2. \A c \in Nat : /\ NewPlugin(t, FALSE, c) \in Plugin
                     /\ NewPlugin(t, FALSE, c).ver = cfg[t].ver
  BY <1>1 DEF NewPlugin, Plugin
<1>3. {tgt[t]} \cap Uuids = {tgt[t]}
  BY <1>1
<1>4. clients' \in [Uuids -> Nat] /\ \E c \in Nat : Store(t, NewPlugin(t, FALSE, c), {tgt[t]})
  <2>1. CASE clients' = clients /\ Store(t, NewPlugin(t, FALSE, 0), {tgt[t]})
    BY <2>1 DEF IInv, TypeOK
  <2>2. CASE /\ clients' = RegistryGet(tgt[t], cfg[t].ver)
             /\ Store(t, NewPlugin(t, FALSE, clients'[tgt[t]]), {tgt[t]})
    <3>1. clients' \in [Uuids -> Nat]
      BY <1>1, <2>2 DEF RegistryGet, IInv, TypeOK
    <3> QED
      BY <1>1, <2>2, <3>1
  <2> QED
    BY <2>1, <2>2 DEF BuildFails
<1> QED
  BY <1>1, <1>2, <1>3, <1>4, StoreIInv

LEMMA UnloadSourceIInv ==
  ASSUME IInv, NEW k \in Keys, UnloadSource(k)
  PROVE  IInv'
<1> USE DEF IInv, UnloadSource, dbVars, threadVars, NoClients
<1>1. CASE sources[k] = NoPlugin
  BY <1>1 DEF TypeOK, LockHeld, RowsCurrent, RequestsBounded, CacheIsFresh, GetIsFresh
<1>2. CASE sources[k] # NoPlugin
  <2> DEFINE i == sources[k]
  <2>1. i \in 1..Len(heap) /\ heap[i] \in Plugin
    BY <1>2, References DEF TypeOK
  <2>2. [heap[i] EXCEPT !.unloads = @ + 1] \in Plugin
    BY <2>1 DEF Plugin
  <2>3. heap' = [heap EXCEPT ![i] = [heap[i] EXCEPT !.unloads = @ + 1]]
    BY <1>2
  <2>4. heap' \in Seq(Plugin) /\ Len(heap') = Len(heap)
    BY <2>1, <2>2, <2>3 DEF TypeOK
  <2>5. \A j \in 1..Len(heap) : heap'[j].ver = heap[j].ver
    BY <2>1, <2>3 DEF TypeOK, Plugin
  <2>6. TypeOK'
    BY <1>2, <2>4 DEF TypeOK
  <2>7. LockHeld' /\ RowsCurrent' /\ RequestsBounded'
    BY DEF LockHeld, RowsCurrent, RequestsBounded
  <2>8. CacheIsFresh'
    <3>1. \A u \in Uuids : sources[u] # NoPlugin => sources[u] \in 1..Len(heap)
      BY DEF TypeOK, Keys
    <3> QED
      BY <2>5, <3>1 DEF CacheIsFresh
  <2>9. GetIsFresh'
    <3>1. \A t \in Threads : got[t] # NoPlugin => got[t] \in 1..Len(heap)
      BY DEF TypeOK
    <3> QED
      BY <2>5, <3>1 DEF GetIsFresh
  <2> QED
    BY <2>6, <2>7, <2>8, <2>9
<1> QED
  BY <1>1, <1>2

LEMMA NextIInv == IInv /\ [Next]_vars => IInv'
<1> SUFFICES ASSUME IInv, [Next]_vars PROVE IInv'
  OBVIOUS
<1>1. CASE \E u \in Uuids, n \in Names : Create(u, n) \/ RenamePhonebook(u, n)
  BY <1>1, CreateIInv, RenamePhonebookIInv
<1>2. CASE \E u \in Uuids : Delete(u)
  BY <1>2, DeleteIInv
<1>3. CASE \E t \in Threads, u \in Uuids, n \in Names :
             EditCommit(t, u, n) \/ EditUnacknowledged(t, u, n)
  BY <1>3, EditCommitIInv, EditUnacknowledgedIInv
<1>4. CASE \E t \in Threads, u \in Uuids : CallGet(t, u) \/ CallContacts(t, u)
  BY <1>4, CallGetIInv, CallContactsIInv
<1>5. CASE \E t \in Threads : Invalidate(t) \/ GetHit(t) \/ GetMiss(t) \/ Contacts(t) \/ Return(t)
  BY <1>5, InvalidateIInv, GetHitIInv, GetMissIInv, ContactsIInv, ReturnIInv
<1>6. CASE \E t \in Threads : LoadStep(t)
  BY <1>6, LoadRowIInv, LoadNothingIInv, BuildIInv, BuildFailsIInv DEF LoadStep
<1>7. CASE UnloadViews \/ (\E k \in Keys : UnloadSource(k)) \/ UnloadRaises
  BY <1>7, UnloadViewsIInv, UnloadSourceIInv, UnloadRaisesIInv
<1>8. CASE Terminated \/ UNCHANGED vars
  BY <1>8 DEF Terminated, vars, IInv, TypeOK, LockHeld, RowsCurrent, RequestsBounded,
     CacheIsFresh, GetIsFresh
<1> QED
  BY <1>1, <1>2, <1>3, <1>4, <1>5, <1>6, <1>7, <1>8 DEF Next

THEOREM SpecIInv == Spec => []IInv
  BY InitIInv, NextIInv, PTL DEF Spec

(* The variables of the source manager keep their types.                   *)
THEOREM SpecTypeOK == Spec => []TypeOK
<1>1. IInv => TypeOK
  BY DEF IInv
<1> QED
  BY <1>1, SpecIInv, PTL

(* A get() called after an edit returned is answered with a plugin of that *)
(* version or a newer one, for any number of threads, loads and edits.     *)
THEOREM SpecGetIsFresh == Spec => []GetIsFresh
<1>1. IInv => GetIsFresh
  BY DEF IInv
<1> QED
  BY <1>1, SpecIInv, PTL

(* The cache never holds a version older than the last acknowledged one.   *)
THEOREM SpecCacheIsFresh == Spec => []CacheIsFresh
<1>1. IInv => CacheIsFresh
  BY DEF IInv
<1> QED
  BY <1>1, SpecIInv, PTL

----------------------------------------------------------------------------
(* A thread that is loading found no plugin, and under the lock nobody else *)
(* stores one: what makes NoDoubleLoad true.                               *)
MissingWhileLoading ==
  \A t \in Threads : pc[t] \in {"load", "build"} => sources[tgt[t]] = NoPlugin

LEMMA InitMissing == Init => MissingWhileLoading
  BY DEF Init, MissingWhileLoading

(* The only step that binds a uuid is the store of the thread loading it.  *)
LEMMA StoreStep ==
  ASSUME IInv, MissingWhileLoading, NEW t \in Threads, Build(t) \/ BuildFails(t)
  PROVE  /\ MissingWhileLoading'
         /\ \A u \in Uuids : sources[u] # NoPlugin => sources'[u] = sources[u]
<1>1. pc[t] = "build" /\ tgt[t] \in Uuids /\ cfg[t].name \in Names
  BY RowInHand DEF Build, BuildFails, IInv, TypeOK
<1>2. sources[tgt[t]] = NoPlugin /\ lock = t
  BY <1>1 DEF MissingWhileLoading, IInv, LockHeld
<1>3. \E p, keys : Store(t, p, keys) /\ keys \subseteq {tgt[t], cfg[t].name}
  BY DEF Build, BuildFails
<1>4. PICK p, keys : Store(t, p, keys) /\ keys \subseteq {tgt[t], cfg[t].name}
  BY <1>3
<1>5. \A u \in Uuids : u # tgt[t] => u \notin keys
  BY <1>1, <1>4, ConstantsAssumption
<1>6. \A u \in Uuids : u # tgt[t] => sources'[u] = sources[u]
  BY <1>4, <1>5 DEF Store, Keys
<1>7. \A s \in Threads : pc'[s] \notin {"load", "build"}
  BY <1>2, <1>4 DEF Store, IInv, TypeOK, LockHeld
<1> QED
  BY <1>2, <1>6, <1>7 DEF MissingWhileLoading

LEMMA NextMissing ==
  ASSUME IInv, MissingWhileLoading, [Next]_vars
  PROVE  /\ MissingWhileLoading'
         /\ \A u \in Uuids : sources[u] # NoPlugin => sources'[u] \in {sources[u], NoPlugin}
<1> USE DEF MissingWhileLoading, IInv, TypeOK, threadVars, dbVars, mainVars
<1>1. CASE \E u \in Uuids, n \in Names : Create(u, n) \/ RenamePhonebook(u, n)
  BY <1>1 DEF Create, RenamePhonebook
<1>2. CASE \E u \in Uuids : Delete(u)
  BY <1>2 DEF Delete
<1>3. CASE \E t \in Threads, u \in Uuids, n \in Names :
             EditCommit(t, u, n) \/ EditUnacknowledged(t, u, n)
  BY <1>3 DEF EditCommit, EditUnacknowledged
<1>4. CASE \E t \in Threads, u \in Uuids : CallGet(t, u) \/ CallContacts(t, u)
  BY <1>4 DEF CallGet, CallContacts
<1>5. CASE \E t \in Threads : Invalidate(t)
  <2>1. PICK t \in Threads : Invalidate(t)
    BY <1>5
  <2>2. sources' = [sources EXCEPT ![tgt[t]] = NoPlugin]
    BY <2>1 DEF Invalidate
  <2>3. \A s \in Threads : pc'[s] \notin {"load", "build"}
    BY <2>1, ConstantsAssumption DEF Invalidate, EndRequest, LockHeld
  <2> QED
    BY <2>2, <2>3 DEF Keys
<1>6. CASE \E t \in Threads : GetHit(t) \/ GetMiss(t) \/ Contacts(t) \/ Return(t)
  BY <1>6 DEF GetHit, GetMiss, Contacts, Return, EndRequest
<1>7. CASE \E t \in Threads : LoadRow(t) \/ LoadNothing(t)
  BY <1>7 DEF LoadRow, LoadNothing, EndRequest
<1>8. CASE \E t \in Threads : Build(t) \/ BuildFails(t)
  BY <1>8, StoreStep
<1>9. CASE UnloadViews \/ (\E k \in Keys : UnloadSource(k)) \/ UnloadRaises
  BY <1>9 DEF UnloadViews, UnloadSource, UnloadRaises
<1>10. CASE Terminated \/ UNCHANGED vars
  BY <1>10 DEF Terminated, vars
<1> QED
  BY <1>1, <1>2, <1>3, <1>4, <1>5, <1>6, <1>7, <1>8, <1>9, <1>10 DEF Next, LoadStep

(* A plugin being served only leaves the cache through an invalidation; no *)
(* second load ever replaces it.                                           *)
THEOREM SpecNoDoubleLoad == Spec => NoDoubleLoad
<1> DEFINE Kept == \A u \in Uuids :
                     sources[u] # NoPlugin => sources'[u] \in {sources[u], NoPlugin}
<1>1. IInv /\ MissingWhileLoading /\ [Next]_vars => MissingWhileLoading' /\ Kept
  BY NextMissing
<1>2. IInv /\ MissingWhileLoading /\ [Next]_vars => [Kept]_vars
  BY <1>1
<1> QED
  BY <1>1, <1>2, InitMissing, SpecIInv, PTL DEF Spec, NoDoubleLoad

----------------------------------------------------------------------------
(* What is cached is under its own keys, and beside the registry's client. *)

(* Most steps leave the cache, its plugins and the registry alone, and none *)
(* takes an acknowledged edit back.                                        *)
CacheUntouched ==
  /\ UNCHANGED <<heap, sources, clients, todo, late>>
  /\ phase' = phase \/ phase' = "aborted"
  /\ \A u \in Uuids : acked[u] >= 2 => acked'[u] = acked[u]
  /\ \A t \in Threads : pc'[t] = "invalidate" =>
       (pc[t] = "invalidate" /\ mark'[t] = mark[t]) \/ mark'[t] >= 2

(* The six ways to touch them.                                             *)
CacheTouched ==
  \/ \E t \in Threads : Invalidate(t)
  \/ \E t \in Threads : Contacts(t)
  \/ \E t \in Threads : Build(t) \/ BuildFails(t)
  \/ UnloadViews
  \/ \E k \in Keys : UnloadSource(k)

LEMMA PluginTypes ==
  ASSUME TypeOK
  PROVE  \A i \in 1..Len(heap) : /\ heap[i] \in Plugin
                                 /\ heap[i].uuid \in Uuids
                                 /\ heap[i].unloads \in Nat
<1>1. \A i \in 1..Len(heap) : heap[i] \in Plugin
  BY DEF TypeOK
<1>2. \A p \in Plugin : p.uuid \in Uuids /\ p.unloads \in Nat
  BY DEF Plugin
<1> QED
  BY <1>1, <1>2

LEMMA EditCommitMark ==
  ASSUME IInv, NEW t \in Threads, NEW u \in Uuids, NEW n \in Names, EditCommit(t, u, n)
  PROVE  mark' = [mark EXCEPT ![t] = gen[u] + 1] /\ gen[u] + 1 >= 2
<1>1. gen[u] \in Nat \ {0}
  BY RowInHand DEF IInv, TypeOK, RowsCurrent, EditCommit
<1> QED
  BY <1>1 DEF EditCommit

LEMMA CacheSteps ==
  ASSUME IInv, [Next]_vars
  PROVE  CacheUntouched \/ CacheTouched
<1> USE DEF CacheUntouched, CacheTouched, IInv, TypeOK, threadVars, dbVars, mainVars
<1>1. ASSUME NEW u \in Uuids, NEW n \in Names, Create(u, n) PROVE CacheUntouched
  <2>1. gen[u] = 0 /\ acked[u] = 0
    BY <1>1 DEF Create, RowsCurrent
  <2> QED
    BY <1>1, <2>1 DEF Create
<1>2. ASSUME NEW u \in Uuids, NEW n \in Names, RenamePhonebook(u, n)
      PROVE  CacheUntouched
  BY <1>2 DEF RenamePhonebook
<1>3. ASSUME NEW t \in Threads, NEW u \in Uuids, NEW n \in Names, EditCommit(t, u, n)
      PROVE  CacheUntouched
  <2>1. mark' = [mark EXCEPT ![t] = gen[u] + 1] /\ gen[u] + 1 >= 2
    BY <1>3, EditCommitMark
  <2> QED
    BY <1>3, <2>1 DEF EditCommit
<1>4. ASSUME NEW t \in Threads, NEW u \in Uuids, NEW n \in Names, EditUnacknowledged(t, u, n)
      PROVE  CacheUntouched
  BY <1>4 DEF EditUnacknowledged
<1>5. ASSUME NEW t \in Threads, NEW u \in Uuids, CallGet(t, u) \/ CallContacts(t, u)
      PROVE  CacheUntouched
  BY <1>5 DEF CallGet, CallContacts
<1>6. ASSUME NEW t \in Threads, GetHit(t) \/ GetMiss(t) \/ LoadRow(t)
      PROVE  CacheUntouched
  BY <1>6 DEF GetHit, GetMiss, LoadRow
<1>7. ASSUME NEW t \in Threads, Return(t) \/ LoadNothing(t)
      PROVE  CacheUntouched
  BY <1>7 DEF Return, LoadNothing, MayResize, EndRequest
<1>8. CASE UnloadRaises \/ Terminated \/ UNCHANGED vars
  BY <1>8 DEF UnloadRaises, Terminated, vars
<1> HIDE DEF CacheUntouched, IInv, TypeOK, threadVars, dbVars, mainVars
<1>9. CASE \E t \in Threads : LoadStep(t)
  BY <1>6, <1>7, <1>9 DEF LoadStep
<1>10. CASE \E t \in Threads : Invalidate(t) \/ GetHit(t) \/ GetMiss(t) \/ Contacts(t) \/ Return(t)
  BY <1>6, <1>7, <1>10
<1>11. CASE UnloadViews \/ (\E k \in Keys : UnloadSource(k)) \/ UnloadRaises
  BY <1>8, <1>11
<1>12. CASE \E u \in Uuids, n \in Names : Create(u, n) \/ RenamePhonebook(u, n)
  BY <1>1, <1>2, <1>12
<1>13. CASE \E u \in Uuids : Delete(u)
  <2>1. PICK u \in Uuids : Delete(u)
    BY <1>13
  <2> QED
    BY <2>1 DEF CacheUntouched, Delete, threadVars, mainVars
<1>14. CASE \E t \in Threads, u \in Uuids, n \in Names :
              EditCommit(t, u, n) \/ EditUnacknowledged(t, u, n)
  BY <1>3, <1>4, <1>14
<1>15. CASE \E t \in Threads, u \in Uuids : CallGet(t, u) \/ CallContacts(t, u)
  BY <1>5, <1>15
<1> QED
  BY <1>8, <1>9, <1>10, <1>11, <1>12, <1>13, <1>14, <1>15 DEF Next

(* What a load stores: a plugin of the source it was asked for, under its   *)
(* uuid, and under its name only when it was completely loaded, with the   *)
(* registered client or none.                                              *)
Stored(t, p, keys) ==
  /\ Store(t, p, keys)
  /\ p \in Plugin /\ p.uuid = tgt[t]
  /\ tgt[t] \in keys /\ keys \subseteq {tgt[t], cfg[t].name}
  /\ \A n \in Names \cap keys : p.up /\ p.name = n
  /\ p.client \in {0, clients'[tgt[t]]}
  /\ clients' \in {clients, RegistryGet(tgt[t], cfg[t].ver)}

LEMMA BuildStores ==
  ASSUME IInv, NEW t \in Threads, Build(t) \/ BuildFails(t)
  PROVE  \E p, keys : Stored(t, p, keys)
<1>1. /\ tgt[t] \in Uuids /\ tgt[t] \notin Names
      /\ cfg[t].ver \in Nat \ {0} /\ cfg[t].name \in Names
  BY RowInHand, ConstantsAssumption DEF IInv, TypeOK, Build, BuildFails
<1>2. clients' \in {clients, RegistryGet(tgt[t], cfg[t].ver)} /\ clients'[tgt[t]] \in Nat
  BY <1>1 DEF Build, BuildFails, RegistryGet, IInv, TypeOK
<1> DEFINE NewOf(up, client) == NewPlugin(t, up, client)
<1>3. \A up \in BOOLEAN, client \in Nat : NewOf(up, client) \in Plugin
  BY <1>1 DEF NewPlugin, Plugin
<1>4. CASE Build(t)
  <2> DEFINE p == NewPlugin(t, TRUE, IF tgt[t] \in ConfdSources THEN clients'[tgt[t]] ELSE 0)
  <2>1. Store(t, p, {tgt[t], cfg[t].name})
    BY <1>4 DEF Build
  <2>2. p \in Plugin /\ p.uuid = tgt[t] /\ p.up /\ p.name = cfg[t].name /\ p.client \in {0, clients'[tgt[t]]}
    BY <1>2, <1>3 DEF NewPlugin
  <2>3. Stored(t, p, {tgt[t], cfg[t].name})
    BY <1>1, <1>2, <2>1, <2>2 DEF Stored
  <2> QED
    BY <2>3
<1>5. CASE BuildFails(t)
  <2>1. PICK client \in {0, clients'[tgt[t]]} : Store(t, NewPlugin(t, FALSE, client), {tgt[t]})
    BY <1>5 DEF BuildFails
  <2> DEFINE p == NewPlugin(t, FALSE, client)
  <2>2. p \in Plugin /\ p.uuid = tgt[t] /\ p.client = client
    BY <1>2, <1>3 DEF NewPlugin
  <2>3. Stored(t, p, {tgt[t]})
    BY <1>1, <1>2, <2>1, <2>2 DEF Stored
  <2> QED
    BY <2>3
<1> QED
  BY <1>4, <1>5

(* Unloading a plugin only counts it; references and their plugins stay.   *)
SamePlugins ==
  /\ Len(heap') = Len(heap)
  /\ \A i \in 1..Len(heap) :
       /\ heap'[i].uuid = heap[i].uuid /\ heap'[i].name = heap[i].name
       /\ heap'[i].up = heap[i].up /\ heap'[i].client = heap[i].client
       /\ heap'[i].unloads >= heap[i].unloads

LEMMA UnloadKeepsPlugins ==
  ASSUME IInv, NEW k \in Keys, UnloadSource(k)
  PROVE  /\ SamePlugins
         /\ sources[k] # NoPlugin => heap'[sources[k]].unloads > 0
<1>1. \A i \in 1..Len(heap) : heap[i] \in Plugin
  BY DEF IInv, TypeOK
<1>2. sources[k] # NoPlugin => sources[k] \in 1..Len(heap)
  BY DEF IInv, TypeOK
<1>3. CASE sources[k] = NoPlugin
  BY <1>3, PluginTypes DEF IInv, UnloadSource, SamePlugins
<1>4. CASE sources[k] # NoPlugin
  <2> DEFINE j == sources[k]
             q == [heap[j] EXCEPT !.unloads = heap[j].unloads + 1]
  <2>1. j \in 1..Len(heap) /\ heap[j] \in Plugin
    BY <1>1, <1>2, <1>4
  <2>2. heap' = [heap EXCEPT ![j] = q]
    BY <1>4 DEF UnloadSource
  <2>5. /\ q.uuid = heap[j].uuid /\ q.name = heap[j].name
        /\ q.up = heap[j].up /\ q.client = heap[j].client
        /\ q.unloads = heap[j].unloads + 1
    BY <2>1 DEF Plugin
  <2> HIDE DEF j, q
  <2>3. Len(heap') = Len(heap) /\ \A i \in 1..Len(heap) : i # j => heap'[i] = heap[i]
    BY <2>1, <2>2 DEF IInv, TypeOK
  <2>4. heap'[j] = q
    BY <2>1, <2>2 DEF IInv, TypeOK
  <2>6. \A i \in 1..Len(heap) : heap[i].unloads \in Nat
    BY PluginTypes DEF IInv
  <2>7. SamePlugins /\ heap'[j].unloads > 0
    BY <2>1, <2>3, <2>4, <2>5, <2>6 DEF SamePlugins
  <2> QED
    BY <2>7 DEF j
<1> QED
  BY <1>3, <1>4

CacheInv == KeysMatchPlugins /\ OneClientPerSource

LEMMA CacheInvSame ==
  ASSUME IInv, CacheInv, SamePlugins,
         \A k \in Keys : sources'[k] \in {sources[k], NoPlugin},
         phase' = "running" => phase = "running" /\ clients' = clients
  PROVE  CacheInv'
<1>1. \A k \in Keys : sources[k] # NoPlugin => sources[k] \in 1..Len(heap)
  BY DEF IInv, TypeOK
<1>2. KeysMatchPlugins'
  BY <1>1 DEF CacheInv, KeysMatchPlugins, SamePlugins, Keys
<1>3. OneClientPerSource'
  BY <1>1 DEF CacheInv, OneClientPerSource, SamePlugins
<1> QED
  BY <1>2, <1>3 DEF CacheInv

(* The registry gives a source its first client and keeps it.              *)
LEMMA RegistryKeeps ==
  ASSUME IInv, NEW u \in Uuids, NEW ver \in Nat
  PROVE  /\ RegistryGet(u, ver) \in [Uuids -> Nat]
         /\ \A v \in Uuids : clients[v] # 0 => RegistryGet(u, ver)[v] = clients[v]
  BY DEF RegistryGet, IInv, TypeOK

LEMMA StoredCacheInv ==
  ASSUME IInv, CacheInv, NEW t \in Threads, Build(t) \/ BuildFails(t)
  PROVE  CacheInv'
<1>1. PICK p, keys : Stored(t, p, keys)
  BY BuildStores
<1>2. tgt[t] \in Uuids /\ cfg[t].ver \in Nat /\ cfg[t].name \in Names
  BY RowInHand DEF IInv, TypeOK, Build, BuildFails
<1>3. /\ Len(heap') = Len(heap) + 1 /\ heap'[Len(heap) + 1] = p
      /\ \A i \in 1..Len(heap) : heap'[i] = heap[i]
  BY <1>1 DEF Stored, Store, IInv, TypeOK
<1>4. \A k \in Keys : sources'[k] = IF k \in keys THEN Len(heap) + 1 ELSE sources[k]
  BY <1>1 DEF Stored, Store
<1>5. \A k \in Keys : sources[k] # NoPlugin => sources[k] \in 1..Len(heap)
  BY DEF IInv, TypeOK
<1>6. \A u \in Uuids \cap keys : u = tgt[t]
  BY <1>1, <1>2, ConstantsAssumption DEF Stored
<1>7. KeysMatchPlugins'
  <2>1. \A u \in Uuids : sources'[u] # NoPlugin => heap'[sources'[u]].uuid = u
    BY <1>1, <1>3, <1>4, <1>5, <1>6 DEF CacheInv, KeysMatchPlugins, Keys, Stored
  <2>2. \A n \in Names : sources'[n] # NoPlugin =>
           heap'[sources'[n]].up /\ heap'[sources'[n]].name = n
    BY <1>1, <1>3, <1>4, <1>5 DEF CacheInv, KeysMatchPlugins, Keys, Stored
  <2> QED
    BY <2>1, <2>2 DEF KeysMatchPlugins
<1>8. OneClientPerSource'
  <2>1. clients' \in [Uuids -> Nat] /\ \A v \in Uuids : clients[v] # 0 => clients'[v] = clients[v]
    <3>1. clients \in [Uuids -> Nat]
      BY DEF IInv, TypeOK
    <3>2. CASE clients' = clients
      BY <3>1, <3>2
    <3>3. CASE clients' = RegistryGet(tgt[t], cfg[t].ver)
      BY <1>2, <3>3, RegistryKeeps
    <3> QED
      BY <1>1, <3>2, <3>3 DEF Stored
  <2>2. phase' = phase
    BY <1>1 DEF Stored, Store
  <2>3. \A i \in 1..Len(heap) : heap[i].uuid \in Uuids
    BY PluginTypes DEF IInv
  <2>4. ASSUME phase = "running", NEW k \in Keys, sources'[k] # NoPlugin
        PROVE  heap'[sources'[k]].client \in {0, clients'[heap'[sources'[k]].uuid]}
    <3>1. CASE k \in keys
      BY <1>1, <1>3, <1>4, <3>1 DEF Stored
    <3>2. CASE k \notin keys
      <4>1. sources'[k] = sources[k] /\ sources[k] \in 1..Len(heap)
        BY <1>4, <1>5, <2>4, <3>2
      <4>2. heap[sources[k]].client \in {0, clients[heap[sources[k]].uuid]}
        BY <2>4, <4>1 DEF CacheInv, OneClientPerSource
      <4> QED
        BY <1>3, <2>1, <2>3, <4>1, <4>2
    <3> QED
      BY <3>1, <3>2
  <2> QED
    BY <2>2, <2>4 DEF OneClientPerSource
<1> QED
  BY <1>7, <1>8 DEF CacheInv

LEMMA ContactsCacheInv ==
  ASSUME IInv, CacheInv, NEW t \in Threads, Contacts(t)
  PROVE  CacheInv'
<1>1. tgt[t] \in Uuids /\ cfg[t].ver \in Nat
  BY DEF IInv, TypeOK, Contacts, Row, NoRow
<1>2. \A v \in Uuids : clients[v] # 0 => clients'[v] = clients[v]
  BY <1>1, RegistryKeeps DEF Contacts
<1>3. UNCHANGED <<heap, sources, phase>>
  BY DEF Contacts, mainVars
<1>4. \A k \in Keys : sources[k] # NoPlugin => heap[sources[k]] \in Plugin
  BY References DEF IInv
<1>5. clients \in [Uuids -> Nat]
  BY DEF IInv, TypeOK
<1>6. KeysMatchPlugins'
  BY <1>3 DEF CacheInv, KeysMatchPlugins
<1>7. OneClientPerSource'
  BY <1>2, <1>3, <1>4, <1>5 DEF CacheInv, OneClientPerSource, Plugin
<1> QED
  BY <1>6, <1>7 DEF CacheInv

LEMMA NextCacheInv == IInv /\ CacheInv /\ [Next]_vars => CacheInv'
<1> SUFFICES ASSUME IInv, CacheInv, [Next]_vars PROVE CacheInv'
  OBVIOUS
<1>1. UNCHANGED heap => SamePlugins
  BY PluginTypes DEF SamePlugins, IInv
<1>2. CASE CacheUntouched
  BY <1>1, <1>2, CacheInvSame DEF CacheUntouched
<1>3. ASSUME NEW t \in Threads, Invalidate(t) PROVE CacheInv'
  BY <1>1, <1>3, CacheInvSame DEF Invalidate, MayResize, IInv, TypeOK
<1>4. CASE UnloadViews
  BY <1>1, <1>4, CacheInvSame DEF UnloadViews
<1>5. ASSUME NEW k \in Keys, UnloadSource(k) PROVE CacheInv'
  BY <1>5, UnloadKeepsPlugins, CacheInvSame DEF UnloadSource
<1> QED
  BY <1>2, <1>3, <1>4, <1>5, StoredCacheInv, ContactsCacheInv, CacheSteps DEF CacheTouched

(* What edits, failed loads, reloads and shared names leave in the cache is *)
(* under no wrong key and beside no client of the registry.                *)
THEOREM SpecCacheIsSound == Spec => []CacheIsSound
<1>1. Init => CacheInv
  BY DEF Init, CacheInv, KeysMatchPlugins, OneClientPerSource, Keys
<1>2. IInv /\ CacheInv => CacheIsSound
  BY DEF IInv, CacheInv, CacheIsSound
<1> QED
  BY <1>1, <1>2, NextCacheInv, SpecIInv, PTL DEF Spec

----------------------------------------------------------------------------
(* What every plugin ever loaded is to the main thread: it is bound to its *)
(* uuid, and then still to be visited or already unloaded, or an edit has  *)
(* displaced it.                                                           *)
NothingForgotten ==
  /\ \A i \in 1..Len(heap) : sources[heap[i].uuid] = i \/ acked[heap[i].uuid] >= 2
  /\ phase \in {"unloading", "stopped"} /\ ~late =>
       \A i \in 1..Len(heap) :
         sources[heap[i].uuid] = i => heap[i].uuid \in todo \/ heap[i].unloads > 0
  /\ phase = "stopped" => todo = {}
  /\ \A t \in Threads : pc[t] = "invalidate" => mark[t] >= 2

LEMMA UntouchedForgetsNothing ==
  ASSUME IInv, NothingForgotten, CacheUntouched
  PROVE  NothingForgotten'
<1>1. \A i \in 1..Len(heap) : heap[i].uuid \in Uuids
  BY PluginTypes DEF IInv
<1>2. phase' \in {"unloading", "stopped"} => phase' = phase
  BY DEF CacheUntouched
<1>3. \A t \in Threads : pc'[t] = "invalidate" => mark'[t] >= 2
  BY DEF CacheUntouched, NothingForgotten
<1> QED
  BY <1>1, <1>2, <1>3 DEF CacheUntouched, NothingForgotten

LEMMA InvalidateForgetsNothing ==
  ASSUME IInv, NothingForgotten, NEW t \in Threads, Invalidate(t)
  PROVE  NothingForgotten'
<1>1. \A i \in 1..Len(heap) : heap[i].uuid \in Uuids
  BY PluginTypes DEF IInv
<1>2. tgt[t] \in Uuids /\ mark[t] \in Nat /\ mark[t] >= 2
  BY DEF IInv, TypeOK, Invalidate, NothingForgotten
<1>3. /\ \A u \in Uuids : IF u = tgt[t] THEN acked'[u] >= 2 /\ sources'[u] = NoPlugin
                                      ELSE acked'[u] = acked[u] /\ sources'[u] = sources[u]
      /\ UNCHANGED <<heap, todo, late>> /\ phase' \in {phase, "aborted"}
  BY <1>2 DEF IInv, TypeOK, Invalidate, MayResize, Higher, Keys
<1>4. \A s \in Threads : pc'[s] = "invalidate" => mark'[s] >= 2
  BY DEF IInv, TypeOK, Invalidate, EndRequest, NothingForgotten
<1>5. \A i \in 1..Len(heap) : sources'[heap[i].uuid] = i \/ acked'[heap[i].uuid] >= 2
  BY <1>1, <1>3 DEF NothingForgotten
<1>6. \A i \in 1..Len(heap) : sources'[heap[i].uuid] = i => sources[heap[i].uuid] = i
  BY <1>1, <1>3
<1> QED
  BY <1>3, <1>4, <1>5, <1>6 DEF NothingForgotten

LEMMA StoredForgetsNothing ==
  ASSUME IInv, NothingForgotten, MissingWhileLoading, NEW t \in Threads, Build(t) \/ BuildFails(t)
  PROVE  NothingForgotten'
<1>1. PICK p, keys : Stored(t, p, keys)
  BY BuildStores
<1>2. tgt[t] \in Uuids /\ cfg[t].name \in Names /\ sources[tgt[t]] = NoPlugin
  BY RowInHand DEF IInv, TypeOK, Build, BuildFails, MissingWhileLoading
<1>3. /\ Len(heap') = Len(heap) + 1 /\ heap'[Len(heap) + 1] = p
      /\ \A i \in 1..Len(heap) : heap'[i] = heap[i]
  BY <1>1 DEF Stored, Store, IInv, TypeOK
<1>4. \A u \in Uuids : sources'[u] = IF u = tgt[t] THEN Len(heap) + 1 ELSE sources[u]
  BY <1>1, <1>2, ConstantsAssumption DEF Stored, Store, Keys
<1>5. \A i \in 1..Len(heap) : heap[i].uuid \in Uuids
  BY PluginTypes DEF IInv
<1>6. /\ UNCHANGED <<acked, mark, phase, todo>>
      /\ pc' = [pc EXCEPT ![t] = "got"]
      /\ late' = (late \/ phase # "running")
  BY <1>1 DEF Stored, Store, dbVars
<1>7. \A i \in 1..Len(heap') : sources'[heap'[i].uuid] = i \/ acked'[heap'[i].uuid] >= 2
  <2> SUFFICES ASSUME NEW i \in 1..Len(heap'), i # Len(heap) + 1
               PROVE  sources'[heap'[i].uuid] = i \/ acked'[heap'[i].uuid] >= 2
    BY <1>1, <1>2, <1>3, <1>4 DEF Stored
  <2>1. i \in 1..Len(heap) /\ heap'[i] = heap[i]
    BY <1>3 DEF IInv, TypeOK
  <2>2. sources[heap[i].uuid] = i \/ acked[heap[i].uuid] >= 2
    BY <2>1 DEF NothingForgotten
  <2> QED
    BY <1>2, <1>4, <1>5, <1>6, <2>1, <2>2
<1>8. \A s \in Threads : pc'[s] = "invalidate" => mark'[s] >= 2
  BY <1>6 DEF IInv, TypeOK, NothingForgotten
<1>9. phase' \in {"unloading", "stopped"} => late'
  BY <1>6
<1>10. phase' = "stopped" => todo' = {}
  BY <1>6 DEF NothingForgotten
<1> QED
  BY <1>7, <1>8, <1>9, <1>10 DEF NothingForgotten

LEMMA UnloadForgetsNothing ==
  ASSUME IInv, NothingForgotten, NEW k \in Keys, UnloadSource(k)
  PROVE  NothingForgotten'
<1>1. \A i \in 1..Len(heap) : heap[i].uuid \in Uuids /\ heap[i].unloads \in Nat
  BY PluginTypes DEF IInv
<1>2. SamePlugins /\ (sources[k] # NoPlugin => heap'[sources[k]].unloads > 0)
  BY UnloadKeepsPlugins
<1>3. /\ UNCHANGED <<acked, sources, pc, mark, late>>
      /\ phase = "unloading" /\ todo' = todo \ {k}
      /\ phase' = IF todo' = {} THEN "stopped" ELSE "unloading"
  BY DEF UnloadSource, dbVars, threadVars
<1>4. \A i \in 1..Len(heap') : heap'[i].unloads \in Nat
  <2>1. heap' \in Seq(Plugin)
    BY UnloadSourceIInv DEF IInv, TypeOK
  <2>2. \A p \in Plugin : p.unloads \in Nat
    BY DEF Plugin
  <2> QED
    BY <2>1, <2>2
<1>5. \A i \in 1..Len(heap) : sources'[heap'[i].uuid] = i \/ acked'[heap'[i].uuid] >= 2
  BY <1>2, <1>3 DEF NothingForgotten, SamePlugins
<1>6. ASSUME ~late, NEW i \in 1..Len(heap), sources[heap[i].uuid] = i
      PROVE  heap[i].uuid \in todo \ {k} \/ heap'[i].unloads > 0
  <2>1. heap[i].uuid \in todo \/ heap[i].unloads > 0
    BY <1>3, <1>6 DEF NothingForgotten
  <2>2. CASE heap[i].uuid = k
    BY <1>2, <1>6, <2>2
  <2>3. CASE heap[i].unloads > 0
    BY <1>1, <1>2, <1>4, <2>3 DEF SamePlugins
  <2> QED
    BY <2>1, <2>2, <2>3
<1> QED
  BY <1>2, <1>3, <1>5, <1>6 DEF NothingForgotten, SamePlugins

LEMMA NextForgetsNothing ==
  ASSUME IInv, NothingForgotten, MissingWhileLoading, [Next]_vars
  PROVE  NothingForgotten'
<1>1. CASE UnloadViews
  <2>1. \A i \in 1..Len(heap) : heap[i].uuid \in Keys
    BY PluginTypes DEF IInv, Keys
  <2> QED
    BY <1>1, <2>1 DEF UnloadViews, NothingForgotten, dbVars, threadVars
<1>2. ASSUME NEW t \in Threads, Contacts(t) PROVE NothingForgotten'
  BY <1>2 DEF Contacts, EndRequest, NothingForgotten, dbVars, mainVars, IInv, TypeOK
<1> QED
  BY <1>1, <1>2, CacheSteps, UntouchedForgetsNothing, InvalidateForgetsNothing,
     StoredForgetsNothing, UnloadForgetsNothing DEF CacheTouched

(* unload_sources, undisturbed, misses only plugins an edit has displaced. *)
THEOREM SpecOnlyEditsLeakPlugins == Spec => []OnlyEditsLeakPlugins
<1>1. Init => NothingForgotten
  BY DEF Init, NothingForgotten
<1>2. IInv /\ NothingForgotten => OnlyEditsLeakPlugins
  BY DEF NothingForgotten, OnlyEditsLeakPlugins
<1>3. IInv /\ MissingWhileLoading /\ [Next]_vars => MissingWhileLoading'
  BY NextMissing
<1>4. IInv /\ NothingForgotten /\ MissingWhileLoading /\ [Next]_vars => NothingForgotten'
  BY NextForgetsNothing
<1> QED
  BY <1>1, <1>2, <1>3, <1>4, InitMissing, SpecIInv, PTL DEF Spec
=============================================================================
