---------------------------- MODULE BackendsProofs ----------------------------
(***************************************************************************)
(* Proofs about Backends: whatever the number of threads, of writes and of *)
(* connections, a CSV source serves the last file that could be read       *)
(* (CsvFollowsFile), the connection of an LDAP source recovers             *)
(* (LdapRecovers), and a fetch or a search has what did not change         *)
(* meanwhile, all of it (FetchesAreWhole), the connections stay in the     *)
(* pool (PoolTypeOK), and what a search shows can be a favorite            *)
(* (FavoriteIsListed).                                                     *)
(***************************************************************************)
EXTENDS Backends, FiniteSetTheorems, SequenceTheorems, TLAPS

(* The parts run apart: a step of the back-ends is one of their parts, or   *)
(* lets it alone.                                                          *)
LEMMA PartsRunApart ==
  ASSUME [Next]_vars
  PROVE  /\ [CsvNext]_csvVars
         /\ [LdapNext]_ldapVars
         /\ [PagedNext]_pagedVars
         /\ [SearchNext]_searchVars
         /\ [PoolNext]_poolVars
BY DEF Next, vars, Csv, Ldap, Fetch, Contact, Pool

-------------------------------------------------------------------------------
(* The file of a CSV source.                                               *)

(* As long as no two writes fall into one tick, the stamp of the file is   *)
(* its version, and what a thread has seen of it is no newer than what it  *)
(* has read.                                                               *)
StampIsVersion ==
  ~tied =>
    /\ file.stamp = file.version
    /\ \A t \in Readers :
         /\ csvPc[t] \in {"read", "keep", "date"} => seenStamp[t] <= file.version
         /\ csvPc[t] \in {"keep", "date"} => seenStamp[t] <= rows[t]

RowsAreRead ==
  \A t \in Readers :
    csvPc[t] \in {"keep", "date"} => 0 < rows[t] /\ rows[t] <= file.version

(* One thread at a time is between its two assignments.                    *)
NobodyCrosses ==
  ~crossed => \A t \in Readers :
    csvPc[t] = "date" =>
      /\ content = rows[t]
      /\ \A u \in Readers : csvPc[u] = "date" => u = t

ContentIsAsNew ==
  ~tied /\ ~crossed /\ (\A t \in Readers : csvPc[t] # "date") => modified <= content

CsvInv ==
  /\ CsvTypeOK
  /\ 0 < file.version /\ content <= file.version
  /\ StampIsVersion /\ RowsAreRead /\ NobodyCrosses /\ ContentIsAsNew

LEMMA CsvInitInv == CsvInit => CsvInv
<1> SUFFICES ASSUME CsvInit PROVE CsvInv
  OBVIOUS
<1>1. PICK there \in BOOLEAN :
        /\ file = [version |-> 1, stamp |-> 1, exists |-> there, header |-> TRUE]
        /\ content = (IF there THEN 1 ELSE 0)
        /\ modified = (IF there THEN 1 ELSE 0)
  BY DEF CsvInit
<1>2. CsvTypeOK
  <2>1. 0 \in Versions /\ 1 \in Versions
    BY CsvAssumption DEF Versions
  <2>2. csvPc = [t \in Readers |-> "idle"] /\ crossed = FALSE /\ tied = FALSE
    BY DEF CsvInit
  <2>3. seenStamp = [t \in Readers |-> 0] /\ rows = [t \in Readers |-> 0]
    BY DEF CsvInit
  <2>4. file \in [version: Versions, stamp: Versions, exists: BOOLEAN, header: BOOLEAN]
    BY <1>1, <2>1
  <2>5. content \in Versions /\ modified \in Versions
    BY <1>1, <2>1
  <2> QED
    BY <2>1, <2>2, <2>3, <2>4, <2>5 DEF CsvTypeOK
<1>3. /\ file.version = 1 /\ file.stamp = 1
      /\ content \in {0, 1} /\ modified = content
      /\ \A t \in Readers : csvPc[t] = "idle"
  BY <1>1 DEF CsvInit
<1>4. StampIsVersion /\ RowsAreRead /\ NobodyCrosses /\ ContentIsAsNew
  BY <1>3 DEF StampIsVersion, RowsAreRead, NobodyCrosses, ContentIsAsNew
<1> QED
  BY <1>2, <1>3, <1>4 DEF CsvInv

LEMMA WriteFileInv ==
  ASSUME CsvInv, WriteFile PROVE CsvInv'
<1>1. PICK stamp \in {file.stamp, file.version + 1}, header \in BOOLEAN :
        file' = [version |-> file.version + 1, stamp |-> stamp, exists |-> TRUE,
                 header |-> header]
  BY DEF WriteFile
<1>2. /\ file.version \in Nat /\ file.stamp \in Nat /\ file.version < MaxVersion
      /\ MaxVersion \in Nat
      /\ content \in Nat /\ content <= file.version
      /\ \A t \in Readers : rows[t] \in Nat /\ seenStamp[t] \in Nat
  BY CsvAssumption DEF CsvInv, CsvTypeOK, Versions, WriteFile
<1>3. file.stamp <= MaxVersion
  BY DEF CsvInv, CsvTypeOK, Versions
<1>4. /\ file'.version = file.version + 1
      /\ file'.stamp = stamp
      /\ UNCHANGED <<content, modified, csvPc, seenStamp, rows, crossed>>
      /\ tied' = (tied \/ stamp = file.stamp)
  BY <1>1 DEF WriteFile
<1>5. CsvTypeOK'
  <2>1. tied \in BOOLEAN /\ tied' \in BOOLEAN
    BY <1>4 DEF CsvInv, CsvTypeOK
  <2>2. file.version + 1 \in Versions /\ stamp \in Versions
    BY <1>1, <1>2, <1>3 DEF Versions
  <2>3. file' \in [version: Versions, stamp: Versions, exists: BOOLEAN, header: BOOLEAN]
    BY <1>1, <2>2
  <2> QED
    BY <1>4, <2>1, <2>3 DEF CsvInv, CsvTypeOK
<1>6. StampIsVersion'
  <2> SUFFICES ASSUME ~tied' PROVE StampIsVersion'
    BY DEF StampIsVersion
  <2>1. ~tied /\ file'.stamp = file'.version
    BY <1>1, <1>4
  <2>2. ASSUME NEW t \in Readers PROVE
          /\ csvPc'[t] \in {"read", "keep", "date"} => seenStamp'[t] <= file'.version
          /\ csvPc'[t] \in {"keep", "date"} => seenStamp'[t] <= rows'[t]
    BY <1>2, <1>4, <2>1 DEF CsvInv, StampIsVersion
  <2> QED
    BY <2>1, <2>2 DEF StampIsVersion
<1>7. RowsAreRead'
  BY <1>2, <1>4 DEF CsvInv, RowsAreRead
<1>8. NobodyCrosses' /\ ContentIsAsNew'
  BY <1>4 DEF CsvInv, NobodyCrosses, ContentIsAsNew
<1>9. (0 < file.version /\ content <= file.version)'
  BY <1>2, <1>4
<1> QED
  BY <1>5, <1>6, <1>7, <1>8, <1>9 DEF CsvInv

LEMMA RemoveFileInv ==
  ASSUME CsvInv, RemoveFile PROVE CsvInv'
<1>1. /\ file' \in [version: Versions, stamp: Versions, exists: BOOLEAN, header: BOOLEAN]
      /\ file'.version = file.version /\ file'.stamp = file.stamp
      /\ UNCHANGED <<content, modified, csvPc, seenStamp, rows, crossed, tied>>
  BY DEF CsvInv, CsvTypeOK, RemoveFile
<1> QED
  BY <1>1 DEF CsvInv, CsvTypeOK, StampIsVersion, RowsAreRead, NobodyCrosses, ContentIsAsNew

(* What the step of a reader leaves to the others.                         *)
LEMMA CsvGoes ==
  ASSUME CsvTypeOK, NEW t \in Readers, NEW step, CsvGoTo(t, step)
  PROVE  /\ csvPc'[t] = step
         /\ \A u \in Readers : u # t => csvPc'[u] = csvPc[u]
BY DEF CsvTypeOK, CsvGoTo

LEMMA CsvStepTypes ==
  ASSUME CsvInv, NEW t \in Readers, CsvStep(t) PROVE CsvTypeOK'
<1> USE DEF CsvInv, CsvTypeOK, CsvGoTo
<1>1. CASE CsvCall(t)
  BY <1>1 DEF CsvCall
<1>2. CASE Stat(t)
  BY <1>2 DEF Stat
<1>3. CASE ReadFile(t)
  BY <1>3 DEF ReadFile
<1>4. CASE KeepContent(t)
  BY <1>4 DEF KeepContent
<1>5. CASE KeepDate(t)
  BY <1>5 DEF KeepDate, StampBeforeRead
<1>6. CASE Match(t)
  BY <1>6 DEF Match
<1> QED
  BY <1>1, <1>2, <1>3, <1>4, <1>5, <1>6 DEF CsvStep

(* A reader that neither begins nor ends the two assignments leaves what   *)
(* is kept as it is.                                                       *)
LEMMA CsvQuietStep ==
  ASSUME CsvInv, NEW t \in Readers,
         CsvCall(t) \/ Stat(t) \/ ReadFile(t) \/ Match(t)
  PROVE  CsvInv'
<1>1. CsvTypeOK'
  BY CsvStepTypes DEF CsvStep
<1>2. /\ UNCHANGED <<file, content, modified, crossed, tied>>
      /\ \A u \in Readers : u # t => /\ csvPc'[u] = csvPc[u]
                                     /\ seenStamp'[u] = seenStamp[u] /\ rows'[u] = rows[u]
      /\ csvPc[t] # "date" /\ csvPc'[t] # "date"
  BY CsvGoes DEF CsvInv, CsvTypeOK, CsvCall, Stat, ReadFile, Match
<1>3. csvPc'[t] = "keep" => rows'[t] = file.version
  BY CsvGoes DEF CsvInv, CsvTypeOK, CsvCall, Stat, ReadFile, Match
<1>4. csvPc'[t] \in {"read", "keep"} => seenStamp'[t] = file.stamp \/
         (csvPc[t] = "read" /\ seenStamp'[t] = seenStamp[t])
  BY CsvGoes DEF CsvInv, CsvTypeOK, CsvCall, Stat, ReadFile, Match
<1>5. file.version \in Nat /\ file.stamp \in Nat
  BY CsvAssumption DEF CsvInv, CsvTypeOK, Versions
<1>6. StampIsVersion'
  BY <1>2, <1>3, <1>4, <1>5 DEF CsvInv, StampIsVersion
<1>7. RowsAreRead'
  BY <1>2, <1>3, <1>5 DEF CsvInv, RowsAreRead
<1>8. NobodyCrosses' /\ ContentIsAsNew'
  BY <1>2 DEF CsvInv, NobodyCrosses, ContentIsAsNew
<1> QED
  BY <1>1, <1>2, <1>6, <1>7, <1>8 DEF CsvInv

LEMMA KeepContentInv ==
  ASSUME CsvInv, NEW t \in Readers, KeepContent(t) PROVE CsvInv'
<1>1. CsvTypeOK'
  BY CsvStepTypes DEF CsvStep
<1>2. /\ csvPc[t] = "keep" /\ csvPc'[t] = "date"
      /\ content' = rows[t]
      /\ \A u \in Readers : u # t => csvPc'[u] = csvPc[u]
      /\ crossed' = (crossed \/ \E u \in Readers \ {t} : csvPc[u] = "date")
      /\ UNCHANGED <<file, modified, seenStamp, rows, tied>>
  BY CsvGoes DEF CsvInv, KeepContent
<1>3. RowsAreRead' /\ content' <= file'.version
  BY <1>2 DEF CsvInv, RowsAreRead
<1>4. StampIsVersion'
  BY <1>2 DEF CsvInv, StampIsVersion
<1>5. NobodyCrosses'
  BY <1>2 DEF CsvInv, NobodyCrosses
<1>6. ContentIsAsNew'
  BY <1>2 DEF ContentIsAsNew
<1> QED
  BY <1>1, <1>2, <1>3, <1>4, <1>5, <1>6 DEF CsvInv

LEMMA KeepDateInv ==
  ASSUME CsvInv, NEW t \in Readers, KeepDate(t) PROVE CsvInv'
<1>1. CsvTypeOK'
  BY CsvStepTypes DEF CsvStep
<1>2. /\ csvPc[t] = "date" /\ csvPc'[t] = "match"
      /\ modified' = seenStamp[t]
      /\ \A u \in Readers : u # t => csvPc'[u] = csvPc[u]
      /\ UNCHANGED <<file, content, seenStamp, rows, crossed, tied>>
  BY CsvGoes DEF CsvInv, KeepDate, StampBeforeRead
<1>3. RowsAreRead' /\ StampIsVersion' /\ NobodyCrosses'
  BY <1>2 DEF CsvInv, RowsAreRead, StampIsVersion, NobodyCrosses
<1>4. ContentIsAsNew'
  BY <1>2 DEF CsvInv, StampIsVersion, NobodyCrosses, ContentIsAsNew
<1> QED
  BY <1>1, <1>2, <1>3, <1>4 DEF CsvInv

LEMMA CsvNextInv ==
  ASSUME CsvInv, [CsvNext]_csvVars PROVE CsvInv'
<1>1. CASE WriteFile
  BY <1>1, WriteFileInv
<1>2. CASE RemoveFile
  BY <1>2, RemoveFileInv
<1>3. ASSUME NEW t \in Readers, CsvStep(t) PROVE CsvInv'
  BY <1>3, CsvQuietStep, KeepContentInv, KeepDateInv DEF CsvStep
<1>4. CASE UNCHANGED csvVars
  BY <1>4 DEF csvVars, CsvInv, CsvTypeOK, StampIsVersion, RowsAreRead, NobodyCrosses,
     ContentIsAsNew
<1> QED
  BY <1>1, <1>2, <1>3, <1>4 DEF CsvNext

LEMMA InvChangeIsSeen == CsvInv => CsvTypeOK /\ ChangeIsSeen
<1>1. CsvTypeOK => content \in Nat /\ modified \in Nat /\ file.version \in Nat
  BY CsvAssumption DEF CsvTypeOK, Versions
<1> QED
  BY <1>1 DEF CsvInv, ChangeIsSeen, StampIsVersion, ContentIsAsNew

(* Only what was read is kept, and that is never the empty list.           *)
LEMMA ContentStays ==
  ASSUME CsvInv, [CsvNext]_csvVars, content # 0 PROVE content' # 0
<1>1. ASSUME NEW t \in Readers, CsvStep(t) PROVE content' # 0
  <2>1. CASE KeepContent(t)
    BY <2>1 DEF KeepContent, CsvInv, RowsAreRead
  <2>2. CASE ~KeepContent(t)
    BY <1>1, <2>2 DEF CsvStep, CsvCall, Stat, ReadFile, KeepDate, Match
  <2> QED
    BY <2>1, <2>2
<1> QED
  BY <1>1 DEF CsvNext, WriteFile, RemoveFile, csvVars

(* A CSV source serves the last file that could be read, however many       *)
(* threads reload it and however often it is written: its content is the   *)
(* file of the time it has kept, and it is never emptied                   *)
(* (CSVPlugin._load_file).                                                 *)
THEOREM SpecCsvFollowsFile == Spec => CsvFollowsFile
<1>1. Init => CsvInv
  BY CsvInitInv DEF Init
<1>2. CsvInv /\ [Next]_vars => CsvInv'
  BY CsvNextInv, PartsRunApart
<1>3. CsvInv /\ [Next]_vars => [content # 0 => content' # 0]_csvVars
  BY ContentStays, PartsRunApart
<1>4. CsvInv => CsvTypeOK /\ ChangeIsSeen
  BY InvChangeIsSeen
<1> QED
  BY <1>1, <1>2, <1>3, <1>4, PTL DEF Spec, CsvFollowsFile, NeverForgets

-------------------------------------------------------------------------------
(* The connection of an LDAP source.                                       *)

LockIsHeld ==
  \A t \in Searchers : ldapPc[t] \notin {"idle", "lock"} <=> lock = t

(* Until unload() the searches share one connection, or none.              *)
BeforeUnload ==
  closePc = "no" =>
    /\ ~usedAfter
    /\ \A t \in Searchers : answer[t] # "raised"
    /\ \A t \in Searchers : ldapPc[t] = "connect" => ldapObj = NoConnection
    /\ \A t \in Searchers :
         ldapPc[t] \in {"bind", "bound", "search", "wait", "unbind"} => ldapObj # NoConnection
    /\ (\A t \in Searchers : ldapPc[t] # "clear") => open = {ldapObj} \ {NoConnection}
    /\ (\E t \in Searchers : ldapPc[t] = "clear") => open = {}

(* From then on no search runs, or the history tells of it, and unload()    *)
(* closes the connection there is.                                         *)
UnloadAlone ==
  closePc # "no" /\ ~usedAfter =>
    /\ \A t \in Searchers : ~Running(t) /\ answer[t] # "raised"
    /\ closePc = "check" => open = {ldapObj} \ {NoConnection}
    /\ closePc = "unbind" => ldapObj # NoConnection /\ open = {ldapObj}
    /\ closePc = "clear" => open = {}
    /\ closePc = "done" => open = {} /\ ldapObj = NoConnection

(* A search that nothing troubles: the server is up, it has a connection    *)
(* the server knows or a second try left, and so it finds what it should.  *)
Untroubled(t) == ~trouble[t] /\ closePc = "no"

Known(t) == ldapObj \in bound \/ retry[t]

SmoothSearch(t) ==
  Untroubled(t) =>
    /\ Running(t) => serverUp
    /\ ldapPc[t] = "bound" => ldapObj \in bound
    /\ ldapPc[t] \in {"search", "wait"} => Known(t)
    /\ ldapPc[t] = "wait" => using[t] = ldapObj
    /\ ldapPc[t] \in {"unbind", "clear"} => retry[t]
    /\ ldapPc[t] = "after" =>
         \/ ldapObj = NoConnection /\ retry[t]
         \/ ldapObj # NoConnection /\ answer[t] = "found"
    /\ ldapPc[t] = "release" => answer[t] = "found"

LdapInv ==
  /\ LdapTypeOK /\ LockIsHeld /\ BeforeUnload /\ UnloadAlone
  /\ \A t \in Searchers : SmoothSearch(t)

LEMMA LdapInitInv == LdapInit => LdapInv
<1> SUFFICES ASSUME LdapInit PROVE LdapInv
  OBVIOUS
<1>1. ldapObj \in Connections \cup {NoConnection}
  BY LdapAssumption DEF LdapInit
<1>2. LdapTypeOK
  BY <1>1 DEF LdapInit, LdapTypeOK
<1> QED
  BY <1>2, LdapAssumption
     DEF LdapInit, LdapInv, LockIsHeld, BeforeUnload, UnloadAlone, SmoothSearch, Running

(* What the step of a search does not touch.                               *)
LEMMA LdapStepFrame ==
  ASSUME LdapTypeOK, NEW t \in Searchers, LdapStep(t)
  PROVE  /\ UNCHANGED <<serverUp, many, closeVars>>
         /\ \A u \in Searchers : u # t =>
              /\ ldapPc'[u] = ldapPc[u] /\ using'[u] = using[u] /\ retry'[u] = retry[u]
              /\ answer'[u] = answer[u] /\ trouble'[u] = trouble[u]
         /\ trouble[t] => trouble'[t]
         /\ Running(t)
<1> USE DEF LdapTypeOK, LdapGoTo, callVars, serverVars, Running
<1>1. CASE Acquire(t)
  BY <1>1 DEF Acquire
<1>2. CASE Check(t)
  BY <1>2 DEF Check, IsSetUp
<1>3. CASE Connect(t)
  BY <1>3 DEF Connect, IsSetUp
<1>4. CASE Bind(t)
  BY <1>4 DEF Bind, Raise, Answers, Troubled
<1>5. CASE Bound(t)
  BY <1>5 DEF Bound, IsSetUp
<1>6. CASE Send(t)
  BY <1>6 DEF Send, Raise, Answers
<1>7. CASE Receive(t)
  BY <1>7 DEF Receive, Answers, Troubled, TearDownAfterError
<1>8. CASE Unbind(t)
  BY <1>8 DEF Unbind, Raise, Answers, Closed, Unbound
<1>9. CASE Clear(t)
  BY <1>9 DEF Clear
<1>10. CASE After(t)
  BY <1>10 DEF After, SecondTry
<1>11. CASE Release(t)
  BY <1>11 DEF Release
<1> QED
  BY <1>1, <1>2, <1>3, <1>4, <1>5, <1>6, <1>7, <1>8, <1>9, <1>10, <1>11 DEF LdapStep

LEMMA LdapStepTypes ==
  ASSUME LdapTypeOK, NEW t \in Searchers, LdapStep(t) PROVE LdapTypeOK'
<1> USE DEF LdapTypeOK, LdapGoTo, callVars, serverVars, closeVars
<1>1. CASE Acquire(t)
  BY <1>1 DEF Acquire
<1>2. CASE Check(t)
  BY <1>2 DEF Check, IsSetUp
<1>3. CASE Connect(t)
  BY <1>3 DEF Connect, IsSetUp
<1>4. CASE Bind(t)
  BY <1>4 DEF Bind, Raise, Answers, Troubled
<1>5. CASE Bound(t)
  BY <1>5 DEF Bound, IsSetUp
<1>6. CASE Send(t)
  BY <1>6 DEF Send, Raise, Answers
<1>7. CASE Receive(t)
  <2>1. answer' \in [Searchers -> {"found", "empty", "raised"}]
    BY <1>7 DEF Receive, Answers
  <2>2. trouble' \in [Searchers -> BOOLEAN]
    BY <1>7 DEF Receive, Troubled
  <2>3. \E step \in {"after", "unbind"} : ldapPc' = [ldapPc EXCEPT ![t] = step]
    BY <1>7 DEF Receive, TearDownAfterError
  <2> QED
    BY <1>7, <2>1, <2>2, <2>3 DEF Receive
<1>8. CASE Unbind(t)
  BY <1>8 DEF Unbind, Raise, Answers, Closed, Unbound
<1>9. CASE Clear(t)
  BY <1>9 DEF Clear
<1>10. CASE After(t)
  BY <1>10 DEF After, SecondTry
<1>11. CASE Release(t)
  BY <1>11 DEF Release
<1> QED
  BY <1>1, <1>2, <1>3, <1>4, <1>5, <1>6, <1>7, <1>8, <1>9, <1>10, <1>11 DEF LdapStep

LEMMA LdapStepLock ==
  ASSUME LdapTypeOK, LockIsHeld, NEW t \in Searchers, LdapStep(t) PROVE LockIsHeld'
<1> USE LdapAssumption DEF LdapTypeOK, LockIsHeld, LdapGoTo, callVars
<1>1. CASE Acquire(t)
  BY <1>1 DEF Acquire
<1>2. CASE Check(t)
  BY <1>2 DEF Check, IsSetUp
<1>3. CASE Connect(t)
  BY <1>3 DEF Connect, IsSetUp
<1>4. CASE Bind(t)
  BY <1>4 DEF Bind, Raise, Answers, Troubled
<1>5. CASE Bound(t)
  BY <1>5 DEF Bound, IsSetUp
<1>6. CASE Send(t)
  BY <1>6 DEF Send, Raise, Answers
<1>7. CASE Receive(t)
  BY <1>7 DEF Receive, Answers, Troubled, TearDownAfterError
<1>8. CASE Unbind(t)
  BY <1>8 DEF Unbind, Raise, Answers, Closed, Unbound
<1>9. CASE Clear(t)
  BY <1>9 DEF Clear
<1>10. CASE After(t)
  BY <1>10 DEF After, SecondTry
<1>11. CASE Release(t)
  BY <1>11 DEF Release
<1> QED
  BY <1>1, <1>2, <1>3, <1>4, <1>5, <1>6, <1>7, <1>8, <1>9, <1>10, <1>11 DEF LdapStep

LEMMA LdapStepBeforeUnload ==
  ASSUME LdapTypeOK, LockIsHeld, BeforeUnload, NEW t \in Searchers, LdapStep(t)
  PROVE  BeforeUnload'
<1> USE LdapAssumption DEF LdapTypeOK, LockIsHeld, BeforeUnload, LdapGoTo, callVars, closeVars
<1>1. CASE Acquire(t)
  BY <1>1 DEF Acquire
<1>2. CASE Check(t)
  BY <1>2 DEF Check, IsSetUp
<1>3. CASE Connect(t)
  BY <1>3 DEF Connect, IsSetUp
<1>4. CASE Bind(t)
  BY <1>4 DEF Bind, Raise, Answers, Troubled
<1>5. CASE Bound(t)
  BY <1>5 DEF Bound, IsSetUp
<1>6. CASE Send(t)
  BY <1>6 DEF Send, Raise, Answers
<1>7. CASE Receive(t)
  BY <1>7 DEF Receive, Answers, Troubled, TearDownAfterError
<1>8. CASE Unbind(t)
  BY <1>8 DEF Unbind, Raise, Answers, Closed, Unbound
<1>9. CASE Clear(t)
  BY <1>9 DEF Clear
<1>10. CASE After(t)
  BY <1>10 DEF After, SecondTry
<1>11. CASE Release(t)
  BY <1>11 DEF Release
<1> QED
  BY <1>1, <1>2, <1>3, <1>4, <1>5, <1>6, <1>7, <1>8, <1>9, <1>10, <1>11 DEF LdapStep

LEMMA LdapStepSmooth ==
  ASSUME LdapTypeOK, LockIsHeld, BeforeUnload, NEW t \in Searchers, SmoothSearch(t),
         LdapStep(t)
  PROVE  SmoothSearch(t)'
<1> USE LdapAssumption
    DEF LdapTypeOK, LockIsHeld, BeforeUnload, SmoothSearch, Untroubled, Known, Running,
        LdapGoTo, callVars, closeVars, serverVars
<1>1. CASE Acquire(t)
  BY <1>1 DEF Acquire
<1>2. CASE Check(t)
  BY <1>2 DEF Check, IsSetUp
<1>3. CASE Connect(t)
  BY <1>3 DEF Connect, IsSetUp
<1>4. CASE Bind(t)
  BY <1>4 DEF Bind, Raise, Answers, Troubled
<1>5. CASE Bound(t)
  BY <1>5 DEF Bound, IsSetUp
<1>6. CASE Send(t)
  BY <1>6 DEF Send, Raise, Answers
<1>7. CASE Receive(t)
  <2>1. /\ ldapPc[t] = "wait" /\ UNCHANGED <<serverUp, bound, ldapObj, retry, closePc>>
        /\ trouble[t] => trouble'[t]
    BY <1>7 DEF Receive, Troubled
  <2>2. \/ ldapPc'[t] = "after" /\ answer'[t] = "found"
        \/ ldapPc'[t] = "after" /\ trouble'[t]
        \/ /\ ldapPc'[t] = "unbind"
           /\ ~serverUp \/ using[t] \notin bound \/ trouble'[t]
    BY <1>7 DEF Receive, Answers, Troubled, TearDownAfterError
  <2>3. Untroubled(t)' => Untroubled(t)
    BY <2>1
  <2> QED
    BY <2>1, <2>2, <2>3
<1>8. CASE Unbind(t)
  BY <1>8 DEF Unbind, Raise, Answers, Closed, Unbound
<1>9. CASE Clear(t)
  BY <1>9 DEF Clear
<1>10. CASE After(t)
  BY <1>10 DEF After, SecondTry
<1>11. CASE Release(t)
  BY <1>11 DEF Release
<1> QED
  BY <1>1, <1>2, <1>3, <1>4, <1>5, <1>6, <1>7, <1>8, <1>9, <1>10, <1>11 DEF LdapStep

LEMMA LdapStepInv ==
  ASSUME LdapInv, NEW t \in Searchers, LdapStep(t) PROVE LdapInv'
<1> USE DEF LdapInv
<1>1. LdapTypeOK' /\ LockIsHeld' /\ BeforeUnload' /\ SmoothSearch(t)'
  BY LdapStepTypes, LdapStepLock, LdapStepBeforeUnload, LdapStepSmooth
<1>2. UnloadAlone'
  BY LdapStepFrame DEF UnloadAlone, closeVars
<1>3. ASSUME NEW u \in Searchers, u # t PROVE SmoothSearch(u)'
  <2>1. /\ ldapPc[u] \in {"idle", "lock"}
        /\ ldapPc'[u] = ldapPc[u] /\ trouble'[u] = trouble[u]
        /\ UNCHANGED <<serverUp, closePc>>
    BY <1>1, <1>3, LdapStepFrame, LdapAssumption DEF LockIsHeld, LdapStep, Acquire, Check,
       Connect, Bind, Bound, Send, Receive, Unbind, Clear, After, Release, closeVars
  <2> QED
    BY <2>1 DEF SmoothSearch, Untroubled, Running
<1> QED
  BY <1>1, <1>2, <1>3

LEMMA LdapCallInv ==
  ASSUME LdapInv, NEW t \in Searchers, LdapCall(t) PROVE LdapInv'
<1> USE DEF LdapInv
<1>1. /\ ldapPc[t] = "idle" /\ ldapPc'[t] = "lock"
      /\ trouble'[t] = ~serverUp /\ answer'[t] = "empty"
      /\ usedAfter' = (usedAfter \/ closePc # "no")
      /\ UNCHANGED <<serverUp, bound, ldapObj, open, lock, using, retry, closePc, closing>>
      /\ \A u \in Searchers : u # t => /\ ldapPc'[u] = ldapPc[u] /\ trouble'[u] = trouble[u]
                                       /\ answer'[u] = answer[u]
  BY DEF LdapTypeOK, LdapCall, LdapGoTo, Answers, serverVars
<1>2. LdapTypeOK'
  BY DEF LdapTypeOK, LdapCall, LdapGoTo, Answers, serverVars
<1>3. LockIsHeld'
  BY <1>1 DEF LockIsHeld
<1>4. BeforeUnload'
  BY <1>1 DEF BeforeUnload
<1>5. UnloadAlone'
  BY <1>1 DEF UnloadAlone, Running
<1>6. \A u \in Searchers : SmoothSearch(u)'
  BY <1>1 DEF SmoothSearch, Untroubled, Known, Running
<1> QED
  BY <1>2, <1>3, <1>4, <1>5, <1>6

LEMMA ServerInv ==
  ASSUME LdapInv, ServerStops \/ ServerStarts \/ ServerForgets PROVE LdapInv'
<1> USE DEF LdapInv
<1>1. /\ UNCHANGED <<ldapObj, open, lock, ldapPc, using, many, retry, answer, closeVars>>
      /\ bound' \in {bound, {}} /\ serverUp' \in BOOLEAN
      /\ trouble' \in [Searchers -> BOOLEAN]
      /\ \A t \in Searchers : trouble[t] => trouble'[t]
  BY DEF LdapTypeOK, ServerStops, ServerStarts, ServerForgets, callVars, Troubled
<1>2. LdapTypeOK'
  BY <1>1 DEF LdapTypeOK, closeVars
<1>3. LockIsHeld' /\ BeforeUnload' /\ UnloadAlone'
  BY <1>1 DEF LockIsHeld, BeforeUnload, UnloadAlone, closeVars, Running
<1>4. ASSUME NEW t \in Searchers PROVE SmoothSearch(t)'
  <2>1. CASE ServerStops
    BY <1>1, <2>1
       DEF ServerStops, SmoothSearch, Untroubled, Known, Running, Troubled, closeVars
  <2>2. CASE ServerStarts
    BY <1>1, <2>2 DEF ServerStarts, SmoothSearch, Untroubled, Known, Running, callVars, closeVars
  <2>3. CASE ServerForgets
    <3>1. ldapPc[t] \in {"idle", "lock"}
      BY <2>3, LdapAssumption DEF ServerForgets, LockIsHeld
    <3> QED
      BY <1>1, <2>3, <3>1
         DEF ServerForgets, SmoothSearch, Untroubled, Running, callVars, closeVars
  <2> QED
    BY <2>1, <2>2, <2>3
<1> QED
  BY <1>2, <1>3, <1>4

LEMMA CloseInv ==
  ASSUME LdapInv, Close PROVE LdapInv'
<1> USE DEF LdapInv
<1>1. /\ UNCHANGED <<serverUp, lock, ldapPc, using, many, retry, answer>>
      /\ closePc' # "no"
  BY DEF Close, Unload, CloseCheck, CloseUnbind, CloseClear, serverVars, callVars
<1>2. LdapTypeOK'
  BY DEF Close, Unload, CloseCheck, CloseUnbind, CloseClear, serverVars, callVars, LdapTypeOK,
     Troubled, Closed, Unbound
<1>3. LockIsHeld' /\ BeforeUnload' /\ \A t \in Searchers : SmoothSearch(t)'
  BY <1>1 DEF LockIsHeld, BeforeUnload, SmoothSearch, Untroubled
<1>4. UnloadAlone'
  <2> USE LdapAssumption DEF UnloadAlone, Running, LdapTypeOK
  <2>1. CASE Unload
    BY <2>1 DEF Unload, BeforeUnload
  <2>2. CASE CloseCheck
    BY <2>2 DEF CloseCheck, callVars
  <2>3. CASE CloseUnbind
    BY <2>3 DEF CloseUnbind, callVars, Closed
  <2>4. CASE CloseClear
    BY <2>4 DEF CloseClear, callVars
  <2> QED
    BY <2>1, <2>2, <2>3, <2>4 DEF Close
<1> QED
  BY <1>2, <1>3, <1>4

LEMMA LdapNextInv ==
  ASSUME LdapInv, [LdapNext]_ldapVars PROVE LdapInv'
<1>1. CASE ServerStops \/ ServerStarts \/ ServerForgets
  BY <1>1, ServerInv
<1>2. CASE Close
  BY <1>2, CloseInv
<1>3. ASSUME NEW t \in Searchers, LdapCall(t) \/ LdapStep(t) PROVE LdapInv'
  BY <1>3, LdapCallInv, LdapStepInv
<1>4. CASE UNCHANGED ldapVars
  BY <1>4 DEF ldapVars, serverVars, callVars, closeVars, LdapInv, LdapTypeOK, LockIsHeld,
     BeforeUnload, UnloadAlone, SmoothSearch, Untroubled, Known, Running
<1> QED
  BY <1>1, <1>2, <1>3, <1>4 DEF LdapNext

LEMMA InvLdapRecovers == LdapInv => LdapRecovers
<1> SUFFICES ASSUME LdapInv PROVE LdapRecovers
  OBVIOUS
<1> USE DEF LdapInv
<1>1. StaleConnectionIsHidden
  BY DEF StaleConnectionIsHidden, SmoothSearch, Untroubled
<1>2. RaisesOnlyWhenUnloaded
  BY DEF RaisesOnlyWhenUnloaded, BeforeUnload, UnloadAlone
<1>3. NoConnectionLeaks
  <2>1. ASSUME lock = Nobody PROVE \A t \in Searchers : ldapPc[t] # "clear"
    BY <2>1, LdapAssumption DEF LockIsHeld
  <2> QED
    BY <2>1 DEF NoConnectionLeaks, BeforeUnload, UnloadAlone
<1> QED
  BY <1>1, <1>2, <1>3 DEF LdapRecovers

(* However many threads search an LDAP source while its server stops,       *)
(* restarts and forgets connections, a connection it has dropped costs a   *)
(* search nothing, no exception leaves the plugin before it is unloaded,   *)
(* and no connection is lost (_LDAPClient, LDAPPlugin.unload).             *)
THEOREM SpecLdapRecovers == Spec => []LdapRecovers
<1>1. Init => LdapInv
  BY LdapInitInv DEF Init
<1>2. LdapInv /\ [Next]_vars => LdapInv'
  BY LdapNextInv, PartsRunApart
<1> QED
  BY <1>1, <1>2, InvLdapRecovers, PTL DEF Spec

-------------------------------------------------------------------------------
(* The pages of an address book.                                           *)

(* What has been fetched of a book that did not change is its beginning,   *)
(* up to where the next page starts.                                       *)
PagesAreTheBeginning ==
  fetchPc = "pages" =>
    /\ service = "office365" /\ 0 < next
    /\ ~changed => /\ top = Len(book) /\ next <= Len(book)
                   /\ fetched = SubSeq(book, 1, next - 1)

PagedInv ==
  /\ PagedTypeOK
  /\ fetchPc # "idle" => ~failed /\ outcome = "none"
  /\ fetchPc \in {"token", "count"} => fetched = <<>>
  /\ PagesAreTheBeginning
  /\ FetchedWholeOrNotAtAll

LEMMA PageInSeq ==
  ASSUME book \in Seq(Persons), NEW first \in Nat \ {0}, NEW size \in Nat
  PROVE  PageOf(first, size) \in Seq(Persons)
<1> DEFINE last == IF first + size - 1 < Len(book) THEN first + size - 1 ELSE Len(book)
<1>1. last \in Int /\ last <= Len(book)
  OBVIOUS
<1>2. \A i \in first .. last : book[i] \in Persons
  BY <1>1, ElementOfSeq
<1> QED
  BY <1>1, <1>2, SubSeqProperties DEF PageOf

LEMMA PagedInitInv == PagedInit => PagedInv
<1> SUFFICES ASSUME PagedInit PROVE PagedInv
  OBVIOUS
<1>1. book \in Seq(Persons)
  <2>1. PICK n \in 0 .. 3 : book \in [1 .. n -> Persons]
    BY DEF PagedInit
  <2> QED
    BY <2>1
<1>2. fetched \in Seq(Persons)
  BY EmptySeq DEF PagedInit
<1>3. bookEdits \in 0 .. MaxBookEdits
  BY PagedAssumption DEF PagedInit
<1>4. PagedTypeOK
  BY <1>1, <1>2, <1>3 DEF PagedInit, PagedTypeOK
<1> QED
  BY <1>4 DEF PagedInit, PagedInv, PagesAreTheBeginning, FetchedWholeOrNotAtAll

LEMMA EditBookInv ==
  ASSUME PagedInv, EditBook PROVE PagedInv'
<1> USE DEF PagedInv
<1>1. book \in Seq(Persons)
  BY DEF PagedTypeOK
<1>2. book' \in Seq(Persons)
  <2>1. ASSUME NEW p \in Persons PROVE <<p>> \o book \in Seq(Persons)
    BY <1>1, ConcatProperties
  <2>2. ASSUME NEW p \in Persons PROVE Append(book, p) \in Seq(Persons)
    BY <1>1, AppendProperties
  <2>3. ASSUME NEW i \in DOMAIN book PROVE RemoveAt(book, i) \in Seq(Persons)
    <3>1. i \in 1 .. Len(book)
      BY <1>1
    <3>2. SubSeq(book, 1, i - 1) \in Seq(Persons)
      BY <1>1, <3>1, ElementOfSeq, SubSeqProperties
    <3>3. SubSeq(book, i + 1, Len(book)) \in Seq(Persons)
      BY <1>1, <3>1, ElementOfSeq, SubSeqProperties
    <3> QED
      BY <3>2, <3>3, ConcatProperties DEF RemoveAt
  <2> QED
    BY <2>1, <2>2, <2>3 DEF EditBook
<1>3. PagedTypeOK'
  BY <1>2, PagedAssumption DEF EditBook, PagedTypeOK
<1> QED
  BY <1>3 DEF EditBook, PagesAreTheBeginning, FetchedWholeOrNotAtAll

LEMMA FetchPageInv ==
  ASSUME PagedInv, FetchPage PROVE PagedInv'
<1> DEFINE L == PageLength
           last == IF next + L - 1 < Len(book) THEN next + L - 1 ELSE Len(book)
<1> USE DEF PagedInv
<1>1. /\ book \in Seq(Persons) /\ fetched \in Seq(Persons) /\ top \in Nat
      /\ service = "office365" /\ next \in Nat \ {0}
      /\ ~failed /\ outcome = "none" /\ fetchPc = "pages"
  BY DEF PagedTypeOK, PagesAreTheBeginning, FetchPage
<1>2. L \in Nat /\ (0 < top => 0 < L)
  BY <1>1, PagedAssumption DEF PageLength
<1> HIDE DEF L
<1>3. /\ fetched' = fetched \o PageOf(next, L)
      /\ next' = IF next + L <= Len(book) THEN next + L ELSE 0
      /\ UNCHANGED <<book, bookEdits, service, caller, top, changed, failed>>
      /\ fetchPc' = IF next' = 0 THEN "idle" ELSE fetchPc
      /\ outcome' = IF next' = 0 THEN "contacts" ELSE outcome
  BY DEF FetchPage, NextLink, Finish, L
<1>4. fetched' \in Seq(Persons)
  BY <1>1, <1>2, <1>3, PageInSeq, ConcatProperties
<1>5. PagedTypeOK'
  BY <1>1, <1>2, <1>3, <1>4 DEF PagedTypeOK
<1>6. ASSUME ~changed PROVE fetched' = SubSeq(book, 1, last) /\ next <= Len(book) /\ 0 < L
  <2>1. top = Len(book) /\ next <= Len(book) /\ fetched = SubSeq(book, 1, next - 1)
    BY <1>1, <1>6 DEF PagesAreTheBeginning
  <2>2. 0 < L
    BY <1>1, <1>2, <2>1
  <2>3. PageOf(next, L) = SubSeq(book, next, last)
    BY DEF PageOf
  <2>4. Len(book) \in Nat
    BY <1>1
  <2>5. next - 1 \in 0 .. Len(book) /\ last \in (next - 1) .. Len(book) /\ 1 \in 1 .. Len(book) + 1
    BY <1>1, <1>2, <2>1, <2>2, <2>4
  <2> HIDE DEF last
  <2>6. SubSeq(book, 1, next - 1) \o SubSeq(book, (next - 1) + 1, last) = SubSeq(book, 1, last)
    BY <1>1, <2>5, ConcatAdjacentSubSeq
  <2>7. (next - 1) + 1 = next
    BY <1>1
  <2> QED
    BY <1>3, <2>1, <2>2, <2>3, <2>6, <2>7
<1>7. Len(book) \in Nat
  BY <1>1
<1>8. PagesAreTheBeginning'
  <2> SUFFICES ASSUME fetchPc' = "pages" PROVE PagesAreTheBeginning'
    BY DEF PagesAreTheBeginning
  <2>1. next + L <= Len(book) /\ next' = next + L
    BY <1>3
  <2>2. ~changed => last = next' - 1
    BY <1>1, <1>2, <1>7, <2>1
  <2>3. ~changed => top = Len(book)
    BY <1>1 DEF PagesAreTheBeginning
  <2> HIDE DEF last
  <2>4. ~changed => fetched' = SubSeq(book, 1, next' - 1)
    BY <1>6, <2>2
  <2>5. 0 < next' /\ next' <= Len(book)
    BY <1>1, <1>2, <2>1
  <2> QED
    BY <1>1, <1>3, <2>3, <2>4, <2>5 DEF PagesAreTheBeginning
<1>9. FetchedWholeOrNotAtAll'
  <2> SUFFICES ASSUME outcome' = "contacts", ~changed PROVE fetched' = book
    BY <1>1, <1>3 DEF FetchedWholeOrNotAtAll
  <2>1. next + L > Len(book)
    BY <1>1, <1>2, <1>3, <1>7
  <2>2. last = Len(book)
    BY <1>1, <1>2, <1>7, <2>1
  <2> QED
    BY <1>1, <1>6, <2>2, SubSeqFull
<1> QED
  BY <1>1, <1>3, <1>5, <1>8, <1>9

LEMMA OtherFetchInv ==
  ASSUME PagedInv, BeginFetch \/ GetToken \/ Count \/ RequestFails \/ FetchGoogle
  PROVE  PagedInv'
<1> USE DEF PagedInv
<1>1. CASE BeginFetch
  <2>1. fetched' \in Seq(Persons) /\ fetched' = <<>>
    BY <1>1, EmptySeq DEF BeginFetch
  <2>2. PagedTypeOK'
    BY <1>1, <2>1 DEF BeginFetch, PagedTypeOK
  <2> QED
    BY <1>1, <2>1, <2>2 DEF BeginFetch, PagesAreTheBeginning, FetchedWholeOrNotAtAll
<1>2. CASE GetToken
  <2>1. PagedTypeOK'
    BY <1>2 DEF GetToken, GiveUp, Finish, PagedTypeOK
  <2> QED
    BY <1>2, <2>1 DEF GetToken, GiveUp, Finish, PagedTypeOK, PagesAreTheBeginning,
       FetchedWholeOrNotAtAll
<1>3. CASE Count
  <2>1. /\ fetchPc = "count" /\ service = "office365"
        /\ top' = Len(book) /\ next' = 1
        /\ fetchPc' = IF book = <<>> THEN "idle" ELSE "pages"
        /\ outcome' = IF book = <<>> THEN "contacts" ELSE outcome
        /\ UNCHANGED <<book, bookEdits, service, caller, fetched, changed, failed>>
    BY <1>3 DEF Count, Finish
  <2>2. book \in Seq(Persons) /\ Len(book) \in Nat /\ fetched = <<>>
    BY <2>1 DEF PagedTypeOK
  <2>3. PagedTypeOK'
    BY <2>1, <2>2 DEF PagedTypeOK
  <2>4. SubSeq(book, 1, 0) = <<>>
    BY SubSeqEmpty
  <2>5. book # <<>> => 1 <= Len(book)
    BY <2>2, EmptySeq
  <2> QED
    BY <2>1, <2>2, <2>3, <2>4, <2>5 DEF PagesAreTheBeginning, FetchedWholeOrNotAtAll
<1>4. CASE RequestFails
  BY <1>4 DEF RequestFails, DropPages, GiveUp, Finish, PagedTypeOK, PagesAreTheBeginning,
     FetchedWholeOrNotAtAll
<1>5. CASE FetchGoogle
  <2>1. PageOf(1, ServerPage) \in Seq(Persons)
    BY PageInSeq, PagedAssumption DEF PagedTypeOK
  <2> QED
    BY <1>5, <2>1 DEF FetchGoogle, GiveUp, Finish, PagedTypeOK, PagesAreTheBeginning,
       FetchedWholeOrNotAtAll
<1> QED
  BY <1>1, <1>2, <1>3, <1>4, <1>5

LEMMA PagedNextInv ==
  ASSUME PagedInv, [PagedNext]_pagedVars PROVE PagedInv'
<1>1. CASE EditBook
  BY <1>1, EditBookInv
<1>2. CASE FetchPage
  BY <1>2, FetchPageInv
<1>3. CASE BeginFetch \/ GetToken \/ Count \/ RequestFails \/ FetchGoogle
  BY <1>3, OtherFetchInv
<1>4. CASE UNCHANGED pagedVars
  BY <1>4 DEF pagedVars, PagedInv, PagedTypeOK, PagesAreTheBeginning, FetchedWholeOrNotAtAll
<1> QED
  BY <1>1, <1>2, <1>3, <1>4 DEF PagedNext, PagedStep

-------------------------------------------------------------------------------
(* The searches of contacts.                                               *)

Fits(t, count, there) ==
  \E S \in SUBSET Contacts : count = Cardinality(S) /\ S \cap steady[t] = there \cap steady[t]

(* What the first query, or the counts, of a call have found of the         *)
(* contacts nobody touched since.                                          *)
ThreadInv(t) ==
  /\ searchPc[t] = "uuids" => engine[t] \in {"search", "first"}
  /\ searchPc[t] \in {"total", "filtered", "items"} => engine[t] = "view"
  /\ searchPc[t] = "fields" =>
       /\ engine[t] \in {"search", "first"}
       /\ uuids[t] \cap steady[t] \subseteq Found(table)
       /\ engine[t] = "search" => Steady(t, table) \subseteq uuids[t]
       /\ uuids[t] = {} => Steady(t, table) = {}
  /\ Done(t, "first") /\ DOMAIN reply[t] = {} /\ Steady(t, table) # {} =>
       uuids[t] # {} /\ uuids[t] \cap steady[t] = {}
  /\ Done(t, "search") \/ Done(t, "view") => DOMAIN reply[t] \cap steady[t] = Steady(t, table)
  /\ searchPc[t] \in {"filtered", "items"} \/ Done(t, "view") => Fits(t, total[t], Present(table))
  /\ searchPc[t] = "items" \/ Done(t, "view") => Fits(t, filtered[t], Found(table))

SearchInv == SearchTypeOK /\ \A t \in Users : ThreadInv(t)

LEMMA FoundIsPresent ==
  ASSUME SearchTypeOK
  PROVE  /\ Found(table) \subseteq Present(table)
         /\ Present(table) \subseteq Contacts
BY SearchAssumption DEF Found, Present

LEMMA CountIsNat ==
  ASSUME NEW S \in SUBSET Contacts PROVE IsFiniteSet(S) /\ Cardinality(S) \in Nat
BY SearchAssumption, FS_Subset, FS_CardinalityType

LEMMA SearchInitInv == SearchInit => SearchInv
<1> SUFFICES ASSUME SearchInit PROVE SearchInv
  OBVIOUS
<1>1. reply \in [Users -> UNION {[C -> Values] : C \in SUBSET Contacts}]
  <2>1. [c \in {} |-> Gone] \in [{} -> Values]
    OBVIOUS
  <2>2. {} \in SUBSET Contacts
    OBVIOUS
  <2>3. [c \in {} |-> Gone] \in UNION {[C -> Values] : C \in SUBSET Contacts}
    BY <2>1, <2>2
  <2>4. reply = [t \in Users |-> [c \in {} |-> Gone]]
    BY DEF SearchInit
  <2> QED
    BY <2>3, <2>4
<1>2. SearchTypeOK
  <2>1. tableEdits \in 0 .. MaxTableEdits
    BY SearchAssumption DEF SearchInit
  <2>2. /\ engine \in [Users -> {"search", "first", "view"}]
        /\ searchPc = [t \in Users |-> "idle"]
        /\ uuids = [t \in Users |-> {}] /\ steady = [t \in Users |-> {}]
        /\ total = [t \in Users |-> 0] /\ filtered = [t \in Users |-> 0]
        /\ table \in [Contacts -> Values \cup {Gone}]
    BY DEF SearchInit
  <2> QED
    BY <1>1, <2>1, <2>2 DEF SearchTypeOK
<1> QED
  BY <1>2 DEF SearchInit, SearchInv, ThreadInv, Done

(* An edit touches one contact, which is steady for nobody afterwards.     *)
LEMMA EditTableInv ==
  ASSUME SearchInv, EditTable PROVE SearchInv'
<1> USE DEF SearchInv
<1>1. PICK c \in Contacts, v \in Values \cup {Gone} :
        /\ table' = [table EXCEPT ![c] = v]
        /\ steady' = [t \in Users |-> steady[t] \ {c}]
  BY DEF EditTable
<1>2. UNCHANGED <<engine, searchPc, uuids, reply, total, filtered>>
  BY DEF EditTable
<1>3. SearchTypeOK'
  BY <1>1, <1>2, SearchAssumption DEF EditTable, SearchTypeOK
<1>4. ASSUME NEW t \in Users PROVE ThreadInv(t)'
  <2>1. /\ steady'[t] \subseteq steady[t] /\ steady[t] \subseteq Contacts
        /\ \A d \in steady'[t] : table'[d] = table[d]
    BY <1>1 DEF SearchTypeOK
  <2>2. /\ Found(table)' \cap steady'[t] = Found(table) \cap steady'[t]
        /\ Present(table)' \cap steady'[t] = Present(table) \cap steady'[t]
    BY <2>1 DEF Found, Present
  <2>3. Steady(t, table)' = Steady(t, table) \cap steady'[t]
    BY <2>1, <2>2 DEF Steady
  <2>4. ASSUME NEW n, NEW S, NEW T, Fits(t, n, S), T \cap steady'[t] = S \cap steady'[t]
        PROVE  \E R \in SUBSET Contacts :
                 n = Cardinality(R) /\ R \cap steady'[t] = T \cap steady'[t]
    BY <2>1, <2>4 DEF Fits
  <2>5. ASSUME Fits(t, total[t], Present(table)) PROVE Fits(t, total[t], Present(table))'
    <3>1. \E R \in SUBSET Contacts :
            total[t] = Cardinality(R) /\ R \cap steady'[t] = Present(table)' \cap steady'[t]
      BY <2>2, <2>4, <2>5
    <3> QED
      BY <1>2, <3>1 DEF Fits
  <2>6. ASSUME Fits(t, filtered[t], Found(table)) PROVE Fits(t, filtered[t], Found(table))'
    <3>1. \E R \in SUBSET Contacts :
            filtered[t] = Cardinality(R) /\ R \cap steady'[t] = Found(table)' \cap steady'[t]
      BY <2>2, <2>4, <2>6
    <3> QED
      BY <1>2, <3>1 DEF Fits
  <2>7. ThreadInv(t)
    OBVIOUS
  <2>8. /\ searchPc'[t] = searchPc[t] /\ engine'[t] = engine[t]
        /\ uuids'[t] = uuids[t] /\ reply'[t] = reply[t]
    BY <1>2
  <2>9. /\ searchPc[t] = "fields" =>
             /\ uuids[t] \cap steady'[t] \subseteq Found(table)'
             /\ engine[t] = "search" => Steady(t, table)' \subseteq uuids[t]
             /\ uuids[t] = {} => Steady(t, table)' = {}
        /\ Done(t, "first") /\ DOMAIN reply[t] = {} /\ Steady(t, table)' # {} =>
             uuids[t] # {} /\ uuids[t] \cap steady'[t] = {}
        /\ Done(t, "search") \/ Done(t, "view") =>
             DOMAIN reply[t] \cap steady'[t] = Steady(t, table)'
    BY <2>1, <2>2, <2>3, <2>7 DEF ThreadInv
  <2> QED
    BY <2>5, <2>6, <2>7, <2>8, <2>9 DEF ThreadInv, Done
<1> QED
  BY <1>3, <1>4

(* A thread's step is its own.                                             *)
LEMMA OtherThreads ==
  ASSUME SearchInv, NEW t \in Users, BeginSearch(t) \/ SearchStep(t),
         NEW u \in Users, u # t
  PROVE  ThreadInv(u)'
<1>1. /\ UNCHANGED table
      /\ searchPc'[u] = searchPc[u] /\ engine'[u] = engine[u] /\ uuids'[u] = uuids[u]
      /\ reply'[u] = reply[u] /\ total'[u] = total[u] /\ filtered'[u] = filtered[u]
      /\ steady'[u] = steady[u]
  BY DEF SearchInv, SearchTypeOK, SearchGoTo, BeginSearch, SearchStep, SearchUuids,
     SearchFields, CountContacts, CountMatches, ListItems
<1>2. ThreadInv(u)
  BY DEF SearchInv
<1> QED
  BY <1>1, <1>2 DEF ThreadInv, Done, Steady, Found, Present, Fits

LEMMA BeginSearchInv ==
  ASSUME SearchInv, NEW t \in Users, BeginSearch(t)
  PROVE  SearchTypeOK' /\ ThreadInv(t)'
<1>1. PICK call \in {"search", "first", "view"} :
        /\ engine' = [engine EXCEPT ![t] = call]
        /\ SearchGoTo(t, IF call = "view" THEN "total" ELSE "uuids")
  BY DEF BeginSearch
<1>2. SearchTypeOK'
  BY <1>1 DEF BeginSearch, SearchInv, SearchTypeOK, SearchGoTo
<1>3. /\ engine'[t] = call
      /\ searchPc'[t] = IF call = "view" THEN "total" ELSE "uuids"
  BY <1>1 DEF SearchInv, SearchTypeOK, SearchGoTo
<1> QED
  BY <1>2, <1>3 DEF ThreadInv, Done

LEMMA SearchUuidsInv ==
  ASSUME SearchInv, NEW t \in Users, SearchUuids(t)
  PROVE  SearchTypeOK' /\ ThreadInv(t)'
<1>1. PICK found \in UuidAnswers(t) : uuids' = [uuids EXCEPT ![t] = found]
  BY DEF SearchUuids
<1>2. /\ found \subseteq Found(table)
      /\ engine[t] # "first" => found = Found(table)
      /\ found = {} => Found(table) = {}
      /\ found \subseteq Contacts
  BY DEF UuidAnswers, Found
<1>3. SearchTypeOK'
  BY <1>1, <1>2 DEF SearchUuids, SearchInv, SearchTypeOK, SearchGoTo
<1>4. /\ uuids'[t] = found /\ searchPc[t] = "uuids" /\ searchPc'[t] = "fields"
      /\ UNCHANGED <<table, engine, steady>>
  BY <1>1 DEF SearchUuids, SearchInv, SearchTypeOK, SearchGoTo
<1>5. engine[t] \in {"search", "first"}
  BY <1>4 DEF SearchInv, ThreadInv
<1>6. Steady(t, table)' \subseteq Found(table) /\ Found(table)' = Found(table)
  BY <1>4 DEF Steady, Found
<1>7. /\ searchPc'[t] = "fields" =>
           /\ uuids'[t] \cap steady'[t] \subseteq Found(table)'
           /\ engine'[t] = "search" => Steady(t, table)' \subseteq uuids'[t]
           /\ uuids'[t] = {} => Steady(t, table)' = {}
  BY <1>2, <1>4, <1>6
<1> QED
  BY <1>3, <1>4, <1>5, <1>7 DEF ThreadInv, Done

(* The contacts of a reply and their fields.                               *)
LEMMA ReplyTypes ==
  ASSUME SearchTypeOK, NEW t \in Users, NEW C \in SUBSET Present(table),
         reply' = [reply EXCEPT ![t] = [c \in C |-> table[c]]]
  PROVE  /\ reply' \in [Users -> UNION {[D -> Values] : D \in SUBSET Contacts}]
         /\ DOMAIN reply'[t] = C
<1>1. C \in SUBSET Contacts /\ \A c \in C : table[c] \in Values
  BY DEF Present, SearchTypeOK
<1>2. [c \in C |-> table[c]] \in [C -> Values]
  BY <1>1
<1>3. [c \in C |-> table[c]] \in UNION {[D -> Values] : D \in SUBSET Contacts}
  BY <1>1, <1>2
<1>4. reply'[t] = [c \in C |-> table[c]]
  BY DEF SearchTypeOK
<1> QED
  BY <1>3, <1>4 DEF SearchTypeOK

LEMMA SearchFieldsInv ==
  ASSUME SearchInv, NEW t \in Users, SearchFields(t)
  PROVE  SearchTypeOK' /\ ThreadInv(t)'
<1> DEFINE C == ContactsByUuid(t)
<1>1. SearchTypeOK /\ ThreadInv(t)
  BY DEF SearchInv
<1>2. /\ reply' \in [Users -> UNION {[D -> Values] : D \in SUBSET Contacts}]
      /\ DOMAIN reply'[t] = C
  BY <1>1, ReplyTypes DEF SearchFields, ContactsByUuid
<1>3. SearchTypeOK'
  BY <1>1, <1>2 DEF SearchFields, SearchTypeOK, SearchGoTo
<1>4. /\ searchPc[t] = "fields" /\ searchPc'[t] = "done"
      /\ UNCHANGED <<table, engine, uuids, total, filtered, steady>>
  BY <1>1 DEF SearchFields, SearchTypeOK, SearchGoTo
<1>5. /\ engine[t] \in {"search", "first"}
      /\ uuids[t] \cap steady[t] \subseteq Found(table)
      /\ engine[t] = "search" => Steady(t, table) \subseteq uuids[t]
      /\ uuids[t] = {} => Steady(t, table) = {}
  BY <1>1, <1>4 DEF ThreadInv
<1>6. Steady(t, table)' = Steady(t, table)
  BY <1>4 DEF Steady, Found
<1>7. uuids[t] \cap steady[t] \subseteq C
  BY <1>1, <1>5, FoundIsPresent DEF ContactsByUuid
<1>8. C \subseteq uuids[t]
  BY DEF ContactsByUuid
<1>9. engine[t] = "search" => DOMAIN reply'[t] \cap steady'[t] = Steady(t, table)'
  BY <1>2, <1>4, <1>5, <1>6, <1>7, <1>8 DEF Steady
<1>10. DOMAIN reply'[t] = {} /\ Steady(t, table)' # {} =>
         uuids'[t] # {} /\ uuids'[t] \cap steady'[t] = {}
  BY <1>2, <1>4, <1>5, <1>6, <1>7
<1> QED
  BY <1>3, <1>4, <1>5, <1>9, <1>10 DEF ThreadInv, Done

LEMMA ViewInv ==
  ASSUME SearchInv, NEW t \in Users, CountContacts(t) \/ CountMatches(t) \/ ListItems(t)
  PROVE  SearchTypeOK' /\ ThreadInv(t)'
<1>1. SearchTypeOK /\ ThreadInv(t)
  BY DEF SearchInv
<1>2. UNCHANGED <<table, engine, uuids, steady>>
  BY DEF CountContacts, CountMatches, ListItems
<1>3. engine[t] = "view" /\ engine'[t] = "view"
  BY <1>1, <1>2 DEF CountContacts, CountMatches, ListItems, ThreadInv
<1>4. Steady(t, table)' = Steady(t, table) /\ Found(table)' = Found(table)
        /\ Present(table)' = Present(table)
  BY <1>2 DEF Steady, Found, Present
<1>5. /\ Present(table) \in SUBSET Contacts /\ Found(table) \in SUBSET Contacts
      /\ Cardinality(Present(table)) \in Nat /\ Cardinality(Found(table)) \in Nat
  BY CountIsNat DEF Present, Found
<1>6. Fits(t, Cardinality(Present(table)), Present(table))
        /\ Fits(t, Cardinality(Found(table)), Found(table))
  BY <1>5 DEF Fits
<1>7. CASE CountContacts(t)
  <2>1. /\ total'[t] = Cardinality(Present(table)) /\ searchPc'[t] = "filtered"
    BY <1>1, <1>7 DEF CountContacts, SearchTypeOK, SearchGoTo
  <2>2. SearchTypeOK'
    BY <1>1, <1>5, <1>7 DEF CountContacts, SearchTypeOK, SearchGoTo
  <2>3. Fits(t, total[t], Present(table))'
    BY <1>2, <1>4, <1>6, <2>1 DEF Fits
  <2> QED
    BY <1>3, <2>1, <2>2, <2>3 DEF ThreadInv, Done
<1>8. CASE CountMatches(t)
  <2>1. /\ filtered'[t] = Cardinality(Found(table)) /\ searchPc'[t] = "items"
        /\ searchPc[t] = "filtered" /\ total' = total
    BY <1>1, <1>8 DEF CountMatches, SearchTypeOK, SearchGoTo, SearchFilter
  <2>2. SearchTypeOK'
    BY <1>1, <1>5, <1>8 DEF CountMatches, SearchTypeOK, SearchGoTo, SearchFilter
  <2>3. Fits(t, total[t], Present(table))
    BY <1>1, <2>1 DEF ThreadInv
  <2>4. Fits(t, total[t], Present(table))' /\ Fits(t, filtered[t], Found(table))'
    BY <1>2, <1>4, <1>6, <2>1, <2>3 DEF Fits
  <2> QED
    BY <1>3, <2>1, <2>2, <2>4 DEF ThreadInv, Done
<1>9. CASE ListItems(t)
  <2>1. /\ reply' \in [Users -> UNION {[D -> Values] : D \in SUBSET Contacts}]
        /\ DOMAIN reply'[t] = Found(table)
    BY <1>1, <1>9, FoundIsPresent, ReplyTypes DEF ListItems
  <2>2. SearchTypeOK'
    BY <1>1, <1>9, <2>1 DEF ListItems, SearchTypeOK, SearchGoTo
  <2>3. /\ searchPc[t] = "items" /\ searchPc'[t] = "done"
        /\ UNCHANGED <<total, filtered>>
    BY <1>1, <1>9 DEF ListItems, SearchTypeOK, SearchGoTo
  <2>4. Fits(t, total[t], Present(table)) /\ Fits(t, filtered[t], Found(table))
    BY <1>1, <2>3 DEF ThreadInv
  <2>5. Fits(t, total[t], Present(table))' /\ Fits(t, filtered[t], Found(table))'
    BY <1>2, <1>4, <2>3, <2>4 DEF Fits
  <2>6. DOMAIN reply'[t] \cap steady'[t] = Steady(t, table)'
    BY <1>2, <1>4, <2>1 DEF Steady
  <2> QED
    BY <1>3, <2>2, <2>3, <2>5, <2>6 DEF ThreadInv, Done
<1> QED
  BY <1>7, <1>8, <1>9

LEMMA SearchNextInv ==
  ASSUME SearchInv, [SearchNext]_searchVars PROVE SearchInv'
<1>1. CASE EditTable
  BY <1>1, EditTableInv
<1>2. ASSUME NEW t \in Users, BeginSearch(t) \/ SearchStep(t) PROVE SearchInv'
  <2>1. SearchTypeOK' /\ ThreadInv(t)'
    BY <1>2, BeginSearchInv, SearchUuidsInv, SearchFieldsInv, ViewInv DEF SearchStep
  <2>2. \A u \in Users : u # t => ThreadInv(u)'
    BY <1>2, OtherThreads
  <2> QED
    BY <2>1, <2>2 DEF SearchInv
<1>3. CASE UNCHANGED searchVars
  <2>1. /\ UNCHANGED <<table, tableEdits, engine, searchPc>>
        /\ UNCHANGED <<uuids, reply, total, filtered, steady>>
    BY <1>3 DEF searchVars
  <2>2. SearchTypeOK'
    BY <2>1 DEF SearchInv, SearchTypeOK
  <2>3. ASSUME NEW t \in Users PROVE ThreadInv(t)'
    <3>1. ThreadInv(t)
      BY DEF SearchInv
    <3> QED
      BY <2>1, <3>1 DEF ThreadInv, Done, Steady, Found, Present, Fits
  <2> QED
    BY <2>2, <2>3 DEF SearchInv
<1> QED
  BY <1>1, <1>2, <1>3 DEF SearchNext

LEMMA InvCountsFit == SearchInv => CountsFitTheList
<1> SUFFICES ASSUME SearchInv, NEW t \in Users, Done(t, "view")
             PROVE  /\ filtered[t] >= Cardinality(DOMAIN reply[t] \cap steady[t])
                    /\ filtered[t] <= Cardinality(DOMAIN reply[t] \cup (Contacts \ steady[t]))
                    /\ total[t] >= Cardinality(DOMAIN reply[t] \cap steady[t])
  BY DEF CountsFitTheList
<1> DEFINE D == DOMAIN reply[t]
<1>1. ThreadInv(t) /\ SearchTypeOK
  BY DEF SearchInv
<1>2. D \cap steady[t] = Steady(t, table)
  BY <1>1 DEF ThreadInv
<1>3. PICK P \in SUBSET Contacts :
        total[t] = Cardinality(P) /\ P \cap steady[t] = Present(table) \cap steady[t]
  BY <1>1 DEF ThreadInv, Fits
<1>4. PICK F \in SUBSET Contacts :
        filtered[t] = Cardinality(F) /\ F \cap steady[t] = Found(table) \cap steady[t]
  BY <1>1 DEF ThreadInv, Fits
<1>5. D \in SUBSET Contacts /\ steady[t] \in SUBSET Contacts
  <2>1. reply[t] \in UNION {[C -> Values] : C \in SUBSET Contacts}
    BY <1>1 DEF SearchTypeOK
  <2>2. PICK C \in SUBSET Contacts : reply[t] \in [C -> Values]
    BY <2>1
  <2> QED
    BY <1>1, <2>2 DEF SearchTypeOK
<1> HIDE DEF D
<1>6. /\ D \cap steady[t] \subseteq F
      /\ D \cap steady[t] \subseteq P
      /\ F \subseteq D \cup (Contacts \ steady[t])
  BY <1>1, <1>2, <1>3, <1>4, FoundIsPresent DEF Steady
<1>7. /\ IsFiniteSet(P) /\ IsFiniteSet(F) /\ IsFiniteSet(D \cup (Contacts \ steady[t]))
      /\ Cardinality(P) \in Nat /\ Cardinality(F) \in Nat
      /\ Cardinality(D \cap steady[t]) \in Nat
      /\ Cardinality(D \cup (Contacts \ steady[t])) \in Nat
  BY <1>5, CountIsNat
<1>8. /\ Cardinality(D \cap steady[t]) <= Cardinality(F)
      /\ Cardinality(D \cap steady[t]) <= Cardinality(P)
      /\ Cardinality(F) <= Cardinality(D \cup (Contacts \ steady[t]))
  BY <1>6, <1>7, FS_Subset
<1> QED
  BY <1>3, <1>4, <1>7, <1>8 DEF D

(* A fetch or a search of several requests or queries has all of what did   *)
(* not change meanwhile, whatever the size of the book, of its pages and   *)
(* of the table, and whatever fails: an address book is fetched whole or   *)
(* not at all (Office365Service.get_contacts), a search finds what matches, *)
(* and the counts of the view fit its list (the phonebook's search engine). *)
THEOREM SpecFetchesAreWhole == Spec => []FetchesAreWhole
<1>1. Init => PagedInv /\ SearchInv
  BY PagedInitInv, SearchInitInv DEF Init
<1>2. PagedInv /\ SearchInv /\ [Next]_vars => PagedInv' /\ SearchInv'
  BY PagedNextInv, SearchNextInv, PartsRunApart
<1>3. PagedInv /\ SearchInv => FetchesAreWhole
  <2> SUFFICES ASSUME PagedInv, SearchInv PROVE FetchesAreWhole
    OBVIOUS
  <2>1. PagedTypeOK /\ FetchedWholeOrNotAtAll /\ SearchTypeOK
    BY DEF PagedInv, SearchInv
  <2>2. SearchIsExact /\ FirstMatchMissesOnlyADeletedOne
    BY DEF SearchInv, ThreadInv, SearchIsExact, FirstMatchMissesOnlyADeletedOne
  <2> QED
    BY <2>1, <2>2, InvCountsFit DEF FetchesAreWhole
<1> QED
  BY <1>1, <1>2, <1>3, PTL DEF Spec

-------------------------------------------------------------------------------
(* The pool of connections.                                                *)

(* A request has no search before it has submitted them.                   *)
PoolInv ==
  /\ PoolTypeOK
  /\ \A r \in Requests : poolPc[r] \in {"idle", "profile"} =>
       \A s \in Sources : <<r, s>> \notin queued \cup running

LEMMA UsersAreFinite ==
  ASSUME PoolTypeOK PROVE IsFiniteSet(connected) /\ Cardinality(connected) \in Nat
<1>1. IsFiniteSet(Searches)
  BY PoolAssumption, FS_Product DEF Searches
<1>2. IsFiniteSet({<<r>> : r \in Requests})
  <2> DEFINE T == {<<r>> : r \in Requests}
             f == [r \in Requests |-> <<r>>]
  <2>1. f \in Surjection(Requests, T)
    BY DEF Surjection
  <2> HIDE DEF T, f
  <2>2. IsFiniteSet(T)
    BY <2>1, PoolAssumption, FS_Surjection
  <2> QED
    BY <2>2 DEF T
<1>3. connected \subseteq Searches \cup {<<r>> : r \in Requests}
  BY DEF PoolTypeOK
<1>4. IsFiniteSet(connected)
  BY <1>1, <1>2, <1>3, FS_Union, FS_Subset
<1> QED
  BY <1>4, FS_CardinalityType

LEMMA PoolInitInv == PoolInit => PoolInv
<1>1. Cardinality({}) = 0
  BY FS_EmptySet
<1> QED
  BY <1>1, PoolAssumption DEF PoolInit, PoolInv, PoolTypeOK

LEMMA ReleasedIsFewer ==
  ASSUME PoolTypeOK, NEW u
  PROVE  Cardinality(connected \ {u}) <= MaxThreads + Spare
<1>1. Cardinality(connected \ {u}) <= Cardinality(connected)
  BY UsersAreFinite, FS_Subset
<1>2. Cardinality(connected \ {u}) \in Nat
  BY UsersAreFinite, FS_Subset, FS_CardinalityType
<1> QED
  BY <1>1, <1>2, UsersAreFinite, PoolAssumption DEF PoolTypeOK

LEMMA PoolNextInv ==
  ASSUME PoolInv, [PoolNext]_poolVars PROVE PoolInv'
<1> USE DEF PoolInv, PoolTypeOK
<1>1. ASSUME NEW r \in Requests, ReceiveRequest(r) \/ Reply(r) \/ SearchTimeout(r)
      PROVE  PoolInv'
  BY <1>1 DEF ReceiveRequest, Reply, SearchTimeout
<1>2. ASSUME NEW r \in Requests, Submit(r) PROVE PoolInv'
  <2>1. Cardinality(connected') <= MaxThreads + Spare
    BY <1>2, ReleasedIsFewer DEF Submit
  <2>2. queued' \subseteq Searches /\ running' \subseteq Searches
    BY <1>2 DEF Submit, Searches
  <2>3. queued' \cap running' = {}
    BY <1>2 DEF Submit, Searches
  <2>4. \A q \in Requests : poolPc'[q] \in {"idle", "profile"} =>
          \A s \in Sources : <<q, s>> \notin queued' \cup running'
    BY <1>2 DEF Submit
  <2> QED
    BY <1>2, <2>1, <2>2, <2>3, <2>4 DEF Submit
<1>3. ASSUME NEW u, Checkout(u) PROVE PoolInv'
  <2>1. Cardinality(connected') <= MaxThreads + Spare
    <3>1. Cardinality(connected') = Cardinality(connected) + 1
      BY <1>3, UsersAreFinite, FS_AddElement DEF Checkout
    <3> QED
      BY <1>3, <3>1, UsersAreFinite, PoolAssumption DEF Checkout, PoolSize
  <2>2. connected' \subseteq running' \cup {<<r>> : r \in Requests}
    BY <1>3 DEF Checkout, PoolUsers
  <2> QED
    BY <1>3, <2>1, <2>2 DEF Checkout
<1>4. ASSUME NEW w, StartSearch(w) PROVE PoolInv'
  BY <1>4 DEF StartSearch
<1>5. ASSUME NEW w, EndSearch(w) PROVE PoolInv'
  <2>1. Cardinality(connected') <= MaxThreads + Spare
    BY <1>5, ReleasedIsFewer DEF EndSearch
  <2> QED
    BY <1>5, <2>1 DEF EndSearch
<1>6. ASSUME NEW u, CheckoutTimeout(u) PROVE PoolInv'
  <2>1. poolPc' \in [Requests -> {"idle", "profile", "waiting", "done"}]
    BY <1>6 DEF CheckoutTimeout
  <2>2. connected' \subseteq running' \cup {<<r>> : r \in Requests}
    BY <1>6 DEF CheckoutTimeout
  <2>3. \A r \in Requests : poolPc'[r] \in {"idle", "profile"} =>
          \A s \in Sources : <<r, s>> \notin queued' \cup running'
    BY <1>6 DEF CheckoutTimeout
  <2> QED
    BY <1>6, <2>1, <2>2, <2>3 DEF CheckoutTimeout
<1>7. CASE UNCHANGED poolVars
  BY <1>7 DEF poolVars
<1> QED
  BY <1>1, <1>2, <1>3, <1>4, <1>5, <1>6, <1>7 DEF PoolNext, Progress

(* The pool is never exceeded, whatever the number of requests, executors   *)
(* and searches, and a connection is held by a request or by a search that *)
(* a worker executes (init_db, BaseDAO.new_session).                       *)
THEOREM SpecPoolTypeOK == Spec => []PoolTypeOK
<1>1. Init => PoolInv
  BY PoolInitInv DEF Init
<1>2. PoolInv /\ [Next]_vars => PoolInv'
  BY PoolNextInv, PartsRunApart
<1>3. PoolInv => PoolTypeOK
  BY DEF PoolInv
<1> QED
  BY <1>1, <1>2, <1>3, PTL DEF Spec

-------------------------------------------------------------------------------
(* What is found.                                                          *)

(* A contact that a search shows with an identifier can be made a favorite  *)
(* and is then listed, whatever the source, its directory and the term:     *)
(* the identifier of a result (source_entry_id) is the one that list()     *)
(* compares, for every kind of source.                                     *)
LEMMA ShownIsListed ==
  ASSUME NEW c \in Range(Directory(source, directory)),
         ~(source.kind = "wazo" /\ source.hidesId),
         EntryId(source, c) \notin {None, NoId}
  PROVE  c \in List(source, directory, {EntryId(source, c)})
<1>1. source.unique /\ EntryId(source, c) = c.id /\ c.id # NoId
  BY DEF EntryId
<1>2. Listed(source, c, {EntryId(source, c)})
  <2>1. CASE source.kind = "google"
    BY <1>1, <2>1 DEF Listed, GoogleLists
  <2>2. CASE source.kind = "wazo"
    BY <1>1, <2>2 DEF Listed, WazoLists
  <2>3. CASE source.kind \notin {"google", "wazo"}
    BY <1>1, <2>3 DEF Listed, IdIsListed
  <2> QED
    BY <2>1, <2>2, <2>3
<1> QED
  BY <1>1, <1>2 DEF List

THEOREM SpecFavoriteIsListed == Spec => []FavoriteIsListed
<1>1. FavoriteIsListed
  BY ShownIsListed DEF FavoriteIsListed
<1> QED
  BY <1>1, PTL
===============================================================================
