------------------------------- MODULE CsvFile -------------------------------
(***************************************************************************)
(* CSVPlugin (plugins/csv_backend/plugin.py): the content of the file is   *)
(* kept with the modification time it was read at, and every search,       *)
(* first_match and list first calls _load_file, which reads the file again *)
(* when its time is another one.  The plugin is shared by the workers of   *)
(* the services and takes no lock: the statements of _load_file that read  *)
(* or write an attribute or the file are steps of their own.               *)
(* The content of the file is a version, its time a stamp; a file without  *)
(* a header makes next(csvreader) raise StopIteration, which only the      *)
(* caller of the search catches.                                           *)
(***************************************************************************)
EXTENDS Integers

CONSTANTS
  Readers,       \* threads that search the source
  MaxVersion     \* bound: how many times the file is written

ASSUME CsvAssumption == MaxVersion \in Nat \ {0}

VARIABLES
  file,          \* [version, stamp, exists, header]
  content,       \* _content: the version that was read; 0 is the empty list
  modified,      \* _csv_last_modification_time: a stamp; 0 is None
  csvPc,         \* step of each thread
  seenStamp,     \* its tmp_csv_file_last_modification_date
  rows,          \* the version it has read
  crossed,       \* history: a thread replaced _content while another one was
                 \* between its two assignments
  tied           \* history: a write fell into the tick of the one before

csvVars == <<file, content, modified, csvPc, seenStamp, rows, crossed, tied>>

Versions == 0 .. MaxVersion

CsvTypeOK ==
  /\ file \in [version: Versions, stamp: Versions, exists: BOOLEAN, header: BOOLEAN]
  /\ content \in Versions /\ modified \in Versions
  /\ csvPc \in [Readers -> {"idle", "stat", "read", "keep", "date", "match"}]
  /\ seenStamp \in [Readers -> Versions]
  /\ rows \in [Readers -> Versions]
  /\ crossed \in BOOLEAN /\ tied \in BOOLEAN

(* load() reads the file too, before the plugin is shared: it may not be    *)
(* there yet.                                                               *)
CsvInit ==
  /\ \E there \in BOOLEAN :
       /\ file = [version |-> 1, stamp |-> 1, exists |-> there, header |-> TRUE]
       /\ content = (IF there THEN 1 ELSE 0)
       /\ modified = (IF there THEN 1 ELSE 0)
  /\ csvPc = [t \in Readers |-> "idle"]
  /\ seenStamp = [t \in Readers |-> 0]
  /\ rows = [t \in Readers |-> 0]
  /\ crossed = FALSE /\ tied = FALSE

CsvGoTo(t, step) == csvPc' = [csvPc EXCEPT ![t] = step]

(* Another program writes the file, or removes it.  Two writes may fall     *)
(* into one tick of the clock of the file system.                          *)
WriteFile ==
  /\ file.version < MaxVersion
  /\ \E stamp \in {file.stamp, file.version + 1}, header \in BOOLEAN :
       file' = [version |-> file.version + 1, stamp |-> stamp, exists |-> TRUE, header |-> header]
  /\ tied' = (tied \/ file'.stamp = file.stamp)
  /\ UNCHANGED <<content, modified, csvPc, seenStamp, rows, crossed>>

RemoveFile ==
  /\ file.exists
  /\ file' = [file EXCEPT !.exists = FALSE]
  /\ UNCHANGED <<content, modified, csvPc, seenStamp, rows, crossed, tied>>

(* search, first_match or list is called.                                  *)
CsvCall(t) ==
  /\ csvPc[t] = "idle"
  /\ CsvGoTo(t, "stat")
  /\ UNCHANGED <<file, content, modified, seenStamp, rows, crossed, tied>>

UpToDate(t) == modified = file.stamp

(* fname.stat(), and the comparison with the time that is kept.            *)
Stat(t) ==
  /\ csvPc[t] = "stat"
  /\ IF ~file.exists \/ UpToDate(t)
     THEN CsvGoTo(t, "match") /\ UNCHANGED seenStamp
     ELSE /\ CsvGoTo(t, "read")
          /\ seenStamp' = [seenStamp EXCEPT ![t] = file.stamp]
  /\ UNCHANGED <<file, content, modified, rows, crossed, tied>>

(* open and csv.reader: an OSError keeps the old content.                  *)
ReadFile(t) ==
  /\ csvPc[t] = "read"
  /\ \/ /\ ~file.exists
        /\ CsvGoTo(t, "match") /\ UNCHANGED rows
     \/ /\ file.exists /\ ~file.header         \* StopIteration
        /\ CsvGoTo(t, "idle") /\ UNCHANGED rows
     \/ /\ file.exists /\ file.header
        /\ CsvGoTo(t, "keep")
        /\ rows' = [rows EXCEPT ![t] = file.version]
  /\ UNCHANGED <<file, content, modified, seenStamp, crossed, tied>>

KeepContent(t) ==
  /\ csvPc[t] = "keep"
  /\ content' = rows[t]
  /\ crossed' = (crossed \/ \E u \in Readers \ {t} : csvPc[u] = "date")
  /\ CsvGoTo(t, "date")
  /\ UNCHANGED <<file, modified, seenStamp, rows, tied>>

(* Mutant: the time is read again once the file has been read.              *)
StampAfterRead(t) == file.stamp

StampBeforeRead(t) == seenStamp[t]

KeepDate(t) ==
  /\ csvPc[t] = "date"
  /\ modified' = StampBeforeRead(t)
  /\ CsvGoTo(t, "match")
  /\ UNCHANGED <<file, content, seenStamp, rows, crossed, tied>>

(* The entries of the content at that moment are compared.                 *)
Match(t) ==
  /\ csvPc[t] = "match"
  /\ CsvGoTo(t, "idle")
  /\ UNCHANGED <<file, content, modified, seenStamp, rows, crossed, tied>>

CsvStep(t) == CsvCall(t) \/ Stat(t) \/ ReadFile(t) \/ KeepContent(t) \/ KeepDate(t) \/ Match(t)
CsvNext == WriteFile \/ RemoveFile \/ \E t \in Readers : CsvStep(t)

(***************************************************************************)
(* Properties.                                                             *)
(***************************************************************************)
(* A change of the file is seen: when the time kept is that of the file,   *)
(* what is kept is the file, unless two workers reloaded it at once or two *)
(* writes fell into one tick (the modification date is taken before the    *)
(* file is opened, plugin.py _load_file; test_csv_backend.py "changes").   *)
ChangeIsSeen ==
  /\ modified = file.stamp /\ modified # 0 /\ ~crossed /\ ~tied
  /\ file.exists /\ \A t \in Readers : csvPc[t] # "date"
  => content = file.version

(* A file that is removed or loses its header does not empty the source:    *)
(* what was read last goes on being served.                                *)
NeverForgets == [][content # 0 => content' # 0]_csvVars

(* A CSV source serves the last file that could be read.                   *)
CsvFollowsFile == [](CsvTypeOK /\ ChangeIsSeen) /\ NeverForgets
=============================================================================
