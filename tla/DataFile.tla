------------------------------- MODULE DataFile --------------------------------
(***************************************************************************)
(* The data file: how it is written, read back and started from            *)
(* (src/file_system.cc, saveToFile, loadFromFile and clearAll of           *)
(* src/model/entity_manager.cc, src/singletons.cc).                        *)
(*                                                                         *)
(* A file is truncated, then written front to back: a header that says how *)
(* much follows, and the parts.  A write that fails (the disk is full) is  *)
(* not noticed, and the rest of that file is not written.  The process may *)
(* end at any moment; what was written stays.                              *)
(*                                                                         *)
(* Commands that change data hold the lock of job.cc alone until their     *)
(* save is done, SAVE shares it with other SAVEs.                          *)
(***************************************************************************)
EXTENDS Naturals, Sequences

CONSTANTS
  States,    \* states of the database
  Cleared,   \* the one clearAll makes
  Half,      \* what a command that stops half way leaves in memory
  Garbage,   \* what unserialise makes of bytes nobody saved together
  Parts,     \* number of parts of a saved state
  Threads,
  Nothing

Files == {"data", "copy"}  \* dataFilePath, and a name clients SAVE to

ASSUME DataAssumption ==
  /\ Cleared \in States
  /\ Half # Garbage
  /\ {Half, Garbage} \cap {"header", "hole"} = {}
  /\ {Half, Garbage, "header", "hole", Nothing} \cap States = {}
  /\ Parts \in Nat \ {0}

VARIABLES
  memory,   \* the tables
  files,    \* the cells of each file, or Nothing
  jobs,     \* the file each thread is writing
  running,  \* whether the process runs and has started up
  disk,     \* "ok", "full", or "freed" once it has been full
  newest,   \* the state of the last save to the data file that was begun
  mixed     \* the files that two jobs at once have written last

vars == <<memory, files, jobs, running, disk, newest, mixed>>

Cells == States \cup {Half, Garbage, "header", "hole"}
Length == Parts + 1
Whole(v) == [i \in 1..Length |-> IF i = 1 THEN "header" ELSE v]

(* A write past the end of a file that has become shorter leaves a hole. *)
Written(file, i, cell) ==
  [j \in 1..(IF i > Len(file) THEN i ELSE Len(file)) |->
     IF j = i THEN cell ELSE IF j <= Len(file) THEN file[j] ELSE "hole"]

(* Mutant of Readable: the length of the file is not compared. *)
ReadableIfHeader(file) == file # Nothing /\ file # <<>> /\ file[1] = "header"

(* What dataLength and readFile accept: the header is there, and as many    *)
(* bytes after it as it says.                                               *)
Readable(file) == file # Nothing /\ Len(file) = Length /\ file[1] = "header"

Content(file) == IF \E v \in States \cup {Half} : file = Whole(v)
                 THEN file[Length] ELSE Garbage

(* Bytes that were not saved together.                                      *)
Damaged(file) == \A v \in States \cup {Half, Garbage} : file # Whole(v)

Writing(f, v, alone) ==
  [file |-> f, value |-> v, next |-> 1, good |-> TRUE, alone |-> alone]
Changing(v) == [file |-> "data", value |-> v, next |-> 0, good |-> TRUE, alone |-> TRUE]

BeingWritten ==
  {jobs[t].file : t \in {u \in Threads : jobs[u] # Nothing /\ jobs[u].next > 0}}

NobodyWorks == \A t \in Threads : jobs[t] = Nothing

Init ==
  /\ memory = Cleared
  /\ files = [f \in Files |-> Nothing]
  /\ jobs = [t \in Threads |-> Nothing]
  /\ running = FALSE
  /\ disk = "ok"
  /\ newest = Cleared
  /\ mixed = {}

-----------------------------------------------------------------------------
(* Writing a file. *)

(* Mutant of Opens: the file is not truncated. *)
OpensUntruncated(t, f, v, alone) ==
  /\ files' = [files EXCEPT ![f] = IF @ = Nothing THEN <<>> ELSE @]
  /\ jobs' = [jobs EXCEPT ![t] = Writing(f, v, alone)]
  /\ newest' = IF f = "data" THEN v ELSE newest
  /\ mixed' = IF f \in BeingWritten THEN mixed \cup {f} ELSE mixed \ {f}

Opens(t, f, v, alone) ==
  /\ files' = [files EXCEPT ![f] = <<>>]
  /\ jobs' = [jobs EXCEPT ![t] = Writing(f, v, alone)]
  /\ newest' = IF f = "data" THEN v ELSE newest
  /\ mixed' = IF f \in BeingWritten THEN mixed \cup {f} ELSE mixed \ {f}

(* clearAll empties the tables and saves them.                              *)
ClearAll(t) ==
  /\ memory' = Cleared
  /\ Opens(t, "data", Cleared, TRUE)

(* Of bytes that were not saved together unserialise makes something, or it *)
(* throws, and then clearAll has been called.                               *)
Unserialise(t, f) ==
  \/ /\ memory' = Content(files[f])
     /\ jobs' = [jobs EXCEPT ![t] = Nothing]
     /\ UNCHANGED <<files, newest, mixed>>
  \/ /\ Damaged(files[f])
     /\ ClearAll(t)

WritePart(t) ==
  LET job == jobs[t]
      good == job.good /\ disk # "full"
      cell == IF job.next = 1 THEN "header" ELSE job.value
  IN  /\ job # Nothing
      /\ job.next \in 1..Length
      /\ files' = IF good THEN [files EXCEPT ![job.file] = Written(@, job.next, cell)]
                  ELSE files
      /\ jobs' = [jobs EXCEPT ![t].next = @ + 1, ![t].good = good]
      /\ UNCHANGED <<memory, running, disk, newest, mixed>>

(* The command is answered, with success if it was not undone.              *)
Close(t) ==
  /\ jobs[t] # Nothing
  /\ jobs[t].next > Length
  /\ jobs' = [jobs EXCEPT ![t] = Nothing]
  /\ UNCHANGED <<memory, files, running, disk, newest, mixed>>

-----------------------------------------------------------------------------
(* Commands. *)

(* INSERT: what it builds on a half-made state is half-made. *)
Insert(t, v) ==
  /\ running
  /\ NobodyWorks
  /\ memory' = Half
  /\ jobs' = [jobs EXCEPT ![t] = Changing(IF memory = Half THEN Half ELSE v)]
  /\ UNCHANGED <<files, running, disk, newest, mixed>>

InsertSaves(t) ==
  /\ jobs[t] # Nothing
  /\ jobs[t].next = 0
  /\ memory' = jobs[t].value
  /\ Opens(t, "data", jobs[t].value, TRUE)
  /\ UNCHANGED <<running, disk>>

(* The rollback looks at no result: a data file that is not readable leaves *)
(* the memory as it is.                                                     *)
InsertThrows(t) ==
  /\ jobs[t] # Nothing
  /\ jobs[t].next = 0
  /\ \/ /\ Readable(files["data"])
        /\ Unserialise(t, "data")
     \/ /\ ~Readable(files["data"])
        /\ jobs' = [jobs EXCEPT ![t] = Nothing]
        /\ UNCHANGED <<memory, files, newest, mixed>>
  /\ UNCHANGED <<running, disk>>

Flush(t) ==
  /\ running
  /\ NobodyWorks
  /\ ClearAll(t)
  /\ UNCHANGED <<running, disk>>

SaveFile(t, f) ==
  /\ running
  /\ jobs[t] = Nothing
  /\ \A u \in Threads : jobs[u] # Nothing => ~jobs[u].alone
  /\ Opens(t, f, memory, FALSE)
  /\ UNCHANGED <<memory, running, disk>>

(* The tables are replaced and not saved. *)
LoadFile(t, f) ==
  /\ running
  /\ NobodyWorks
  /\ Readable(files[f])
  /\ Unserialise(t, f)
  /\ UNCHANGED <<running, disk>>

-----------------------------------------------------------------------------
(* The process and the disk. *)

(* A data file that cannot be read is renamed (nothing reads it again), and *)
(* clearAll saves an empty one.  When unserialise throws the server has     *)
(* emptied the data file, and ends without having started.                  *)
Start(t) ==
  /\ ~running
  /\ NobodyWorks
  /\ \/ /\ Readable(files["data"])
        /\ running' = TRUE
        /\ memory' = Content(files["data"])
        /\ UNCHANGED <<files, jobs, newest, mixed>>
     \/ /\ Readable(files["data"])
        /\ Damaged(files["data"])
        /\ ClearAll(t)
        /\ UNCHANGED running
     \/ /\ ~Readable(files["data"])
        /\ running' = TRUE
        /\ ClearAll(t)
  /\ UNCHANGED disk

ProcessEnds ==
  /\ running \/ ~NobodyWorks
  /\ running' = FALSE
  /\ memory' = Cleared
  /\ jobs' = [t \in Threads |-> Nothing]
  /\ UNCHANGED <<files, disk, newest, mixed>>

DiskFills ==
  /\ disk' = IF disk = "full" THEN "freed" ELSE "full"
  /\ UNCHANGED <<memory, files, jobs, running, newest, mixed>>

Next ==
  \/ \E t \in Threads :
       \/ WritePart(t) \/ Close(t)
       \/ \E v \in States : Insert(t, v)
       \/ InsertSaves(t) \/ InsertThrows(t) \/ Flush(t)
       \/ \E f \in Files : SaveFile(t, f) \/ LoadFile(t, f)
       \/ Start(t)
  \/ ProcessEnds
  \/ DiskFills

Spec == Init /\ [][Next]_vars

-----------------------------------------------------------------------------
TypeOK ==
  /\ memory \in States \cup {Half, Garbage}
  /\ \A f \in Files : files[f] # Nothing =>
       files[f] \in UNION {[1..n -> Cells] : n \in 0..Length}
  /\ \A t \in Threads : jobs[t] # Nothing =>
       jobs[t] \in [file : Files, value : States \cup {Half, Garbage},
                    next : 0..(Length + 1), good : BOOLEAN, alone : BOOLEAN]
  /\ running \in BOOLEAN
  /\ disk \in {"ok", "full", "freed"}
  /\ newest \in States \cup {Half, Garbage}
  /\ mixed \subseteq Files

(* A file that readFile accepts was saved whole, never cut short by a crash *)
(* or a full disk.  The exception are two SAVEs to one file at once, which  *)
(* job.cc lets share the lock: cut short, they may leave a hole in a file   *)
(* of the right length.                                                     *)
ReadableIsWhole ==
  \A f \in Files : Readable(files[f]) =>
    f \in mixed \/ \E v \in States \cup {Half, Garbage} : files[f] = Whole(v)

(* The server starts from the last state whose save was begun, or from an   *)
(* empty one: never from an older one, nor from pieces of several (but for  *)
(* two SAVEs to the data file at once).                                     *)
StartsFromNewest ==
  [][~running /\ running' => memory' \in {newest, Cleared} \/ "data" \in mixed]_vars
================================================================================
