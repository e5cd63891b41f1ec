----------------------------- MODULE DataFile_proofs -----------------------------
(***************************************************************************)
(* Proofs about DataFile, for any number of states, parts and threads.     *)
(*                                                                         *)
(* What a readable file holds depends on all that was written to it, so    *)
(* the invariant says how every file begins: a file that only one job at a *)
(* time has written is a beginning of one saved state, and the job that    *)
(* writes it is where the file ends, unless one of its writes has failed.  *)
(***************************************************************************)
EXTENDS DataFile, TLAPS

Values == States \cup {Half, Garbage}
Contents == UNION {[1..n -> Cells] : n \in 0..Length}
Jobs == [file : Files, value : Values, next : 0..(Length + 1), good : BOOLEAN, alone : BOOLEAN]

IsWriting(t, f) == jobs[t] # Nothing /\ jobs[t].next > 0 /\ jobs[t].file = f

\* file is a beginning of the saved state v.
Begins(file, v) ==
  /\ file \in Contents
  /\ \A i \in 1..Len(file) : file[i] = Whole(v)[i]

OneWriter ==
  \A f \in Files \ mixed : \A t, u \in Threads : IsWriting(t, f) /\ IsWriting(u, f) => t = u
WriterFollows ==
  \A f \in Files : \A t \in Threads : IsWriting(t, f) =>
    /\ files[f] \in Contents
    /\ f \notin mixed =>
         /\ Begins(files[f], jobs[t].value)
         /\ Len(files[f]) <= jobs[t].next - 1
         /\ jobs[t].good => Len(files[f]) = jobs[t].next - 1
FilesBegin ==
  \A f \in Files \ mixed : files[f] # Nothing => \E v \in Values : Begins(files[f], v)
DataIsNewest ==
  "data" \notin mixed =>
    /\ files["data"] # Nothing => Begins(files["data"], newest)
    /\ \A t \in Threads : IsWriting(t, "data") => jobs[t].value = newest

\* TypeOK, with the domains.
Typed ==
  /\ TypeOK
  /\ files \in [Files -> Contents \cup {Nothing}]
  /\ jobs \in [Threads -> Jobs \cup {Nothing}]

IInv == Typed /\ OneWriter /\ WriterFollows /\ FilesBegin /\ DataIsNewest

-----------------------------------------------------------------------------
(* Files.                                                                  *)

LEMMA Lengths == Length \in Nat /\ Length > 1
BY DataAssumption DEF Length

LEMMA LenOfContents ==
  ASSUME NEW file \in Contents
  PROVE  /\ Len(file) \in 0..Length
         /\ file \in [1..Len(file) -> Cells]
<1>1. PICK n \in 0..Length : file \in [1..n -> Cells]
  BY DEF Contents
<1>2. n \in Nat /\ file \in Seq(Cells) /\ Len(file) = n
  BY <1>1, Lengths
<1> QED
  BY <1>1, <1>2

\* A write at the end of a file makes the file longer by its cell.
LEMMA WrittenIsContents ==
  ASSUME NEW file \in Contents, NEW i \in 1..Length, NEW cell \in Cells
  PROVE  /\ Written(file, i, cell) \in Contents
         /\ i = Len(file) + 1 => /\ Len(Written(file, i, cell)) = i
                                 /\ Written(file, i, cell)[i] = cell
                                 /\ \A j \in 1..Len(file) : Written(file, i, cell)[j] = file[j]
<1> DEFINE m == IF i > Len(file) THEN i ELSE Len(file)
<1>1. m \in 0..Length
  BY LenOfContents, Lengths
<1>2. \A j \in 1..m : (IF j = i THEN cell ELSE IF j <= Len(file) THEN file[j] ELSE "hole") \in Cells
  <2> SUFFICES ASSUME NEW j \in 1..m
               PROVE  (IF j = i THEN cell ELSE IF j <= Len(file) THEN file[j] ELSE "hole") \in Cells
    OBVIOUS
  <2>1. j <= Len(file) => file[j] \in Cells
    BY LenOfContents, <1>1, Lengths
  <2> QED
    BY <2>1 DEF Cells
<1>3. Written(file, i, cell) \in [1..m -> Cells]
  BY <1>2 DEF Written
<1>4. Written(file, i, cell) \in Contents
  BY <1>1, <1>3 DEF Contents
<1>5. ASSUME i = Len(file) + 1
      PROVE  /\ Len(Written(file, i, cell)) = i
             /\ Written(file, i, cell)[i] = cell
             /\ \A j \in 1..Len(file) : Written(file, i, cell)[j] = file[j]
  <2>0. Len(file) \in Nat /\ m = i
    BY <1>5, LenOfContents, Lengths
  <2>1. Written(file, i, cell) \in Seq(Cells) /\ Len(Written(file, i, cell)) = i
    BY <1>3, <2>0
  <2>2. \A j \in 1..i : Written(file, i, cell)[j] =
          IF j = i THEN cell ELSE IF j <= Len(file) THEN file[j] ELSE "hole"
    BY <2>0 DEF Written
  <2> QED
    BY <1>5, <2>0, <2>1, <2>2
<1> QED
  BY <1>4, <1>5

LEMMA EmptyBegins == ASSUME NEW v PROVE Begins(<<>>, v) /\ <<>> \in Contents
<1>1. <<>> \in [1..0 -> Cells] /\ 0 \in 0..Length
  BY Lengths
<1> QED
  BY <1>1 DEF Begins, Contents

\* A readable file that begins like v is the whole of v.
LEMMA ReadableBeginning ==
  ASSUME NEW file, NEW v, Begins(file, v), Readable(file)
  PROVE  file = Whole(v)
<1>1. Len(file) = Length /\ file \in [1..Length -> Cells]
  BY LenOfContents DEF Readable, Begins
<1> QED
  BY <1>1 DEF Begins, Whole

\* What is read of it is v.
LEMMA ContentOfWhole ==
  ASSUME NEW v \in Values
  PROVE  Content(Whole(v)) = v
<1>1. Whole(v)[Length] = v /\ \A u : Whole(u)[Length] = u
  BY Lengths DEF Whole
<1>2. CASE v \in States \cup {Half}
  BY <1>1, <1>2 DEF Content
<1>3. CASE v = Garbage
  <2>1. Garbage \notin States \cup {Half}
    BY DataAssumption
  <2> QED
    BY <1>1, <1>3, <2>1 DEF Content
<1> QED
  BY <1>2, <1>3 DEF Values

LEMMA ContentIsValue ==
  ASSUME NEW file \in Contents, Readable(file)
  PROVE  Content(file) \in Values
<1>1. CASE \E v \in States \cup {Half} : file = Whole(v)
  <2>1. PICK v \in States \cup {Half} : file = Whole(v)
    BY <1>1
  <2> QED
    BY <2>1, ContentOfWhole DEF Values
<1>2. CASE ~\E v \in States \cup {Half} : file = Whole(v)
  BY <1>2 DEF Content, Values
<1> QED
  BY <1>1, <1>2

-----------------------------------------------------------------------------
(* TypeOK.                                                                 *)

LEMMA InitInvariant == Init => IInv
<1> SUFFICES ASSUME Init PROVE IInv
  OBVIOUS
<1> USE DataAssumption DEF Init
<1>1. Typed
  BY DEF Typed, TypeOK
<1>2. OneWriter /\ WriterFollows
  BY DEF OneWriter, WriterFollows, IsWriting
<1>3. FilesBegin /\ DataIsNewest
  BY DEF FilesBegin, DataIsNewest, IsWriting, Files
<1> QED
  BY <1>1, <1>2, <1>3 DEF IInv

\* TypeOK follows from the domains.
Domains ==
  /\ memory \in Values
  /\ files \in [Files -> Contents \cup {Nothing}]
  /\ jobs \in [Threads -> Jobs \cup {Nothing}]
  /\ running \in BOOLEAN
  /\ disk \in {"ok", "full", "freed"}
  /\ newest \in Values
  /\ mixed \subseteq Files

LEMMA TypedIsDomains == Typed <=> Domains
BY DEF Typed, TypeOK, Domains, Values, Contents, Jobs

LEMMA OpensTypes ==
  ASSUME Domains, NEW t \in Threads, NEW f \in Files, NEW v \in Values, NEW alone \in BOOLEAN,
         Opens(t, f, v, alone)
  PROVE  /\ files' \in [Files -> Contents \cup {Nothing}]
         /\ jobs' \in [Threads -> Jobs \cup {Nothing}]
         /\ newest' \in Values
         /\ mixed' \subseteq Files
<1>1. <<>> \in Contents
  BY EmptyBegins
<1>2. Writing(f, v, alone) \in Jobs
  BY Lengths DEF Writing, Jobs
<1>3. /\ files' \in [Files -> Contents \cup {Nothing}]
      /\ jobs' \in [Threads -> Jobs \cup {Nothing}]
  BY <1>1, <1>2 DEF Opens, Domains
<1> QED
  BY <1>3 DEF Opens, Domains

LEMMA TypeStep == IInv /\ [Next]_vars => Domains'
<1> SUFFICES ASSUME IInv, [Next]_vars PROVE Domains'
  OBVIOUS
<1>a. Domains /\ WriterFollows
  BY TypedIsDomains DEF IInv
<1>v. /\ Cleared \in Values /\ Half \in Values /\ States \subseteq Values
      /\ "data" \in Files
  BY DataAssumption DEF Values, Files
<1>c. \A f \in Files : Readable(files[f]) => Content(files[f]) \in Values
  BY <1>a, ContentIsValue DEF Domains, Readable
<1>j. \A t \in Threads : jobs[t] # Nothing => jobs[t] \in Jobs
  BY <1>a DEF Domains
<1> USE <1>a, <1>v
<1>1. ASSUME NEW t \in Threads, WritePart(t) PROVE Domains'
  <2> DEFINE good == jobs[t].good /\ disk # "full"
             cell == IF jobs[t].next = 1 THEN "header" ELSE jobs[t].value
  <2>1. jobs[t] \in Jobs /\ jobs[t].next \in 1..Length /\ IsWriting(t, jobs[t].file)
    BY <1>1, <1>j, Lengths DEF WritePart, IsWriting
  <2>2. files' = files \/ files' = [files EXCEPT ![jobs[t].file] =
                                      Written(files[jobs[t].file], jobs[t].next, cell)]
    BY <1>1 DEF WritePart
  <2>3. jobs[t].file \in Files /\ files[jobs[t].file] \in Contents /\ cell \in Cells
    BY <2>1 DEF WriterFollows, Jobs, Values, Cells
  <2>4. Written(files[jobs[t].file], jobs[t].next, cell) \in Contents
    BY <2>1, <2>3, WrittenIsContents
  <2>5. files' \in [Files -> Contents \cup {Nothing}]
    BY <2>2, <2>3, <2>4 DEF Domains
  <2>6. jobs[t].next + 1 \in 0..(Length + 1) /\ good \in BOOLEAN
    BY <2>1, Lengths DEF Jobs
  <2>7. [[jobs[t] EXCEPT !.next = jobs[t].next + 1] EXCEPT !.good = good] \in Jobs
    BY <2>1, <2>6 DEF Jobs
  <2>8. jobs' = [jobs EXCEPT ![t] = [[jobs[t] EXCEPT !.next = jobs[t].next + 1] EXCEPT !.good = good]]
    BY <1>1 DEF WritePart, Domains
  <2>9. jobs' \in [Threads -> Jobs \cup {Nothing}]
    BY <2>7, <2>8 DEF Domains
  <2> QED
    BY <2>5, <2>9, <1>1 DEF WritePart, Domains
<1>2. ASSUME NEW t \in Threads, Close(t) PROVE Domains'
  BY <1>2 DEF Close, Domains
<1>3. ASSUME NEW t \in Threads, NEW v \in States, Insert(t, v) PROVE Domains'
  <2>1. \A u \in Values : Changing(u) \in Jobs
    BY Lengths DEF Changing, Jobs
  <2>2. jobs' \in [Threads -> Jobs \cup {Nothing}]
    BY <1>3, <2>1 DEF Insert, Domains
  <2> QED
    BY <1>3, <2>2 DEF Insert, Domains
<1>4. ASSUME NEW t \in Threads, InsertSaves(t) PROVE Domains'
  <2>1. jobs[t].value \in Values
    BY <1>4, <1>j DEF InsertSaves, Jobs
  <2> QED
    BY <1>4, <2>1, OpensTypes DEF InsertSaves, Domains
<1>5. ASSUME NEW t \in Threads, InsertThrows(t) PROVE Domains'
  <2>1. CASE Readable(files["data"])
    BY <1>5, <2>1, <1>c, OpensTypes DEF InsertThrows, Unserialise, ClearAll, Domains
  <2>2. CASE ~Readable(files["data"])
    BY <1>5, <2>2 DEF InsertThrows, Domains
  <2> QED
    BY <2>1, <2>2
<1>6. ASSUME NEW t \in Threads, Flush(t) PROVE Domains'
  BY <1>6, OpensTypes DEF Flush, ClearAll, Domains
<1>7. ASSUME NEW t \in Threads, NEW f \in Files, SaveFile(t, f) PROVE Domains'
  <2>1. memory \in Values
    BY DEF Domains
  <2> QED
    BY <1>7, <2>1, OpensTypes DEF SaveFile, Domains
<1>8. ASSUME NEW t \in Threads, Start(t) PROVE Domains'
  <2>1. CASE Readable(files["data"])
    BY <1>8, <2>1, <1>c, OpensTypes DEF Start, ClearAll, Domains
  <2>2. CASE ~Readable(files["data"])
    BY <1>8, <2>2, OpensTypes DEF Start, ClearAll, Domains
  <2> QED
    BY <2>1, <2>2
<1>9. ASSUME NEW t \in Threads, NEW f \in Files, LoadFile(t, f) PROVE Domains'
  BY <1>9, <1>c, OpensTypes DEF LoadFile, Unserialise, ClearAll, Domains
<1>10. CASE ProcessEnds
  BY <1>10 DEF ProcessEnds, Domains
<1>11. CASE DiskFills
  BY <1>11 DEF DiskFills, Domains
<1>12. CASE UNCHANGED vars
  BY <1>12 DEF vars, Domains
<1> QED
  BY <1>1, <1>2, <1>3, <1>4, <1>5, <1>6, <1>7, <1>8, <1>9, <1>10, <1>11, <1>12 DEF Next

-----------------------------------------------------------------------------
(* How files begin.                                                        *)

Beginnings == OneWriter /\ WriterFollows /\ FilesBegin /\ DataIsNewest

\* Steps that write nothing.
LEMMA QuietStep ==
  ASSUME Beginnings, UNCHANGED <<files, newest, mixed>>,
         \A u \in Threads : jobs'[u] = jobs[u] \/ jobs'[u] = Nothing \/ jobs'[u].next = 0
  PROVE  Beginnings'
<1>1. \A u \in Threads : \A g \in Files : IsWriting(u, g)' => IsWriting(u, g) /\ jobs'[u] = jobs[u]
  BY DEF IsWriting
<1>2. OneWriter'
  BY <1>1 DEF Beginnings, OneWriter
<1>3. WriterFollows'
  BY <1>1 DEF Beginnings, WriterFollows
<1>4. FilesBegin'
  BY DEF Beginnings, FilesBegin
<1>5. DataIsNewest'
  BY <1>1 DEF Beginnings, DataIsNewest, Files
<1> QED
  BY <1>2, <1>3, <1>4, <1>5 DEF Beginnings

\* A file is opened: it is empty, and mixed unless nobody else writes it.
LEMMA OpensStep ==
  ASSUME Domains, Beginnings, NEW t \in Threads, NEW f \in Files, NEW v \in Values,
         NEW alone \in BOOLEAN, Opens(t, f, v, alone)
  PROVE  Beginnings'
<1>1. /\ files'[f] = <<>>
      /\ \A g \in Files \ {f} : files'[g] = files[g]
  BY DEF Opens, Domains
<1>2. /\ jobs'[t] = Writing(f, v, alone)
      /\ \A u \in Threads \ {t} : jobs'[u] = jobs[u]
  BY DEF Opens, Domains
<1>3. /\ f \notin mixed' => \A u \in Threads : ~IsWriting(u, f)
      /\ \A g \in Files \ {f} : g \in mixed' <=> g \in mixed
  BY DEF Opens, BeingWritten, IsWriting
<1>4. /\ \A g \in Files : IsWriting(t, g)' => g = f
      /\ \A u \in Threads \ {t} : \A g \in Files : IsWriting(u, g)' <=> IsWriting(u, g)
  BY <1>2 DEF IsWriting, Writing
<1>5. <<>> \in Contents /\ Begins(<<>>, v)
  BY EmptyBegins
<1>6. OneWriter'
  BY <1>3, <1>4 DEF Beginnings, OneWriter
<1>7. WriterFollows'
  <2> SUFFICES ASSUME NEW g \in Files, NEW u \in Threads, IsWriting(u, g)'
               PROVE  /\ files'[g] \in Contents
                      /\ g \notin mixed' =>
                           /\ Begins(files'[g], jobs'[u].value)
                           /\ Len(files'[g]) <= jobs'[u].next - 1
                           /\ jobs'[u].good => Len(files'[g]) = jobs'[u].next - 1
    BY DEF WriterFollows, Begins
  <2>1. CASE u = t
    BY <2>1, <1>1, <1>2, <1>4, <1>5 DEF Writing
  <2>2. CASE u # t /\ g = f
    BY <2>2, <1>1, <1>3, <1>4, <1>5
  <2>3. CASE u # t /\ g # f
    BY <2>3, <1>1, <1>2, <1>3, <1>4 DEF Beginnings, WriterFollows
  <2> QED
    BY <2>1, <2>2, <2>3
<1>8. FilesBegin'
  BY <1>1, <1>3, <1>5 DEF Beginnings, FilesBegin, Begins
<1>9. DataIsNewest'
  <2> SUFFICES ASSUME "data" \notin mixed'
               PROVE  /\ files'["data"] # Nothing => Begins(files'["data"], newest')
                      /\ \A u \in Threads : IsWriting(u, "data")' => jobs'[u].value = newest'
    BY DEF DataIsNewest, Begins
  <2>1. CASE f = "data"
    <3>1. newest' = v
      BY <2>1 DEF Opens
    <3>2. \A u \in Threads : IsWriting(u, "data")' => u = t
      BY <2>1, <1>3, <1>4
    <3> QED
      BY <2>1, <3>1, <3>2, <1>1, <1>2, <1>5 DEF Writing
  <2>2. CASE f # "data"
    <3>1. newest' = newest /\ "data" \in Files \ {f}
      BY <2>2 DEF Opens, Files
    <3> QED
      BY <2>2, <3>1, <1>1, <1>2, <1>3, <1>4 DEF Beginnings, DataIsNewest
  <2> QED
    BY <2>1, <2>2
<1> QED
  BY <1>6, <1>7, <1>8, <1>9 DEF Beginnings

\* The only job that writes a file goes on where the file ends, or leaves it.
LEMMA WritePartStep ==
  ASSUME Domains, Beginnings, NEW t \in Threads, WritePart(t)
  PROVE  Beginnings'
<1> DEFINE f == jobs[t].file
           v == jobs[t].value
           n == jobs[t].next
           good == jobs[t].good /\ disk # "full"
           cell == IF n = 1 THEN "header" ELSE v
<1>1. /\ jobs[t] \in Jobs /\ n \in 1..Length /\ IsWriting(t, f)
      /\ f \in Files /\ v \in Values /\ good \in BOOLEAN /\ cell \in Cells
  BY Lengths DEF WritePart, IsWriting, Domains, Jobs, Values, Cells
<1>2. /\ jobs'[t].file = f /\ jobs'[t].value = v /\ jobs'[t].next = n + 1
      /\ jobs'[t].good = good
  <2>1. jobs'[t] = [[jobs[t] EXCEPT !.next = n + 1] EXCEPT !.good = good]
    BY DEF WritePart, Domains
  <2> QED
    BY <1>1, <2>1 DEF Jobs
<1>3. \A u \in Threads \ {t} : jobs'[u] = jobs[u]
  BY DEF WritePart, Domains
<1>4. \A u \in Threads : \A g \in Files : IsWriting(u, g)' => IsWriting(u, g)
  BY <1>1, <1>2, <1>3 DEF IsWriting
<1>5. \A g \in Files \ {f} : files'[g] = files[g]
  BY DEF WritePart, Domains
<1>6. files'[f] = IF good THEN Written(files[f], n, cell) ELSE files[f]
  BY <1>1 DEF WritePart, Domains
<1>7. mixed' = mixed /\ newest' = newest
  BY DEF WritePart
<1>8. files[f] \in Contents /\ files'[f] \in Contents
  BY <1>1, <1>6, WrittenIsContents DEF Beginnings, WriterFollows
<1> HIDE DEF f, v, n, good, cell
<1>9. ASSUME f \notin mixed
      PROVE  /\ Begins(files'[f], v)
             /\ Len(files'[f]) <= n
             /\ good => Len(files'[f]) = n
  <2>1. /\ Begins(files[f], v)
        /\ Len(files[f]) <= n - 1
        /\ good => Len(files[f]) = n - 1
    BY <1>1, <1>9 DEF Beginnings, WriterFollows, f, v, n, good
  <2>2. Len(files[f]) \in Nat /\ n \in Nat
    BY <1>1, <1>8, LenOfContents, Lengths
  <2>3. CASE good
    <3>1. n = Len(files[f]) + 1
      BY <2>1, <2>2, <2>3
    <3>2. /\ Len(files'[f]) = n
          /\ files'[f][n] = cell
          /\ \A j \in 1..Len(files[f]) : files'[f][j] = files[f][j]
      BY <1>1, <1>6, <1>8, <2>3, <3>1, WrittenIsContents
    <3>3. cell = Whole(v)[n]
      BY <1>1 DEF Whole, cell
    <3>4. \A j \in 1..n : files'[f][j] = Whole(v)[j]
      <4> SUFFICES ASSUME NEW j \in 1..n PROVE files'[f][j] = Whole(v)[j]
        OBVIOUS
      <4>1. CASE j = n
        BY <3>2, <3>3, <4>1
      <4>2. CASE j # n
        BY <2>1, <2>2, <3>1, <3>2, <4>2 DEF Begins
      <4> QED
        BY <4>1, <4>2
    <3> QED
      BY <1>8, <2>2, <3>2, <3>4 DEF Begins
  <2>4. CASE ~good
    BY <1>6, <2>1, <2>2, <2>4
  <2> QED
    BY <2>3, <2>4
<1>10. OneWriter'
  BY <1>4, <1>7 DEF Beginnings, OneWriter
<1>11. WriterFollows'
  <2> SUFFICES ASSUME NEW g \in Files, NEW u \in Threads, IsWriting(u, g)'
               PROVE  /\ files'[g] \in Contents
                      /\ g \notin mixed' =>
                           /\ Begins(files'[g], jobs'[u].value)
                           /\ Len(files'[g]) <= jobs'[u].next - 1
                           /\ jobs'[u].good => Len(files'[g]) = jobs'[u].next - 1
    BY DEF WriterFollows, Begins
  <2>0. IsWriting(u, g)
    BY <1>4
  <2>1. CASE u = t
    <3>1. g = f
      BY <1>2, <2>1 DEF IsWriting
    <3>2. n \in Nat /\ Len(files'[f]) \in Nat
      BY <1>1, <1>8, LenOfContents, Lengths
    <3>3. /\ f \notin mixed => /\ Begins(files'[f], v)
                               /\ Len(files'[f]) <= n + 1 - 1
                               /\ good => Len(files'[f]) = n + 1 - 1
      BY <3>2, <1>9
    <3> QED
      BY <1>1, <2>1, <3>1, <3>3, <1>2, <1>7, <1>8
  <2>2. CASE u # t /\ g # f
    BY <2>0, <2>2, <1>3, <1>5, <1>7 DEF Beginnings, WriterFollows
  <2>3. CASE u # t /\ g = f
    BY <2>0, <2>3, <1>1, <1>7, <1>8 DEF Beginnings, OneWriter
  <2> QED
    BY <2>1, <2>2, <2>3
<1>12. FilesBegin'
  <2> SUFFICES ASSUME NEW g \in Files \ mixed, files'[g] # Nothing
               PROVE  \E w \in Values : Begins(files'[g], w)
    BY <1>7 DEF FilesBegin, Begins
  <2>1. CASE g = f
    BY <2>1, <1>1, <1>9
  <2>2. CASE g # f
    BY <2>2, <1>5 DEF Beginnings, FilesBegin
  <2> QED
    BY <2>1, <2>2
<1>13. DataIsNewest'
  <2> SUFFICES ASSUME "data" \notin mixed
               PROVE  /\ files'["data"] # Nothing => Begins(files'["data"], newest)
                      /\ \A u \in Threads : IsWriting(u, "data")' => jobs'[u].value = newest
    BY <1>7 DEF DataIsNewest, Begins
  <2>1. \A u \in Threads : jobs'[u].value = jobs[u].value
    BY <1>2, <1>3 DEF v
  <2>2. \A u \in Threads : IsWriting(u, "data")' => jobs'[u].value = newest
    BY <2>1, <1>4 DEF Beginnings, DataIsNewest, Files
  <2>3. CASE f = "data"
    <3>1. v = newest
      BY <2>3, <1>1 DEF Beginnings, DataIsNewest, v
    <3> QED
      BY <2>2, <2>3, <3>1, <1>9
  <2>4. CASE f # "data"
    BY <2>2, <2>4, <1>5 DEF Beginnings, DataIsNewest, Files
  <2> QED
    BY <2>3, <2>4
<1> QED
  BY <1>10, <1>11, <1>12, <1>13 DEF Beginnings

LEMMA BeginStep == IInv /\ [Next]_vars => Beginnings'
<1> SUFFICES ASSUME IInv, [Next]_vars PROVE Beginnings'
  OBVIOUS
<1>a. Domains /\ Beginnings
  BY TypedIsDomains DEF IInv, Beginnings
<1>v. /\ Cleared \in Values /\ memory \in Values
      /\ "data" \in Files /\ TRUE \in BOOLEAN /\ FALSE \in BOOLEAN
  BY <1>a, DataAssumption DEF Values, Files, Domains
<1> USE <1>a, <1>v
<1>1. ASSUME NEW t \in Threads, WritePart(t) PROVE Beginnings'
  BY <1>1, WritePartStep
<1>2. ASSUME NEW t \in Threads, Close(t) PROVE Beginnings'
  <2>1. \A u \in Threads : jobs'[u] = jobs[u] \/ jobs'[u] = Nothing
    BY <1>2 DEF Close, Domains
  <2> QED
    BY <1>2, <2>1, QuietStep DEF Close
<1>3. ASSUME NEW t \in Threads, NEW v \in States, Insert(t, v) PROVE Beginnings'
  <2>1. \A u \in Threads : jobs'[u] = jobs[u] \/ jobs'[u].next = 0
    BY <1>3 DEF Insert, Changing, Domains
  <2> QED
    BY <1>3, <2>1, QuietStep DEF Insert
<1>4. ASSUME NEW t \in Threads, InsertSaves(t) PROVE Beginnings'
  <2>1. jobs[t].value \in Values
    BY <1>4 DEF InsertSaves, Domains, Jobs
  <2> QED
    BY <1>4, <2>1, OpensStep DEF InsertSaves
<1>5. ASSUME NEW t \in Threads, InsertThrows(t) PROVE Beginnings'
  <2>1. CASE ClearAll(t)
    BY <2>1, OpensStep DEF ClearAll
  <2>2. CASE ~ClearAll(t)
    <3>1. UNCHANGED <<files, newest, mixed>>
      BY <1>5, <2>2 DEF InsertThrows, Unserialise
    <3>2. \A u \in Threads : jobs'[u] = jobs[u] \/ jobs'[u] = Nothing
      BY <1>5, <2>2 DEF InsertThrows, Unserialise, Domains
    <3> QED
      BY <3>1, <3>2, QuietStep
  <2> QED
    BY <2>1, <2>2
<1>6. ASSUME NEW t \in Threads, Flush(t) PROVE Beginnings'
  BY <1>6, OpensStep DEF Flush, ClearAll
<1>7. ASSUME NEW t \in Threads, NEW f \in Files, SaveFile(t, f) PROVE Beginnings'
  BY <1>7, OpensStep DEF SaveFile
<1>8. ASSUME NEW t \in Threads, Start(t) PROVE Beginnings'
  <2>1. CASE ClearAll(t)
    BY <2>1, OpensStep DEF ClearAll
  <2>2. CASE ~ClearAll(t)
    BY <1>8, <2>2, QuietStep DEF Start
  <2> QED
    BY <2>1, <2>2
<1>9. ASSUME NEW t \in Threads, NEW f \in Files, LoadFile(t, f) PROVE Beginnings'
  <2>1. CASE ClearAll(t)
    BY <2>1, OpensStep DEF ClearAll
  <2>2. CASE ~ClearAll(t)
    <3>1. UNCHANGED <<files, newest, mixed>>
      BY <1>9, <2>2 DEF LoadFile, Unserialise
    <3>2. \A u \in Threads : jobs'[u] = jobs[u] \/ jobs'[u] = Nothing
      BY <1>9, <2>2 DEF LoadFile, Unserialise, Domains
    <3> QED
      BY <3>1, <3>2, QuietStep
  <2> QED
    BY <2>1, <2>2
<1>10. CASE ProcessEnds
  BY <1>10, QuietStep DEF ProcessEnds
<1>11. CASE DiskFills
  BY <1>11, QuietStep DEF DiskFills
<1>12. CASE UNCHANGED vars
  BY <1>12, QuietStep DEF vars
<1> QED
  BY <1>1, <1>2, <1>3, <1>4, <1>5, <1>6, <1>7, <1>8, <1>9, <1>10, <1>11, <1>12 DEF Next

-----------------------------------------------------------------------------
LEMMA Inductive == Spec => []IInv
<1>1. IInv /\ [Next]_vars => IInv'
  <2> SUFFICES ASSUME IInv, [Next]_vars PROVE IInv'
    OBVIOUS
  <2>1. Typed'
    BY TypeStep DEF Domains, Typed, TypeOK, Values, Contents, Jobs
  <2> QED
    BY <2>1, BeginStep DEF IInv, Beginnings
<1> QED
  BY InitInvariant, <1>1, PTL DEF Spec

(* Every variable keeps its type: no file is longer than a saved state,    *)
(* whatever is written, cut short and written again (file_system.cc).      *)
THEOREM TypeCorrect == Spec => []TypeOK
<1>1. IInv => TypeOK
  BY DEF IInv, Typed
<1> QED
  BY Inductive, <1>1, PTL

(* A file that readFile accepts was saved whole, unless two SAVEs to it    *)
(* overlapped: for any number of states, parts and threads, and wherever   *)
(* the process ends or the disk fills (file_system.cc, entity_manager.cc). *)
THEOREM ReadableFilesAreWhole == Spec => []ReadableIsWhole
<1>1. IInv => ReadableIsWhole
  <2> SUFFICES ASSUME IInv, NEW f \in Files, Readable(files[f]), f \notin mixed
               PROVE  \E v \in States \cup {Half, Garbage} : files[f] = Whole(v)
    BY DEF ReadableIsWhole
  <2>1. PICK v \in Values : Begins(files[f], v)
    BY DEF IInv, FilesBegin, Readable
  <2> QED
    BY <2>1, ReadableBeginning DEF Values
<1> QED
  BY Inductive, <1>1, PTL

(* The server starts from the last state whose save was begun or from an   *)
(* empty one, for any number of crashes (singletons.cc, initialise).       *)
THEOREM StartIsNewest == Spec => StartsFromNewest
<1>1. IInv /\ [Next]_vars => [~running /\ running' => memory' \in {newest, Cleared} \/ "data" \in mixed]_vars
  <2> SUFFICES ASSUME IInv, [Next]_vars, ~running, running', "data" \notin mixed
               PROVE  memory' \in {newest, Cleared}
    OBVIOUS
  <2>1. PICK t \in Threads : Start(t)
    BY DEF Next, WritePart, Close, Insert, InsertSaves, InsertThrows, Flush, SaveFile, LoadFile,
           Unserialise, ClearAll, ProcessEnds, DiskFills, vars, Typed, TypeOK, IInv
  <2>2. CASE Readable(files["data"])
    <3>1. files["data"] = Whole(newest) /\ newest \in Values
      BY <2>2, ReadableBeginning DEF IInv, Typed, TypeOK, Values, DataIsNewest, Readable
    <3> QED
      BY <2>1, <2>2, <3>1, ContentOfWhole DEF Start
  <2>3. CASE ~Readable(files["data"])
    BY <2>1, <2>3 DEF Start, ClearAll
  <2> QED
    BY <2>2, <2>3
<1> QED
  BY Inductive, <1>1, PTL DEF Spec, StartsFromNewest
=================================================================================
