---------------------------- MODULE JobQueue_proofs ----------------------------
(***************************************************************************)
(* Proofs about JobQueue, for any numbers of sessions, threads, pipelined  *)
(* commands and tables.                                                    *)
(***************************************************************************)
EXTENDS JobQueue, SequenceTheorems, TLAPS

In(q, x) == \E i \in DOMAIN q : q[i] = x
Distinct(q) == \A i, j \in DOMAIN q : q[i] = q[j] => i = j

(* A handler that is posted at the end of the queue. *)
LEMMA AppendIn ==
  ASSUME NEW S, NEW q \in Seq(S), NEW e \in S
  PROVE  /\ Append(q, e) \in Seq(S)
         /\ Append(q, e) # <<>>
         /\ \A x : In(Append(q, e), x) <=> In(q, x) \/ x = e
         /\ Distinct(q) /\ ~In(q, e) => Distinct(Append(q, e))
<1> DEFINE r == Append(q, e)
<1>1. /\ r \in Seq(S)
      /\ DOMAIN r = 1..(Len(q) + 1)
      /\ DOMAIN q = 1..Len(q)
      /\ Len(q) \in Nat
      /\ r[Len(q) + 1] = e
      /\ \A i \in 1..Len(q) : r[i] = q[i]
  OBVIOUS
<1> HIDE DEF r
<1>2. r # <<>>
  BY <1>1
<1>3. ASSUME NEW x
      PROVE  In(r, x) <=> In(q, x) \/ x = e
  BY <1>1 DEF In
<1>4. ASSUME Distinct(q), ~In(q, e)
      PROVE  Distinct(r)
  BY <1>1, <1>4 DEF In, Distinct
<1> QED BY <1>1, <1>2, <1>3, <1>4 DEF r

(* The first handler is taken off the queue. *)
LEMMA TailIn ==
  ASSUME NEW S, NEW q \in Seq(S), q # <<>>
  PROVE  /\ Head(q) \in S
         /\ In(q, Head(q))
         /\ Tail(q) \in Seq(S)
         /\ \A x : In(Tail(q), x) => In(q, x)
         /\ \A x : In(q, x) => x = Head(q) \/ In(Tail(q), x)
         /\ Distinct(q) => Distinct(Tail(q)) /\ ~In(Tail(q), Head(q))
<1> DEFINE r == Tail(q)
<1>1. /\ r \in Seq(S)
      /\ Head(q) \in S
      /\ Head(q) = q[1]
      /\ Len(q) \in Nat
      /\ Len(q) >= 1
      /\ DOMAIN q = 1..Len(q)
      /\ Len(r) = Len(q) - 1
      /\ DOMAIN r = 1..Len(r)
      /\ \A i \in 1..Len(r) : r[i] = q[i + 1]
  BY HeadTailProperties
<1> HIDE DEF r
<1>2. In(q, Head(q))
  BY <1>1 DEF In
<1>3. ASSUME NEW x, In(r, x)
      PROVE  In(q, x)
  BY <1>1, <1>3 DEF In
<1>4. ASSUME NEW x, In(q, x), x # Head(q)
      PROVE  In(r, x)
  <2>1. PICK i \in 1..Len(q) : q[i] = x
    BY <1>1, <1>4 DEF In
  <2>2. i # 1
    BY <1>1, <1>4, <2>1
  <2>3. (i - 1) \in 1..Len(r) /\ (i - 1) + 1 = i
    BY <1>1, <2>2
  <2>4. r[i - 1] = q[(i - 1) + 1]
    BY <1>1, <2>3
  <2>5. (i - 1) \in DOMAIN r /\ r[i - 1] = x
    BY <1>1, <2>1, <2>3, <2>4
  <2> QED BY <2>5 DEF In
<1>5. ASSUME Distinct(q)
      PROVE  Distinct(r) /\ ~In(r, Head(q))
  <2>1. ASSUME NEW i \in DOMAIN r
        PROVE  i \in 1..Len(r) /\ (i + 1) \in DOMAIN q /\ r[i] = q[i + 1] /\ i + 1 # 1
    BY <1>1
  <2>2. Distinct(r)
    BY <1>1, <1>5, <2>1 DEF Distinct
  <2>3. 1 \in DOMAIN q
    BY <1>1
  <2>4. ~In(r, Head(q))
    BY <1>1, <1>5, <2>1, <2>3 DEF In, Distinct
  <2> QED BY <2>2, <2>4
<1> QED BY <1>1, <1>2, <1>3, <1>4, <1>5 DEF r

(* Some commands are taken off a socket together.                           *)
LEMMA SuffixIn ==
  ASSUME NEW S, NEW q \in Seq(S), NEW n \in 1..Len(q)
  PROVE  /\ Head(q) \in S
         /\ In(q, Head(q))
         /\ SubSeq(q, n + 1, Len(q)) \in Seq(S)
         /\ \A x : In(SubSeq(q, n + 1, Len(q)), x) => In(q, x)
         /\ Distinct(q) => /\ Distinct(SubSeq(q, n + 1, Len(q)))
                           /\ ~In(SubSeq(q, n + 1, Len(q)), Head(q))
<1> DEFINE r == SubSeq(q, n + 1, Len(q))
           m == Len(q)
<1>1. /\ m \in Nat
      /\ n \in Nat
      /\ 1 <= n
      /\ n <= m
      /\ Head(q) \in S
      /\ Head(q) = q[1]
      /\ DOMAIN q = 1..m
      /\ \A i \in 1..m : q[i] \in S
  BY HeadTailProperties
<1>2. /\ r \in Seq(S)
      /\ Len(r) = m - n
      /\ \A i \in 1..(m - n) : r[i] = q[n + i]
      /\ DOMAIN r = 1..Len(r)
  <2> HIDE DEF m
  <2> DEFINE k == n + 1
  <2>1. k \in Int /\ m \in Int /\ \A i \in k..m : q[i] \in S
    BY <1>1
  <2>2. /\ m - k + 1 = m - n
        /\ (IF k <= m THEN m - k + 1 ELSE 0) = m - n
        /\ \A i \in 1..(m - n) : k + i - 1 = n + i
        /\ m - n \in Nat
    BY <1>1
  <2> HIDE DEF k
  <2>3. /\ SubSeq(q, k, m) \in Seq(S)
        /\ Len(SubSeq(q, k, m)) = IF k <= m THEN m - k + 1 ELSE 0
        /\ \A i \in 1..(m - k + 1) : SubSeq(q, k, m)[i] = q[k + i - 1]
    BY <2>1, SubSeqProperties
  <2>4. r = SubSeq(q, k, m)
    BY DEF k, m
  <2> HIDE DEF r
  <2>5. /\ r \in Seq(S)
        /\ Len(r) = m - n
        /\ \A i \in 1..(m - n) : r[i] = q[n + i]
    BY <2>2, <2>3, <2>4
  <2> QED BY <2>5
<1> HIDE DEF r, m
<1>3. In(q, Head(q))
  BY <1>1 DEF In
<1>4. ASSUME NEW i \in DOMAIN r
      PROVE  /\ n + i \in DOMAIN q
             /\ r[i] = q[n + i]
             /\ n + i # 1
  BY <1>1, <1>2
<1>5. \A x : In(r, x) => In(q, x)
  BY <1>4 DEF In
<1>6. ASSUME Distinct(q)
      PROVE  Distinct(r) /\ ~In(r, Head(q))
  <2>1. Distinct(r)
    <3>1. ASSUME NEW i \in DOMAIN r, NEW j \in DOMAIN r, r[i] = r[j]
          PROVE  i = j
      <4>1. n + i = n + j
        BY <1>4, <1>6, <3>1 DEF Distinct
      <4> QED BY <1>1, <1>2, <4>1
    <3> QED BY <3>1 DEF Distinct
  <2>2. 1 \in DOMAIN q
    BY <1>1
  <2>3. ~In(r, Head(q))
    BY <1>1, <1>4, <1>6, <2>2 DEF In, Distinct
  <2> QED BY <2>1, <2>3
<1> QED BY <1>1, <1>2, <1>3, <1>5, <1>6 DEF r, m

(* What the sockets and the queue hold can be found in one place only. *)
Job(c) == <<"job", c>>
Read(s) == <<"read", s>>
OnThread(c) == \E t \in Threads : threads[t].command = c

QueueInv ==
  /\ Distinct(handlers)
  /\ \A c \in Commands : In(handlers, Job(c)) =>
       /\ request[c] # Nothing /\ job[c] # Nothing
       /\ ~OnThread(c)
  /\ \A s \in Sessions : In(handlers, Read(s)) =>
       s \notin listening /\ socket[s] # <<>>

SocketInv ==
  \A s \in Sessions :
    /\ Distinct(socket[s])
    /\ \A c \in Commands : In(socket[s], c) =>
         /\ c[1] = s
         /\ request[c] # Nothing
         /\ job[c] = Nothing
         /\ ~In(handlers, Job(c))
         /\ ~OnThread(c)

(* A client that waits gets what it asked for. *)
JobInv ==
  \A c \in Commands :
    /\ request[c] = Nothing => job[c] = Nothing
    /\ c[1] \in Patient => job[c] \in {Nothing, request[c]}

ThreadInv ==
  /\ \A t \in Threads :
       /\ threads[t].at = "idle" <=> threads[t].command = Nothing
       /\ threads[t].command \in Commands =>
            /\ request[threads[t].command] # Nothing
            /\ job[threads[t].command] = Nothing =>
                 /\ threads[t].at = "answer"
                 /\ threads[t].command[1] \notin listening
                 /\ ~In(handlers, Read(threads[t].command[1]))
  /\ \A t, u \in Threads :
       threads[t].command = threads[u].command /\ threads[t].command # Nothing
         => t = u
  /\ \A t, u \in Threads :
       LET c == threads[t].command
           d == threads[u].command
       IN  c # Nothing /\ d # Nothing /\ job[c] = Nothing /\ job[d] = Nothing
             /\ c[1] = d[1] => t = u

MutexInv ==
  /\ \A t \in Threads :
       /\ threads[t].at = "query" => t \in mutex.shared
       /\ threads[t].at = "change" => mutex.exclusive = t
       /\ threads[t].at \in {"await", "drain"} => mutex.upgrade = t
       /\ t \in mutex.shared => threads[t].at \in {"query", "unlock"}
       /\ mutex.upgrade = t => threads[t].at \in {"await", "drain"}
       /\ mutex.exclusive = t => threads[t].at \in {"change", "unlock"}
  /\ mutex.exclusive # Nothing => mutex.shared = {} /\ mutex.upgrade = Nothing

(* What a thread has done for its command so far. *)
Work(t) ==
  /\ threads[t].at \in {"share", "query"} =>
       job[threads[t].command] = <<"select">>
  /\ threads[t].at \in {"upgrade", "await", "drain", "change"} =>
       \E v \in Values : job[threads[t].command] = <<"update", v>>
  /\ threads[t].at = "share" => threads[t].visited = 0 /\ threads[t].seen = {}
  /\ threads[t].at \in {"upgrade", "await", "drain"} => threads[t].visited = 0
  /\ threads[t].at = "query" /\ threads[t].visited # 0 => threads[t].seen # {}
  /\ threads[t].at = "change" =>
       \A i \in 1..threads[t].visited :
         tables[i] = job[threads[t].command][2]
  /\ threads[t].at \in {"unlock", "answer"} => threads[t].result \in Results
WorkInv == \A t \in Threads : Work(t)

IInv == /\ TypeOK
        /\ QueueInv /\ SocketInv /\ JobInv /\ ThreadInv
        /\ MutexInv /\ WorkInv
        /\ QueriesSeeOneState /\ TablesAreSaved

(* Before the first command all places are empty.                           *)
LEMMA InitIInv == Init => IInv
<1> SUFFICES ASSUME Init PROVE IInv
  OBVIOUS
<1>1. TypeOK
  BY QueueAssumption DEF Init, TypeOK, Thread, Idle, Free, AllOf, Places
<1>2. \A x : ~In(handlers, x) /\ \A s \in Sessions : ~In(socket[s], x)
  BY DEF Init, In
<1>3. Distinct(handlers) /\ \A s \in Sessions : Distinct(socket[s])
  BY DEF Init, Distinct
<1>4. QueueInv /\ SocketInv
  BY <1>2, <1>3 DEF QueueInv, SocketInv
<1>5. JobInv /\ ThreadInv
  BY QueueAssumption DEF Init, JobInv, ThreadInv, Idle
<1>6. MutexInv /\ WorkInv /\ QueriesSeeOneState /\ TablesAreSaved
  BY QueueAssumption DEF Init, MutexInv, WorkInv, Work, QueriesSeeOneState, TablesAreSaved,
     Idle, Free, AllOf
<1> QED BY <1>1, <1>4, <1>5, <1>6 DEF IInv

-----------------------------------------------------------------------------
(* Commands stay where they are when no thread takes or finishes one. *)
LEMMA CommandsStay ==
  ASSUME IInv, TypeOK', UNCHANGED <<request, socket, listening, job, handlers>>,
         \A t \in Threads :
           /\ threads'[t].command = threads[t].command
           /\ threads'[t].at = "idle" <=> threads[t].at = "idle"
           /\ threads[t].at = "answer" => threads'[t].at = "answer"
  PROVE  QueueInv' /\ SocketInv' /\ JobInv' /\ ThreadInv'
<1>1. \A c : OnThread(c)' <=> OnThread(c)
  BY DEF OnThread
<1>2. QueueInv'
  BY <1>1 DEF IInv, QueueInv, In, Distinct
<1>3. SocketInv'
  BY <1>1 DEF IInv, SocketInv, In, Distinct
<1>4. JobInv' /\ ThreadInv'
  BY DEF IInv, JobInv, ThreadInv, In
<1> QED BY <1>2, <1>3, <1>4

(* The requests of commands under way are those of their threads. *)
LEMMA RequestsOfThreads ==
  ASSUME IInv, NEW t \in Threads, threads[t].at # "idle"
  PROVE  /\ threads[t] \in Thread
         /\ threads[t].command \in Commands
         /\ request[threads[t].command] \in Requests
         /\ job[threads[t].command] \in Jobs \cup {Nothing}
         /\ \A u \in Threads : threads[u].command = threads[t].command => u = t
BY DEF IInv, TypeOK, Thread, ThreadInv

(* A thread changes its place, and nothing else of its state. *)
LEMMA MovesTo ==
  ASSUME IInv, NEW t \in Threads, NEW from, NEW to \in Places, Moves(t, from, to)
  PROVE  /\ threads[t].at = from
         /\ threads' \in [Threads -> Thread]
         /\ \A v \in Threads :
              /\ threads'[v].command = threads[v].command
              /\ threads'[v].visited = threads[v].visited
              /\ threads'[v].seen = threads[v].seen
              /\ threads'[v].result = threads[v].result
              /\ threads'[v].at = IF v = t THEN to ELSE threads[v].at
<1>1. threads[t] \in Thread /\ threads \in [Threads -> Thread]
  BY DEF IInv, TypeOK
<1>2. [threads[t] EXCEPT !.at = to] \in Thread
  BY <1>1 DEF Thread
<1>3. threads' = [threads EXCEPT ![t] = [threads[t] EXCEPT !.at = to]]
  BY DEF Moves
<1>4. threads' \in [Threads -> Thread]
  BY <1>1, <1>2, <1>3
<1>5. /\ threads'[t] = [threads[t] EXCEPT !.at = to]
      /\ \A v \in Threads : v # t => threads'[v] = threads[v]
  BY <1>1, <1>3
<1>6. threads'[t].at = to /\ threads'[t].command = threads[t].command
      /\ threads'[t].visited = threads[t].visited
      /\ threads'[t].seen = threads[t].seen
      /\ threads'[t].result = threads[t].result
  BY <1>1, <1>5 DEF Thread
<1> QED BY <1>4, <1>5, <1>6 DEF Moves

(* A thread takes the mutex, waits for its readers, or lets it go.          *)
LEMMA MutexStep ==
  ASSUME IInv, NEW t \in Threads,
         LockShared(t) \/ LockUpgrade(t) \/ UpgradeToUnique(t) \/ UnlockUnique(t)
  PROVE  IInv'
<1>a. UNCHANGED <<request, socket, listening, job, handlers, tables, saved>>
  BY DEF LockShared, LockUpgrade, UpgradeToUnique, UnlockUnique
<1>b. PICK from, to \in Places :
        /\ Moves(t, from, to)
        /\ \/ /\ from = "share" /\ to = "query"
              /\ mutex.exclusive = Nothing
              /\ mutex' = [mutex EXCEPT !.shared = @ \cup {t}]
           \/ /\ from = "upgrade" /\ to = "await"
              /\ mutex.exclusive = Nothing /\ mutex.upgrade = Nothing
              /\ mutex' = [mutex EXCEPT !.upgrade = t]
           \/ /\ from = "await" /\ to = "change"
              /\ mutex.shared = {}
              /\ mutex' = HandedTo(t)
           \/ /\ from = "await" /\ to = "drain"
              /\ mutex' = mutex
           \/ /\ from = "unlock" /\ to = "answer"
              /\ mutex.exclusive = t
              /\ mutex' = Free
  BY DEF LockShared, LockUpgrade, UpgradeToUnique, UnlockUnique, Places
<1>c. /\ threads[t].at = from
      /\ threads' \in [Threads -> Thread]
      /\ \A v \in Threads :
           /\ threads'[v].command = threads[v].command
           /\ threads'[v].visited = threads[v].visited
           /\ threads'[v].seen = threads[v].seen
           /\ threads'[v].result = threads[v].result
           /\ threads'[v].at = IF v = t THEN to ELSE threads[v].at
  BY <1>b, MovesTo
<1>m. mutex' \in [shared : SUBSET Threads, upgrade : Threads \cup {Nothing},
                 exclusive : Threads \cup {Nothing}]
  <2> DEFINE M == [shared : SUBSET Threads, upgrade : Threads \cup {Nothing},
                   exclusive : Threads \cup {Nothing}]
  <2>1. mutex \in M
    BY DEF IInv, TypeOK
  <2>2. /\ [mutex EXCEPT !.shared = @ \cup {t}] \in M
        /\ [mutex EXCEPT !.upgrade = t] \in M
        /\ HandedTo(t) \in M
        /\ Free \in M
    BY <2>1 DEF HandedTo, Free
  <2> HIDE DEF M
  <2>3. mutex' \in M
    BY <1>b, <2>1, <2>2
  <2> QED BY <2>3 DEF M
<1>1. TypeOK'
  BY <1>a, <1>c, <1>m DEF IInv, TypeOK
<1>2. QueueInv' /\ SocketInv' /\ JobInv' /\ ThreadInv'
  BY <1>1, <1>a, <1>c, <1>b, CommandsStay
<1>d. /\ mutex'.shared = IF to = "query" THEN mutex.shared \cup {t}
                        ELSE IF to \in {"change", "answer"} THEN {} ELSE mutex.shared
      /\ mutex'.upgrade = IF to = "await" THEN t
                         ELSE IF to \in {"change", "answer"} THEN Nothing ELSE mutex.upgrade
      /\ mutex'.exclusive = IF to = "change" THEN t
                           ELSE IF to = "answer" THEN Nothing ELSE mutex.exclusive
  <2>1. mutex = [shared |-> mutex.shared, upgrade |-> mutex.upgrade,
                 exclusive |-> mutex.exclusive]
    BY DEF IInv, TypeOK
  <2>2. CASE from = "share" /\ to = "query"
    BY <1>b, <2>1, <2>2 DEF HandedTo, Free
  <2>3. CASE from = "upgrade" /\ to = "await"
    BY <1>b, <2>1, <2>3 DEF HandedTo, Free
  <2>4. CASE from = "await" /\ to = "change"
    BY <1>b, <2>1, <2>4 DEF HandedTo, Free
  <2>5. CASE from = "await" /\ to = "drain"
    BY <1>b, <2>1, <2>5 DEF HandedTo, Free
  <2>6. CASE from = "unlock" /\ to = "answer"
    BY <1>b, <2>1, <2>6 DEF HandedTo, Free
  <2> QED BY <1>b, <2>2, <2>3, <2>4, <2>5, <2>6
<1>3. MutexInv'
  <2>1. /\ t \in mutex'.shared => to = "query"
        /\ mutex'.upgrade = t => to \in {"await", "drain"}
        /\ mutex'.exclusive = t => to = "change"
        /\ to = "query" => t \in mutex'.shared
        /\ to = "change" => mutex'.exclusive = t
        /\ to \in {"await", "drain"} => mutex'.upgrade = t
    BY <1>b, <1>c, <1>d, QueueAssumption DEF IInv, MutexInv
  <2>2. ASSUME NEW v \in Threads, v # t
        PROVE  /\ threads[v].at = "query" => v \in mutex'.shared
               /\ threads[v].at = "change" => mutex'.exclusive = v
               /\ threads[v].at \in {"await", "drain"} => mutex'.upgrade = v
               /\ v \in mutex'.shared => threads[v].at \in {"query", "unlock"}
               /\ mutex'.upgrade = v => threads[v].at \in {"await", "drain"}
               /\ mutex'.exclusive = v => threads[v].at \in {"change", "unlock"}
    BY <1>b, <1>c, <1>d, <2>2, QueueAssumption DEF IInv, MutexInv
  <2>3. mutex'.exclusive # Nothing => mutex'.shared = {} /\ mutex'.upgrade = Nothing
    BY <1>b, <1>c, <1>d, QueueAssumption DEF IInv, MutexInv
  <2> QED BY <1>c, <2>1, <2>2, <2>3 DEF MutexInv
<1>4. WorkInv'
  <2> SUFFICES ASSUME NEW v \in Threads PROVE Work(v)'
    BY DEF WorkInv
  <2>1. Work(v)
    BY DEF IInv, WorkInv
  <2> QED BY <1>a, <1>c, <1>b, <2>1 DEF Work
<1>5. QueriesSeeOneState'
  BY <1>a, <1>c, <1>b DEF IInv, QueriesSeeOneState, WorkInv, Work
<1>6. TablesAreSaved'
  BY <1>a, <1>c, <1>b DEF IInv, TablesAreSaved, AllOf
<1> QED BY <1>1, <1>2, <1>3, <1>4, <1>5, <1>6 DEF IInv

(* The last reader may hand the mutex to the update that sleeps.            *)
LEMMA UnlockSharedStep ==
  ASSUME IInv, NEW t \in Threads, UnlockShared(t) PROVE IInv'
<1> DEFINE left == mutex.shared \ {t}
           u == mutex.upgrade
           hands == left = {} /\ u # Nothing /\ threads[u].at = "drain"
<1>0. hands => u \in Threads /\ u # t
  BY DEF IInv, TypeOK, UnlockShared
<1>a. /\ threads[t].at = "unlock"
      /\ t \in mutex.shared
      /\ mutex' = IF hands THEN HandedTo(u) ELSE [mutex EXCEPT !.shared = left]
      /\ UNCHANGED <<request, socket, listening, job, handlers, tables, saved>>
  BY DEF UnlockShared
<1>b. /\ threads'[t] = [threads[t] EXCEPT !.at = "answer"]
      /\ hands => threads'[u] = [threads[u] EXCEPT !.at = "change"]
      /\ \A v \in Threads : v # t /\ ~(hands /\ v = u) => threads'[v] = threads[v]
  BY <1>0 DEF UnlockShared
<1>1. TypeOK'
  <2>1. threads' \in [Threads -> Thread]
    <3>1. ASSUME NEW v \in Threads, NEW p \in Places
          PROVE  threads[v] \in Thread /\ [threads[v] EXCEPT !.at = p] \in Thread
      BY DEF IInv, TypeOK, Thread
    <3>2. \A v \in Threads : threads'[v] \in Thread
      BY <1>0, <1>b, <3>1 DEF Places
    <3> QED BY <3>2 DEF UnlockShared
  <2>2. mutex' \in [shared : SUBSET Threads, upgrade : Threads \cup {Nothing},
                    exclusive : Threads \cup {Nothing}]
    BY <1>a, <1>0 DEF IInv, TypeOK, HandedTo
  <2> QED BY <1>a, <2>1, <2>2 DEF IInv, TypeOK
<1>c. \A v \in Threads :
        /\ threads'[v].command = threads[v].command
        /\ threads'[v].visited = threads[v].visited
        /\ threads'[v].seen = threads[v].seen
        /\ threads'[v].result = threads[v].result
        /\ threads'[v].at = IF v = t THEN "answer"
                            ELSE IF hands /\ v = u THEN "change" ELSE threads[v].at
  BY <1>0, <1>b DEF IInv, TypeOK, Thread
<1> HIDE DEF hands, left, u
<1>2. QueueInv' /\ SocketInv' /\ JobInv' /\ ThreadInv'
  <2>1. \A v \in Threads :
           /\ threads'[v].at = "idle" <=> threads[v].at = "idle"
           /\ threads[v].at = "answer" => threads'[v].at = "answer"
    BY <1>a, <1>c DEF hands
  <2> QED BY <1>1, <1>a, <1>c, <2>1, CommandsStay
<1>3. MutexInv'
  <2>1. CASE hands
    BY <1>0, <1>a, <1>c, <2>1, QueueAssumption DEF IInv, MutexInv, HandedTo, hands, left, u
  <2>2. CASE ~hands
    <3>1. /\ mutex'.shared = left
          /\ mutex'.upgrade = mutex.upgrade
          /\ mutex'.exclusive = mutex.exclusive
      BY <1>a, <2>2 DEF IInv, TypeOK
    <3>2. ASSUME NEW v \in Threads
          PROVE  threads'[v].at = IF v = t THEN "answer" ELSE threads[v].at
      BY <1>c, <2>2
    <3> QED BY <1>a, <3>1, <3>2, QueueAssumption DEF IInv, MutexInv, left
  <2> QED BY <2>1, <2>2
<1>4. WorkInv'
  <2> SUFFICES ASSUME NEW v \in Threads PROVE Work(v)'
    BY DEF WorkInv
  <2>1. Work(v)
    BY DEF IInv, WorkInv
  <2> QED BY <1>0, <1>a, <1>c, <2>1 DEF Work, hands
<1>5. QueriesSeeOneState'
  BY <1>a, <1>c DEF IInv, QueriesSeeOneState
<1>6. TablesAreSaved'
  <2>1. \A v \in Threads : threads[v].at # "change"
    BY <1>a, QueueAssumption DEF IInv, MutexInv
  <2> QED BY <1>a, <2>1 DEF IInv, TablesAreSaved, AllOf
<1> QED BY <1>1, <1>2, <1>3, <1>4, <1>5, <1>6 DEF IInv

-----------------------------------------------------------------------------
(* A thread records the result of its work and unlocks next. *)
LEMMA FinishesAs ==
  ASSUME IInv, NEW t \in Threads, NEW from, NEW r \in Results,
         Finishes(t, from, "unlock", r)
  PROVE  /\ threads[t].at = from
         /\ threads' \in [Threads -> Thread]
         /\ \A v \in Threads :
              /\ threads'[v].command = threads[v].command
              /\ threads'[v].visited = threads[v].visited
              /\ threads'[v].seen = threads[v].seen
              /\ threads'[v].result = IF v = t THEN r ELSE threads[v].result
              /\ threads'[v].at = IF v = t THEN "unlock" ELSE threads[v].at
<1>1. threads[t] \in Thread /\ threads \in [Threads -> Thread]
  BY DEF IInv, TypeOK
<1> DEFINE x == [threads[t] EXCEPT !.at = "unlock", !.result = r]
<1>2. /\ x \in Thread
      /\ x.at = "unlock" /\ x.result = r /\ x.command = threads[t].command
      /\ x.visited = threads[t].visited /\ x.seen = threads[t].seen
  BY <1>1 DEF Thread, Places
<1>3. threads' = [threads EXCEPT ![t] = x]
  BY DEF Finishes
<1> HIDE DEF x
<1> QED BY <1>1, <1>2, <1>3 DEF Finishes

(* Only the thread with the exclusive lock changes tables; no query runs. *)
LEMMA WriterIsAlone ==
  ASSUME IInv, NEW t \in Threads, threads[t].at = "change"
  PROVE  /\ \A v \in Threads : threads[v].at = "change" => v = t
         /\ \A v \in Threads : threads[v].at # "query"
BY QueueAssumption DEF IInv, MutexInv

(* While a query runs no update does. *)
LEMMA ReadersSeeSaved ==
  ASSUME IInv, NEW t \in Threads, threads[t].at = "query"
  PROVE  tables = AllOf(saved)
BY QueueAssumption DEF IInv, MutexInv, TablesAreSaved

(* A query ends, with its rows or with an error.                            *)
LEMMA QueryFinishesStep ==
  ASSUME IInv, NEW t \in Threads, QueryEnds(t) \/ QueryThrows(t) PROVE IInv'
<1>a. UNCHANGED <<request, socket, listening, job, handlers, mutex>>
  BY DEF QueryEnds, QueryThrows
<1>b. PICK r \in Results :
        /\ Finishes(t, "query", "unlock", r)
        /\ UNCHANGED <<tables, saved>>
  <2>1. <<"rows", threads[t].seen>> \in Results /\ <<"error">> \in Results
    BY DEF IInv, TypeOK, Thread, Results
  <2> QED BY <2>1 DEF QueryEnds, QueryThrows
<1>c. /\ threads[t].at = "query"
      /\ threads' \in [Threads -> Thread]
      /\ \A v \in Threads :
           /\ threads'[v].command = threads[v].command
           /\ threads'[v].visited = threads[v].visited
           /\ threads'[v].seen = threads[v].seen
           /\ threads'[v].result = IF v = t THEN r ELSE threads[v].result
           /\ threads'[v].at = IF v = t THEN "unlock" ELSE threads[v].at
  BY <1>b, FinishesAs
<1>1. TypeOK'
  BY <1>a, <1>b, <1>c DEF IInv, TypeOK, AllOf
<1>2. QueueInv' /\ SocketInv' /\ JobInv' /\ ThreadInv'
  BY <1>1, <1>a, <1>c, CommandsStay
<1>3. MutexInv'
  BY <1>a, <1>c DEF IInv, MutexInv
<1>4. WorkInv'
  <2> SUFFICES ASSUME NEW v \in Threads PROVE Work(v)'
    BY DEF WorkInv
  <2>1. Work(v)
    BY DEF IInv, WorkInv
  <2>2. threads[v].at = "change" => v = t \/ threads[t].at # "change"
    BY DEF IInv, MutexInv
  <2> QED BY <1>a, <1>b, <1>c, <2>1, <2>2 DEF Work
<1>5. QueriesSeeOneState'
  BY <1>b, <1>c DEF IInv, QueriesSeeOneState
<1>6. TablesAreSaved'
  BY <1>b, <1>c DEF IInv, TablesAreSaved, AllOf
<1> QED BY <1>1, <1>2, <1>3, <1>4, <1>5, <1>6 DEF IInv

(* An update ends: what it changed is saved, in all tables.                 *)
LEMMA saveToFileStep ==
  ASSUME IInv, NEW t \in Threads, saveToFile(t) PROVE IInv'
<1>a. UNCHANGED <<request, socket, listening, job, handlers, mutex>>
  BY DEF saveToFile
<1>b. PICK r \in Results :
        /\ Finishes(t, "change", "unlock", r)
        /\ threads[t].visited = Tables
        /\ \E v \in Values : /\ job[threads[t].command] = <<"update", v>>
                            /\ saved' = v
        /\ tables' = tables
  <2>1. threads[t].at = "change"
    BY DEF saveToFile, Finishes
  <2>2. PICK v \in Values : job[threads[t].command] = <<"update", v>>
    BY <2>1 DEF IInv, WorkInv, Work
  <2>3. saved' = v /\ tables' = tables /\ threads[t].visited = Tables
    BY <2>2 DEF saveToFile
  <2>4. Finishes(t, "change", "unlock", <<"done">>) /\ <<"done">> \in Results
    BY DEF saveToFile, Results
  <2> HIDE DEF saveToFile
  <2> QED BY <2>2, <2>3, <2>4
<1>c. /\ threads[t].at = "change"
      /\ threads' \in [Threads -> Thread]
      /\ \A v \in Threads :
           /\ threads'[v].command = threads[v].command
           /\ threads'[v].visited = threads[v].visited
           /\ threads'[v].seen = threads[v].seen
           /\ threads'[v].result = IF v = t THEN r ELSE threads[v].result
           /\ threads'[v].at = IF v = t THEN "unlock" ELSE threads[v].at
  BY <1>b, FinishesAs
<1>1. TypeOK'
  BY <1>a, <1>b, <1>c DEF IInv, TypeOK, AllOf
<1>2. QueueInv' /\ SocketInv' /\ JobInv' /\ ThreadInv'
  BY <1>1, <1>a, <1>c, CommandsStay
<1>3. MutexInv'
  BY <1>a, <1>c DEF IInv, MutexInv
<1>4. WorkInv'
  <2> SUFFICES ASSUME NEW v \in Threads PROVE Work(v)'
    BY DEF WorkInv
  <2>1. Work(v)
    BY DEF IInv, WorkInv
  <2>2. threads[v].at = "change" => v = t \/ threads[t].at # "change"
    BY DEF IInv, MutexInv
  <2> QED BY <1>a, <1>b, <1>c, <2>1, <2>2 DEF Work
<1>5. QueriesSeeOneState'
  BY <1>b, <1>c, WriterIsAlone DEF QueriesSeeOneState
<1>6. TablesAreSaved'
  <2>1. tables = AllOf(saved')
    BY <1>b, <1>c DEF IInv, WorkInv, Work, TypeOK, AllOf
  <2> QED BY <1>b, <2>1 DEF TablesAreSaved, AllOf
<1> QED BY <1>1, <1>2, <1>3, <1>4, <1>5, <1>6 DEF IInv

(* An update fails: the tables are read back, however far it had come.      *)
LEMMA UpdateThrowsStep ==
  ASSUME IInv, NEW t \in Threads, UpdateThrows(t) PROVE IInv'
<1>a. UNCHANGED <<request, socket, listening, job, handlers, mutex>>
  BY DEF UpdateThrows
<1>b. PICK r \in Results :
        /\ Finishes(t, "change", "unlock", r)
        /\ saved' = saved
        /\ tables' = AllOf(saved)
  BY DEF UpdateThrows, Results
<1>c. /\ threads[t].at = "change"
      /\ threads' \in [Threads -> Thread]
      /\ \A v \in Threads :
           /\ threads'[v].command = threads[v].command
           /\ threads'[v].visited = threads[v].visited
           /\ threads'[v].seen = threads[v].seen
           /\ threads'[v].result = IF v = t THEN r ELSE threads[v].result
           /\ threads'[v].at = IF v = t THEN "unlock" ELSE threads[v].at
  BY <1>b, FinishesAs
<1>1. TypeOK'
  BY <1>a, <1>b, <1>c DEF IInv, TypeOK, AllOf
<1>2. QueueInv' /\ SocketInv' /\ JobInv' /\ ThreadInv'
  BY <1>1, <1>a, <1>c, CommandsStay
<1>3. MutexInv'
  BY <1>a, <1>c DEF IInv, MutexInv
<1>4. WorkInv'
  <2> SUFFICES ASSUME NEW v \in Threads PROVE Work(v)'
    BY DEF WorkInv
  <2>1. Work(v)
    BY DEF IInv, WorkInv
  <2>2. threads[v].at = "change" => v = t \/ threads[t].at # "change"
    BY DEF IInv, MutexInv
  <2> QED BY <1>a, <1>b, <1>c, <2>1, <2>2 DEF Work
<1>5. QueriesSeeOneState'
  BY <1>b, <1>c DEF IInv, QueriesSeeOneState
<1>6. TablesAreSaved'
  BY <1>b DEF TablesAreSaved, AllOf
<1> QED BY <1>1, <1>2, <1>3, <1>4, <1>5, <1>6 DEF IInv

(* A query sees one more table, in the state that is saved.                 *)
LEMMA VisitTableStep ==
  ASSUME IInv, NEW t \in Threads, VisitTable(t) PROVE IInv'
<1> DEFINE n == threads[t].visited + 1
<1>a. /\ UNCHANGED <<request, socket, listening, job, handlers, mutex, tables, saved>>
      /\ threads[t].at = "query"
      /\ n <= Tables
  BY DEF VisitTable
<1>b. threads[t] \in Thread /\ threads \in [Threads -> Thread]
  BY DEF IInv, TypeOK
<1>c. n \in 1..Tables /\ tables[n] = saved /\ saved \in Values
  <2>1. n \in 1..Tables
    BY <1>a, <1>b, QueueAssumption DEF Thread
  <2> QED BY <1>a, <2>1, ReadersSeeSaved DEF AllOf, IInv, TypeOK
<1> DEFINE x == [threads[t] EXCEPT !.visited = n, !.seen = threads[t].seen \cup {saved}]
<1>d. /\ x \in Thread
      /\ x.at = threads[t].at /\ x.command = threads[t].command
      /\ x.result = threads[t].result
      /\ x.visited = n /\ x.seen = threads[t].seen \cup {saved}
  <2>1. /\ n \in 0..Tables
        /\ threads[t].seen \cup {saved} \in SUBSET Values
    BY <1>b, <1>c, QueueAssumption DEF Thread
  <2> HIDE DEF n
  <2> QED BY <1>b, <2>1 DEF Thread
<1>e. threads' = [threads EXCEPT ![t] = x]
  BY <1>c DEF VisitTable
<1> HIDE DEF x, n
<1>f. \A v \in Threads : threads'[v] = IF v = t THEN x ELSE threads[v]
  BY <1>b, <1>e
<1>1. TypeOK'
  BY <1>a, <1>b, <1>d, <1>e DEF IInv, TypeOK
<1>2. QueueInv' /\ SocketInv' /\ JobInv' /\ ThreadInv'
  BY <1>1, <1>a, <1>d, <1>f, CommandsStay
<1>3. MutexInv'
  BY <1>a, <1>d, <1>f DEF IInv, MutexInv
<1>4. WorkInv'
  <2> SUFFICES ASSUME NEW v \in Threads PROVE Work(v)'
    BY DEF WorkInv
  <2>1. Work(v)
    BY DEF IInv, WorkInv
  <2> QED BY <1>a, <1>d, <1>f, <2>1 DEF Work
<1>5. QueriesSeeOneState'
  BY <1>a, <1>d, <1>f DEF IInv, QueriesSeeOneState
<1>6. TablesAreSaved'
  BY <1>a, <1>d, <1>f DEF IInv, TablesAreSaved, AllOf
<1> QED BY <1>1, <1>2, <1>3, <1>4, <1>5, <1>6 DEF IInv

(* An update changes one more table.                                        *)
LEMMA ChangeTableStep ==
  ASSUME IInv, NEW t \in Threads, ChangeTable(t) PROVE IInv'
<1> DEFINE n == threads[t].visited + 1
<1>a. /\ UNCHANGED <<request, socket, listening, job, handlers, mutex, saved>>
      /\ threads[t].at = "change"
      /\ n <= Tables
      /\ tables' = [tables EXCEPT ![n] = job[threads[t].command][2]]
  BY DEF ChangeTable
<1>b. threads[t] \in Thread /\ threads \in [Threads -> Thread]
  BY DEF IInv, TypeOK
<1>c. n \in 1..Tables
  BY <1>a, <1>b, QueueAssumption DEF Thread
<1>d. PICK w \in Values : job[threads[t].command] = <<"update", w>>
  BY <1>a DEF IInv, WorkInv, Work
<1> DEFINE x == [threads[t] EXCEPT !.visited = n]
<1>e. /\ x \in Thread
      /\ x.at = threads[t].at /\ x.command = threads[t].command
      /\ x.result = threads[t].result
      /\ x.visited = n /\ x.seen = threads[t].seen
  BY <1>b, <1>c DEF Thread
<1>f. threads' = [threads EXCEPT ![t] = x]
  BY DEF ChangeTable
<1>g. n = threads[t].visited + 1 /\ threads[t].visited \in Nat
  BY <1>b DEF Thread
<1> HIDE DEF x, n
<1>h. \A v \in Threads : threads'[v] = IF v = t THEN x ELSE threads[v]
  BY <1>b, <1>f
<1>1. TypeOK'
  BY <1>a, <1>b, <1>c, <1>d, <1>e, <1>f DEF IInv, TypeOK
<1>2. QueueInv' /\ SocketInv' /\ JobInv' /\ ThreadInv'
  BY <1>1, <1>a, <1>e, <1>h, CommandsStay
<1>3. MutexInv'
  BY <1>a, <1>e, <1>h DEF IInv, MutexInv
<1>4. WorkInv'
  <2> SUFFICES ASSUME NEW v \in Threads PROVE Work(v)'
    BY DEF WorkInv
  <2>1. Work(v)
    BY DEF IInv, WorkInv
  <2>2. CASE v # t
    BY <1>a, <1>h, <2>1, <2>2, WriterIsAlone DEF Work
  <2>3. CASE v = t
    <3>1. \A i \in 1..n : tables'[i] = w
      <4>1. \A i \in 1..threads[t].visited : tables[i] = w
        BY <1>a, <1>d, <2>1, <2>3 DEF Work
      <4> QED BY <1>a, <1>c, <1>d, <1>g, <4>1 DEF IInv, TypeOK
    <3> QED BY <1>a, <1>d, <1>e, <1>h, <2>3, <3>1 DEF Work
  <2> QED BY <2>2, <2>3
<1>5. QueriesSeeOneState'
  BY <1>a, <1>e, <1>h DEF IInv, QueriesSeeOneState
<1>6. TablesAreSaved'
  BY <1>a, <1>e, <1>h DEF TablesAreSaved
<1> QED BY <1>1, <1>2, <1>3, <1>4, <1>5, <1>6 DEF IInv

-----------------------------------------------------------------------------
(* A command arrives at its session's socket; it was nowhere before.        *)
LEMMA SendStep ==
  ASSUME IInv, NEW c \in Commands, NEW r \in Requests, Send(c, r) PROVE IInv'
<1> DEFINE s == c[1]
           q == socket[s]
<1>a. /\ request[c] = Nothing
      /\ request' = [request EXCEPT ![c] = r]
      /\ socket' = [socket EXCEPT ![s] = Append(q, c)]
      /\ UNCHANGED <<listening, job, handlers, threads, mutex, tables, saved>>
  BY DEF Send
<1>b. s \in Sessions /\ q \in Seq(Commands)
  BY DEF Commands, IInv, TypeOK
<1>c. /\ Append(q, c) \in Seq(Commands)
      /\ Append(q, c) # <<>>
      /\ \A x : In(Append(q, c), x) <=> In(q, x) \/ x = c
      /\ Distinct(q) /\ ~In(q, c) => Distinct(Append(q, c))
  BY <1>b, AppendIn
<1>d. /\ socket'[s] = Append(q, c)
      /\ \A t \in Sessions : t # s => socket'[t] = socket[t]
      /\ request'[c] = r
      /\ \A d \in Commands : d # c => request'[d] = request[d]
      /\ r # Nothing
  BY <1>a, <1>b, QueueAssumption DEF IInv, TypeOK
<1>e. /\ \A t \in Sessions : ~In(socket[t], c)
      /\ ~In(handlers, Job(c))
      /\ ~OnThread(c)
      /\ job[c] = Nothing
  <2>1. ~OnThread(c)
    BY <1>a DEF IInv, ThreadInv, OnThread
  <2> QED BY <1>a, <2>1 DEF IInv, SocketInv, QueueInv, JobInv
<1>g. \A d \in Commands : d[1] \in Sessions
  BY DEF Commands
<1> HIDE DEF s, q
<1>1. TypeOK'
  BY <1>a, <1>c, <1>b DEF IInv, TypeOK
<1>2. QueueInv'
  <2>1. Distinct(handlers)' /\ \A x : In(handlers, x)' <=> In(handlers, x)
    BY <1>a DEF IInv, QueueInv, In, Distinct
  <2>2. \A d : OnThread(d)' <=> OnThread(d)
    BY <1>a DEF OnThread
  <2> QED BY <1>a, <1>c, <1>d, <1>e, <2>1, <2>2 DEF IInv, QueueInv
<1>3. SocketInv'
  <2>1. \A x : In(handlers, x)' <=> In(handlers, x)
    BY <1>a DEF In
  <2>2. \A d : OnThread(d)' <=> OnThread(d)
    BY <1>a DEF OnThread
  <2>3. \A t \in Sessions :
          /\ Distinct(socket[t])' <=> Distinct(socket'[t])
          /\ \A x : In(socket[t], x)' <=> In(socket'[t], x)
    BY DEF In, Distinct
  <2>4. ASSUME NEW t \in Sessions, t # s
        PROVE  /\ Distinct(socket[t])'
               /\ \A d \in Commands : In(socket[t], d)' =>
                    /\ d[1] = t
                    /\ request'[d] # Nothing
                    /\ job'[d] = Nothing
                    /\ ~In(handlers, Job(d))'
                    /\ ~OnThread(d)'
    BY <1>a, <1>d, <1>e, <2>1, <2>2, <2>3, <2>4 DEF IInv, SocketInv
  <2>5. /\ Distinct(socket[s])'
        /\ \A d \in Commands : In(socket[s], d)' =>
             /\ d[1] = s
             /\ request'[d] # Nothing
             /\ job'[d] = Nothing
             /\ ~In(handlers, Job(d))'
             /\ ~OnThread(d)'
    BY <1>a, <1>b, <1>c, <1>d, <1>e, <2>1, <2>2, <2>3 DEF IInv, SocketInv, s, q
  <2> QED BY <2>4, <2>5 DEF SocketInv
<1>4. JobInv' /\ ThreadInv'
  <2>1. \A x : In(handlers, x)' <=> In(handlers, x)
    BY <1>a DEF In
  <2>2. JobInv'
    BY <1>a, <1>d, <1>e DEF IInv, JobInv
  <2> QED BY <1>a, <1>d, <1>e, <2>1, <2>2 DEF IInv, ThreadInv, OnThread
<1>5. MutexInv'
  BY <1>a DEF IInv, MutexInv
<1>6. WorkInv'
  <2> SUFFICES ASSUME NEW v \in Threads PROVE Work(v)'
    BY DEF WorkInv
  <2>1. Work(v)
    BY DEF IInv, WorkInv
  <2>2. threads[v].at # "idle" =>
          threads[v].command \in Commands /\ threads[v].command # c
    BY <1>e, RequestsOfThreads DEF OnThread
  <2> QED BY <1>a, <1>d, <2>1, <2>2 DEF Work
<1>7. QueriesSeeOneState' /\ TablesAreSaved'
  BY <1>a DEF IInv, QueriesSeeOneState, TablesAreSaved, AllOf
<1> QED BY <1>1, <1>2, <1>3, <1>4, <1>5, <1>6, <1>7 DEF IInv

(* The read of a session completes: it is posted, and not listening.        *)
LEMMA ReadCompletesStep ==
  ASSUME IInv, NEW s \in Sessions, ReadCompletes(s) PROVE IInv'
<1>a. /\ s \in listening
      /\ socket[s] # <<>>
      /\ listening' = listening \ {s}
      /\ handlers' = Append(handlers, Read(s))
      /\ UNCHANGED <<request, socket, job, threads, mutex, tables, saved>>
  BY DEF ReadCompletes, Read
<1>b. handlers \in Seq(Handlers) /\ Read(s) \in Handlers
  BY DEF IInv, TypeOK, Handlers, Read
<1>c. /\ handlers' \in Seq(Handlers)
      /\ \A x : In(handlers', x) <=> In(handlers, x) \/ x = Read(s)
      /\ Distinct(handlers) /\ ~In(handlers, Read(s)) => Distinct(handlers')
  BY <1>a, <1>b, AppendIn
<1>d. /\ Distinct(handlers)' <=> Distinct(handlers')
      /\ \A x : In(handlers, x)' <=> In(handlers', x)
      /\ \A c : OnThread(c)' <=> OnThread(c)
  BY <1>a DEF In, Distinct, OnThread
<1>e. \A c : Job(c) # Read(s)
  BY DEF Job, Read
<1>f. \A t \in Sessions : Read(t) = Read(s) => t = s
  BY DEF Read
<1>1. TypeOK'
  BY <1>a, <1>c DEF IInv, TypeOK
<1>2. QueueInv'
  BY <1>a, <1>c, <1>d, <1>e, <1>f DEF IInv, QueueInv
<1>3. SocketInv'
  <2>1. \A t \in Sessions :
          /\ Distinct(socket[t])' <=> Distinct(socket[t])
          /\ \A x : In(socket[t], x)' <=> In(socket[t], x)
    BY <1>a DEF In, Distinct
  <2> QED BY <1>a, <1>c, <1>d, <1>e, <2>1 DEF IInv, SocketInv
<1>4. JobInv' /\ ThreadInv'
  <2>1. \A c \in Commands : c[1] \in Sessions
    BY DEF Commands
  <2>2. JobInv'
    BY <1>a DEF IInv, JobInv
  <2> QED BY <1>a, <1>c, <1>d, <1>f, <2>1, <2>2 DEF IInv, ThreadInv
<1>5. MutexInv' /\ QueriesSeeOneState' /\ TablesAreSaved'
  BY <1>a DEF IInv, MutexInv, QueriesSeeOneState, TablesAreSaved, AllOf
<1>6. WorkInv'
  BY <1>a DEF IInv, WorkInv, Work
<1> QED BY <1>1, <1>2, <1>3, <1>4, <1>5, <1>6 DEF IInv

(* A thread that holds no lock takes or leaves a command.                   *)
LEMMA NoLockChanges ==
  ASSUME IInv, NEW t \in Threads, NEW x \in Thread,
         threads[t].at \in {"idle", "answer"},
         x.at \in {"idle", "share", "upgrade", "answer"},
         threads' = [threads EXCEPT ![t] = x],
         UNCHANGED <<mutex, tables, saved>>
  PROVE  /\ threads' \in [Threads -> Thread]
         /\ \A v \in Threads : threads'[v] = IF v = t THEN x ELSE threads[v]
         /\ MutexInv' /\ QueriesSeeOneState' /\ TablesAreSaved'
<1>1. threads \in [Threads -> Thread]
  BY DEF IInv, TypeOK
<1>2. /\ threads' \in [Threads -> Thread]
      /\ \A v \in Threads : threads'[v] = IF v = t THEN x ELSE threads[v]
  BY <1>1
<1>3. MutexInv'
  BY <1>2 DEF IInv, MutexInv
<1>4. QueriesSeeOneState' /\ TablesAreSaved'
  BY <1>2 DEF IInv, QueriesSeeOneState, TablesAreSaved, AllOf
<1> QED BY <1>2, <1>3, <1>4

(* A job starts: its thread is about to lock the mutex, or to answer.       *)
LEMMA ExecuteJobStep ==
  ASSUME IInv, NEW t \in Threads, NEW c \in Commands, ExecuteJob(t, c) PROVE IInv'
<1>a. /\ threads[t].at = "idle"
      /\ handlers # <<>>
      /\ Head(handlers) = Job(c)
      /\ handlers' = Tail(handlers)
      /\ UNCHANGED <<request, socket, listening, job, mutex, tables, saved>>
  BY DEF ExecuteJob, Takes, Job
<1>b. PICK x \in Thread :
        /\ threads' = [threads EXCEPT ![t] = x]
        /\ x.command = c
        /\ \/ x.at = "share" /\ job[c] = <<"select">>
           \/ x.at = "upgrade" /\ job[c] # <<"select">>
           \/ x.at = "answer" /\ x.result \in Results
        /\ x.visited = 0
        /\ x.seen = {}
  <2>1. \A p \in Places, r \in Results \cup {Nothing} :
          [at |-> p, command |-> c, visited |-> 0, seen |-> {}, result |-> r] \in Thread
    BY QueueAssumption DEF Thread
  <2>2. \/ threads' = [threads EXCEPT ![t] =
             [at |-> IF job[c] = <<"select">> THEN "share" ELSE "upgrade",
              command |-> c, visited |-> 0, seen |-> {}, result |-> Nothing]]
        \/ threads' = [threads EXCEPT ![t] =
             [at |-> "answer", command |-> c, visited |-> 0, seen |-> {},
              result |-> <<"error">>]]
    BY DEF ExecuteJob, Idle
  <2>3. {"share", "upgrade", "answer"} \subseteq Places /\ <<"error">> \in Results
    BY DEF Places, Results
  <2>4. CASE threads' = [threads EXCEPT ![t] =
             [at |-> "answer", command |-> c, visited |-> 0, seen |-> {},
              result |-> <<"error">>]]
    <3> DEFINE x == [at |-> "answer", command |-> c, visited |-> 0, seen |-> {},
                     result |-> <<"error">>]
    <3>1. x \in Thread
      BY <2>1, <2>3
    <3> QED BY <2>3, <2>4, <3>1
  <2>5. CASE threads' = [threads EXCEPT ![t] =
             [at |-> IF job[c] = <<"select">> THEN "share" ELSE "upgrade",
              command |-> c, visited |-> 0, seen |-> {}, result |-> Nothing]]
    <3> DEFINE x == [at |-> IF job[c] = <<"select">> THEN "share" ELSE "upgrade",
                     command |-> c, visited |-> 0, seen |-> {}, result |-> Nothing]
    <3>1. x \in Thread
      BY <2>1, <2>3
    <3> QED BY <2>5, <3>1
  <2> QED BY <2>2, <2>4, <2>5
<1>c. /\ threads' \in [Threads -> Thread]
      /\ \A v \in Threads : threads'[v] = IF v = t THEN x ELSE threads[v]
      /\ MutexInv' /\ QueriesSeeOneState' /\ TablesAreSaved'
  BY <1>a, <1>b, NoLockChanges
<1>d. handlers \in Seq(Handlers) /\ Distinct(handlers)
  BY DEF IInv, TypeOK, QueueInv
<1>e. /\ In(handlers, Job(c))
      /\ handlers' \in Seq(Handlers)
      /\ \A y : In(handlers', y) => In(handlers, y)
      /\ Distinct(handlers')
      /\ ~In(handlers', Job(c))
  BY <1>a, <1>d, TailIn
<1>f. /\ request[c] # Nothing /\ job[c] # Nothing
      /\ job[c] \in Jobs
      /\ ~OnThread(c)
      /\ \A s \in Sessions : ~In(socket[s], c)
  BY <1>e DEF IInv, QueueInv, SocketInv, TypeOK
<1>g. /\ Distinct(handlers)' <=> Distinct(handlers')
      /\ \A y : In(handlers, y)' <=> In(handlers', y)
      /\ \A s \in Sessions : /\ Distinct(socket[s])' <=> Distinct(socket[s])
                             /\ \A y : In(socket[s], y)' <=> In(socket[s], y)
  BY <1>a DEF In, Distinct
<1>h. \A d \in Commands : OnThread(d)' => OnThread(d) \/ d = c
  BY <1>b, <1>c DEF OnThread
<1>i. threads[t].command = Nothing /\ c # Nothing
  BY <1>a, QueueAssumption DEF IInv, ThreadInv
<1>1. TypeOK'
  BY <1>a, <1>c, <1>e DEF IInv, TypeOK
<1>2. QueueInv'
  <2>1. \A d \in Commands : In(handlers', Job(d)) => In(handlers, Job(d)) /\ d # c
    BY <1>e
  <2> QED BY <1>a, <1>e, <1>g, <1>h, <2>1 DEF IInv, QueueInv
<1>3. SocketInv'
  BY <1>a, <1>e, <1>f, <1>g, <1>h DEF IInv, SocketInv
<1>4. JobInv' /\ ThreadInv'
  <2>1. \A v \in Threads : threads[v].command # c
    BY <1>f DEF OnThread
  <2>2. x.at # "idle"
    BY <1>b
  <2>3. JobInv'
    BY <1>a DEF IInv, JobInv
  <2>4. ThreadInv'
    BY <1>a, <1>b, <1>c, <1>e, <1>f, <1>g, <1>i, <2>1, <2>2 DEF IInv, ThreadInv
  <2> QED BY <2>3, <2>4
<1>5. WorkInv'
  <2> SUFFICES ASSUME NEW v \in Threads PROVE Work(v)'
    BY DEF WorkInv
  <2>1. Work(v)
    BY DEF IInv, WorkInv
  <2>2. job[c] # <<"select">> => \E w \in Values : job[c] = <<"update", w>>
    BY <1>f DEF Jobs
  <2>3. CASE v # t
    BY <1>a, <1>c, <2>1, <2>3 DEF Work
  <2>4. CASE v = t
    BY <1>a, <1>b, <1>c, <2>2, <2>4 DEF Work
  <2> QED BY <2>3, <2>4
<1> QED BY <1>1, <1>2, <1>3, <1>4, <1>5, <1>c DEF IInv

(* A command is read from its session's socket: it becomes a job, or is     *)
(* answered at once by the thread that read it.                             *)
LEMMA handle_readStep ==
  ASSUME IInv, NEW t \in Threads, NEW s \in Sessions, handle_read(t, s) PROVE IInv'
<1> DEFINE c == Head(socket[s])
           rest == Tail(handlers)
<1>a. /\ threads[t].at = "idle"
      /\ handlers # <<>>
      /\ Head(handlers) = Read(s)
      /\ UNCHANGED <<request, mutex, tables, saved>>
  BY DEF handle_read, Takes, Read
<1>b. handlers \in Seq(Handlers) /\ Distinct(handlers) /\ socket[s] \in Seq(Commands)
  BY DEF IInv, TypeOK, QueueInv
<1>c. /\ In(handlers, Read(s))
      /\ rest \in Seq(Handlers)
      /\ \A y : In(rest, y) => In(handlers, y)
      /\ Distinct(rest)
      /\ ~In(rest, Read(s))
  BY <1>a, <1>b, TailIn
<1>d. s \notin listening /\ socket[s] # <<>> /\ Distinct(socket[s])
  BY <1>c DEF IInv, QueueInv, SocketInv
<1>m. PICK n \in 1..Len(socket[s]) :
        /\ socket' = [socket EXCEPT ![s] = SubSeq(socket[s], n + 1, Len(socket[s]))]
        /\ \/ \E r \in TextOf(s, n) \cap Jobs :
                /\ job' = [job EXCEPT ![c] = r]
                /\ handlers' = Append(rest, Job(c))
                /\ listening' = listening \cup {s}
                /\ threads' = threads
           \/ /\ handlers' = rest
              /\ threads' = [threads EXCEPT ![t] =
                   [at |-> "answer", command |-> c, visited |-> 0, seen |-> {},
                    result |-> <<"error">>]]
              /\ UNCHANGED <<listening, job>>
  BY DEF handle_read, Idle, Job
<1>e. /\ c \in Commands
      /\ In(socket[s], c)
      /\ socket'[s] \in Seq(Commands)
      /\ \A y : In(socket'[s], y) => In(socket[s], y)
      /\ Distinct(socket'[s])
      /\ ~In(socket'[s], c)
      /\ \A r \in Sessions : r # s => socket'[r] = socket[r]
  <2>1. /\ socket'[s] = SubSeq(socket[s], n + 1, Len(socket[s]))
        /\ \A r \in Sessions : r # s => socket'[r] = socket[r]
    BY <1>m DEF IInv, TypeOK
  <2> QED BY <1>b, <1>d, <1>m, <2>1, SuffixIn
<1>f. /\ c[1] = s
      /\ request[c] # Nothing
      /\ job[c] = Nothing
      /\ ~In(handlers, Job(c))
      /\ ~OnThread(c)
      /\ \A r \in Sessions : In(socket[r], c) => r = s
  BY <1>e DEF IInv, SocketInv
<1>g. /\ Distinct(handlers)' <=> Distinct(handlers')
      /\ \A y : In(handlers, y)' <=> In(handlers', y)
      /\ \A r \in Sessions : /\ Distinct(socket[r])' <=> Distinct(socket'[r])
                             /\ \A y : In(socket[r], y)' <=> In(socket'[r], y)
  BY DEF In, Distinct
<1>h. /\ \A d : Job(d) # Read(s)
      /\ \A d, e : Job(d) = Job(e) => d = e
      /\ \A r : Read(r) = Read(s) => r = s
      /\ \A d, r : Job(d) # Read(r)
  BY DEF Job, Read
<1>i. \A r \in Sessions :
        /\ Distinct(socket'[r])
        /\ \A d \in Commands : In(socket'[r], d) => In(socket[r], d) /\ d # c
  BY <1>e, <1>f DEF IInv, SocketInv
<1>j. threads[t].command = Nothing /\ c # Nothing
  BY <1>a, <1>e, QueueAssumption DEF IInv, ThreadInv
<1>k. \A d \in Commands : d[1] \in Sessions
  BY DEF Commands
<1>n. Nothing \notin Jobs
  BY QueueAssumption DEF Requests
<1>l. s \in Patient => TextOf(s, n) = {request[c]}
  <2> SUFFICES ASSUME s \in Patient PROVE n = 1
    BY DEF TextOf
  <2>1. \A d \in Commands : In(socket[s], d) => d = <<s, 1>>
    BY DEF IInv, SocketInv, Commands
  <2>2. ASSUME NEW i \in DOMAIN socket[s] PROVE socket[s][i] = <<s, 1>>
    BY <1>b, <2>1, <2>2 DEF In
  <2>3. 1 \in DOMAIN socket[s] /\ n \in DOMAIN socket[s]
    BY <1>b, <1>m
  <2> QED BY <1>d, <2>2, <2>3 DEF Distinct
<1>o. socket' \in [Sessions -> Seq(Commands)]
  BY <1>e, <1>m DEF IInv, TypeOK
<1>p. \A v \in Threads : threads[v].command # c
  BY <1>f DEF OnThread
<1> HIDE DEF c, rest
<1>1. ASSUME NEW w \in TextOf(s, n) \cap Jobs,
             job' = [job EXCEPT ![c] = w],
             handlers' = Append(rest, Job(c)),
             listening' = listening \cup {s},
             threads' = threads
      PROVE  IInv'
  <2>j. /\ job' \in [Commands -> Jobs \cup {Nothing}]
        /\ job'[c] = w
        /\ \A d \in Commands : d # c => job'[d] = job[d]
        /\ w # Nothing
    BY <1>1, <1>e, <1>n DEF IInv, TypeOK
  <2>1. /\ handlers' \in Seq(Handlers)
        /\ \A y : In(handlers', y) <=> In(rest, y) \/ y = Job(c)
        /\ Distinct(handlers')
    <3>1. Job(c) \in Handlers /\ ~In(rest, Job(c))
      BY <1>c, <1>e, <1>f DEF Handlers, Job
    <3> QED BY <1>1, <1>c, <3>1, AppendIn
  <2>2. \A d : OnThread(d)' <=> OnThread(d)
    BY <1>1 DEF OnThread
  <2>3. TypeOK'
    BY <1>1, <1>a, <1>o, <2>1, <2>j DEF IInv, TypeOK
  <2>4. QueueInv'
    <3>1. \A d \in Commands : In(handlers', Job(d)) => In(handlers, Job(d)) \/ d = c
      BY <1>c, <1>h, <2>1
    <3>2. \A r \in Sessions : In(handlers', Read(r)) => In(handlers, Read(r)) /\ r # s
      BY <1>c, <1>h, <2>1
    <3>3. \A r \in Sessions : In(handlers', Read(r)) => r \notin listening' /\ socket'[r] # <<>>
      BY <1>1, <1>e, <3>2 DEF IInv, QueueInv
    <3>4. \A d \in Commands : In(handlers', Job(d)) =>
            request[d] # Nothing /\ job'[d] # Nothing /\ ~OnThread(d)
      BY <1>1, <1>f, <2>j, <3>1 DEF IInv, QueueInv
    <3> QED BY <1>a, <1>g, <2>1, <2>2, <3>3, <3>4 DEF QueueInv
  <2>5. SocketInv'
    <3>1. \A d \in Commands : d # c /\ In(handlers', Job(d)) => In(handlers, Job(d))
      BY <1>c, <1>h, <2>1
    <3> QED BY <1>a, <1>g, <1>i, <2>2, <2>j, <3>1 DEF IInv, SocketInv
  <2>10. JobInv'
    BY <1>a, <1>f, <1>k, <1>l, <1>1, <2>j DEF IInv, JobInv
  <2>11. \A v \in Threads : threads[v].command \in Commands =>
           job'[threads[v].command] = job[threads[v].command]
    BY <1>p, <2>j
  <2>12. \A v \in Threads : threads[v].command \in Commands \cup {Nothing}
    BY DEF IInv, TypeOK, Thread
  <2>6. ThreadInv'
    <3>1. \A v \in Threads : threads[v].command \in Commands
                               /\ job[threads[v].command] = Nothing
            => /\ threads[v].command[1] # s
               /\ ~In(handlers', Read(threads[v].command[1]))
      BY <1>c, <1>h, <2>1 DEF IInv, ThreadInv
    <3> QED BY <1>1, <1>a, <1>g, <2>11, <2>12, <3>1 DEF IInv, ThreadInv
  <2>7. MutexInv' /\ QueriesSeeOneState' /\ TablesAreSaved'
    BY <1>1, <1>a DEF IInv, MutexInv, QueriesSeeOneState, TablesAreSaved, AllOf
  <2>8. WorkInv'
    <3> SUFFICES ASSUME NEW v \in Threads PROVE Work(v)'
      BY DEF WorkInv
    <3>1. Work(v)
      BY DEF IInv, WorkInv
    <3>2. threads[v].at # "idle" => threads[v].command \in Commands
      BY RequestsOfThreads
    <3> QED BY <1>1, <1>a, <2>11, <3>1, <3>2 DEF Work
  <2> QED BY <2>3, <2>4, <2>5, <2>6, <2>7, <2>8, <2>10 DEF IInv
<1>2. CASE /\ handlers' = rest
           /\ threads' = [threads EXCEPT ![t] =
                [at |-> "answer", command |-> c, visited |-> 0, seen |-> {},
                 result |-> <<"error">>]]
           /\ UNCHANGED <<listening, job>>
  <2> DEFINE x == [at |-> "answer", command |-> c, visited |-> 0, seen |-> {},
                   result |-> <<"error">>]
  <2>1. /\ x \in Thread
        /\ x.at = "answer" /\ x.command = c /\ x.result \in Results
    BY <1>e, QueueAssumption DEF Thread, Places, Results
  <2>2. threads' = [threads EXCEPT ![t] = x]
    BY <1>2
  <2> HIDE DEF x
  <2>3. /\ threads' \in [Threads -> Thread]
        /\ \A v \in Threads : threads'[v] = IF v = t THEN x ELSE threads[v]
        /\ MutexInv' /\ QueriesSeeOneState' /\ TablesAreSaved'
    BY <1>a, <2>1, <2>2, NoLockChanges
  <2>4. \A d \in Commands : OnThread(d)' => OnThread(d) \/ d = c
    BY <2>1, <2>3 DEF OnThread
  <2>5. TypeOK'
    BY <1>2, <1>a, <1>c, <1>o, <2>3 DEF IInv, TypeOK
  <2>6. QueueInv'
    <3>1. \A d \in Commands : In(handlers', Job(d)) => In(handlers, Job(d)) /\ d # c
      BY <1>2, <1>c, <1>f
    <3>2. \A r \in Sessions : In(handlers', Read(r)) => In(handlers, Read(r)) /\ r # s
      BY <1>2, <1>c
    <3>3. \A r \in Sessions : In(handlers', Read(r)) => r \notin listening' /\ socket'[r] # <<>>
      BY <1>2, <1>e, <3>2 DEF IInv, QueueInv
    <3>4. \A d \in Commands : In(handlers', Job(d)) =>
            request'[d] # Nothing /\ job'[d] # Nothing /\ ~OnThread(d)'
      BY <1>2, <1>a, <2>4, <3>1 DEF IInv, QueueInv
    <3> QED BY <1>2, <1>c, <1>g, <3>3, <3>4 DEF QueueInv
  <2>7. SocketInv'
    <3>1. \A d \in Commands : In(handlers', Job(d)) => In(handlers, Job(d))
      BY <1>2, <1>c
    <3> QED BY <1>2, <1>a, <1>g, <1>i, <2>4, <3>1 DEF IInv, SocketInv
  <2>10. JobInv'
    BY <1>2, <1>a DEF IInv, JobInv
  <2>8. ThreadInv'
    <3>1. \A v \in Threads : threads[v].command # c
      BY <1>f DEF OnThread
    <3>2. \A v \in Threads : threads[v].command \in Commands
                               /\ job[threads[v].command] = Nothing
            => threads[v].command[1] # s
      BY <1>c DEF IInv, ThreadInv
    <3>3. \A v \in Threads : threads[v].command \in Commands \cup {Nothing}
      BY DEF IInv, TypeOK, Thread
    <3>4. \A y : In(handlers', y) => In(handlers, y)
      BY <1>2, <1>c
    <3>5. ~In(handlers', Read(s)) /\ s \notin listening'
      BY <1>2, <1>c, <1>d
    <3>6. \A v \in Threads :
            /\ threads'[v].at = "idle" <=> threads'[v].command = Nothing
            /\ threads'[v].command \in Commands =>
                 /\ request[threads'[v].command] # Nothing
                 /\ job[threads'[v].command] = Nothing =>
                      /\ threads'[v].at = "answer"
                      /\ threads'[v].command[1] \notin listening'
                      /\ ~In(handlers', Read(threads'[v].command[1]))
      BY <1>2, <1>f, <1>j, <2>1, <2>3, <3>4, <3>5 DEF IInv, ThreadInv
    <3>7. \A v, w \in Threads :
            threads'[v].command = threads'[w].command /\ threads'[v].command # Nothing
              => v = w
      BY <2>1, <2>3, <3>1 DEF IInv, ThreadInv
    <3>8. \A v, w \in Threads :
            /\ threads'[v].command # Nothing
            /\ threads'[w].command # Nothing
            /\ job[threads'[v].command] = Nothing
            /\ job[threads'[w].command] = Nothing
            /\ threads'[v].command[1] = threads'[w].command[1]
            => v = w
      BY <1>f, <2>1, <2>3, <3>2, <3>3 DEF IInv, ThreadInv
    <3> QED BY <1>2, <1>a, <1>g, <3>6, <3>7, <3>8 DEF ThreadInv
  <2>9. WorkInv'
    <3> SUFFICES ASSUME NEW v \in Threads PROVE Work(v)'
      BY DEF WorkInv
    <3>1. Work(v)
      BY DEF IInv, WorkInv
    <3>2. CASE v # t
      BY <1>2, <1>a, <2>3, <3>1, <3>2 DEF Work
    <3>3. CASE v = t
      BY <1>2, <1>a, <2>1, <2>3, <3>3 DEF Work
    <3> QED BY <3>2, <3>3
  <2> QED BY <2>3, <2>5, <2>6, <2>7, <2>8, <2>9, <2>10 DEF IInv
<1>3. \/ \E r \in TextOf(s, n) \cap Jobs :
           /\ job' = [job EXCEPT ![c] = r]
           /\ handlers' = Append(rest, Job(c))
           /\ listening' = listening \cup {s}
           /\ threads' = threads
      \/ /\ handlers' = rest
         /\ threads' = [threads EXCEPT ![t] =
              [at |-> "answer", command |-> c, visited |-> 0, seen |-> {},
               result |-> <<"error">>]]
         /\ UNCHANGED <<listening, job>>
  BY <1>m
<1> QED BY <1>1, <1>2, <1>3

(* A command is answered: its slot is free for another one.                 *)
LEMMA RespondStep ==
  ASSUME IInv, NEW t \in Threads, Respond(t) PROVE IInv'
<1> DEFINE c == threads[t].command
<1>a. /\ threads[t].at = "answer"
      /\ request' = [request EXCEPT ![c] = Nothing]
      /\ job' = [job EXCEPT ![c] = Nothing]
      /\ listening' = IF job[c] = Nothing THEN listening \cup {c[1]} ELSE listening
      /\ threads' = [threads EXCEPT ![t] = Idle]
      /\ UNCHANGED <<socket, handlers, mutex, tables, saved>>
  BY DEF Respond
<1>b. /\ c \in Commands
      /\ request[c] \in Requests
      /\ \A u \in Threads : threads[u].command = c => u = t
      /\ OnThread(c)
  BY <1>a, RequestsOfThreads DEF OnThread
<1>c. /\ Idle \in Thread /\ Idle.at = "idle" /\ Idle.command = Nothing
  BY QueueAssumption DEF Idle, Thread, Places
<1>d. /\ threads' \in [Threads -> Thread]
      /\ \A v \in Threads : threads'[v] = IF v = t THEN Idle ELSE threads[v]
      /\ MutexInv' /\ QueriesSeeOneState' /\ TablesAreSaved'
  BY <1>a, <1>c, NoLockChanges
<1>e. /\ request'[c] = Nothing
      /\ \A d \in Commands : d # c => request'[d] = request[d]
      /\ request' \in [Commands -> Requests \cup {Nothing}]
      /\ job'[c] = Nothing
      /\ \A d \in Commands : d # c => job'[d] = job[d]
      /\ job' \in [Commands -> Jobs \cup {Nothing}]
  BY <1>a, <1>b DEF IInv, TypeOK
<1>f. /\ ~In(handlers, Job(c))
      /\ \A s \in Sessions : ~In(socket[s], c)
      /\ job[c] = Nothing => ~In(handlers, Read(c[1]))
  BY <1>b DEF IInv, QueueInv, SocketInv, ThreadInv
<1>g. /\ Distinct(handlers)' <=> Distinct(handlers)
      /\ \A y : In(handlers, y)' <=> In(handlers, y)
      /\ \A s \in Sessions : /\ Distinct(socket[s])' <=> Distinct(socket[s])
                             /\ \A y : In(socket[s], y)' <=> In(socket[s], y)
  BY <1>a DEF In, Distinct
<1>h. \A d \in Commands : OnThread(d)' => OnThread(d)
  BY <1>c, <1>d, QueueAssumption DEF OnThread
<1>i. \A d \in Commands : d[1] \in Sessions
  BY DEF Commands
<1>j. \A v \in Threads : threads[v].command \in Commands \cup {Nothing}
  BY DEF IInv, TypeOK, Thread
<1> HIDE DEF c
<1>1. TypeOK'
  <2>1. listening' \subseteq Sessions
    BY <1>a, <1>b, <1>i DEF IInv, TypeOK
  <2> QED BY <1>a, <1>d, <1>e, <2>1 DEF IInv, TypeOK
<1>2. QueueInv'
  <2>1. \A d \in Commands : In(handlers, Job(d)) => d # c
    BY <1>f
  <2>2. \A s \in Sessions : In(handlers, Read(s)) => s \notin listening'
    BY <1>a, <1>f DEF IInv, QueueInv
  <2>3. \A s \in Sessions : In(handlers, Read(s)) => socket'[s] # <<>>
    BY <1>a DEF IInv, QueueInv
  <2>4. \A d \in Commands : In(handlers, Job(d)) =>
          request'[d] # Nothing /\ job'[d] # Nothing /\ ~OnThread(d)'
    BY <1>e, <1>h, <2>1 DEF IInv, QueueInv
  <2>5. Distinct(handlers)
    BY DEF IInv, QueueInv
  <2> QED BY <1>g, <2>2, <2>3, <2>4, <2>5 DEF QueueInv
<1>3. SocketInv'
  <2>1. \A s \in Sessions, d \in Commands : In(socket[s], d) => d # c
    BY <1>f
  <2> QED BY <1>e, <1>g, <1>h, <2>1 DEF IInv, SocketInv
<1>4. JobInv' /\ ThreadInv'
  <2>1. \A v \in Threads : v # t => threads[v].command # c
    BY <1>b
  <2>2. \A v \in Threads : v # t /\ threads[v].command \in Commands
          => /\ request'[threads[v].command] = request[threads[v].command]
             /\ job'[threads[v].command] = job[threads[v].command]
    BY <1>e, <2>1
  <2>3. \A v \in Threads : /\ v # t
                           /\ threads[v].command \in Commands
                           /\ job[threads[v].command] = Nothing
          => threads[v].command[1] \notin listening'
    BY <1>a, <1>b, <1>j, QueueAssumption DEF IInv, ThreadInv, c
  <2>4. Nothing \notin Commands
    BY QueueAssumption
  <2>5. \A v \in Threads :
          /\ threads'[v].at = "idle" <=> threads'[v].command = Nothing
          /\ threads'[v].command \in Commands =>
               /\ request'[threads'[v].command] # Nothing
               /\ job'[threads'[v].command] = Nothing =>
                    /\ threads'[v].at = "answer"
                    /\ threads'[v].command[1] \notin listening'
                    /\ ~In(handlers, Read(threads'[v].command[1]))
    BY <1>c, <1>d, <2>2, <2>3, <2>4 DEF IInv, ThreadInv
  <2>6. \A v, w \in Threads :
          threads'[v].command = threads'[w].command /\ threads'[v].command # Nothing
            => v = w
    BY <1>c, <1>d DEF IInv, ThreadInv
  <2>7. \A v, w \in Threads :
          /\ threads'[v].command # Nothing
          /\ threads'[w].command # Nothing
          /\ job'[threads'[v].command] = Nothing
          /\ job'[threads'[w].command] = Nothing
          /\ threads'[v].command[1] = threads'[w].command[1]
          => v = w
    BY <1>c, <1>d, <1>j, <2>2 DEF IInv, ThreadInv
  <2>8. JobInv'
    BY <1>e DEF IInv, JobInv
  <2> QED BY <1>g, <2>5, <2>6, <2>7, <2>8 DEF ThreadInv
<1>5. WorkInv'
  <2> SUFFICES ASSUME NEW v \in Threads PROVE Work(v)'
    BY DEF WorkInv
  <2>1. Work(v)
    BY DEF IInv, WorkInv
  <2>2. CASE v # t
    <3>1. threads[v].at # "idle" => job'[threads[v].command] = job[threads[v].command]
      BY <1>b, <1>e, <2>2, RequestsOfThreads
    <3> QED BY <1>a, <1>d, <2>1, <2>2, <3>1 DEF Work
  <2>3. CASE v = t
    BY <1>c, <1>d, <2>3 DEF Work
  <2> QED BY <2>2, <2>3
<1> QED BY <1>1, <1>2, <1>3, <1>4, <1>5, <1>d DEF IInv

-----------------------------------------------------------------------------
(* IInv is an inductive invariant.                                          *)
LEMMA NextIInv == IInv /\ [Next]_vars => IInv'
<1> SUFFICES ASSUME IInv, [Next]_vars PROVE IInv'
  OBVIOUS
<1>1. ASSUME NEW c \in Commands, NEW r \in Requests, Send(c, r) PROVE IInv'
  BY <1>1, SendStep
<1>2. ASSUME NEW s \in Sessions, ReadCompletes(s) PROVE IInv'
  BY <1>2, ReadCompletesStep
<1>3. ASSUME NEW t \in Threads, Step(t) PROVE IInv'
  <2>1. ASSUME NEW s \in Sessions, handle_read(t, s) PROVE IInv'
    BY <2>1, handle_readStep
  <2>2. ASSUME NEW c \in Commands, ExecuteJob(t, c) PROVE IInv'
    BY <2>2, ExecuteJobStep
  <2>3. CASE Respond(t)
    BY <2>3, RespondStep
  <2>4. CASE LockShared(t) \/ LockUpgrade(t) \/ UpgradeToUnique(t) \/ UnlockUnique(t)
    BY <2>4, MutexStep
  <2>7. CASE UnlockShared(t)
    BY <2>7, UnlockSharedStep
  <2>9. CASE VisitTable(t)
    BY <2>9, VisitTableStep
  <2>10. CASE QueryEnds(t) \/ QueryThrows(t)
    BY <2>10, QueryFinishesStep
  <2>12. CASE ChangeTable(t)
    BY <2>12, ChangeTableStep
  <2>13. CASE saveToFile(t)
    BY <2>13, saveToFileStep
  <2>14. CASE UpdateThrows(t)
    BY <2>14, UpdateThrowsStep
  <2> QED BY <1>3, <2>1, <2>2, <2>3, <2>4, <2>7, <2>9, <2>10, <2>12, <2>13, <2>14 DEF Step
<1>4. CASE UNCHANGED vars
  <2>1. UNCHANGED <<request, socket, listening, job, handlers, threads, mutex, tables, saved>>
    BY <1>4 DEF vars
  <2>2. TypeOK'
    BY <2>1 DEF IInv, TypeOK
  <2>3. QueueInv' /\ SocketInv' /\ JobInv' /\ ThreadInv'
    BY <2>1, <2>2, CommandsStay
  <2>4. MutexInv' /\ WorkInv' /\ QueriesSeeOneState' /\ TablesAreSaved'
    BY <2>1 DEF IInv, MutexInv, WorkInv, Work, QueriesSeeOneState, TablesAreSaved, AllOf
  <2> QED BY <2>2, <2>3, <2>4 DEF IInv
<1> QED BY <1>1, <1>2, <1>3, <1>4 DEF Next

(* It holds in every state of every run, with or without fairness.          *)
LEMMA AlwaysIInv == Safety => []IInv
<1>1. IInv /\ [Next]_vars => IInv'
  BY NextIInv
<1> QED BY <1>1, InitIInv, PTL DEF Safety

(* The state of sessions, queue, threads and mutex keeps its type, for any  *)
(* numbers of them: each job of job.cc locks, unlocks and answers once.     *)
THEOREM JobTypes == Safety => []TypeOK
<1>1. IInv => TypeOK
  BY DEF IInv
<1> QED BY <1>1, AlwaysIInv, PTL

(* The mutex of job.cc keeps queries from seeing a half-made update.        *)
THEOREM Isolation == Safety => []QueriesSeeOneState
<1>1. IInv => QueriesSeeOneState
  BY DEF IInv
<1> QED BY <1>1, AlwaysIInv, PTL

(* A failed update leaves the tables as the data file has them, whatever    *)
(* table it had reached when it threw.                                      *)
THEOREM Rollback == Safety => []TablesAreSaved
<1>1. IInv => TablesAreSaved
  BY DEF IInv
<1> QED BY <1>1, AlwaysIInv, PTL

-----------------------------------------------------------------------------
(* No command of a client that waits is lost: one that was sent and not     *)
(* answered is in its session's socket, in the queue or with a thread.      *)
NotLost ==
  \A c \in Commands : c[1] \in Patient /\ request[c] # Nothing =>
    In(socket[c[1]], c) \/ In(handlers, Job(c)) \/ OnThread(c)

(* Between its start and its answer a job stays with its thread.            *)
LEMMA JobKeepsCommand ==
  ASSUME IInv, NEW t \in Threads,
         \/ LockShared(t) \/ LockUpgrade(t) \/ UpgradeToUnique(t)
         \/ UnlockShared(t) \/ UnlockUnique(t)
         \/ VisitTable(t) \/ QueryEnds(t) \/ QueryThrows(t)
         \/ ChangeTable(t) \/ saveToFile(t) \/ UpdateThrows(t)
  PROVE  /\ UNCHANGED <<request, socket, handlers>>
         /\ \A v \in Threads : threads'[v].command = threads[v].command
<1>1. UNCHANGED <<request, socket, handlers>>
  BY DEF LockShared, LockUpgrade, UpgradeToUnique, UnlockShared, UnlockUnique, VisitTable,
         QueryEnds, QueryThrows, ChangeTable, saveToFile, UpdateThrows
<1>2. \A v \in Threads : threads[v] \in Thread /\ threads \in [Threads -> Thread]
  BY DEF IInv, TypeOK
<1>3. CASE LockShared(t) \/ LockUpgrade(t) \/ UpgradeToUnique(t) \/ UnlockUnique(t)
  <2>1. PICK from, to \in Places : Moves(t, from, to)
    BY <1>3 DEF LockShared, LockUpgrade, UpgradeToUnique, UnlockUnique, Places
  <2> QED BY <1>1, <2>1, MovesTo
<1>4. CASE QueryEnds(t) \/ QueryThrows(t) \/ saveToFile(t) \/ UpdateThrows(t)
  <2>1. threads[t].seen \in SUBSET Values
    BY DEF IInv, TypeOK, Thread
  <2>2. {<<"rows", threads[t].seen>>, <<"done">>, <<"error">>} \subseteq Results
    BY <2>1 DEF Results
  <2>3. PICK from \in {"query", "change"}, r \in Results : Finishes(t, from, "unlock", r)
    <3>1. CASE QueryEnds(t)
      BY <2>2, <3>1 DEF QueryEnds
    <3>2. CASE QueryThrows(t)
      BY <2>2, <3>2 DEF QueryThrows
    <3>3. CASE saveToFile(t)
      BY <2>2, <3>3 DEF saveToFile
    <3>4. CASE UpdateThrows(t)
      BY <2>2, <3>4 DEF UpdateThrows
    <3> QED BY <1>4, <3>1, <3>2, <3>3, <3>4
  <2> QED BY <1>1, <2>3, FinishesAs
<1>5. CASE UnlockShared(t)
  <2>1. \A v \in Threads :
          \/ threads'[v] = threads[v]
          \/ threads'[v] = [threads[v] EXCEPT !.at = "answer"]
          \/ threads'[v] = [threads[v] EXCEPT !.at = "change"]
    BY <1>5 DEF UnlockShared
  <2>2. ASSUME NEW v \in Threads
        PROVE  threads'[v].command = threads[v].command
    <3>1. /\ [threads[v] EXCEPT !.at = "answer"].command = threads[v].command
          /\ [threads[v] EXCEPT !.at = "change"].command = threads[v].command
      BY <1>2 DEF Thread
    <3> QED BY <2>1, <3>1
  <2> QED BY <1>1, <2>2
<1>6. CASE VisitTable(t)
  <2> DEFINE n == threads[t].visited + 1
             S == threads[t].seen \cup {tables[threads[t].visited + 1]}
  <2>1. threads' = [threads EXCEPT ![t] = [threads[t] EXCEPT !.visited = n, !.seen = S]]
    BY <1>6 DEF VisitTable
  <2> HIDE DEF n, S
  <2>2. [threads[t] EXCEPT !.visited = n, !.seen = S].command = threads[t].command
    BY <1>2 DEF Thread
  <2> QED BY <1>1, <1>2, <2>1, <2>2
<1>7. CASE ChangeTable(t)
  <2> DEFINE n == threads[t].visited + 1
  <2>1. threads' = [threads EXCEPT ![t] = [threads[t] EXCEPT !.visited = n]]
    BY <1>7 DEF ChangeTable
  <2> HIDE DEF n
  <2>2. [threads[t] EXCEPT !.visited = n].command = threads[t].command
    BY <1>2 DEF Thread
  <2> QED BY <1>1, <1>2, <2>1, <2>2
<1> QED BY <1>3, <1>4, <1>5, <1>6, <1>7

(* No step loses such a command.                                            *)
LEMMA NextNotLost == IInv /\ NotLost /\ [Next]_vars => NotLost'
<1> SUFFICES ASSUME IInv, NotLost, [Next]_vars, NEW d \in Commands, d[1] \in Patient,
                    request'[d] # Nothing
             PROVE  \/ In(socket'[d[1]], d)
                    \/ In(handlers', Job(d))
                    \/ \E v \in Threads : threads'[v].command = d
  BY DEF NotLost, In, OnThread
<1> USE DEF OnThread
<1>s. d[1] \in Sessions
  BY DEF Commands
<1>n. Nothing \notin Commands
  BY QueueAssumption
<1>q. /\ handlers \in Seq(Handlers)
      /\ \A s \in Sessions : socket[s] \in Seq(Commands)
      /\ threads \in [Threads -> Thread]
  BY DEF IInv, TypeOK
<1>1. ASSUME NEW c \in Commands, NEW r \in Requests, Send(c, r)
      PROVE  \/ In(socket'[d[1]], d)
             \/ In(handlers', Job(d))
             \/ \E v \in Threads : threads'[v].command = d
  <2>1. /\ socket' = [socket EXCEPT ![c[1]] = Append(socket[c[1]], c)]
        /\ request' = [request EXCEPT ![c] = r]
        /\ UNCHANGED <<handlers, threads>>
        /\ c[1] \in Sessions
    BY <1>1 DEF Send, Commands
  <2>2. \A x : In(Append(socket[c[1]], c), x) <=> In(socket[c[1]], x) \/ x = c
    BY <1>q, <2>1, AppendIn
  <2>3. CASE d = c
    BY <2>1, <2>2, <2>3 DEF IInv, TypeOK
  <2>4. CASE d # c
    <3>1. request[d] # Nothing
      BY <2>1, <2>4 DEF IInv, TypeOK
    <3>2. In(socket[d[1]], d) => In(socket'[d[1]], d)
      BY <1>s, <2>1, <2>2 DEF IInv, TypeOK
    <3> QED BY <2>1, <3>1, <3>2 DEF NotLost
  <2> QED BY <2>3, <2>4
<1>2. ASSUME NEW s \in Sessions, ReadCompletes(s)
      PROVE  \/ In(socket'[d[1]], d)
             \/ In(handlers', Job(d))
             \/ \E v \in Threads : threads'[v].command = d
  <2>1. handlers' = Append(handlers, Read(s)) /\ UNCHANGED <<request, socket, threads>>
    BY <1>2 DEF ReadCompletes, Read
  <2>2. Read(s) \in Handlers
    BY DEF Handlers, Read
  <2>3. In(handlers, Job(d)) => In(handlers', Job(d))
    BY <1>q, <2>1, <2>2, AppendIn
  <2> QED BY <2>1, <2>3 DEF NotLost
<1>3. ASSUME NEW t \in Threads, NEW s \in Sessions, handle_read(t, s)
      PROVE  \/ In(socket'[d[1]], d)
             \/ In(handlers', Job(d))
             \/ \E v \in Threads : threads'[v].command = d
  <2>1. /\ threads[t].command = Nothing
        /\ handlers # <<>>
        /\ Head(handlers) = Read(s)
        /\ \E n \in 1..Len(socket[s]) : socket' =
             [socket EXCEPT ![s] = SubSeq(socket[s], n + 1, Len(socket[s]))]
        /\ UNCHANGED request
        /\ \/ /\ handlers' = Append(Tail(handlers), Job(Head(socket[s])))
              /\ threads' = threads
           \/ /\ handlers' = Tail(handlers)
              /\ threads' = [threads EXCEPT ![t] =
                   [at |-> "answer", command |-> Head(socket[s]), visited |-> 0,
                    seen |-> {}, result |-> <<"error">>]]
    BY <1>3 DEF handle_read, Takes, Read, Job, Idle, IInv, ThreadInv
  <2>2. /\ In(handlers, Read(s))
        /\ Tail(handlers) \in Seq(Handlers)
        /\ \A x : In(handlers, x) => x = Read(s) \/ In(Tail(handlers), x)
    BY <1>q, <2>1, TailIn
  <2>3. socket[s] # <<>>
    BY <2>2 DEF IInv, QueueInv
  <2>4. Head(socket[s]) \in Commands /\ In(socket[s], Head(socket[s]))
    BY <1>q, <2>3, TailIn
  <2>5. \A u \in Sessions : u # s => socket'[u] = socket[u]
    BY <2>1 DEF IInv, TypeOK
  <2>6. In(handlers, Job(d)) => In(Tail(handlers), Job(d))
    <3>1. Job(d) # Read(s)
      BY DEF Job, Read
    <3> QED BY <2>2, <3>1
  <2>7. In(socket[d[1]], d) => In(socket'[d[1]], d) \/ d = Head(socket[s])
    <3>1. d[1] = s /\ In(socket[s], d) => d = Head(socket[s])
      BY <2>4 DEF IInv, SocketInv, Commands
    <3> QED BY <1>s, <2>5, <3>1
  <2>8. CASE /\ handlers' = Append(Tail(handlers), Job(Head(socket[s])))
             /\ threads' = threads
    <3>1. Job(Head(socket[s])) \in Handlers
      BY <2>4 DEF Handlers, Job
    <3>2. \A x : In(handlers', x) <=> In(Tail(handlers), x) \/ x = Job(Head(socket[s]))
      <4> DEFINE q == Tail(handlers)
                 e == Job(Head(socket[s]))
      <4>1. q \in Seq(Handlers) /\ e \in Handlers /\ handlers' = Append(q, e)
        BY <2>2, <2>8, <3>1
      <4> HIDE DEF q, e
      <4>2. \A x : In(Append(q, e), x) <=> In(q, x) \/ x = e
        BY <4>1, AppendIn
      <4> QED BY <4>1, <4>2 DEF q, e
    <3> QED BY <2>1, <2>6, <2>7, <2>8, <3>2 DEF NotLost
  <2>9. CASE /\ handlers' = Tail(handlers)
             /\ threads' = [threads EXCEPT ![t] =
                  [at |-> "answer", command |-> Head(socket[s]), visited |-> 0,
                   seen |-> {}, result |-> <<"error">>]]
    <3>1. /\ threads'[t].command = Head(socket[s])
          /\ \A v \in Threads : v # t => threads'[v] = threads[v]
      BY <1>q, <2>9
    <3>2. OnThread(d) => \E v \in Threads : threads'[v].command = d
      BY <1>n, <2>1, <3>1
    <3> QED BY <2>1, <2>6, <2>7, <2>9, <3>1, <3>2 DEF NotLost
  <2> QED BY <2>1, <2>8, <2>9
<1>4. ASSUME NEW t \in Threads, NEW c \in Commands, ExecuteJob(t, c)
      PROVE  \/ In(socket'[d[1]], d)
             \/ In(handlers', Job(d))
             \/ \E v \in Threads : threads'[v].command = d
  <2>1. /\ threads[t].command = Nothing
        /\ handlers # <<>>
        /\ Head(handlers) = Job(c)
        /\ handlers' = Tail(handlers)
        /\ UNCHANGED <<request, socket>>
    BY <1>4 DEF ExecuteJob, Takes, Job, IInv, ThreadInv
  <2>2. \A x : In(handlers, x) => x = Job(c) \/ In(handlers', x)
    BY <1>q, <2>1, TailIn
  <2>3. PICK p, r : threads' = [threads EXCEPT ![t] =
          [at |-> p, command |-> c, visited |-> 0, seen |-> {}, result |-> r]]
    <3>1. \/ threads' = [threads EXCEPT ![t] =
              [at |-> IF job[c] = <<"select">> THEN "share" ELSE "upgrade",
               command |-> c, visited |-> 0, seen |-> {}, result |-> Nothing]]
         \/ threads' = [threads EXCEPT ![t] =
              [at |-> "answer", command |-> c, visited |-> 0, seen |-> {},
               result |-> <<"error">>]]
      BY <1>4 DEF ExecuteJob, Idle
    <3>2. CASE job[c] = <<"select">>
      BY <3>1, <3>2
    <3>3. CASE job[c] # <<"select">>
      BY <3>1, <3>3
    <3> QED BY <3>2, <3>3
  <2>4. /\ threads'[t].command = c
        /\ \A v \in Threads : v # t => threads'[v] = threads[v]
    BY <1>q, <2>3
  <2>5. Job(d) = Job(c) => d = c
    BY DEF Job
  <2>6. OnThread(d) => \E v \in Threads : threads'[v].command = d
    BY <1>n, <2>1, <2>4
  <2> QED BY <2>1, <2>2, <2>4, <2>5, <2>6 DEF NotLost
<1>5. ASSUME NEW t \in Threads, Respond(t)
      PROVE  \/ In(socket'[d[1]], d)
             \/ In(handlers', Job(d))
             \/ \E v \in Threads : threads'[v].command = d
  <2>1. /\ request' = [request EXCEPT ![threads[t].command] = Nothing]
        /\ threads' = [threads EXCEPT ![t] = Idle]
        /\ UNCHANGED <<socket, handlers>>
    BY <1>5 DEF Respond
  <2>2. threads[t].command # d /\ request[d] # Nothing
    BY <2>1 DEF IInv, TypeOK
  <2>3. \A v \in Threads : v # t => threads'[v] = threads[v]
    BY <1>q, <2>1
  <2> QED BY <2>1, <2>2, <2>3 DEF NotLost
<1>6. ASSUME NEW t \in Threads, Step(t)
      PROVE  \/ In(socket'[d[1]], d)
             \/ In(handlers', Job(d))
             \/ \E v \in Threads : threads'[v].command = d
  <2>1. CASE \/ LockShared(t) \/ LockUpgrade(t) \/ UpgradeToUnique(t)
             \/ UnlockShared(t) \/ UnlockUnique(t)
             \/ VisitTable(t) \/ QueryEnds(t) \/ QueryThrows(t)
             \/ ChangeTable(t) \/ saveToFile(t) \/ UpdateThrows(t)
    <3>1. /\ UNCHANGED <<request, socket, handlers>>
          /\ \A v \in Threads : threads'[v].command = threads[v].command
      BY <2>1, JobKeepsCommand
    <3> QED BY <3>1 DEF NotLost
  <2> QED BY <1>3, <1>4, <1>5, <1>6, <2>1 DEF Step
<1>7. CASE UNCHANGED vars
  BY <1>7 DEF vars, NotLost
<1> QED BY <1>1, <1>2, <1>6, <1>7 DEF Next

(* A place where a command can be is one of its stages, and there is one.   *)
LEMMA OneStage == IInv /\ NotLost => EachCommandOnce
<1> SUFFICES ASSUME IInv, NotLost, NEW c \in Commands
             PROVE  /\ \A x, y \in Stages(c) : x = y
                    /\ request[c] = Nothing => Stages(c) = {}
                    /\ c[1] \in Patient =>
                         /\ request[c] # Nothing => Stages(c) # {}
                         /\ job[c] \in {Nothing, request[c]}
  BY DEF EachCommandOnce
<1> DEFINE A == {<<"socket", i>> : i \in {j \in DOMAIN socket[c[1]] : socket[c[1]][j] = c}}
           B == {<<"handlers", i>> : i \in {j \in DOMAIN handlers : handlers[j] = Job(c)}}
           C == {<<"thread", t>> : t \in {u \in Threads : threads[u].command = c}}
<1>1. Stages(c) = A \cup B \cup C
  BY DEF Stages, Job
<1>2. /\ ~In(socket[c[1]], c) => A = {}
      /\ ~In(handlers, Job(c)) => B = {}
      /\ ~OnThread(c) => C = {}
  BY DEF In, OnThread
<1>3. c[1] \in Sessions
  BY DEF Commands
<1>4. In(socket[c[1]], c) => \E x : A = {x}
  <2> SUFFICES ASSUME In(socket[c[1]], c) PROVE \E x : A = {x}
    OBVIOUS
  <2>1. PICK i \in DOMAIN socket[c[1]] : socket[c[1]][i] = c
    BY DEF In
  <2>2. {j \in DOMAIN socket[c[1]] : socket[c[1]][j] = c} = {i}
    BY <1>3, <2>1 DEF IInv, SocketInv, Distinct
  <2>3. A = {<<"socket", i>>}
    BY <2>2
  <2> HIDE DEF A
  <2> QED BY <2>3
<1>5. In(handlers, Job(c)) => \E x : B = {x}
  <2> SUFFICES ASSUME In(handlers, Job(c)) PROVE \E x : B = {x}
    OBVIOUS
  <2>1. PICK i \in DOMAIN handlers : handlers[i] = Job(c)
    BY DEF In
  <2>2. {j \in DOMAIN handlers : handlers[j] = Job(c)} = {i}
    BY <2>1 DEF IInv, QueueInv, Distinct
  <2>3. B = {<<"handlers", i>>}
    BY <2>2
  <2> HIDE DEF B
  <2> QED BY <2>3
<1>6. OnThread(c) => \E x : C = {x}
  <2> SUFFICES ASSUME OnThread(c) PROVE \E x : C = {x}
    OBVIOUS
  <2>1. PICK t \in Threads : threads[t].command = c
    BY DEF OnThread
  <2>2. c # Nothing
    BY QueueAssumption
  <2>3. {u \in Threads : threads[u].command = c} = {t}
    BY <2>1, <2>2 DEF IInv, ThreadInv
  <2>4. C = {<<"thread", t>>}
    BY <2>3
  <2> HIDE DEF C
  <2> QED BY <2>4
<1>7. /\ In(socket[c[1]], c) => ~In(handlers, Job(c)) /\ ~OnThread(c)
      /\ In(handlers, Job(c)) => ~OnThread(c)
      /\ request[c] = Nothing => /\ ~In(socket[c[1]], c)
                                 /\ ~In(handlers, Job(c))
                                 /\ ~OnThread(c)
  BY <1>3 DEF IInv, SocketInv, QueueInv, ThreadInv, OnThread
<1> HIDE DEF A, B, C
<1>8. \A x, y \in Stages(c) : x = y
  BY <1>1, <1>2, <1>4, <1>5, <1>6, <1>7
<1>9. request[c] = Nothing => Stages(c) = {}
  BY <1>1, <1>2, <1>7
<1>10. ASSUME c[1] \in Patient, request[c] # Nothing
       PROVE  Stages(c) # {}
  <2>1. In(socket[c[1]], c) \/ In(handlers, Job(c)) \/ OnThread(c)
    BY <1>10 DEF NotLost
  <2> QED BY <1>1, <1>4, <1>5, <1>6, <2>1
<1>11. c[1] \in Patient => job[c] \in {Nothing, request[c]}
  BY DEF IInv, JobInv
<1> QED BY <1>8, <1>9, <1>10, <1>11

(* The reads, the queue and the threads run no command twice, whatever is   *)
(* pipelined; of a client that waits for its answers they lose none, and    *)
(* run what it asked for.                                                   *)
THEOREM NoneLostNoneTwice == Safety => []EachCommandOnce
<1>1. Init => NotLost
  BY DEF Init, NotLost
<1>2. IInv /\ NotLost /\ [Next]_vars => NotLost'
  BY NextNotLost
<1>3. IInv /\ NotLost => EachCommandOnce
  BY OneStage
<1> QED BY <1>1, <1>2, <1>3, AlwaysIInv, PTL DEF Safety

-----------------------------------------------------------------------------
(***************************************************************************)
(* JobQueue implements AtomicCommands, for any numbers of sessions,        *)
(* threads, pipelined commands and tables.                                 *)
(***************************************************************************)

(* The result that the mapping shows for a command is that of the one       *)
(* thread that has the command, once its job has ended.                     *)
ShownResults ==
  \A c \in Commands :
    /\ job[c] = Nothing => ResultOf(c) = Nothing
    /\ (\A t \in Threads : threads[t].command # c) => ResultOf(c) = Nothing
    /\ \A t \in Threads : threads[t].command = c /\ job[c] # Nothing =>
         ResultOf(c) = IF threads[t].at \in {"unlock", "answer"}
                       THEN threads[t].result ELSE Nothing

(* There is at most one thread for a command.                               *)
LEMMA ResultsOfThreads == IInv => ShownResults
<1> SUFFICES ASSUME IInv, NEW c \in Commands
             PROVE  /\ job[c] = Nothing => ResultOf(c) = Nothing
                    /\ (\A t \in Threads : threads[t].command # c) => ResultOf(c) = Nothing
                    /\ \A t \in Threads : threads[t].command = c /\ job[c] # Nothing =>
                         ResultOf(c) = IF threads[t].at \in {"unlock", "answer"}
                                       THEN threads[t].result ELSE Nothing
  BY DEF ShownResults
<1>1. ASSUME \A t \in Threads : threads[t].command # c
      PROVE  ResultOf(c) = Nothing
  BY <1>1 DEF ResultOf, Ended
<1>3. job[c] = Nothing => ResultOf(c) = Nothing
  BY DEF ResultOf
<1>2. ASSUME NEW t \in Threads, threads[t].command = c, job[c] # Nothing
      PROVE  ResultOf(c) = IF threads[t].at \in {"unlock", "answer"}
                           THEN threads[t].result ELSE Nothing
  <2>1. \A u \in Threads : threads[u].command = c => u = t
    BY <1>2, QueueAssumption DEF IInv, ThreadInv
  <2>2. CASE threads[t].at \in {"unlock", "answer"}
    <3>1. Ended(c) = {t}
      BY <1>2, <2>1, <2>2 DEF Ended
    <3>2. (CHOOSE u \in {t} : TRUE) = t
      OBVIOUS
    <3> QED BY <1>2, <2>2, <3>1, <3>2 DEF ResultOf
  <2>3. CASE threads[t].at \notin {"unlock", "answer"}
    <3>1. Ended(c) = {}
      BY <2>1, <2>3 DEF Ended
    <3> QED BY <2>3, <3>1 DEF ResultOf
  <2> QED BY <2>2, <2>3
<1> QED BY <1>1, <1>2, <1>3

(* The results stay when every thread keeps its command and its result.     *)
LEMMA ResultsStay ==
  ASSUME ShownResults, ShownResults', UNCHANGED job,
         \A v \in Threads :
           /\ threads'[v].command = threads[v].command
           /\ threads'[v].at \in {"unlock", "answer"} <=> threads[v].at \in {"unlock", "answer"}
           /\ threads[v].at \in {"unlock", "answer"} =>
                threads'[v].result = threads[v].result
  PROVE  [c \in Commands |-> ResultOf(c)]' = [c \in Commands |-> ResultOf(c)]
<1>1. ASSUME NEW c \in Commands PROVE ResultOf(c)' = ResultOf(c)
  <2>1. CASE \A v \in Threads : threads[v].command # c
    BY <2>1 DEF ShownResults
  <2>2. ASSUME NEW v \in Threads, threads[v].command = c
        PROVE  ResultOf(c)' = ResultOf(c)
    BY <2>2 DEF ShownResults
  <2> QED BY <2>1, <2>2
<1> QED BY <1>1

(* One thread ends its command, or sends its result and is idle again: only *)
(* that command's result changes.                                           *)
LEMMA OneResultChanges ==
  ASSUME ShownResults, ShownResults', NEW t \in Threads, NEW c \in Commands,
         threads[t].command \in {c, Nothing},
         threads'[t].command \in {c, Nothing},
         Nothing \notin Commands,
         \A d \in Commands : d # c => job'[d] = job[d],
         \A v \in Threads : v # t =>
           /\ threads[v].command # c
           /\ threads'[v].command = threads[v].command
           /\ threads'[v].at = threads[v].at
           /\ threads'[v].result = threads[v].result
  PROVE  [d \in Commands |-> ResultOf(d)]' =
           [[d \in Commands |-> ResultOf(d)] EXCEPT ![c] = ResultOf(c)']
<1>1. ASSUME NEW d \in Commands, d # c PROVE ResultOf(d)' = ResultOf(d)
  <2>1. CASE \A v \in Threads : threads[v].command # d
    <3>1. \A v \in Threads : threads'[v].command # d
      BY <1>1, <2>1
    <3> QED BY <2>1, <3>1 DEF ShownResults
  <2>2. ASSUME NEW v \in Threads, threads[v].command = d
        PROVE  ResultOf(d)' = ResultOf(d)
    <3>1. v # t
      BY <1>1, <2>2
    <3> QED BY <2>2, <3>1 DEF ShownResults
  <2> QED BY <2>1, <2>2
<1> QED BY <1>1

(* A command fails without a trace: no thread had ended it.                 *)
LEMMA Fails ==
  ASSUME ShownResults, ShownResults', NEW t \in Threads, NEW c \in Commands,
         job[c] # Nothing,
         ResultOf(c) = Nothing,
         threads[t].command \in {c, Nothing},
         threads'[t].command = c,
         threads'[t].at \in {"unlock", "answer"},
         threads'[t].result = <<"error">>,
         Nothing \notin Commands,
         \A v \in Threads : v # t =>
           /\ threads[v].command # c
           /\ threads'[v].command = threads[v].command
           /\ threads'[v].at = threads[v].at
           /\ threads'[v].result = threads[v].result,
         UNCHANGED <<job, saved>>
  PROVE  Promise!Fail(c)
<1>1. ResultOf(c)' = <<"error">>
  BY DEF ShownResults
<1>2. [d \in Commands |-> ResultOf(d)]' =
        [[d \in Commands |-> ResultOf(d)] EXCEPT ![c] = ResultOf(c)']
  BY OneResultChanges
<1> QED BY <1>1, <1>2 DEF Promise!Fail, Promise!TakesEffect

(* What a job does before it ends is not seen.                              *)
LEMMA JobStutters ==
  ASSUME IInv, IInv', ShownResults, ShownResults', NEW t \in Threads,
         \/ LockShared(t) \/ LockUpgrade(t) \/ UpgradeToUnique(t)
         \/ UnlockShared(t) \/ UnlockUnique(t) \/ VisitTable(t) \/ ChangeTable(t)
  PROVE  UNCHANGED Promise!vars
<1>1. UNCHANGED <<job, saved>>
  BY DEF LockShared, LockUpgrade, UpgradeToUnique, UnlockShared, UnlockUnique, VisitTable,
         ChangeTable
<1>2. \A v \in Threads : threads[v] \in Thread /\ threads \in [Threads -> Thread]
  BY DEF IInv, TypeOK
<1>3. ASSUME NEW from, NEW to \in Places, Moves(t, from, to),
             from \in {"unlock", "answer"} <=> to \in {"unlock", "answer"}
      PROVE  UNCHANGED [c \in Commands |-> ResultOf(c)]
  <2>1. /\ threads[t].at = from
        /\ \A v \in Threads :
             /\ threads'[v].command = threads[v].command
             /\ threads'[v].result = threads[v].result
             /\ threads'[v].at = IF v = t THEN to ELSE threads[v].at
    BY <1>3, MovesTo
  <2> QED BY <1>1, <1>3, <2>1, ResultsStay
<1>4. CASE LockShared(t) \/ LockUpgrade(t) \/ UpgradeToUnique(t) \/ UnlockUnique(t)
  <2>1. PICK from, to \in Places :
          /\ Moves(t, from, to)
          /\ <<from, to>> \in {<<"share", "query">>, <<"upgrade", "await">>,
               <<"await", "change">>, <<"await", "drain">>, <<"unlock", "answer">>}
    BY <1>4 DEF LockShared, LockUpgrade, UpgradeToUnique, UnlockUnique, Places
  <2>2. from \in {"unlock", "answer"} <=> to \in {"unlock", "answer"}
    BY <2>1
  <2> QED BY <1>1, <1>3, <2>1, <2>2 DEF Promise!vars
<1>5. CASE UnlockShared(t)
  <2> DEFINE u == mutex.upgrade
             hands == mutex.shared \ {t} = {} /\ u # Nothing /\ threads[u].at = "drain"
  <2>1. \A v \in Threads : threads'[v] =
          IF v = t THEN [threads[t] EXCEPT !.at = "answer"]
          ELSE IF hands /\ v = u THEN [threads[u] EXCEPT !.at = "change"]
          ELSE threads[v]
    BY <1>5 DEF UnlockShared
  <2>2. threads[t].at = "unlock"
    BY <1>5 DEF UnlockShared
  <2>3. ASSUME NEW v \in Threads
        PROVE  /\ threads'[v].command = threads[v].command
               /\ threads'[v].result = threads[v].result
               /\ threads'[v].at \in {"unlock", "answer"} <=>
                    threads[v].at \in {"unlock", "answer"}
    <3>1. /\ [threads[v] EXCEPT !.at = "answer"].command = threads[v].command
          /\ [threads[v] EXCEPT !.at = "answer"].result = threads[v].result
          /\ [threads[v] EXCEPT !.at = "answer"].at = "answer"
          /\ [threads[v] EXCEPT !.at = "change"].command = threads[v].command
          /\ [threads[v] EXCEPT !.at = "change"].result = threads[v].result
          /\ [threads[v] EXCEPT !.at = "change"].at = "change"
      <4>1. threads[v] \in Thread
        BY <1>2
      <4> QED BY <4>1 DEF Thread
    <3>2. CASE v = t
      BY <2>1, <2>2, <3>1, <3>2
    <3>3. CASE v # t /\ hands /\ v = u
      <4>1. threads'[v] = [threads[v] EXCEPT !.at = "change"]
        BY <2>1, <3>3
      <4>2. threads[v].at = "drain"
        BY <3>3
      <4> QED BY <3>1, <4>1, <4>2
    <3>4. CASE v # t /\ ~(hands /\ v = u)
      <4>1. threads'[v] = threads[v]
        BY <2>1, <3>4
      <4> QED BY <4>1
    <3> QED BY <3>2, <3>3, <3>4
  <2> QED BY <1>1, <2>3, ResultsStay DEF Promise!vars
<1>6. CASE VisitTable(t) \/ ChangeTable(t)
  <2>1. PICK n, S : threads' = [threads EXCEPT ![t] =
                      [threads[t] EXCEPT !.visited = n, !.seen = S]]
    <3>1. CASE VisitTable(t)
      BY <3>1 DEF VisitTable
    <3>2. CASE ChangeTable(t)
      <4>1. [threads[t] EXCEPT !.visited = threads[t].visited + 1] =
            [threads[t] EXCEPT !.visited = threads[t].visited + 1, !.seen = threads[t].seen]
        BY <1>2 DEF Thread
      <4> QED BY <3>2, <4>1 DEF ChangeTable
    <3> QED BY <1>6, <3>1, <3>2
  <2>2. ASSUME NEW v \in Threads
        PROVE  /\ threads'[v].command = threads[v].command
               /\ threads'[v].result = threads[v].result
               /\ threads'[v].at = threads[v].at
    <3>1. /\ [threads[t] EXCEPT !.visited = n, !.seen = S].command = threads[t].command
          /\ [threads[t] EXCEPT !.visited = n, !.seen = S].result = threads[t].result
          /\ [threads[t] EXCEPT !.visited = n, !.seen = S].at = threads[t].at
      BY <1>2 DEF Thread
    <3>2. threads'[v] = IF v = t THEN [threads[t] EXCEPT !.visited = n, !.seen = S]
                        ELSE threads[v]
      BY <1>2, <2>1
    <3> QED BY <3>1, <3>2
  <2> QED BY <1>1, <2>2, ResultsStay DEF Promise!vars
<1> QED BY <1>4, <1>5, <1>6

(* A job ends: a query has seen all tables of the one state that is saved,  *)
(* an update has saved its own, or there was an exception.                  *)
LEMMA JobEnds ==
  ASSUME IInv, IInv', ShownResults, ShownResults', NEW t \in Threads,
         QueryEnds(t) \/ QueryThrows(t) \/ saveToFile(t) \/ UpdateThrows(t)
  PROVE  \E c \in Commands : Promise!Perform(c)
<1>1. PICK from \in {"query", "change"}, r \in Results :
        /\ Finishes(t, from, "unlock", r)
        /\ UNCHANGED job
        /\ \/ QueryEnds(t) /\ r = <<"rows", threads[t].seen>>
           \/ saveToFile(t) /\ r = <<"done">>
           \/ (QueryThrows(t) \/ UpdateThrows(t)) /\ r = <<"error">>
  <2>1. threads[t].seen \in SUBSET Values
    BY DEF IInv, TypeOK, Thread
  <2>2. {<<"rows", threads[t].seen>>, <<"done">>, <<"error">>} \subseteq Results
    BY <2>1 DEF Results
  <2>3. CASE QueryEnds(t)
    BY <2>2, <2>3 DEF QueryEnds
  <2>4. CASE QueryThrows(t)
    BY <2>2, <2>4 DEF QueryThrows
  <2>5. CASE saveToFile(t)
    BY <2>2, <2>5 DEF saveToFile
  <2>6. CASE UpdateThrows(t)
    BY <2>2, <2>6 DEF UpdateThrows
  <2> QED BY <2>3, <2>4, <2>5, <2>6
<1>2. /\ threads[t].at = from
      /\ \A v \in Threads :
           /\ threads'[v].command = threads[v].command
           /\ threads'[v].seen = threads[v].seen
           /\ threads'[v].result = IF v = t THEN r ELSE threads[v].result
           /\ threads'[v].at = IF v = t THEN "unlock" ELSE threads[v].at
  BY <1>1, FinishesAs
<1>3. PICK c \in Commands :
        /\ c = threads[t].command
        /\ job[c] \in Jobs
        /\ \A v \in Threads : v # t => threads[v].command # c
  <2>1. job[threads[t].command] \in Jobs
    BY <1>1, <1>2 DEF IInv, WorkInv, Work, Jobs
  <2> QED BY <1>1, <1>2, <2>1, RequestsOfThreads
<1>4. ResultOf(c) = Nothing /\ ResultOf(c)' = r
  <2>1. job'[c] # Nothing /\ job[c] # Nothing
    BY <1>1, <1>3, QueueAssumption DEF Requests
  <2> QED BY <1>1, <1>2, <1>3, <2>1 DEF ShownResults
<1>5. job[c] # Nothing /\ Nothing \notin Commands
  BY <1>3, QueueAssumption DEF Requests
<1>6. [d \in Commands |-> ResultOf(d)]' =
        [[d \in Commands |-> ResultOf(d)] EXCEPT ![c] = r]
  BY <1>1, <1>2, <1>3, <1>4, <1>5, OneResultChanges
<1>7. CASE QueryEnds(t) /\ r = <<"rows", threads[t].seen>>
  <2>1. threads[t].at = "query" /\ threads[t].visited # 0 /\ saved' = saved
    BY <1>7, QueueAssumption DEF QueryEnds, Finishes
  <2>2. job[c] = <<"select">> /\ threads[t].seen = {saved}
    BY <1>3, <2>1 DEF IInv, WorkInv, Work, QueriesSeeOneState
  <2>3. Promise!Select(c)
    BY <1>1, <1>3, <1>4, <1>5, <1>6, <1>7, <2>1, <2>2
       DEF Promise!Select, Promise!TakesEffect
  <2> QED BY <1>3, <2>3 DEF Promise!Perform
<1>8. CASE saveToFile(t) /\ r = <<"done">>
  <2>1. threads[t].at = "change" /\ saved' = job[c][2]
    BY <1>3, <1>8 DEF saveToFile, Finishes
  <2>2. PICK w \in Values : job[c] = <<"update", w>>
    BY <1>3, <2>1 DEF IInv, WorkInv, Work
  <2>3. saved' = w
    BY <2>1, <2>2
  <2>4. Promise!Update(c, w)
    BY <1>1, <1>3, <1>4, <1>5, <1>6, <1>8, <2>2, <2>3
       DEF Promise!Update, Promise!TakesEffect
  <2> QED BY <1>3, <2>2, <2>4 DEF Promise!Perform
<1>9. CASE (QueryThrows(t) \/ UpdateThrows(t)) /\ r = <<"error">>
  <2>1. saved' = saved
    BY <1>9 DEF QueryThrows, UpdateThrows
  <2>2. Promise!Fail(c)
    BY <1>1, <1>3, <1>4, <1>5, <1>6, <1>9, <2>1 DEF Promise!Fail, Promise!TakesEffect
  <2> QED BY <1>3, <2>2 DEF Promise!Perform
<1> QED BY <1>1, <1>7, <1>8, <1>9

(* A command fails when its job starts if its session may not run it.       *)
LEMMA JobStarts ==
  ASSUME IInv, IInv', ShownResults, ShownResults', NEW t \in Threads,
         NEW c \in Commands, ExecuteJob(t, c)
  PROVE  Promise!Fail(c) \/ UNCHANGED Promise!vars
<1>1. /\ threads[t].at = "idle"
      /\ UNCHANGED <<job, saved>>
      /\ handlers # <<>>
      /\ Head(handlers) = Job(c)
      /\ handlers \in Seq(Handlers)
  BY DEF ExecuteJob, Takes, Job, IInv, TypeOK
<1>0. job[c] # Nothing
  BY <1>1, TailIn DEF IInv, QueueInv
<1>2. PICK p \in Places, r \in Results \cup {Nothing} :
        /\ p \in {"share", "upgrade"} \/ (p = "answer" /\ r = <<"error">>)
        /\ threads' = [threads EXCEPT ![t] =
             [at |-> p, command |-> c, visited |-> 0, seen |-> {}, result |-> r]]
  <2>1. {"share", "upgrade", "answer"} \subseteq Places /\ <<"error">> \in Results
    BY DEF Places, Results
  <2>2. \/ threads' = [threads EXCEPT ![t] =
             [at |-> IF job[c] = <<"select">> THEN "share" ELSE "upgrade",
              command |-> c, visited |-> 0, seen |-> {}, result |-> Nothing]]
        \/ threads' = [threads EXCEPT ![t] =
             [at |-> "answer", command |-> c, visited |-> 0, seen |-> {},
              result |-> <<"error">>]]
    BY DEF ExecuteJob, Idle
  <2>3. CASE job[c] = <<"select">>
    BY <2>1, <2>2, <2>3
  <2>4. CASE job[c] # <<"select">>
    BY <2>1, <2>2, <2>4
  <2> QED BY <2>3, <2>4
<1>3. threads[t].command = Nothing /\ Nothing \notin Commands
  BY <1>1, QueueAssumption DEF IInv, ThreadInv
<1>5. /\ threads'[t].at = p
      /\ threads'[t].command = c
      /\ threads'[t].result = r
      /\ \A v \in Threads : v # t => threads'[v] = threads[v]
  BY <1>2 DEF IInv, TypeOK
<1>6. \A v \in Threads : v # t => threads[v].command # c
  <2>1. \A v \in Threads : threads'[v].command = c => v = t
    BY <1>3, <1>5 DEF IInv, ThreadInv
  <2> QED BY <1>5, <2>1
<1>7. ResultOf(c) = Nothing
  BY <1>3, <1>6 DEF ShownResults
<1>8. CASE p = "answer" /\ r = <<"error">>
  BY <1>0, <1>1, <1>3, <1>5, <1>6, <1>7, <1>8, Fails
<1>9. CASE p \in {"share", "upgrade"}
  <2>1. ResultOf(c)' = Nothing
    BY <1>5, <1>9 DEF ShownResults
  <2>2. [d \in Commands |-> ResultOf(d)]' =
          [[d \in Commands |-> ResultOf(d)] EXCEPT ![c] = Nothing]
    BY <1>1, <1>3, <1>5, <1>6, <2>1, OneResultChanges
  <2>3. [d \in Commands |-> ResultOf(d)]' = [d \in Commands |-> ResultOf(d)]
    BY <1>7, <2>2
  <2> QED BY <1>1, <2>3 DEF Promise!vars
<1> QED BY <1>2, <1>8, <1>9

(* A command is received when its job is made; a text that is no command is *)
(* not seen.                                                                *)
LEMMA ReadMaps ==
  ASSUME IInv, IInv', ShownResults, ShownResults', NEW t \in Threads,
         NEW s \in Sessions, handle_read(t, s)
  PROVE  \/ \E c \in Commands, r \in Jobs : Promise!Receive(c, r)
         \/ UNCHANGED Promise!vars
<1>1. /\ threads[t].at = "idle"
      /\ saved' = saved
      /\ handlers # <<>>
      /\ Head(handlers) = Read(s)
  BY DEF handle_read, Takes, Read
<1>2. In(handlers, Read(s)) /\ socket[s] \in Seq(Commands)
  BY <1>1, TailIn DEF IInv, TypeOK
<1>3. PICK c \in Commands : c = Head(socket[s]) /\ In(socket[s], c)
  BY <1>2, TailIn DEF IInv, QueueInv
<1>7. \/ \E r \in Jobs : job' = [job EXCEPT ![c] = r] /\ threads' = threads
      \/ /\ job' = job
         /\ threads' = [threads EXCEPT ![t] =
              [at |-> "answer", command |-> c, visited |-> 0, seen |-> {},
               result |-> <<"error">>]]
  BY <1>3 DEF handle_read, Idle
<1>4. /\ job[c] = Nothing
      /\ \A v \in Threads : threads[v].command # c
      /\ threads[t].command = Nothing
      /\ Nothing \notin Commands
      /\ job \in [Commands -> Jobs \cup {Nothing}]
  BY <1>1, <1>3, QueueAssumption DEF IInv, TypeOK, SocketInv, ThreadInv, OnThread
<1>5. ASSUME NEW r \in Jobs, job' = [job EXCEPT ![c] = r], threads' = threads
      PROVE  Promise!Receive(c, r)
  <2>1. /\ \A d \in Commands : d # c => job'[d] = job[d]
        /\ job'[c] = r
    BY <1>3, <1>4, <1>5
  <2>2. ResultOf(c) = Nothing /\ ResultOf(c)' = Nothing
    BY <1>3, <1>4, <1>5 DEF ShownResults
  <2>3. [d \in Commands |-> ResultOf(d)]' =
          [[d \in Commands |-> ResultOf(d)] EXCEPT ![c] = Nothing]
    BY <1>3, <1>4, <1>5, <2>1, <2>2, OneResultChanges
  <2>4. [d \in Commands |-> ResultOf(d)]' = [d \in Commands |-> ResultOf(d)]
    BY <2>2, <2>3
  <2> QED BY <1>1, <1>4, <1>5, <2>4 DEF Promise!Receive
<1>6. ASSUME job' = job,
             threads' = [threads EXCEPT ![t] =
               [at |-> "answer", command |-> c, visited |-> 0, seen |-> {},
                result |-> <<"error">>]]
      PROVE  UNCHANGED Promise!vars
  <2>1. /\ threads'[t].command = c
        /\ \A v \in Threads : v # t => threads'[v] = threads[v]
    BY <1>6 DEF IInv, TypeOK
  <2>2. ResultOf(c) = Nothing /\ ResultOf(c)' = Nothing
    BY <1>3, <1>4, <1>6 DEF ShownResults
  <2>3. [d \in Commands |-> ResultOf(d)]' =
          [[d \in Commands |-> ResultOf(d)] EXCEPT ![c] = Nothing]
    BY <1>3, <1>4, <1>6, <2>1, <2>2, OneResultChanges
  <2>4. [d \in Commands |-> ResultOf(d)]' = [d \in Commands |-> ResultOf(d)]
    BY <2>2, <2>3
  <2> QED BY <1>1, <1>6, <2>4 DEF Promise!vars
<1> QED BY <1>3, <1>5, <1>6, <1>7

(* Every step is one of AtomicCommands, or is not seen there.               *)
LEMMA StepsMap ==
  ASSUME IInv, IInv', ShownResults, ShownResults', [Next]_vars
  PROVE  [Promise!Next]_(Promise!vars)
<1>1. ASSUME NEW c \in Commands, NEW r \in Requests, Send(c, r)
      PROVE  UNCHANGED Promise!vars
  <2>1. UNCHANGED <<threads, saved, job>>
    BY <1>1 DEF Send
  <2>2. UNCHANGED [d \in Commands |-> ResultOf(d)]
    BY <2>1, ResultsStay
  <2> QED BY <2>1, <2>2 DEF Promise!vars
<1>2. ASSUME NEW s \in Sessions, ReadCompletes(s)
      PROVE  UNCHANGED Promise!vars
  <2>1. UNCHANGED <<threads, saved, job>>
    BY <1>2 DEF ReadCompletes
  <2>2. UNCHANGED [d \in Commands |-> ResultOf(d)]
    BY <2>1, ResultsStay
  <2> QED BY <2>1, <2>2 DEF Promise!vars
<1>3. ASSUME NEW t \in Threads, NEW s \in Sessions, handle_read(t, s)
      PROVE  [Promise!Next]_(Promise!vars)
  <2>1. \/ \E c \in Commands, r \in Jobs : Promise!Receive(c, r)
        \/ UNCHANGED Promise!vars
    BY <1>3, ReadMaps
  <2>2. Jobs = Promise!Requests
    BY DEF Jobs, Promise!Requests
  <2> QED BY <2>1, <2>2 DEF Promise!Next
<1>4. ASSUME NEW t \in Threads, NEW c \in Commands, ExecuteJob(t, c)
      PROVE  [Promise!Next]_(Promise!vars)
  <2>1. Promise!Fail(c) \/ UNCHANGED Promise!vars
    BY <1>4, JobStarts
  <2> QED BY <2>1 DEF Promise!Next, Promise!Perform
<1>5. ASSUME NEW t \in Threads, Respond(t)
      PROVE  [Promise!Next]_(Promise!vars)
  <2>0. threads[t].at = "answer"
    BY <1>5 DEF Respond
  <2>a. PICK c \in Commands : c = threads[t].command
    BY <2>0, RequestsOfThreads
  <2>1. /\ threads[t].at = "answer"
        /\ job' = [job EXCEPT ![c] = Nothing]
        /\ threads' = [threads EXCEPT ![t] = Idle]
        /\ saved' = saved
    BY <1>5, <2>a DEF Respond
  <2>2. /\ \A v \in Threads : v # t => threads[v].command # c
        /\ threads[t].result \in Results
    BY <2>1, <2>a, RequestsOfThreads DEF IInv, WorkInv, Work
  <2>3. /\ threads'[t].command = Nothing
        /\ \A v \in Threads : v # t => threads'[v] = threads[v]
        /\ \A d \in Commands : d # c => job'[d] = job[d]
        /\ job'[c] = Nothing
    BY <2>1 DEF IInv, TypeOK, Idle
  <2>4. Nothing \notin Commands \cup Results
    BY QueueAssumption
  <2>6. ResultOf(c)' = Nothing
    BY <2>3 DEF ShownResults
  <2>7. [d \in Commands |-> ResultOf(d)]' =
          [[d \in Commands |-> ResultOf(d)] EXCEPT ![c] = Nothing]
    BY <2>2, <2>3, <2>4, <2>6, <2>a, OneResultChanges
  <2>8. CASE job[c] # Nothing
    <3>1. ResultOf(c) # Nothing
      BY <2>1, <2>2, <2>4, <2>8, <2>a DEF ShownResults
    <3>2. Promise!Answer(c)
      BY <2>1, <3>1, <2>7 DEF Promise!Answer
    <3> QED BY <3>2 DEF Promise!Next
  <2>9. CASE job[c] = Nothing
    <3>1. ResultOf(c) = Nothing
      BY <2>9 DEF ShownResults
    <3>2. [d \in Commands |-> ResultOf(d)]' = [d \in Commands |-> ResultOf(d)]
      BY <2>7, <3>1
    <3>3. job' = job
      BY <2>1, <2>9 DEF IInv, TypeOK
    <3> QED BY <2>1, <3>2, <3>3 DEF Promise!vars
  <2> QED BY <2>8, <2>9
<1>6. ASSUME NEW t \in Threads, Step(t)
      PROVE  [Promise!Next]_(Promise!vars)
  <2>1. CASE QueryEnds(t) \/ QueryThrows(t) \/ saveToFile(t) \/ UpdateThrows(t)
    BY <2>1, JobEnds DEF Promise!Next
  <2>2. CASE \/ LockShared(t) \/ LockUpgrade(t) \/ UpgradeToUnique(t)
             \/ UnlockShared(t) \/ UnlockUnique(t) \/ VisitTable(t) \/ ChangeTable(t)
    BY <2>2, JobStutters
  <2> QED BY <1>3, <1>4, <1>5, <1>6, <2>1, <2>2 DEF Step
<1>7. CASE UNCHANGED vars
  <2>1. UNCHANGED <<threads, saved, job>>
    BY <1>7 DEF vars
  <2>2. UNCHANGED [d \in Commands |-> ResultOf(d)]
    BY <2>1, ResultsStay
  <2> QED BY <2>1, <2>2 DEF Promise!vars
<1> QED BY <1>1, <1>2, <1>6, <1>7 DEF Next

(* The server keeps the promise of AtomicCommands: what goes through        *)
(* sessions, queue, threads and mutex acts as if each command ran at one    *)
(* moment, or failed and did nothing.                                       *)
THEOREM Atomicity == Safety => ImplementsPromise
<1>1. Init => Promise!Init
  <2> SUFFICES ASSUME Init PROVE Promise!Init
    OBVIOUS
  <2>1. \A c \in Commands : ResultOf(c) = Nothing
    BY QueueAssumption DEF Init, ResultOf, Ended, Idle
  <2> QED BY <2>1 DEF Init, Promise!Init
<1>2. IInv /\ IInv' /\ ShownResults /\ ShownResults' /\ [Next]_vars
        => [Promise!Next]_(Promise!vars)
  BY StepsMap
<1> QED BY <1>1, <1>2, AlwaysIInv, ResultsOfThreads, PTL
    DEF Safety, ImplementsPromise, Promise!Safety
=============================================================================
