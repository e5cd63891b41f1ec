------------------------------- MODULE JobQueue --------------------------------
(***************************************************************************)
(* How commands are received, queued and run (src/session.cc,              *)
(* src/command_interpreter.cc, src/job_queue.cc, src/job.cc).              *)
(*                                                                         *)
(* The threads of the io_service serve one queue of handlers, in its       *)
(* order: completed reads of sessions, and jobs.  handle_read parses a     *)
(* command and posts its job, or answers it at once when it does not       *)
(* parse; a job takes the database mutex, shared or exclusive, runs, lets  *)
(* it go and answers.  A job that updates changes the tables one after the *)
(* other, then saves them; one that throws reads the saved ones back.      *)
(*                                                                         *)
(* The mutex is boost's: an update takes it first as upgradable, then      *)
(* waits for the readers there are, while others may still come in; the    *)
(* last reader hands it over.                                              *)
(***************************************************************************)
EXTENDS Naturals, Sequences

CONSTANTS
  Sessions,
  Patient,     \* the sessions whose client waits for each answer
  Outstanding, \* bound on the commands other clients have under way
  Threads,     \* main's thread and THREAD_COUNT more
  Values,      \* states of a table
  Tables,      \* number of tables an update changes and a query visits
  Nothing

Commands == {c \in Sessions \X (1..Outstanding) : c[1] \in Patient => c[2] = 1}
Jobs == {<<"select">>} \cup {<<"update", v>> : v \in Values}
Requests == Jobs \cup {<<"malformed">>}
Results == {<<"rows", S>> : S \in SUBSET Values} \cup {<<"done">>, <<"error">>}
Handlers == {<<"read", s>> : s \in Sessions} \cup {<<"job", c>> : c \in Commands}
Places == {"idle", "share", "upgrade", "await", "drain", "query", "change",
           "unlock", "answer"}

Thread == [at : Places, command : Commands \cup {Nothing}, visited : 0..Tables,
           seen : SUBSET Values, result : Results \cup {Nothing}]

ASSUME QueueAssumption ==
  /\ Patient \subseteq Sessions
  /\ Outstanding \in Nat \ {0}
  /\ Tables \in Nat \ {0}
  /\ Nothing \notin Requests \cup Results \cup Threads \cup Commands

VARIABLES
  request,   \* the command each client has under way, in each of its slots
  socket,    \* commands sent and not yet read, by session
  listening, \* the sessions with a pending read
  job,       \* the Job made for each command, until it has answered
  handlers,  \* the handlers posted to the io_service
  threads,   \* where each thread is, with which command
  mutex,     \* Singletons::databaseMutex
  tables,    \* the tables in memory
  saved      \* the state of the data file

vars == <<request, socket, listening, job, handlers, threads, mutex, tables, saved>>

Idle == [at |-> "idle", command |-> Nothing, visited |-> 0, seen |-> {},
         result |-> Nothing]
Free == [shared |-> {}, upgrade |-> Nothing, exclusive |-> Nothing]
AllOf(v) == [i \in 1..Tables |-> v]

Init ==
  /\ request = [c \in Commands |-> Nothing]
  /\ socket = [s \in Sessions |-> <<>>]
  /\ listening = Sessions
  /\ job = [c \in Commands |-> Nothing]
  /\ handlers = <<>>
  /\ threads = [t \in Threads |-> Idle]
  /\ mutex = Free
  /\ saved \in Values
  /\ tables = AllOf(saved)

-----------------------------------------------------------------------------
(* Clients, sessions and the queue. *)

Send(c, r) ==
  /\ request[c] = Nothing
  /\ request' = [request EXCEPT ![c] = r]
  /\ socket' = [socket EXCEPT ![c[1]] = Append(@, c)]
  /\ UNCHANGED <<listening, job, handlers, threads, mutex, tables, saved>>

(* The pending read of a session completes.  A command fits one segment and *)
(* one chunk: what has arrived when its handler runs are whole commands.    *)
ReadCompletes(s) ==
  /\ s \in listening
  /\ socket[s] # <<>>
  /\ listening' = listening \ {s}
  /\ handlers' = Append(handlers, <<"read", s>>)
  /\ UNCHANGED <<request, socket, job, threads, mutex, tables, saved>>

Moves(t, from, to) ==
  /\ threads[t].at = from
  /\ threads' = [threads EXCEPT ![t].at = to]

Finishes(t, from, to, result) ==
  /\ threads[t].at = from
  /\ threads' = [threads EXCEPT ![t].at = to, ![t].result = result]

(* An idle thread takes the first handler. *)
Takes(t, handler) ==
  /\ threads[t].at = "idle"
  /\ handlers # <<>>
  /\ Head(handlers) = handler

(* The text of commands that are read together is that of one: the newline  *)
(* between them is removed, and what it asks for, if it parses, may be      *)
(* neither of them.                                                         *)
TextOf(s, n) == IF n = 1 THEN {request[Head(socket[s])]} ELSE Requests

(* Mutant of handle_read: the text of the command is not cleared. *)
handle_readAgain(t, s) ==
  LET c == Head(socket[s])
  IN  /\ Takes(t, <<"read", s>>)
      /\ request[c] \in Jobs
      /\ job' = [job EXCEPT ![c] = request[c]]
      /\ handlers' = Append(Tail(handlers), <<"job", c>>)
      /\ listening' = listening \cup {s}
      /\ UNCHANGED <<request, socket, threads, mutex, tables, saved>>

(* The first of the commands read gets the answer, the others none.         *)
handle_read(t, s) ==
  LET c == Head(socket[s])
  IN  /\ Takes(t, <<"read", s>>)
      /\ \E n \in 1..Len(socket[s]) :
           /\ socket' = [socket EXCEPT ![s] = SubSeq(@, n + 1, Len(@))]
           /\ \/ \E r \in TextOf(s, n) \cap Jobs :
                   /\ job' = [job EXCEPT ![c] = r]
                   /\ handlers' = Append(Tail(handlers), <<"job", c>>)
                   /\ listening' = listening \cup {s}
                   /\ UNCHANGED threads
              \/ /\ <<"malformed">> \in TextOf(s, n)
                 /\ handlers' = Tail(handlers)
                 /\ threads' = [threads EXCEPT ![t] =
                      [Idle EXCEPT !.at = "answer", !.command = c,
                                   !.result = <<"error">>]]
                 /\ UNCHANGED <<listening, job>>
      /\ UNCHANGED <<request, mutex, tables, saved>>

(* The job starts with the check of its session's permission. *)
ExecuteJob(t, c) ==
  /\ Takes(t, <<"job", c>>)
  /\ handlers' = Tail(handlers)
  /\ \/ threads' = [threads EXCEPT ![t] =
          [Idle EXCEPT !.command = c,
                       !.at = IF job[c] = <<"select">> THEN "share" ELSE "upgrade"]]
     \/ threads' = [threads EXCEPT ![t] =
          [Idle EXCEPT !.command = c, !.at = "answer", !.result = <<"error">>]]
  /\ UNCHANGED <<request, socket, listening, job, mutex, tables, saved>>

(* Mutant of Respond: no read is started after an answer. *)
RespondOnly(t) ==
  /\ threads[t].at = "answer"
  /\ request' = [request EXCEPT ![threads[t].command] = Nothing]
  /\ job' = [job EXCEPT ![threads[t].command] = Nothing]
  /\ threads' = [threads EXCEPT ![t] = Idle]
  /\ UNCHANGED <<socket, listening, handlers, mutex, tables, saved>>

(* respond sends the result; when there was no job it is handle_read that   *)
(* answers, and waits for the next command of its session.                  *)
Respond(t) ==
  LET c == threads[t].command
  IN  /\ threads[t].at = "answer"
      /\ request' = [request EXCEPT ![c] = Nothing]
      /\ job' = [job EXCEPT ![c] = Nothing]
      /\ listening' = IF job[c] = Nothing THEN listening \cup {c[1]} ELSE listening
      /\ threads' = [threads EXCEPT ![t] = Idle]
      /\ UNCHANGED <<socket, handlers, mutex, tables, saved>>

-----------------------------------------------------------------------------
(* The mutex. *)

(* Mutant of LockShared: a query does not wait for the writer. *)
LockSharedAnyway(t) ==
  /\ Moves(t, "share", "query")
  /\ mutex' = [mutex EXCEPT !.shared = @ \cup {t}]
  /\ UNCHANGED <<request, socket, listening, job, handlers, tables, saved>>

LockShared(t) ==
  /\ Moves(t, "share", "query")
  /\ mutex.exclusive = Nothing
  /\ mutex' = [mutex EXCEPT !.shared = @ \cup {t}]
  /\ UNCHANGED <<request, socket, listening, job, handlers, tables, saved>>

LockUpgrade(t) ==
  /\ Moves(t, "upgrade", "await")
  /\ mutex.exclusive = Nothing
  /\ mutex.upgrade = Nothing
  /\ mutex' = [mutex EXCEPT !.upgrade = t]
  /\ UNCHANGED <<request, socket, listening, job, handlers, tables, saved>>

HandedTo(t) == [shared |-> {}, upgrade |-> Nothing, exclusive |-> t]

(* Mutant of UpgradeToUnique: the readers are not waited for. *)
UpgradeToUniqueAtOnce(t) ==
  /\ Moves(t, "await", "change")
  /\ mutex' = [mutex EXCEPT !.upgrade = Nothing, !.exclusive = t]
  /\ UNCHANGED <<request, socket, listening, job, handlers, tables, saved>>

(* upgrade_to_unique_lock: with readers inside, it sleeps. *)
UpgradeToUnique(t) ==
  /\ \/ /\ mutex.shared = {}
        /\ Moves(t, "await", "change")
        /\ mutex' = HandedTo(t)
     \/ /\ mutex.shared # {}
        /\ Moves(t, "await", "drain")
        /\ UNCHANGED mutex
  /\ UNCHANGED <<request, socket, listening, job, handlers, tables, saved>>

(* The last reader hands the mutex to the thread that sleeps. *)
UnlockShared(t) ==
  LET left == mutex.shared \ {t}
      u == mutex.upgrade
      hands == left = {} /\ u # Nothing /\ threads[u].at = "drain"
  IN  /\ threads[t].at = "unlock"
      /\ t \in mutex.shared
      /\ mutex' = IF hands THEN HandedTo(u) ELSE [mutex EXCEPT !.shared = left]
      /\ threads' = [v \in Threads |->
           IF v = t THEN [threads[t] EXCEPT !.at = "answer"]
           ELSE IF hands /\ v = u THEN [threads[u] EXCEPT !.at = "change"]
           ELSE threads[v]]
      /\ UNCHANGED <<request, socket, listening, job, handlers, tables, saved>>

(* Both locks of the update go, one after the other. *)
UnlockUnique(t) ==
  /\ Moves(t, "unlock", "answer")
  /\ mutex.exclusive = t
  /\ mutex' = Free
  /\ UNCHANGED <<request, socket, listening, job, handlers, tables, saved>>

-----------------------------------------------------------------------------
(* The work of a job. *)

VisitTable(t) ==
  LET n == threads[t].visited + 1
  IN  /\ threads[t].at = "query"
      /\ n <= Tables
      /\ threads' = [threads EXCEPT ![t].visited = n, ![t].seen = @ \cup {tables[n]}]
      /\ UNCHANGED <<request, socket, listening, job, handlers, mutex, tables, saved>>

QueryEnds(t) ==
  /\ threads[t].visited = Tables
  /\ Finishes(t, "query", "unlock", <<"rows", threads[t].seen>>)
  /\ UNCHANGED <<request, socket, listening, job, handlers, mutex, tables, saved>>

QueryThrows(t) ==
  /\ Finishes(t, "query", "unlock", <<"error">>)
  /\ UNCHANGED <<request, socket, listening, job, handlers, mutex, tables, saved>>

(* Mutant of ChangeTable: one table too many. *)
ChangeTablePastEnd(t) ==
  LET n == threads[t].visited + 1
  IN  /\ threads[t].at = "change"
      /\ n <= Tables + 1
      /\ tables' = [tables EXCEPT ![n] = job[threads[t].command][2]]
      /\ threads' = [threads EXCEPT ![t].visited = n]
      /\ UNCHANGED <<request, socket, listening, job, handlers, mutex, saved>>

ChangeTable(t) ==
  LET n == threads[t].visited + 1
  IN  /\ threads[t].at = "change"
      /\ n <= Tables
      /\ tables' = [tables EXCEPT ![n] = job[threads[t].command][2]]
      /\ threads' = [threads EXCEPT ![t].visited = n]
      /\ UNCHANGED <<request, socket, listening, job, handlers, mutex, saved>>

saveToFile(t) ==
  /\ threads[t].visited = Tables
  /\ Finishes(t, "change", "unlock", <<"done">>)
  /\ saved' = job[threads[t].command][2]
  /\ UNCHANGED <<request, socket, listening, job, handlers, mutex, tables>>

(* Mutant of UpdateThrows: what was changed stays. *)
UpdateThrowsInTheMiddle(t) ==
  /\ Finishes(t, "change", "unlock", <<"error">>)
  /\ UNCHANGED <<request, socket, listening, job, handlers, mutex, tables, saved>>

UpdateThrows(t) ==
  /\ Finishes(t, "change", "unlock", <<"error">>)
  /\ tables' = AllOf(saved)
  /\ UNCHANGED <<request, socket, listening, job, handlers, mutex, saved>>

Step(t) ==
  \/ \E s \in Sessions : handle_read(t, s)
  \/ \E c \in Commands : ExecuteJob(t, c)
  \/ Respond(t)
  \/ LockShared(t) \/ LockUpgrade(t) \/ UpgradeToUnique(t)
  \/ UnlockShared(t) \/ UnlockUnique(t)
  \/ VisitTable(t) \/ QueryEnds(t) \/ QueryThrows(t)
  \/ ChangeTable(t) \/ saveToFile(t) \/ UpdateThrows(t)

Next ==
  \/ \E c \in Commands, r \in Requests : Send(c, r)
  \/ \E s \in Sessions : ReadCompletes(s)
  \/ \E t \in Threads : Step(t)

Safety == Init /\ [][Next]_vars

(* The operating system runs every thread that can go on, and the reactor   *)
(* completes a read for which there is data.  Every unlock of the mutex     *)
(* wakes all that wait to take it: a thread does not lose that race for     *)
(* ever.  No such assumption is made of UpgradeToUnique, nor of clients.    *)
Fairness ==
  /\ \A s \in Sessions : WF_vars(ReadCompletes(s))
  /\ \A t \in Threads : /\ WF_vars(Step(t))
                         /\ SF_vars(LockShared(t))
                         /\ SF_vars(LockUpgrade(t))

Spec == Safety /\ Fairness

-----------------------------------------------------------------------------
TypeOK ==
  /\ request \in [Commands -> Requests \cup {Nothing}]
  /\ socket \in [Sessions -> Seq(Commands)]
  /\ listening \subseteq Sessions
  /\ job \in [Commands -> Jobs \cup {Nothing}]
  /\ handlers \in Seq(Handlers)
  /\ threads \in [Threads -> Thread]
  /\ mutex \in [shared : SUBSET Threads, upgrade : Threads \cup {Nothing},
                exclusive : Threads \cup {Nothing}]
  /\ tables \in [1..Tables -> Values]
  /\ saved \in Values

(* A query answers with rows of one state of the database: it never sees    *)
(* the tables while an update is half way, though updates start while it    *)
(* is still under way.                                                      *)
QueriesSeeOneState ==
  \A t \in Threads : threads[t].at = "query" => threads[t].seen \subseteq {saved}

(* Whenever no job holds the mutex exclusively the tables are those of the  *)
(* data file: a failed update has left nothing behind.                      *)
TablesAreSaved ==
  (\A t \in Threads : threads[t].at # "change") => tables = AllOf(saved)

(* A command is in one place at most, from the socket to its answer: none   *)
(* is run twice.  One of a client that waits for its answers is in one      *)
(* until then, and what runs is what was asked: none is lost.  (A client    *)
(* that does not wait may lose those that are read together with another.)  *)
Stages(c) ==
  {<<"socket", i>> : i \in {j \in DOMAIN socket[c[1]] : socket[c[1]][j] = c}}
    \cup {<<"handlers", i>> : i \in {j \in DOMAIN handlers : handlers[j] = <<"job", c>>}}
    \cup {<<"thread", t>> : t \in {u \in Threads : threads[u].command = c}}
EachCommandOnce ==
  \A c \in Commands :
    /\ \A x, y \in Stages(c) : x = y
    /\ request[c] = Nothing => Stages(c) = {}
    /\ c[1] \in Patient =>
         /\ request[c] # Nothing => Stages(c) # {}
         /\ job[c] \in {Nothing, request[c]}

(* The server implements AtomicCommands: the state of the database is what  *)
(* is saved, a command is received when its job is made, and its result is  *)
(* fixed when the job ends.                                                 *)
Ended(c) == {t \in Threads : /\ threads[t].command = c
                             /\ threads[t].at \in {"unlock", "answer"}}
ResultOf(c) == IF job[c] = Nothing \/ Ended(c) = {} THEN Nothing
               ELSE threads[CHOOSE t \in Ended(c) : TRUE].result

Promise == INSTANCE AtomicCommands WITH
  database <- saved, request <- job, result <- [c \in Commands |-> ResultOf(c)]
ImplementsPromise == Promise!Safety

(* Every command of a client that waits is answered, whatever the other     *)
(* clients send: two threads do not keep an update waiting, the last reader *)
(* hands it the mutex.                                                      *)
EveryCommandIsAnswered ==
  \A c \in Commands : c[1] \in Patient =>
    (request[c] # Nothing ~> request[c] = Nothing)
================================================================================
