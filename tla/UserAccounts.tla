------------------------------ MODULE UserAccounts -----------------------------
(***************************************************************************)
(* User accounts, sessions and the permission check of every job           *)
(* (src/user, src/isession.h, src/job.cc).                                 *)
(*                                                                         *)
(* A job is run by one of the worker threads in two steps: the group the   *)
(* session holds is checked without any lock, then the job waits for the   *)
(* database lock and runs.  The session keeps the name, id and group read  *)
(* at its login.  The ids of removed accounts are given out again, and     *)
(* INSERT stores the id of the session as the author of its record.        *)
(*                                                                         *)
(* The run of a job is one step: its lock excludes every other job that    *)
(* touches accounts or sessions.  A job whose check fails is answered at   *)
(* once and changes nothing, it has no action here.                        *)
(***************************************************************************)
EXTENDS Naturals, Sequences, FiniteSets

CONSTANTS
  Names,       \* user names
  Admin,       \* ADMIN_USERNAME
  Passwords,
  AdminPassword,
  NoName,      \* the empty name of a guest session
  NoAccount,   \* a name that is not in _userFileCache
  Sessions,
  Workers,     \* the threads that run jobs
  NoJob,
  NoRecord,
  MaxId,       \* bound on the user ids given out
  Pipelining,  \* whether a client sends a command before the last reply
  Removing,    \* whether USER DELETE is sent
  Restarting   \* whether the server is restarted

Groups == {"GUEST", "EDITOR", "ADMIN"}
Account == [id : 1..MaxId, group : {"EDITOR", "ADMIN"}, password : Passwords]

(* Commands, by their permission type. *)
ViewDB == {<<"login", n, p>> : n \in Names, p \in Passwords}
ModifyDB == {<<"insert">>}
LoggedInUser ==
  {<<"logout">>} \cup {<<"password", p, q>> : p, q \in Passwords}
UserOp ==
  {<<"add", n, p>> : n \in Names, p \in Passwords}
    \cup {<<"reset", n, p>> : n \in Names, p \in Passwords}
    \cup {<<c, n>> : c \in {"promote", "demote"}, n \in Names}
    \cup {<<"delete", n>> : n \in IF Removing THEN Names ELSE {}}
Commands == ViewDB \cup ModifyDB \cup LoggedInUser \cup UserOp

Job == [session : Sessions, command : Commands, group : Groups]

ASSUME AccountsAssumption ==
  /\ Admin \in Names
  /\ AdminPassword \in Passwords
  /\ NoName \notin Names
  /\ NoAccount \notin Account
  /\ NoJob \notin Job
  /\ MaxId \in Nat \ {0}
  /\ {Pipelining, Removing, Restarting} \subseteq BOOLEAN

VARIABLES
  users,     \* _userFileCache
  idGen,     \* the next new id and the stack of released ids
  sessions,  \* name, id and group each session holds
  jobs,      \* the job each worker has checked and not yet run
  record     \* one record: its author id, and the name of the session then

vars == <<users, idGen, sessions, jobs, record>>

Known == {n \in Names : users[n] # NoAccount}
Guest == [name |-> NoName, id |-> 0, group |-> "GUEST"]

(* The group's permissions.  Mutant: editors get those of administrators. *)
PermittedToEditors(group) ==
  IF group = "GUEST" THEN ViewDB ELSE Commands

Permitted(group) ==
  IF group = "GUEST" THEN ViewDB
  ELSE IF group = "EDITOR" THEN ViewDB \cup ModifyDB \cup LoggedInUser
  ELSE Commands

(* IdGenerator::getId.  Mutant of Taken: the id stays in the pool. *)
getId(gen) == IF gen.pool = <<>> THEN gen.count ELSE Head(gen.pool)
TakenLeft(gen) == IF gen.pool = <<>> THEN [gen EXCEPT !.count = @ + 1] ELSE gen
Taken(gen) == IF gen.pool = <<>> THEN [gen EXCEPT !.count = @ + 1]
              ELSE [gen EXCEPT !.pool = Tail(@)]

AdminOnly ==
  [n \in Names |-> IF n = Admin
                   THEN [id |-> 1, group |-> "ADMIN", password |-> AdminPassword]
                   ELSE NoAccount]

FirstId == [count |-> 2, pool |-> <<>>]
AllGuests == [s \in Sessions |-> Guest]
AllIdle == [w \in Workers |-> NoJob]

Init ==
  /\ users = AdminOnly
  /\ idGen = FirstId
  /\ sessions = AllGuests
  /\ jobs = AllIdle
  /\ record = NoRecord

-----------------------------------------------------------------------------
(* Every job under way may still take a new id (bound MaxId). *)
IdsAreLeft ==
  idGen.count + Cardinality({w \in Workers : jobs[w] # NoJob}) <= MaxId

(* A worker takes a command of a session and checks the session's group. *)
CheckPermission(w, s, command) ==
  /\ jobs[w] = NoJob
  /\ Pipelining \/ \A v \in Workers : jobs[v] # NoJob => jobs[v].session # s
  /\ command \in Permitted(sessions[s].group)
  /\ command[1] = "add" => IdsAreLeft
  /\ jobs' = [jobs EXCEPT ![w] = [session |-> s, command |-> command,
                                  group |-> sessions[s].group]]
  /\ UNCHANGED <<users, idGen, sessions, record>>

(* The worker has the lock and runs its job. *)
Runs(w, command) ==
  /\ jobs[w] # NoJob
  /\ jobs[w].command = command
  /\ jobs' = [jobs EXCEPT ![w] = NoJob]

(* Mutant of login: the session keeps the id it had. *)
loginKeepingId(w, n, p) ==
  /\ Runs(w, <<"login", n, p>>)
  /\ IF n \in Known /\ users[n].password = p
     THEN sessions' = [sessions EXCEPT ![jobs[w].session] =
                         [@ EXCEPT !.name = n, !.group = users[n].group]]
     ELSE UNCHANGED sessions
  /\ UNCHANGED <<users, idGen, record>>

login(w, n, p) ==
  /\ Runs(w, <<"login", n, p>>)
  /\ IF n \in Known /\ users[n].password = p
     THEN sessions' = [sessions EXCEPT ![jobs[w].session] =
                         [name |-> n, id |-> users[n].id, group |-> users[n].group]]
     ELSE UNCHANGED sessions
  /\ UNCHANGED <<users, idGen, record>>

(* Mutant of logout: every session of the user is logged out. *)
logoutEverywhere(w) ==
  /\ Runs(w, <<"logout">>)
  /\ sessions' = [s \in Sessions |->
       IF sessions[s].name = sessions[jobs[w].session].name THEN Guest ELSE sessions[s]]
  /\ UNCHANGED <<users, idGen, record>>

logout(w) ==
  /\ Runs(w, <<"logout">>)
  /\ sessions' = [sessions EXCEPT ![jobs[w].session] = Guest]
  /\ UNCHANGED <<users, idGen, record>>

(* Mutant of addUser: the group of the new account is not set. *)
addUserAsGuest(w, n, p) ==
  /\ Runs(w, <<"add", n, p>>)
  /\ getId(idGen) <= MaxId
  /\ idGen' = Taken(idGen)
  /\ users' = IF n \in Known THEN users
              ELSE [users EXCEPT ![n] = [id |-> getId(idGen), group |-> "GUEST",
                                         password |-> p]]
  /\ UNCHANGED <<sessions, record>>

(* The id is taken before the name is looked up. *)
addUser(w, n, p) ==
  /\ Runs(w, <<"add", n, p>>)
  /\ getId(idGen) <= MaxId
  /\ idGen' = Taken(idGen)
  /\ users' = IF n \in Known THEN users
              ELSE [users EXCEPT ![n] = [id |-> getId(idGen), group |-> "EDITOR",
                                         password |-> p]]
  /\ UNCHANGED <<sessions, record>>

removeUser(w, n) ==
  /\ Runs(w, <<"delete", n>>)
  /\ IF n \in Known
     THEN /\ idGen' = [idGen EXCEPT !.pool = <<users[n].id>> \o @]
          /\ users' = [users EXCEPT ![n] = NoAccount]
     ELSE UNCHANGED <<users, idGen>>
  /\ UNCHANGED <<sessions, record>>

(* PROMOTE an editor, DEMOTE an administrator. *)
changeUserGroup(w, n, command, from, to) ==
  /\ Runs(w, <<command, n>>)
  /\ users' = IF n \in Known /\ users[n].group = from
              THEN [users EXCEPT ![n].group = to] ELSE users
  /\ UNCHANGED <<idGen, sessions, record>>

resetPassword(w, n, p) ==
  /\ Runs(w, <<"reset", n, p>>)
  /\ users' = IF n \in Known THEN [users EXCEPT ![n].password = p] ELSE users
  /\ UNCHANGED <<idGen, sessions, record>>

changeUserPassword(w, old, new) ==
  LET s == sessions[jobs[w].session]
  IN  /\ Runs(w, <<"password", old, new>>)
      /\ users' = IF s.group # "GUEST" /\ s.name \in Known
                       /\ users[s.name].password = old
                  THEN [users EXCEPT ![s.name].password = new] ELSE users
      /\ UNCHANGED <<idGen, sessions, record>>

(* Mutant of insertRecord: the session is that of another thread's job. *)
insertRecordOfAnother(w) ==
  /\ Runs(w, <<"insert">>)
  /\ \E t \in Sessions :
       record' \in {record, [author |-> sessions[t].id,
                            by |-> sessions[jobs[w].session].name]}
  /\ UNCHANGED <<users, idGen, sessions>>

(* The default metadata of a new record names the session's user.  The      *)
(* model follows any one of the records.                                    *)
insertRecord(w) ==
  LET s == sessions[jobs[w].session]
  IN  /\ Runs(w, <<"insert">>)
      /\ record' \in {record, [author |-> s.id, by |-> s.name]}
      /\ UNCHANGED <<users, idGen, sessions>>

(* The accounts of the user file are not read back: init adds the           *)
(* administrator to an empty cache and overwrites the file.  Records stay.  *)
Restart ==
  /\ Restarting
  /\ users' = AdminOnly
  /\ idGen' = FirstId
  /\ sessions' = AllGuests
  /\ jobs' = AllIdle
  /\ UNCHANGED record

RunJob(w) ==
  \/ \E n \in Names, p \in Passwords :
       login(w, n, p) \/ addUser(w, n, p) \/ resetPassword(w, n, p)
  \/ \E n \in Names :
       \/ removeUser(w, n)
       \/ changeUserGroup(w, n, "promote", "EDITOR", "ADMIN")
       \/ changeUserGroup(w, n, "demote", "ADMIN", "EDITOR")
  \/ \E old, new \in Passwords : changeUserPassword(w, old, new)
  \/ logout(w)
  \/ insertRecord(w)

Next ==
  \/ \E w \in Workers :
       \/ \E s \in Sessions, command \in Commands : CheckPermission(w, s, command)
       \/ RunJob(w)
  \/ Restart

Spec == Init /\ [][Next]_vars

-----------------------------------------------------------------------------
(* The name shown for an author id; NoName is "User not found - account     *)
(* deleted".                                                                *)
getUserName(id) ==
  IF \E n \in Known : users[n].id = id
  THEN CHOOSE n \in Known : users[n].id = id ELSE NoName

TypeOK ==
  /\ users \in [Names -> Account \cup {NoAccount}]
  /\ idGen \in [count : 2..(MaxId + 1), pool : Seq(1..MaxId)]
  /\ sessions \in [Sessions -> [name : Names \cup {NoName}, id : 0..MaxId,
                                group : Groups]]
  /\ jobs \in [Workers -> Job \cup {NoJob}]
  /\ record \in [author : 0..MaxId, by : Names \cup {NoName}] \cup {NoRecord}

(* An author id names one account: no two accounts have the same id, and no *)
(* id that waits in the pool, or that is still to be given out, is in use.  *)
IdsAreUnique ==
  /\ \A m, n \in Known : users[m].id = users[n].id => m = n
  /\ \A n \in Known : users[n].id < idGen.count
  /\ \A i \in DOMAIN idGen.pool :
       /\ idGen.pool[i] < idGen.count
       /\ \A n \in Known : users[n].id # idGen.pool[i]
       /\ \A j \in DOMAIN idGen.pool : idGen.pool[i] = idGen.pool[j] => i = j

(* Name, id and group of a session are those of a user or of a guest, never *)
(* a mixture: login and logout set all three.                               *)
SessionIsWhole ==
  \A s \in Sessions : \/ sessions[s] = Guest
                      \/ /\ sessions[s].name \in Names
                         /\ sessions[s].id # 0
                         /\ sessions[s].group # "GUEST"

(* An account is changed only by a job whose session was an administrator   *)
(* when it was checked, or by its own user's USER PASSWORD; a restart apart.*)
OnlyAdminsChangeAccounts ==
  [][\A n \in Names : users'[n] # users[n] =>
       \/ users' = AdminOnly /\ jobs' = AllIdle
       \/ \E w \in Workers :
            /\ jobs[w] # NoJob
            /\ jobs'[w] = NoJob
            /\ \/ jobs[w].group = "ADMIN"
               \/ /\ jobs[w].command[1] = "password"
                  /\ sessions[jobs[w].session].name = n]_vars

(* As long as no account is removed and the server is not restarted, the    *)
(* name shown for the author of a record is the user who inserted it.       *)
AttributionIsTrue ==
  record # NoRecord => getUserName(record.author) \in {record.by, NoName}

(* ... and a logged-in session holds the id of its user's account. *)
SessionIsItsUser ==
  \A s \in Sessions : sessions[s] # Guest =>
    /\ sessions[s].name \in Known
    /\ users[sessions[s].name].id = sessions[s].id

(* A job that waits for the lock is one its session may still run: for a    *)
(* client that waits for each reply, whatever the other sessions do.        *)
RunsAsChecked ==
  \A w \in Workers : jobs[w] # NoJob =>
    jobs[w].command \in Permitted(sessions[jobs[w].session].group)
================================================================================
