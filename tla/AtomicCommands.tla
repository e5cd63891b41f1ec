---------------------------- MODULE AtomicCommands ----------------------------
(***************************************************************************)
(* What the server promises to its clients: a command that it received     *)
(* takes effect at one moment, or fails and has none, and is answered      *)
(* after it.  Commands of one session that are under way together may take *)
(* effect in any order.  A text that is no command does not appear here.   *)
(***************************************************************************)
CONSTANTS
  Commands,  \* the commands that can be under way together
  Values,    \* states of the database
  Nothing    \* no request, no result

Requests == {<<"select">>} \cup {<<"update", v>> : v \in Values}
Results == {<<"rows", S>> : S \in SUBSET Values} \cup {<<"done">>, <<"error">>}

VARIABLES
  database,  \* the state the next command meets
  request,   \* what each command asks for, until it is answered
  result     \* the result of each command that took effect, until it is sent

vars == <<database, request, result>>

Init ==
  /\ database \in Values
  /\ request = [c \in Commands |-> Nothing]
  /\ result = [c \in Commands |-> Nothing]

Receive(c, r) ==
  /\ request[c] = Nothing
  /\ request' = [request EXCEPT ![c] = r]
  /\ UNCHANGED <<database, result>>

TakesEffect(c, res) ==
  /\ request[c] # Nothing
  /\ result[c] = Nothing
  /\ result' = [result EXCEPT ![c] = res]
  /\ UNCHANGED request

Select(c) ==
  /\ request[c] = <<"select">>
  /\ TakesEffect(c, <<"rows", {database}>>)
  /\ UNCHANGED database

Update(c, v) ==
  /\ request[c] = <<"update", v>>
  /\ TakesEffect(c, <<"done">>)
  /\ database' = v

Fail(c) ==
  /\ TakesEffect(c, <<"error">>)
  /\ UNCHANGED database

Perform(c) == Select(c) \/ (\E v \in Values : Update(c, v)) \/ Fail(c)

Answer(c) ==
  /\ result[c] # Nothing
  /\ request' = [request EXCEPT ![c] = Nothing]
  /\ result' = [result EXCEPT ![c] = Nothing]
  /\ UNCHANGED database

Next ==
  \E c \in Commands :
    (\E r \in Requests : Receive(c, r)) \/ Perform(c) \/ Answer(c)

Safety == Init /\ [][Next]_vars
Spec == Safety /\ \A c \in Commands : WF_vars(Perform(c) \/ Answer(c))
================================================================================
