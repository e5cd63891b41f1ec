---------------------------- MODULE TerminalLogin ----------------------------
(***************************************************************************)
(* Login of the web terminal (src/frontend/public/terminal.js): the stack  *)
(* of interpreters, on which a login is two interpreters that prompt for   *)
(* the user and the password, the mask that hides the password, and the    *)
(* program's authentication, which is asynchronous and may be answered at  *)
(* any time.  One step is one turn of the browser's event loop; methods    *)
(* that call each other within it are functions from a state of the        *)
(* terminal to the next.                                                   *)
(***************************************************************************)
EXTENDS Naturals, SequencesExt

CONSTANTS
  MaxLogins,    \* bound: logins of a behaviour
  MaxCalls,     \* bound: unanswered authentications of a login
  MaxDepth      \* bound: interpreters on the stack

ASSUME LoginAssumption == MaxLogins \in Nat \ {0} /\ MaxCalls \in Nat /\ MaxDepth \in Nat

Logins == 1..MaxLogins

\* What an interpreter is there for.  "read" is the prompt of read(), "sub" one
\* that the program pushes, "main" the first.
Prompts == {"user", "password"}
Roles == {"main", "sub", "read"} \cup Prompts

VARIABLES
  term,     \* the terminal, see TypeOK
  nested,   \* login -> whether it guards a pushed interpreter, or the terminal
  calls,    \* login -> its authentications that are not yet answered
  hasLogin, \* settings.login
  odd       \* history: what has happened, see Odd

vars == <<term, nested, calls, hasLogin, odd>>

\* A login was answered when its password prompt was not up; the program changed
\* the stack during a login; the login of a pushed interpreter failed; masked
\* interpreters were taken off by reset.
Odd == {"astray", "meddled", "failed", "stripped"}

Note(s, what, happened) == IF happened THEN s \cup {what} ELSE s

-----------------------------------------------------------------------------
(* The stack of interpreters.                                              *)

\* An interpreter keeps the mask of the command line while others are on top
\* of it.  `meant` is a history variable: the mask that it was given.
Interpreter(role, n, mask) == [role |-> role, login |-> n, mask |-> "unset", meant |-> mask]

top(t) == Last(t.stack)

push(t, role, n) ==
  LET saved == [t.stack EXCEPT ![Len(t.stack)].mask = t.mask]
  IN [t EXCEPT !.stack = Append(saved, Interpreter(role, n, t.mask))]

set_mask(t, mask) ==
  [t EXCEPT !.mask = mask, !.stack[Len(t.stack)].meant = mask]

clear_loging_storage(t) == [t EXCEPT !.token = FALSE]

(* Mutant of login: the history stays enabled. *)
loginWithHistory(t) ==
  IF t.in_login THEN [t EXCEPT !.thrown = TRUE]
  ELSE IF t.token /\ Len(t.stack) = 1 THEN t
  ELSE push([t EXCEPT !.in_login = TRUE, !.logins = @ + 1, !.handler = TRUE],
            "user", t.logins + 1)

\* A token is stored under the names on the stack, and login_callback stores it
\* when only the main interpreter is left.
login(t) ==
  IF t.in_login THEN [t EXCEPT !.thrown = TRUE]
  ELSE IF t.token /\ Len(t.stack) = 1 THEN t
  ELSE push([t EXCEPT !.in_login = TRUE, !.history = FALSE, !.logins = @ + 1, !.handler = TRUE],
            "user", t.logins + 1)

global_logout(t) == login(clear_loging_storage(t))

(* Mutant of pop: the mask is not restored. *)
popKeepingMask(t) ==
  IF Len(t.stack) = 1 THEN IF hasLogin THEN global_logout(t) ELSE t
  ELSE [t EXCEPT !.stack = Front(@)]

\* Nothing that is popped has a token of its own.
pop(t) ==
  IF Len(t.stack) = 1 THEN IF hasLogin THEN global_logout(t) ELSE t
  ELSE LET left == Front(t.stack)
       IN [t EXCEPT !.stack = left, !.mask = IF Last(left).mask = "unset" THEN @ ELSE Last(left).mask]

\* The loop ends with its first turn: pop returns true or the terminal.
logout(t) == pop(t)

\* pop() of the last interpreter returns true, of which nothing can be called.
PopsTerminal(t) == Len(t.stack) > 1 \/ ~hasLogin

-----------------------------------------------------------------------------
(* login_callback.                                                         *)

\* All but the main interpreter are popped, the one that is logged in to, too.
popAll(t) ==
  LET pops[i \in 1..Len(t.stack)] == IF i = 1 THEN t ELSE pop(pops[i - 1])
  IN pops[Len(t.stack)]

(* Mutant of LoggedIn: the history is not enabled again. *)
LoggedInDisabled(t) ==
  [popAll(t) EXCEPT !.token = TRUE, !.in_login = FALSE, !.handler = FALSE]

\* The token is stored as the terminal's, the only interpreter's that is left.
LoggedIn(t) ==
  [popAll(t) EXCEPT !.history = TRUE, !.token = TRUE, !.in_login = FALSE, !.handler = FALSE]

(* Mutant of WrongPassword: both prompts are popped. *)
WrongPasswordPopsBoth(t) ==
  LET s == pop(t)
  IN IF s.thrown \/ ~PopsTerminal(t) THEN [s EXCEPT !.thrown = TRUE]
     ELSE [set_mask(pop(s), "off") EXCEPT !.handler = FALSE]

\* The terminal's login: back to the prompt for the user.
WrongPassword(t) ==
  LET s == pop(t)
  IN IF s.thrown \/ ~PopsTerminal(t) THEN [s EXCEPT !.thrown = TRUE]
     ELSE [set_mask(s, "off") EXCEPT !.handler = FALSE]

\* The login of a pushed interpreter: its prompts and, in `error`, the
\* interpreter are popped.  The history stays disabled.
NestedFails(t) ==
  LET one == pop([t EXCEPT !.in_login = FALSE])
      two == pop(one)
      three == pop(two)
  IN IF ~PopsTerminal(t) THEN [one EXCEPT !.thrown = TRUE]
     ELSE IF three.thrown THEN three
     ELSE [three EXCEPT !.handler = FALSE]

login_callback(t, n, ok) ==
  IF ok THEN LoggedIn(t) ELSE IF nested[n] THEN NestedFails(t) ELSE WrongPassword(t)

-----------------------------------------------------------------------------
(* Events.                                                                 *)

Fresh == [stack |-> <<Interpreter("main", 0, "off")>>, mask |-> "off", in_login |-> FALSE,
          history |-> TRUE, token |-> FALSE, handler |-> FALSE, logins |-> 0, thrown |-> FALSE]

\* A token may have been stored by an earlier page.
Init ==
  /\ hasLogin \in BOOLEAN
  /\ \E stored \in BOOLEAN :
       LET t == [Fresh EXCEPT !.token = stored /\ hasLogin]
       IN term = IF hasLogin THEN login(t) ELSE t
  /\ nested = [n \in Logins |-> FALSE]
  /\ calls = [n \in Logins |-> 0]
  /\ odd = {}

\* What the turn throws ends with it.
Turn(t) ==
  /\ t.logins <= MaxLogins /\ Len(t.stack) <= MaxDepth
  /\ term' = [t EXCEPT !.thrown = FALSE]
  /\ UNCHANGED hasLogin

ByUser(t) == Turn(t) /\ UNCHANGED <<nested, calls, odd>>

ByProgram(t) ==
  /\ Turn(t)
  /\ odd' = Note(odd, "meddled", term.in_login)
  /\ UNCHANGED <<nested, calls>>

\* ENTER at the prompt for the user.
EnterUser ==
  /\ top(term).role = "user"
  /\ ByUser(push(set_mask(term, "on"), "password", top(term).login))

\* ENTER at the prompt for the password; the prompt stays until it is answered.
EnterPassword ==
  /\ top(term).role = "password"
  /\ LET n == top(term).login
     IN calls[n] < MaxCalls /\ calls' = [calls EXCEPT ![n] = @ + 1]
  /\ UNCHANGED <<term, nested, hasLogin, odd>>

\* ENTER at the prompt of read().
EnterRead == top(term).role = "read" /\ ByUser(pop(term))

\* The commands exit and login, and CTRL+D in an empty line.
Exit ==
  /\ ~term.in_login
  /\ Len(term.stack) > 1 \/ term.token
  /\ ByUser(pop(term))

LoginCommand == hasLogin /\ Len(term.stack) = 1 /\ ByUser(logout(term))

CtrlD == ~term.in_login /\ ByUser(pop(term))

Answered(n, ok, asked) ==
  Note(Note(odd, "astray", ~asked), "failed", nested[n] /\ ~ok)

\* The program's authentication calls back.
Answer(n, ok) ==
  /\ calls[n] > 0
  /\ calls' = [calls EXCEPT ![n] = @ - 1]
  /\ Turn(login_callback(term, n, ok))
  /\ odd' = Answered(n, ok, term.in_login /\ top(term).role = "password" /\ top(term).login = n)
  /\ UNCHANGED nested

\* terminal.autologin answers the login itself; the handler is unbound when a
\* login has been answered, even if it goes on.
autologin(ok) ==
  LET n == term.logins
  IN /\ term.handler
     /\ Turn(login_callback(term, n, ok))
     /\ odd' = Answered(n, ok, ok \/ top(term).role = "password")
     /\ UNCHANGED <<nested, calls>>

\* push by the program, without and with a login of the interpreter.
Push == ByProgram(push(term, "sub", 0))

PushLogin ==
  /\ LET t == login(push(term, "sub", 0))
     IN /\ Turn(t)
        /\ nested' = IF t.thrown THEN nested ELSE [nested EXCEPT ![t.logins] = TRUE]
  /\ odd' = Note(odd, "meddled", term.in_login)
  /\ UNCHANGED calls

read == ByProgram(push(term, "read", 0))

\* pop and logout by the program.
Pop == ByProgram(pop(term))

SetMask(mask) == ByProgram(set_mask(term, mask))

(* Mutant of reset: one interpreter too many is popped. *)
resetAll ==
  /\ Turn([term EXCEPT !.stack = <<>>])
  /\ odd' = Note(Note(odd, "meddled", term.in_login), "stripped", term.mask # Head(term.stack).meant)
  /\ UNCHANGED <<nested, calls>>

\* reset takes the interpreters off without pop, and so without their masks.
reset ==
  /\ Turn([term EXCEPT !.stack = <<Head(@)>>])
  /\ odd' = Note(Note(odd, "meddled", term.in_login), "stripped", term.mask # Head(term.stack).meant)
  /\ UNCHANGED <<nested, calls>>

Next ==
  \/ EnterUser \/ EnterPassword \/ EnterRead
  \/ Exit \/ LoginCommand \/ CtrlD
  \/ \E ok \in BOOLEAN : autologin(ok) \/ \E n \in Logins : Answer(n, ok)
  \/ Push \/ PushLogin \/ read \/ Pop \/ reset
  \/ \E mask \in {"on", "off"} : SetMask(mask)

Spec == Init /\ [][Next]_vars

-----------------------------------------------------------------------------
(* Correctness.                                                            *)

\* Every variable keeps its type; the main interpreter is at the bottom of the
\* stack and only there.
TypeOK ==
  /\ term \in [stack : Seq([role : Roles, login : 0..MaxLogins,
                            mask : {"unset", "on", "off"}, meant : {"on", "off"}]),
               mask : {"on", "off"}, in_login : BOOLEAN, history : BOOLEAN,
               token : BOOLEAN, handler : BOOLEAN, logins : 0..MaxLogins, thrown : {FALSE}]
  /\ term.stack # <<>>
  /\ \A i \in DOMAIN term.stack : term.stack[i].role = "main" <=> i = 1
  /\ nested \in [Logins -> BOOLEAN]
  /\ calls \in [Logins -> 0..MaxCalls]
  /\ hasLogin \in BOOLEAN
  /\ odd \subseteq Odd

Quiet == odd \cap {"astray", "meddled"} = {}

\* A password is masked when it is typed and does not get into the history
\* (terminal.js:3900-3903, 3958, 4642-4644): however often the login has begun,
\* failed and been retried, and whatever pushed it.
PasswordIsHidden ==
  top(term).role = "password" /\ Quiet => term.mask = "on" /\ ~term.history

\* With settings.login the interpreters get commands only when there is a
\* token (terminal.js:3403-3423, 3910-3948, 4680-4700).  It takes a quiet
\* login: a second ENTER at the password prompt asks twice, and two wrong
\* answers pop the prompt for the user off the main interpreter.
MainIsGuarded ==
  top(term).role \notin Prompts /\ hasLogin /\ Quiet => term.token

\* The history, disabled for a login, is on again after it, unless the login of
\* a pushed interpreter has failed (terminal.js:3900-3903, 3925-3927, 3941-3947).
HistoryComesBack ==
  ~term.in_login /\ "failed" \notin odd => term.history

\* The command line has the mask that was given to the interpreter on top: the
\* login's own does not outlive it, and one set by the program comes back when
\* what was pushed on it is popped, unless that was done by reset
\* (terminal.js:4642-4644, 4714-4715, 4745-4752).
MaskIsMeant == "stripped" \notin odd => term.mask = top(term).meant
================================================================================
