--------------------------- MODULE TerminalCommands ---------------------------
(***************************************************************************)
(* Commands of the web terminal (src/frontend/public/terminal.js): how the *)
(* terminal pauses while a command works, delays the commands that the     *)
(* program executes meanwhile, and resumes.  A turn of the browser's event *)
(* loop is not one step: resume runs the program's interpreter, the        *)
(* callbacks of its promises and with them more calls of exec before it    *)
(* returns, so the calls that have not returned are kept on a stack.       *)
(***************************************************************************)
EXTENDS Naturals, SequencesExt

CONSTANT
  MaxCommands  \* bound: commands of a behaviour, one less if the terminal is
               \* switched on and off by others than its commands

ASSUME CommandsAssumption == MaxCommands \in Nat

\* Commands carry the number in which they come.
Commands == 1..MaxCommands

VARIABLES
  term,         \* the terminal, see TypeOK
  stack,        \* the calls that have not returned, the innermost one last
  thrown,       \* whether the innermost one is left by an exception
  arrived,      \* how many commands have come
  typed,        \* the ones that came by ENTER
  inside,       \* the ones executed while delayed ones had yet to be run
  old_enabled,  \* whether the terminal was enabled when the window lost the focus
  switched      \* whether others have switched the terminal on or off

vars == <<term, stack, thrown, arrived, typed, inside, old_enabled, switched>>

\* What a call is at, and the commands it is about:
\*   interpreter  the program's interpreter works on a command
\*   callback     the program is told that the promise of a command is resolved
\*   loop         resume has these delayed commands to run
\*   trigger      it has to tell the end of the pause to these
\*   abort        CTRL+D has these requests to abort
\*   value        commands resumes, as the interpreter has returned a value
\*   fulfilled    then() resumes, and resolves a promise afterwards
\*   rethrow      commands resumes, and throws what the interpreter threw
Places == {"interpreter", "callback", "loop", "trigger", "abort", "value",
           "fulfilled", "rethrow"}

Call(at, cs) == [at |-> at, of |-> cs]

Init ==
  /\ term = [paused |-> FALSE, enabled |-> TRUE, frozen |-> FALSE, delayed |-> <<>>,
             waiting |-> <<>>, ran |-> <<>>, requests |-> <<>>,
             work |-> [c \in Commands |-> "none"],
             promise |-> [c \in Commands |-> "none"]]
  /\ stack = <<>>
  /\ thrown = FALSE
  /\ arrived = 0
  /\ typed = {}
  /\ inside = {}
  /\ old_enabled = TRUE
  /\ switched = FALSE

-----------------------------------------------------------------------------
(* Parts of methods that call nothing else.                                *)

(* Mutant of enable: a frozen terminal is enabled, too. *)
enableFrozen(t) == [t EXCEPT !.enabled = TRUE]

enable(t) == IF t.frozen THEN t ELSE [t EXCEPT !.enabled = TRUE]
disable(t) == IF t.frozen THEN t ELSE [t EXCEPT !.enabled = FALSE]
pause(t) == IF t.paused THEN t ELSE disable([t EXCEPT !.paused = TRUE])

\* deferred.resolve(), which counts the first time.
after_exec(t, c) ==
  [t EXCEPT !.promise[c] = IF @ = "pending" THEN "resolved" ELSE @]

(* Mutant of waitForResume: the command is taken for done at once. *)
waitForNothing(t, c) == after_exec(t, c)

\* self.bind('resume.command', ...)
waitForResume(t, c) == [t EXCEPT !.waiting = Append(@, c)]

\* The interpreter has ended its part of command c, if it works no more.
ended(t, c) == [t EXCEPT !.work[c] = IF @ = "called" THEN "over" ELSE @]

\* Command c has come to commands, and what comes of its work and promise.
Started(t, c, work, promise) ==
  [t EXCEPT !.ran = Append(@, c), !.work[c] = work, !.promise[c] = promise]

Begun(t, c, how) ==
  [pause(t) EXCEPT !.work[c] = how, !.requests = Append(@, c)]

-----------------------------------------------------------------------------
(* Calls.                                                                  *)

\* Nothing but an event comes when there are no calls; the program's own code
\* works in an event, in its interpreter and in its callbacks.
Idle == stack = <<>>
At(place) == stack # <<>> /\ ~thrown /\ Last(stack).at = place
Program == Idle \/ At("interpreter") \/ At("callback")

\* The command, or the commands, of the innermost call, and its callers.
Of == Last(stack).of
Callers == Front(stack)

\* An exception leaves a call for its callers s, and ends with the turn.
Throw(s) == stack' = s /\ thrown' = (s # <<>>)

\* The callbacks of command c, if its promise is resolved in t, over callers s.
\* A typed command has a promise that nobody has seen.
Callback(t, c, s) ==
  IF t.promise[c] = "pending" /\ c \notin typed THEN Append(s, Call("callback", <<c>>)) ELSE s

Resolve(t, c, s) ==
  /\ term' = after_exec(t, c)
  /\ stack' = Callback(t, c, s)
  /\ thrown' = FALSE

(* Mutant of resume: the list is emptied before it is taken. *)
resumeClearing(t, s) ==
  /\ thrown' = FALSE
  /\ IF t.paused
     THEN /\ term' = enable([t EXCEPT !.paused = FALSE, !.delayed = <<>>])
          /\ stack' = Append(s, Call("loop", <<>>))
     ELSE term' = t /\ stack' = s

\* self.resume(), called from the innermost of s on a terminal t.
resume(t, s) ==
  /\ thrown' = FALSE
  /\ IF t.paused
     THEN /\ term' = enable([t EXCEPT !.paused = FALSE, !.delayed = <<>>])
          /\ stack' = Append(s, Call("loop", t.delayed))
     ELSE term' = t /\ stack' = s

\* commands(c) up to the interpreter, or what comes of a command that is not
\* interpreted (clear, exit, or one that onBeforeCommand refuses).
commands(c, s) ==
  /\ term' = Started(term, c, "called", "pending")
  /\ stack' = Append(s, Call("interpreter", <<c>>))
  /\ thrown' = FALSE

Uninterpreted(c) == term' = Started(term, c, "over", "broken")

(* Mutant of exec: unshift for push. *)
execUnshift(c, s) ==
  \/ /\ term.paused
     /\ term' = [term EXCEPT !.delayed = <<c>> \o @, !.promise[c] = "pending"]
     /\ stack' = s
     /\ thrown' = FALSE
  \/ ~term.paused /\ commands(c, s)
  \/ ~term.paused /\ Uninterpreted(c) /\ Throw(s)

\* self.exec(c), called from the innermost of s.  A command that is not
\* interpreted returns nothing, and `commands(...).then` is an exception.
exec(c, s) ==
  \/ /\ term.paused
     /\ term' = [term EXCEPT !.delayed = Append(@, c), !.promise[c] = "pending"]
     /\ stack' = s
     /\ thrown' = FALSE
  \/ ~term.paused /\ commands(c, s)
  \/ ~term.paused /\ Uninterpreted(c) /\ Throw(s)

\* The delayed commands that the calls have yet to run.
Left == UNION {ToSet(stack[i].of) : i \in {j \in DOMAIN stack : stack[j].at = "loop"}}

Unrelated == UNCHANGED <<arrived, typed, inside, old_enabled, switched>>

-----------------------------------------------------------------------------
(* The program.                                                            *)

Arrives(c) ==
  /\ c = arrived + 1
  /\ switched => c < MaxCommands
  /\ arrived' = c
  /\ UNCHANGED <<old_enabled, switched>>

\* The user, the program or the window switches the terminal on or off.
Switches ==
  /\ arrived < MaxCommands
  /\ switched' = TRUE
  /\ UNCHANGED <<arrived, typed, inside>>

\* The program calls exec: in an event, in its interpreter or in a callback.
\* What it does when a call of exec has returned is the rest of its turn, or
\* another one: callbacks that it adds to a promise that is settled by then,
\* and exec after pause.
Exec(c) ==
  /\ Program
  /\ Arrives(c)
  /\ exec(c, stack)
  /\ inside' = IF Left # {} THEN inside \cup {c} ELSE inside
  /\ UNCHANGED typed

\* freeze(on)
Freeze(on) ==
  /\ Program
  /\ term' = IF on THEN [disable(term) EXCEPT !.frozen = TRUE]
                   ELSE enable([term EXCEPT !.frozen = FALSE])
  /\ UNCHANGED <<stack, thrown, old_enabled>>
  /\ Switches

\* The interpreter pauses the terminal for a request of command c, which
\* resumes it when it is answered (old API, JSON-RPC).
Requests(c) ==
  /\ At("interpreter") /\ Of = <<c>>
  /\ term.work[c] = "called"
  /\ term' = Begun(term, c, "requested")
  /\ UNCHANGED <<stack, thrown>>
  /\ Unrelated

\* The interpreter returns nothing.  A command that has paused the terminal, or
\* was called while it was paused, is thought to be done when it is resumed.
Returns(c) ==
  /\ At("interpreter") /\ Of = <<c>>
  /\ IF term.paused
     THEN /\ term' = waitForResume(ended(term, c), c)
          /\ stack' = Callers
          /\ thrown' = FALSE
     ELSE Resolve(ended(term, c), c, Callers)
  /\ Unrelated

\* It returns a promise.
Promises(c) ==
  /\ At("interpreter") /\ Of = <<c>>
  /\ term.work[c] = "called"
  /\ term' = Begun(term, c, "promised")
  /\ stack' = Callers
  /\ UNCHANGED thrown
  /\ Unrelated

\* It returns a value: the terminal pauses and resumes at once.
ReturnsValue(c) ==
  /\ At("interpreter") /\ Of = <<c>>
  /\ term.work[c] = "called"
  /\ resume(pause(ended(term, c)), Append(Callers, Call("value", <<c>>)))
  /\ Unrelated

\* It throws, or what a call of its own has thrown is not caught: commands
\* resumes and throws again.
Fails(c) ==
  LET t == [ended(term, c) EXCEPT !.promise[c] = "broken"]
  IN IF t.paused THEN resume(t, Append(Callers, Call("rethrow", <<>>)))
                 ELSE term' = t /\ Throw(Callers)

Throws(c) ==
  /\ At("interpreter") /\ Of = <<c>>
  /\ Fails(c)
  /\ Unrelated

\* A callback returns, to the handler of 'resume' if it was called there: that
\* unbinds all handlers, those bound since included.
CallbackReturns ==
  /\ At("callback")
  /\ stack' = Callers
  /\ term' = IF Callers # <<>> /\ Last(Callers).at = "trigger"
             THEN [term EXCEPT !.waiting = <<>>] ELSE term
  /\ UNCHANGED thrown
  /\ Unrelated

CallbackThrows ==
  /\ At("callback")
  /\ Throw(Callers)
  /\ UNCHANGED term
  /\ Unrelated

\* The program catches what a call of its own has thrown.
Catches ==
  /\ thrown /\ Last(stack).at \in {"interpreter", "callback"}
  /\ thrown' = FALSE
  /\ UNCHANGED <<term, stack>>
  /\ Unrelated

-----------------------------------------------------------------------------
(* The calls of the terminal.                                              *)

\* A turn of the loop in resume, and its end.
LoopNext ==
  /\ At("loop") /\ Of # <<>>
  /\ exec(Head(Of), Append(Callers, Call("loop", Tail(Of))))
  /\ Unrelated

LoopEnds ==
  /\ At("loop") /\ Of = <<>>
  /\ stack' = Append(Callers, Call("trigger", term.waiting))
  /\ UNCHANGED <<term, thrown>>
  /\ Unrelated

\* self.trigger('resume') calls the handlers that are bound when it begins.
TriggerNext ==
  /\ At("trigger") /\ Of # <<>>
  /\ LET c == Head(Of)
         s == Append(Callers, Call("trigger", Tail(Of)))
         t == after_exec(term, c)
     IN /\ stack' = Callback(term, c, s)
        /\ term' = IF stack' = s THEN [t EXCEPT !.waiting = <<>>] ELSE t
        /\ UNCHANGED thrown
  /\ Unrelated

TriggerEnds ==
  /\ At("trigger") /\ Of = <<>>
  /\ stack' = Callers
  /\ UNCHANGED <<term, thrown>>
  /\ Unrelated

\* commands, or then(), has resumed and comes to the promise of command c.
Resolves(c) ==
  /\ At("value") \/ At("fulfilled")
  /\ Of = <<c>>
  /\ Resolve(term, c, Callers)
  /\ Unrelated

Rethrows ==
  /\ At("rethrow")
  /\ Throw(Callers)
  /\ UNCHANGED term
  /\ Unrelated

\* An exception in a call of resume: it ends loop and trigger and what is left
\* to them is forgotten, as is the promise that was to be resolved.
Escapes ==
  /\ thrown /\ Last(stack).at \in {"callback", "loop", "trigger", "rethrow"}
  /\ Throw(Callers)
  /\ UNCHANGED term
  /\ Unrelated

EscapesFrom(c) ==
  /\ thrown /\ Of = <<c>>
  /\ \/ Last(stack).at \in {"interpreter", "value"} /\ Fails(c)
     \/ /\ Last(stack).at = "fulfilled"
        /\ Throw(Callers)
        /\ term' = [term EXCEPT !.promise[c] = "broken"]
  /\ Unrelated

\* CTRL+D aborts a request, if it is not answered yet.  One that has paused the
\* terminal resumes it, and what that throws is caught.
AbortNext ==
  /\ At("abort") /\ Of # <<>>
  /\ LET c == Head(Of)
         s == Append(Callers, Call("abort", Tail(Of)))
         t == [term EXCEPT !.work[c] = "over"]
     IN CASE term.work[c] = "requested" -> resume(t, s)
          [] term.work[c] = "promised" ->
               term' = [t EXCEPT !.promise[c] = "broken"] /\ stack' = s /\ thrown' = FALSE
          [] OTHER -> stack' = s /\ UNCHANGED <<term, thrown>>
  /\ Unrelated

AbortCatches ==
  /\ thrown /\ Last(stack).at = "abort"
  /\ thrown' = FALSE
  /\ UNCHANGED <<term, stack>>
  /\ Unrelated

AbortEnds ==
  /\ At("abort") /\ Of = <<>>
  /\ resume([term EXCEPT !.requests = <<>>], Callers)
  /\ Unrelated

-----------------------------------------------------------------------------
(* Events.                                                                 *)

\* ENTER in the command line calls `commands` itself, whether the terminal is
\* paused or not.
Enter(c) ==
  /\ Idle /\ term.enabled
  /\ Arrives(c)
  /\ commands(c, <<>>) \/ (Uninterpreted(c) /\ UNCHANGED <<stack, thrown>>)
  /\ typed' = typed \cup {c}
  /\ UNCHANGED inside

(* Mutant of Fulfilled: nobody resumes. *)
FulfilledStillPaused(c) ==
  /\ Idle /\ term.work[c] = "promised"
  /\ term' = [term EXCEPT !.work[c] = "over"]
  /\ stack' = <<Call("fulfilled", <<c>>)>>
  /\ thrown' = FALSE
  /\ Unrelated

\* A promised result comes, and with it the end of the pause.
Fulfilled(c) ==
  /\ Idle /\ term.work[c] = "promised"
  /\ resume([term EXCEPT !.work[c] = "over"], <<Call("fulfilled", <<c>>)>>)
  /\ Unrelated

\* A promise that is rejected does not end it: then() is given no fail callback.
Rejected(c) ==
  /\ Idle /\ term.work[c] = "promised"
  /\ term' = [term EXCEPT !.work[c] = "rejected", !.promise[c] = "broken"]
  /\ UNCHANGED <<stack, thrown>>
  /\ Unrelated

\* The request of a command that paused is answered, or fails (ajax_error).
Answered(c) ==
  /\ Idle /\ term.work[c] = "requested"
  /\ resume([term EXCEPT !.work[c] = "over"], <<>>)
  /\ Unrelated

\* CTRL+D: requests are aborted, the latest first, and then the terminal is
\* resumed.  The key is only seen while the keyboard is enabled.
CtrlD ==
  /\ Idle /\ term.enabled /\ term.paused /\ term.requests # <<>>
  /\ stack' = <<Call("abort", Reverse(term.requests))>>
  /\ UNCHANGED <<term, thrown>>
  /\ Unrelated

\* The user clicks on the terminal or elsewhere: focus or blur.
Click ==
  /\ Idle /\ ~term.enabled
  /\ term' = enable(term)
  /\ UNCHANGED <<stack, thrown, old_enabled>>
  /\ Switches

ClickElsewhere ==
  /\ Idle /\ term.enabled
  /\ term' = disable(term)
  /\ UNCHANGED <<stack, thrown, old_enabled>>
  /\ Switches

WindowBlur ==
  /\ Idle
  /\ old_enabled' = term.enabled
  /\ term' = disable(term)
  /\ UNCHANGED <<stack, thrown>>
  /\ Switches

WindowFocus ==
  /\ Idle /\ old_enabled
  /\ term' = enable(term)
  /\ UNCHANGED <<stack, thrown, old_enabled>>
  /\ Switches

\* The calls go on.
Runs ==
  \/ LoopNext \/ LoopEnds \/ TriggerNext \/ TriggerEnds
  \/ Rethrows \/ Escapes \/ AbortNext \/ AbortCatches \/ AbortEnds
  \/ CallbackReturns \/ CallbackThrows \/ Catches
  \/ \E c \in Commands :
       \/ Requests(c) \/ Returns(c) \/ Promises(c) \/ ReturnsValue(c) \/ Throws(c)
       \/ Resolves(c) \/ EscapesFrom(c)

Next ==
  \/ Runs
  \/ \E c \in Commands :
       \/ Exec(c) \/ Enter(c)
       \/ Fulfilled(c) \/ Rejected(c) \/ Answered(c)
  \/ CtrlD
  \/ Click \/ ClickElsewhere \/ WindowBlur \/ WindowFocus
  \/ \E on \in BOOLEAN : Freeze(on)

\* A turn of the event loop ends, requests are answered and promises settled,
\* if not rejected; the user and the program owe nothing else.
Fairness ==
  /\ WF_vars(Runs)
  /\ \A c \in Commands : WF_vars(Fulfilled(c)) /\ WF_vars(Answered(c))

Spec == Init /\ [][Next]_vars /\ Fairness

-----------------------------------------------------------------------------
(* Correctness.                                                            *)

\* Every variable keeps its type, commands are only delayed while the terminal
\* is paused, and a frozen terminal has no keyboard.
TypeOK ==
  /\ term \in [paused : BOOLEAN, enabled : BOOLEAN, frozen : BOOLEAN,
               delayed : Seq(Commands), waiting : Seq(Commands), ran : Seq(Commands),
               requests : Seq(Commands),
               work : [Commands -> {"none", "called", "requested", "promised", "over",
                                    "rejected"}],
               promise : [Commands -> {"none", "pending", "resolved", "broken"}]]
  /\ stack \in Seq([at : Places, of : Seq(Commands)])
  /\ thrown \in BOOLEAN
  /\ arrived \in 0..MaxCommands
  /\ typed \subseteq Commands
  /\ inside \subseteq Commands
  /\ old_enabled \in BOOLEAN
  /\ switched \in BOOLEAN
  /\ term.delayed # <<>> => term.paused
  /\ term.frozen => ~term.enabled

\* Commands that the program executes run in the order of the calls and each at
\* most once, however often they are delayed.  The only ones that overtake
\* others are those that a callback or an interpreter executes while a call of
\* resume has yet to run the delayed ones (terminal.js:3830-3876, 4038-4055).
RunsInOrder ==
  \A i, j \in DOMAIN term.ran :
    i < j => /\ term.ran[i] # term.ran[j]
             /\ term.ran[i] \notin typed \cup inside /\ term.ran[j] \notin typed
                => term.ran[i] < term.ran[j]

\* The commands that have run, are delayed, or wait in a call of resume.
Kept == ToSet(term.ran) \cup ToSet(term.delayed) \cup Left

\* A command that has come is kept from then on, until an exception of another
\* one ends the loop that was to run it (terminal.js:4043-4047).
NothingForgotten ==
  [][\A c \in 1..arrived' :
       \/ c \in Kept'
       \/ c <= arrived /\ c \notin Kept
       \/ thrown /\ Last(stack).at = "loop" /\ c \in ToSet(Of)]_vars

\* The promise of a command is kept: it is resolved when the command is done.
\* A command that pauses the terminal itself is taken for done at the next
\* resume, which is its own only when no other command has run
\* (terminal.js:3366-3388).
PromiseIsKept ==
  \A c \in Commands :
    term.promise[c] = "resolved" =>
      term.work[c] = "over" \/ (term.work[c] = "requested" /\ ToSet(term.ran) # {c})

\* Delayed commands run in the end, unless a promise is rejected: that leaves
\* the terminal paused.
DelayedRuns ==
  []<>(term.delayed = <<>> \/ \E c \in Commands : term.work[c] = "rejected")

================================================================================
