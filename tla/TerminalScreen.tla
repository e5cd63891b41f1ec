---------------------------- MODULE TerminalScreen ----------------------------
(***************************************************************************)
(* The command line and the output of one terminal: ENTER prints the       *)
(* command, `clear` empties both, a resize draws both anew, and a saved    *)
(* view brings both back.  The output is followed for the users that are   *)
(* there for it; for those that are there for the keys it stays as it is.  *)
(***************************************************************************)
EXTENDS CommandLineView

VARIABLE view   \* save_state: the view exported last, or None

screenVars == <<vars, outputVars, view>>

Followed == Uses("print") \/ Uses("view")

ScreenInit == Init /\ OutputInit /\ view = None

\* ENTER and what `commands` does first: it prints prompt and command.
EnterPrints ==
  /\ Enter
  /\ IF Followed THEN Echo(<<PromptLen + Len(command)>>, Normal) ELSE UNCHANGED outputVars
  /\ UNCHANGED view

KeyPressed == Keys /\ UNCHANGED <<outputVars, view>>

Printed == Uses("print") /\ Prints /\ UNCHANGED <<vars, view>>

Resized == Uses("resize") /\ Resizes /\ UNCHANGED <<vars, view>>

SetLine(text, pos) ==
  /\ command' = text /\ position' = pos
  /\ UNCHANGED <<kill_text, recall, backup_prompt, search, first_up_history,
                 prevent_keypress, no_keypress, pasting, enabled, held, typist>>

Clear ==
  /\ Followed
  /\ SetLine(<<>>, 0)
  /\ screen' = cleared(screen)
  /\ UNCHANGED <<prompt, asked, promised, view>>

\* Outside a search, where the command line's prompt is that of the interpreter.
ExportView ==
  /\ Uses("view") /\ ~search.on /\ asked # None
  /\ view' = [lines |-> screen.lines, command |-> command, position |-> position,
              prompt |-> prompt]
  /\ UNCHANGED <<vars, outputVars>>

ImportView ==
  /\ Uses("view") /\ view # None
  /\ prompt' = view.prompt
  /\ asked' = IF search.on THEN None ELSE view.prompt
  /\ SetLine(view.command, Least({view.position, Len(view.command)}))
  /\ screen' = redraw([screen EXCEPT !.lines = view.lines])
  /\ UNCHANGED <<promised, view>>

ScreenNext == EnterPrints \/ KeyPressed \/ Printed \/ Resized
              \/ Clear \/ ExportView \/ ImportView

ScreenSpec == ScreenInit /\ [][ScreenNext]_screenVars

=============================================================================
