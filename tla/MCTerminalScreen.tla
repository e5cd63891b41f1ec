--------------------------- MODULE MCTerminalScreen ---------------------------
(* Instances of TerminalScreen for TLC: users of different habits, each     *)
(* with commands long enough for the keys they use.  The terminal of all    *)
(* but one is two characters wide and prints nothing.                       *)
EXTENDS TerminalScreen, TLC

Editing == [max |-> 5, keys |-> MoveKeys \cup {"type", "shift+enter", "backspace",
              "ctrl+h", "delete", "alt+d"}]
Killing == [max |-> 4, keys |-> {"type", "left", "home", "ctrl+w", "ctrl+k", "ctrl+u", "ctrl+y"}]
Recalling == [max |-> 1, keys |-> {"type", "enter", "up", "down", "ctrl+p", "ctrl+n", "left",
                "name", "purge", "history"}]
Searching == [max |-> 2, keys |-> {"type", "enter", "ctrl+r", "ctrl+g", "escape", "backspace",
                "home"}]
Prompted == [max |-> 1, keys |-> {"type", "enter", "ctrl+r", "ctrl+g", "escape", "prompt", "name",
               "purge"}]
Pasting == [max |-> 3, keys |-> {"type", "alt", "shift", "backspace", "left", "paste", "enable"}]
Printing == [max |-> 0, keys |-> {"print", "resize"}]
Viewing == [max |-> 1, keys |-> {"type", "left", "enter", "view"}]

MCTypists == {Editing, Killing, Recalling, Searching, Prompted, Pasting,
                Printing, Viewing}

Alike == Permutations(Names) \cup Permutations(Prompts)

MCTexts == {<<0>>, <<3>>}
Narrow == [width |-> 2, height |-> 2]
Wide == [width |-> 4, height |-> 3]
MCWindows == {Narrow, Wide}
MCLimits == {-1, 0, 1}

MCInit == ScreenInit /\ (Uses("print") \/ screen = Screens(Narrow, TRUE, -1))
MCSpec == MCInit /\ [][ScreenNext]_screenVars
================================================================================
