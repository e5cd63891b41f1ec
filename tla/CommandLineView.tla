---------------------------- MODULE CommandLineView ----------------------------
(***************************************************************************)
(* How the command line is drawn: `redraw` of the cmd plugin splits the    *)
(* command into screen lines, the first of them beside the prompt, and     *)
(* puts the cursor into one of them.  Every change of the command or the   *)
(* position ends with a redraw.  A screen line is given by its length.     *)
(***************************************************************************)
EXTENDS CommandLine, TerminalOutput

CONSTANT PromptLen    \* prompt_len of the prompts that the terminal sets

ASSUME CommandLineViewAssumption == PromptLen \in Nat

\* num_chars of the plugin: the terminal's, or what fits into its element.
num_chars == IF screen.num_chars = Undefined THEN screen.window.width ELSE screen.num_chars

\* A search prompt is longer than the line.
prompt_len == IF search.on THEN num_chars + 1 ELSE PromptLen

\* substring(0, n) for an n that may be negative.
Room(n) == Greatest({0, n})

\* The line lengths of str_parts(string, num_chars).
str_parts(len) ==
  IF len < num_chars THEN <<len>>
  ELSE [i \in 1..((len + num_chars - 1) \div num_chars) |->
          Least({num_chars, len - (i - 1) * num_chars})]

(* Mutant of get_splited_command_line: the first line is as long as the others. *)
get_splited_without_prompt(len) ==
  LET first == Least({len, Room(num_chars - prompt_len)})
  IN <<first>> \o str_parts(len - first - 1)

get_splited_command_line(len) ==
  LET first == Least({len, Room(num_chars - prompt_len)})
  IN <<first>> \o str_parts(len - first)

\* The lengths of the lines that the command itself has; a blank stands for
\* the new line at the end of all but the last.
OwnLines ==
  LET upto[i \in 0..Len(command)] ==
        IF i = 0 THEN <<0>>
        ELSE LET lines == upto[i - 1]
                 longer == [lines EXCEPT ![Len(lines)] = @ + 1]
             IN IF command[i] = NewLine THEN Append(longer, 0) ELSE longer
  IN upto[Len(command)]

HasNewLine == \E i \in DOMAIN command : command[i] = NewLine
IsLong == Len(command) > num_chars - prompt_len - 1

\* The screen lines of the command's own lines, of which the first is beside
\* the prompt.
Split(own) ==
  LET first == Room(num_chars - prompt_len - 1)
      beside == IF own[1] > first THEN <<first>> \o str_parts(own[1] - first) ELSE <<own[1]>>
      upto[n \in 0..(Len(own) - 1)] ==
        IF n = 0 THEN beside ELSE upto[n - 1] \o str_parts(own[n + 1])
  IN upto[Len(own) - 1]

\* `array`: the lengths of the screen lines.
ScreenLines ==
  IF HasNewLine THEN Split(OwnLines)
  ELSE IF IsLong THEN get_splited_command_line(Len(command))
  ELSE <<Len(command)>>

\* The characters in front of line n.
Before(lines, n) ==
  LET upto[k \in 0..Len(lines)] == IF k = 0 THEN 0 ELSE upto[k - 1] + lines[k]
  IN upto[n - 1]

\* The line the cursor is drawn in, and its column there.
InLine(lines) ==
  LET inside == {n \in DOMAIN lines : position <= Before(lines, n) + lines[n]}
      n == Least(inside)
      column == position - Before(lines, n)
  IN IF column = lines[n] THEN <<n + 1, 0>> ELSE <<n, column>>

CursorPlace ==
  LET lines == ScreenLines
      last == Len(lines)
      fromLast == Len(command) - position
  IN IF last = 1 THEN <<1, position>>
     ELSE IF position < lines[1] THEN <<1, position>>
     ELSE IF position = lines[1] THEN <<2, 0>>
     ELSE IF fromLast <= lines[last] THEN <<last, lines[last] - fromLast>>
     ELSE IF last = 3 THEN <<2, position - lines[1] - 1>>
     ELSE InLine(lines)

-----------------------------------------------------------------------------
(* Correctness.                                                            *)

InTheMiddleOfThree ==
  LET lines == ScreenLines
  IN /\ Len(lines) = 3
     /\ position > lines[1]
     /\ Len(command) - position > lines[3]

\* The screen lines show the whole command and the cursor stands at its
\* position, however the command is split (terminal.js:1069-1266).  The one
\* exception is a cursor in the middle of three lines, which is drawn one
\* character too far to the left.
CursorIsAtPosition ==
  LET lines == ScreenLines
      place == CursorPlace
  IN /\ Before(lines, Len(lines) + 1) = Len(command)
     /\ place[1] \in DOMAIN lines
     /\ place[2] \in 0..lines[place[1]]
     /\ Before(lines, place[1]) + place[2] =
          IF InTheMiddleOfThree THEN position - 1 ELSE position

================================================================================
