------------------------------ MODULE CommandLine ------------------------------
(***************************************************************************)
(* The command line of the web terminal: the `cmd` plugin and its History  *)
(* in src/frontend/public/terminal.js.  Users press keys, the terminal     *)
(* around it calls the methods, and pasted text arrives through a timer.   *)
(*                                                                         *)
(* A command is a sequence of characters and, as in the code, a position   *)
(* lies between two of them: 0 is in front of the first.  TAB, completion, *)
(* the selection and the history filter (the page sets none) are left out. *)
(***************************************************************************)
EXTENDS Integers, Sequences, FiniteSets

CONSTANTS
  Letters,      \* characters other than blank and new line
  Prompts,      \* prompts that the terminal sets
  Names,        \* names of histories
  HistorySize,  \* options.historySize
  Typists,      \* bound: the keys a user presses and the length of a command
  MaxPastes,    \* bound: pastes under way at one time
  None          \* undefined

Blank == " "
NewLine == "\n"
White == {Blank, NewLine}

\* What `string + object` inserts, fifteen characters in fact.
ObjectText == <<"[object", Blank, "Object]">>

Chars == Letters \cup White \cup {"[object", "Object]"}
Lines == Seq(Chars)

ASSUME CommandLineAssumption ==
  /\ HistorySize \in Nat \ {0}
  /\ Typists \subseteq [keys : SUBSET STRING, max : Nat]
  /\ MaxPastes \in Nat
  /\ None \notin Chars \cup Lines

VARIABLES
  command, position,
  kill_text,      \* text that CTRL+Y inserts
  last_command,   \* text that DOWN and CTRL+G bring back
  history,        \* data, pos (one more than in the code) and enabled
  storage,        \* $.Storage: the data of every history
  name,
  prompt, backup_prompt,
  search,         \* reverse_search, rev_search_str, reverse_search_position
  first_up_history,
  prevent_keypress, no_keypress,
  clip, pastes,   \* the hidden textarea, and pastes that wait for their timer
  enabled,
  held,           \* history: BACKSPACE is pressed
  asked,          \* history: the prompt set last, None once one was set in a search
  typist

line == <<command, position>>
recall == <<last_command, history, storage, name>>
prompts == <<prompt, backup_prompt, asked>>
pasting == <<clip, pastes>>
vars == <<line, kill_text, recall, prompts, search, first_up_history,
          prevent_keypress, no_keypress, pasting, enabled, held, typist>>

NoSearch == [on |-> FALSE, str |-> <<>>, at |-> 0]
SearchPrompt(str) == <<"(reverse-i-search)">> \o str

\* new History(string, historySize), disabled when the old one was.
HistoryOf(data, on) == [data |-> data, pos |-> Len(data), enabled |-> on]

Init ==
  /\ command = <<>> /\ position = 0
  /\ kill_text = <<>>
  /\ last_command = None
  /\ history = HistoryOf(<<>>, TRUE)
  /\ storage = [n \in Names |-> <<>>]
  /\ name \in Names
  /\ prompt \in Prompts /\ backup_prompt = None /\ asked = prompt
  /\ search = NoSearch
  /\ first_up_history = TRUE
  /\ prevent_keypress = FALSE /\ no_keypress = FALSE
  /\ clip = <<>> /\ pastes = 0
  /\ enabled = TRUE
  /\ held = FALSE
  /\ typist \in Typists

-----------------------------------------------------------------------------
(* Strings.                                                                *)

Left(s, n) == SubSeq(s, 1, n)
From(s, n) == SubSeq(s, n + 1, Len(s))
Least(S) == CHOOSE i \in S : \A j \in S : i <= j
Greatest(S) == CHOOSE i \in S : \A j \in S : i >= j

\* The character behind position i; undefined beyond the ends.
At(s, i) == IF i \in 0..(Len(s) - 1) THEN s[i + 1] ELSE None

\* How far a run of characters in C goes from index i, to the right and to the left.
RunFrom(s, i, C) == Greatest({j \in (i - 1)..Len(s) : \A k \in i..j : s[k] \in C})
RunTo(s, i, C) == Least({j \in 1..i : \A k \in j..i : s[k] \in C})
NonBlanks(s) == {i \in DOMAIN s : s[i] # Blank}

\* rest.replace(/ *[^ ]+ *(?= )|[^ ]+$/, ''): the first word goes with the
\* blanks around it except one behind it, or, when it is the last, alone.
WithoutFirstWord(s) ==
  IF NonBlanks(s) = {} THEN s
  ELSE LET first == Least(NonBlanks(s))
           end == RunFrom(s, first, Chars \ {Blank})
           gap == RunFrom(s, end + 1, {Blank})
       IN IF end = Len(s) THEN Left(s, first - 1) ELSE From(s, gap - 1)

\* The length of s.match(/([^ ]+ *$)/): the last word and the blanks behind it.
LastWord(s) ==
  LET end == Greatest(NonBlanks(s))
  IN Len(s) - RunTo(s, end, Chars \ {Blank}) + 1

\* Where CTRL+LEFT goes: the start of the word, or the end of a line.
WordLeft ==
  LET from == IF At(command, position - 1) = Blank THEN position - 2 ELSE position - 1
      stops == {i \in 1..from : \E c \in White :
                  At(command, i) = c /\ At(command, i + 1) # c}
  IN IF stops = {} THEN 0
     ELSE LET i == Greatest(stops)
          IN IF At(command, i) = Blank THEN i + 1 ELSE i

\* Where CTRL+RIGHT goes: /\S[\n\s]{2,}|[\n\s]+\S?/ is matched behind the blank.
WordRight ==
  LET from == IF At(command, position) = Blank THEN position + 1 ELSE position
      rest == From(command, from)
      white == {i \in DOMAIN rest : rest[i] \in White}
  IN IF white = {} THEN Len(command)
     ELSE LET first == Least(white)
              end == RunFrom(rest, first, White)
          IN IF first > 1 /\ end > first THEN from + first - 1
             ELSE IF end = Len(rest) THEN Len(command)
             ELSE IF rest[first] = NewLine THEN from + first
             ELSE from + end - 1

-----------------------------------------------------------------------------
(* The methods that change the command.                                    *)

Fits(text) == Len(command) + Len(text) <= typist.max

set(text) == command' = text /\ position' = Len(text)
setIfDefined(text) == IF text = None THEN UNCHANGED line ELSE set(text)

insert(text) ==
  /\ command' = Left(command, position) \o text \o From(command, position)
  /\ position' = position + Len(text)

(* Mutant of deleteBefore: as with `stay`, the position is kept. *)
deleteBeforeStaying(n) ==
  /\ command' = Left(command, position - n) \o From(command, position)
  /\ UNCHANGED position

\* delete(-n), for n no larger than the position.
deleteBefore(n) ==
  /\ command' = Left(command, position - n) \o From(command, position)
  /\ position' = position - n

\* delete(n), for n > 0.
deleteBehind(n) ==
  /\ command' = Left(command, position) \o From(command, position + n)
  /\ UNCHANGED position

-----------------------------------------------------------------------------
(* History.                                                                *)

Current == At(history.data, history.pos - 1)

append(text) ==
  LET data == history.data
      longer == Append(data, text)
      kept == From(longer, Greatest({0, Len(longer) - HistorySize}))
  IN IF history.enabled /\ (data = <<>> \/ data[Len(data)] # text)
     THEN /\ history' = HistoryOf(kept, TRUE)
          /\ storage' = [storage EXCEPT ![name] = kept]
     ELSE /\ history' = [history EXCEPT !.pos = Len(data)]
          /\ UNCHANGED storage

-----------------------------------------------------------------------------
(* Reverse search: the newest line, before the last hit if `next`, that    *)
(* contains the search text, or else the longest part of it that occurs.   *)

Occurs(s, text) ==
  \E i \in 0..(Len(text) - Len(s)) : SubSeq(text, i + 1, i + Len(s)) = s

SearchHistory(str, next) ==
  LET data == history.data
      limit == IF next THEN Len(data) - search.at ELSE Len(data)
      Hits(j) == {i \in 1..limit : Occurs(Left(str, j), data[i])}
      found == {j \in 1..Len(str) : Hits(j) # {}}
  IN IF found = {} THEN [str |-> <<>>, at |-> search.at, text |-> None]
     ELSE LET j == Greatest(found)
              i == Greatest(Hits(j))
          IN [str |-> Left(str, j), at |-> Len(data) - i + 1, text |-> data[i]]

\* A hit is shown with the cursor in front of it.
reverse_history_search(str, next) ==
  LET hit == SearchHistory(str, next)
  IN /\ search' = [on |-> TRUE, str |-> hit.str, at |-> hit.at]
     /\ IF hit.text = None THEN UNCHANGED line
                           ELSE command' = hit.text /\ position' = 0

\* ENTER, ESC, arrows, HOME and END leave the search and do what they do
\* otherwise; the CTRL keys for the same movements stay in it.
Leaving == {"enter", "shift+enter", "escape", "up", "down", "left", "right",
            "home", "end", "ctrl+left", "ctrl+right"}
clear_reverse_state(key) ==
  IF search.on /\ key \in Leaving
  THEN prompt' = backup_prompt /\ search' = NoSearch /\ UNCHANGED <<backup_prompt, asked>>
  ELSE UNCHANGED <<prompts, search>>

-----------------------------------------------------------------------------
(* Keys.                                                                   *)

Uses(key) == key \in typist.keys

KeyDown(key) ==
  /\ enabled
  /\ Uses(key)
  /\ first_up_history' = (key \notin {"up", "ctrl+p"})
  /\ UNCHANGED <<pasting, enabled, typist>>

Prevented == prevent_keypress' = TRUE /\ UNCHANGED no_keypress
Returned == UNCHANGED <<prevent_keypress, no_keypress>>

\* The keypress event of a character.
Pressed(c) ==
  IF search.on
  THEN /\ Len(search.str) < typist.max
       /\ reverse_history_search(Append(search.str, c), FALSE)
       /\ prompt' = SearchPrompt(search'.str)
       /\ UNCHANGED <<backup_prompt, asked>>
  ELSE /\ Fits(<<c>>)
       /\ insert(<<c>>)
       /\ UNCHANGED <<prompts, search>>

Type(c) ==
  /\ KeyDown("type")
  /\ prevent_keypress' = FALSE
  /\ no_keypress' = FALSE
  /\ Pressed(c)
  /\ UNCHANGED <<kill_text, recall, held>>

\* A character typed with ALT: its keydown returns before it resets
\* prevent_keypress, which the key pressed before may have set.
TypeAlt(c) ==
  /\ KeyDown("alt")
  /\ no_keypress' = FALSE
  /\ IF prevent_keypress THEN UNCHANGED <<line, prompts, search>> ELSE Pressed(c)
  /\ UNCHANGED <<kill_text, recall, prevent_keypress, held>>

Enter ==
  /\ KeyDown("enter")
  /\ clear_reverse_state("enter")
  /\ append(command)
  /\ set(<<>>)
  /\ Prevented
  /\ UNCHANGED <<kill_text, last_command, name, held>>

ShiftEnter ==
  /\ KeyDown("shift+enter")
  /\ Fits(<<NewLine>>)
  /\ clear_reverse_state("shift+enter")
  /\ insert(<<NewLine>>)
  /\ Prevented
  /\ UNCHANGED <<kill_text, recall, held>>

Backspace ==
  /\ KeyDown("backspace")
  /\ held' = TRUE
  /\ IF search.on
     THEN LET str == Left(search.str, Greatest({0, Len(search.str) - 1}))
          IN /\ search' = [search EXCEPT !.str = str]
             /\ prompt' = SearchPrompt(str)
             /\ UNCHANGED <<line, backup_prompt, asked>>
     ELSE /\ IF position > 0 THEN deleteBefore(1) ELSE UNCHANGED line
          /\ UNCHANGED <<prompts, search>>
  /\ Prevented
  /\ UNCHANGED <<kill_text, recall>>

CtrlH ==
  /\ KeyDown("ctrl+h")
  /\ IF position > 0 THEN deleteBefore(1) ELSE UNCHANGED line
  /\ Returned
  /\ UNCHANGED <<kill_text, recall, prompts, search, held>>

Delete ==
  /\ KeyDown("delete")
  /\ IF position < Len(command) THEN deleteBehind(1) ELSE UNCHANGED line
  /\ Returned
  /\ UNCHANGED <<kill_text, recall, prompts, search, held>>

AltD ==
  /\ KeyDown("alt+d")
  /\ command' = Left(command, position) \o WithoutFirstWord(From(command, position))
  /\ Returned
  /\ UNCHANGED <<position, kill_text, recall, prompts, search, held>>

Up(key) ==
  /\ KeyDown(key)
  /\ clear_reverse_state(key)
  /\ IF first_up_history
     THEN /\ last_command' = command
          /\ setIfDefined(Current)
          /\ UNCHANGED history
     ELSE /\ history' = [history EXCEPT !.pos = IF @ > 1 THEN @ - 1 ELSE @]
          /\ setIfDefined(At(history.data, history'.pos - 1))
          /\ UNCHANGED last_command
  /\ Prevented
  /\ UNCHANGED <<kill_text, storage, name, held>>

Down(key) ==
  /\ KeyDown(key)
  /\ clear_reverse_state(key)
  /\ IF history.pos = Len(history.data)
     THEN setIfDefined(last_command) /\ UNCHANGED history
     ELSE /\ history' = [history EXCEPT
               !.pos = IF @ < Len(history.data) THEN @ + 1 ELSE @]
          /\ setIfDefined(At(history.data, history'.pos - 1))
  /\ Prevented
  /\ UNCHANGED <<kill_text, last_command, storage, name, held>>

\* The keys that only move the cursor.
Left1 == {"left", "ctrl+b"}
Right1 == {"right", "ctrl+f"}
ToStart == {"home", "ctrl+a"}
ToEnd == {"end", "ctrl+e"}
MoveKeys == Left1 \cup Right1 \cup ToStart \cup ToEnd \cup {"ctrl+left", "ctrl+right"}

Move(key) ==
  /\ KeyDown(key)
  /\ clear_reverse_state(key)
  /\ \/ key \in Left1 /\ position' = Greatest({0, position - 1})
     \/ key \in Right1 /\ position' = Least({Len(command), position + 1})
     \/ key \in ToStart /\ position' = 0
     \/ key \in ToEnd /\ position' = Len(command)
     \/ key = "ctrl+left" /\ position' = WordLeft
     \/ key = "ctrl+right" /\ position' = WordRight
  /\ Prevented
  /\ UNCHANGED <<command, kill_text, recall, held>>

\* When the history has become shorter than the last hit was far from its end,
\* `for (var i=len; i--;)` starts below zero and runs until the browser stops it.
CtrlR ==
  /\ KeyDown("ctrl+r")
  /\ IF search.on /\ search.str # <<>> /\ search.at > Len(history.data)
     THEN UNCHANGED <<line, prompts, search, last_command>>
     ELSE IF search.on
     THEN /\ reverse_history_search(search.str, TRUE)
          /\ prompt' = IF search'.str \notin {<<>>, search.str}
                       THEN SearchPrompt(search'.str) ELSE prompt
          /\ UNCHANGED <<backup_prompt, asked, last_command>>
     ELSE /\ backup_prompt' = prompt
          /\ prompt' = SearchPrompt(<<>>)
          /\ last_command' = command
          /\ set(<<>>)
          /\ search' = [search EXCEPT !.on = TRUE]
          /\ UNCHANGED asked
  /\ Prevented
  /\ UNCHANGED <<kill_text, history, storage, name, held>>

(* Mutant of CtrlG: the search ends, its prompt stays. *)
CtrlGKeepingPrompt ==
  /\ KeyDown("ctrl+g")
  /\ IF search.on
     THEN /\ setIfDefined(last_command)
          /\ search' = [search EXCEPT !.on = FALSE, !.str = <<>>]
     ELSE UNCHANGED <<line, search>>
  /\ Prevented
  /\ UNCHANGED <<kill_text, recall, prompts, held>>

CtrlG ==
  /\ KeyDown("ctrl+g")
  /\ IF search.on
     THEN /\ prompt' = backup_prompt
          /\ setIfDefined(last_command)
          /\ search' = [search EXCEPT !.on = FALSE, !.str = <<>>]
     ELSE UNCHANGED <<line, prompt, search>>
  /\ Prevented
  /\ UNCHANGED <<kill_text, recall, backup_prompt, asked, held>>

\* ESC and SHIFT end in the branch that expects a keypress; in a search that is
\* the end of the inner handler of ESC, and the outer one prevents it.
Escape ==
  /\ KeyDown("escape")
  /\ clear_reverse_state("escape")
  /\ IF search.on THEN set(<<>>) ELSE UNCHANGED line
  /\ prevent_keypress' = search.on
  /\ no_keypress' = TRUE
  /\ UNCHANGED <<kill_text, recall, held>>

Shift ==
  /\ KeyDown("shift")
  /\ prevent_keypress' = FALSE
  /\ no_keypress' = TRUE
  /\ UNCHANGED <<line, kill_text, recall, prompts, search, held>>

\* CTRL+W.  Behind nothing but blanks nothing matches, and m[0] throws.
KillWord ==
  /\ KeyDown("ctrl+w")
  /\ IF NonBlanks(Left(command, position)) # {}
     THEN LET n == LastWord(Left(command, position))
          IN /\ kill_text' = SubSeq(command, position - n + 1, position)
             /\ deleteBefore(n)
     ELSE UNCHANGED <<line, kill_text>>
  /\ Returned
  /\ UNCHANGED <<recall, prompts, search, held>>

(* Mutant of KillToEnd: the kill of the comment at line 1561-1568, for a cursor at the start. *)
KillLine ==
  /\ KeyDown("ctrl+k")
  /\ IF position = Len(command)
     THEN kill_text' = None /\ UNCHANGED line
     ELSE /\ kill_text' = command
          /\ deleteBehind(Len(command) - position)
  /\ Prevented
  /\ UNCHANGED <<recall, prompts, search, held>>

\* CTRL+K.  At the end of the line delete(0) returns the plugin itself.
KillToEnd ==
  /\ KeyDown("ctrl+k")
  /\ IF position = Len(command)
     THEN kill_text' = None /\ UNCHANGED line
     ELSE /\ kill_text' = From(command, position)
          /\ deleteBehind(Len(command) - position)
  /\ Prevented
  /\ UNCHANGED <<recall, prompts, search, held>>

\* CTRL+U.
KillToStart ==
  /\ KeyDown("ctrl+u")
  /\ IF position > 0
     THEN kill_text' = Left(command, position) /\ deleteBefore(position)
     ELSE UNCHANGED <<line, kill_text>>
  /\ Prevented
  /\ UNCHANGED <<recall, prompts, search, held>>

\* CTRL+Y.  The plugin is inserted as text, and its length is 1.
Yank ==
  /\ KeyDown("ctrl+y")
  /\ IF kill_text = None
     THEN /\ Fits(ObjectText)
          /\ command' = Left(command, position) \o ObjectText \o From(command, position)
          /\ position' = position + 1
     ELSE Fits(kill_text) /\ insert(kill_text)
  /\ Prevented
  /\ UNCHANGED <<kill_text, recall, prompts, search, held>>

\* CTRL+V: the browser puts the text into the emptied textarea, from where a
\* timer takes it 100 ms later.
Paste(text) ==
  /\ enabled /\ Uses("paste")
  /\ pastes < MaxPastes
  /\ first_up_history' = TRUE
  /\ clip' = text
  /\ pastes' = pastes + 1
  /\ Returned
  /\ UNCHANGED <<line, kill_text, recall, prompts, search, enabled, held, typist>>

PasteTimer ==
  /\ pastes > 0
  /\ Fits(clip)
  /\ insert(clip)
  /\ clip' = <<>>
  /\ pastes' = pastes - 1
  /\ UNCHANGED <<kill_text, recall, prompts, search, first_up_history,
                 prevent_keypress, no_keypress, enabled, held, typist>>

\* keyup, for keyboards without keypress: the command becomes what the
\* textarea holds.  Whether the command line is enabled is not asked.
Release(key) ==
  /\ Uses(key)
  /\ key = "backspace" => held
  /\ held' = (held /\ key # "backspace")
  /\ IF no_keypress /\ (clip # <<>> \/ key = "backspace") THEN set(clip) ELSE UNCHANGED line
  /\ UNCHANGED <<kill_text, recall, prompts, search, first_up_history,
                 prevent_keypress, no_keypress, pasting, enabled, typist>>

-----------------------------------------------------------------------------
(* What the terminal calls, at any time.                                   *)

Called(method) ==
  /\ Uses(method)
  /\ UNCHANGED <<line, kill_text, last_command, backup_prompt, search, first_up_history,
                 prevent_keypress, no_keypress, pasting, held, typist>>

SetPrompt(p) ==
  /\ Called("prompt")
  /\ prompt' = p
  /\ asked' = IF search.on THEN None ELSE p
  /\ UNCHANGED <<history, storage, name, enabled>>

SetName(n) ==
  /\ Called("name")
  /\ name' = n
  /\ history' = HistoryOf(storage[n], history.enabled)
  /\ UNCHANGED <<storage, prompt, asked, enabled>>

Purge ==
  /\ Called("purge")
  /\ history' = [history EXCEPT !.data = <<>>]
  /\ storage' = [storage EXCEPT ![name] = <<>>]
  /\ UNCHANGED <<name, prompt, asked, enabled>>

EnableHistory(on) ==
  /\ Called("history")
  /\ history' = [history EXCEPT !.enabled = on]
  /\ UNCHANGED <<storage, name, prompt, asked, enabled>>

Enable(on) ==
  /\ Called("enable")
  /\ enabled' = on
  /\ UNCHANGED <<history, storage, name, prompt, asked>>

-----------------------------------------------------------------------------
Keys ==
  \/ \E c \in Letters \cup {Blank} : Type(c) \/ TypeAlt(c)
  \/ ShiftEnter \/ Backspace \/ CtrlH \/ Delete \/ AltD
  \/ \E key \in {"up", "ctrl+p"} : Up(key)
  \/ \E key \in {"down", "ctrl+n"} : Down(key)
  \/ \E key \in MoveKeys : Move(key)
  \/ CtrlR \/ CtrlG \/ Escape \/ Shift
  \/ KillWord \/ KillToEnd \/ KillToStart \/ Yank
  \/ \E c \in Letters : Paste(<<c>>)
  \/ PasteTimer
  \/ \E key \in {"shift", "backspace"} : Release(key)
  \/ \E p \in Prompts : SetPrompt(p)
  \/ \E n \in Names : SetName(n)
  \/ Purge
  \/ \E on \in BOOLEAN : EnableHistory(on) \/ Enable(on)

Next == Enter \/ Keys

Spec == Init /\ [][Next]_vars

-----------------------------------------------------------------------------
(* Correctness.                                                            *)

\* Every variable keeps its type; the position stays within the command,
\* although several keys change it without asking `position` to limit it; and
\* the history stays within its size.
TypeOK ==
  /\ command \in Lines
  /\ position \in 0..Len(command)
  /\ kill_text \in Lines \cup {None}
  /\ last_command \in Lines \cup {None}
  /\ history \in [data : Seq(Lines), pos : Nat, enabled : BOOLEAN]
  /\ Len(history.data) <= HistorySize
  /\ storage \in [Names -> Seq(Lines)]
  /\ \A n \in Names : Len(storage[n]) <= HistorySize
  /\ name \in Names
  /\ asked \in Prompts \cup {None}
  /\ search \in [on : BOOLEAN, str : Seq(Chars), at : Nat]
  /\ first_up_history \in BOOLEAN
  /\ prevent_keypress \in BOOLEAN /\ no_keypress \in BOOLEAN
  /\ clip \in Lines /\ pastes \in 0..MaxPastes
  /\ enabled \in BOOLEAN /\ held \in BOOLEAN
  /\ typist \in Typists

\* What a kill key puts aside is exactly what it takes out of the command, at
\* the cursor, so that CTRL+Y puts the command together again
\* (terminal.js:1524-1573, 1626-1654).  CTRL+K at the end of the line puts
\* aside what is no text at all.
KillTakesOut ==
  [][ kill_text' \notin {kill_text, None} =>
        command = Left(command', position') \o kill_text' \o From(command', position')
    ]_vars

\* Outside a search the prompt is the one that the terminal asked for last,
\* whichever way searches have ended (terminal.js:1012-1017, 1331-1343,
\* 1444-1463).  A prompt set during a search is lost with it.
PromptComesBack == ~search.on /\ asked # None => prompt = asked

================================================================================
