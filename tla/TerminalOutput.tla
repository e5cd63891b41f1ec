---------------------------- MODULE TerminalOutput ----------------------------
(***************************************************************************)
(* The output of the web terminal: `echo` keeps what is printed in `lines` *)
(* and its rows in output_buffer, `flush` moves the buffer to the page,    *)
(* and `redraw` prints all the lines again when the width or a line        *)
(* changes (src/frontend/public/terminal.js).                              *)
(*                                                                         *)
(* A text is the sequence of the lengths of its lines.  Every call runs to *)
(* its end before the next, so a call is a function from the terminal's    *)
(* state, a record, to the next.  Formatting, raw lines, finalize          *)
(* functions and lines that are functions are left out.                    *)
(***************************************************************************)
EXTENDS Integers, Sequences, FiniteSets

CONSTANTS
  Texts,       \* texts that are printed
  Windows,     \* sizes of the terminal's element, in characters
  Limits,      \* values of settings.outputLimit
  CallLen,     \* characters of an extended command, brackets included
  MaxLines,    \* bound: lines
  Nothing         \* undefined

ASSUME TerminalOutputAssumption ==
  /\ Texts \subseteq Seq(Nat) \ {<<>>}
  /\ Windows \subseteq [width : Nat \ {0, 1}, height : Nat \ {0}]
  /\ Limits \subseteq Int
  /\ CallLen \in Nat \ {0}
  /\ Nothing \notin Windows

Rows == INSTANCE SequencesExt

VARIABLES
  screen,    \* the terminal's output: see Screens
  promised   \* texts of promises that are echoed and not resolved

outputVars == <<screen, promised>>

\* The empty string, and a num_chars that is not known yet.
Empty == <<0>>
Undefined == 0

-----------------------------------------------------------------------------
(* From lines to rows.                                                     *)

\* The rows of one text; width Undefined splits at its own line breaks only.
split_equal(text, width) ==
  IF width = Undefined THEN text
  ELSE LET split(len) ==
             IF len = 0 THEN <<0>>
             ELSE [r \in 1..((len + width - 1) \div width) |->
                     IF r * width <= len THEN width ELSE len - (r - 1) * width]
       IN Rows!FlattenSeq([i \in DOMAIN text |-> split(text[i])])

\* What the element shows: a sequence of divs, each with the rows of a line.
RowsUpTo(divs, k) ==
  LET count[i \in 0..Len(divs)] == IF i = 0 THEN 0 ELSE count[i - 1] + Len(divs[i].rows)
  IN count[k]
RowCount(divs) == RowsUpTo(divs, Len(divs))

\* $lines.slice(0, n).remove(), and the divs that are left empty with it: the
\* first that is not loses what it has of the n rows.
WithoutRows(divs, n) ==
  LET left == {k \in DOMAIN divs : RowsUpTo(divs, k) > n}
      first == CHOOSE k \in left : \A j \in left : k <= j
      gone == n - RowsUpTo(divs, first - 1)
      cut == IF gone <= 0 THEN divs[first]
             ELSE [divs[first] EXCEPT !.rows = SubSeq(@, gone + 1, Len(@))]
  IN IF left = {} THEN <<>> ELSE <<cut>> \o SubSeq(divs, first + 1, Len(divs))

Unlimited(t) == t.outputLimit < 0 \/ (t.outputLimit = 0 /\ t.num_rows = Undefined)
Limit(t) == IF t.outputLimit = 0 THEN t.num_rows ELSE t.outputLimit

\* `max` counts lines, what it is compared with and removes are rows; a
\* negative max counts from the end.
Limited(t) ==
  LET rows == RowCount(t.output)
      max == Len(t.lines) - Limit(t) + 1
  IN IF Unlimited(t) \/ rows <= Limit(t) THEN t
     ELSE [t EXCEPT !.output = WithoutRows(@, IF max < 0 THEN rows + max ELSE max)]

-----------------------------------------------------------------------------
(* The methods.                                                            *)

process_line(t, i, text) ==
  IF text = Empty THEN t
  ELSE [t EXCEPT !.output_buffer =
          Append(@, [of |-> i, rows |-> split_equal(text, t.num_chars)])]

flush(t) ==
  Limited([t EXCEPT !.output = @ \o t.output_buffer,
                    !.output_buffer = <<>>,
                    !.due = (@ \cup {t.output_buffer[k].of : k \in DOMAIN t.output_buffer}) \ {0}])

\* lines.slice(lines.length - limit - 1), which counts from the end below 0.
FirstToShow(t) ==
  LET start == Len(t.lines) - Limit(t) - 1
      size == Len(t.lines)
  IN IF Unlimited(t) THEN 1
     ELSE IF start >= 0 THEN start + 1
     ELSE IF size + start > 0 THEN size + start + 1 ELSE 1

\* process_line for every line of `lines` from number i.
Processed(t, first) ==
  LET after[k \in 0..(Len(t.lines) - first + 1)] ==
        IF k = 0 THEN t
        ELSE process_line(after[k - 1], first + k - 1, t.lines[first + k - 1].text)
  IN after[Len(t.lines) - first + 1]

(* Mutant of redraw: lines that wait to be flushed stay in the buffer. *)
redrawKeepingBuffer(t) ==
  LET drawn == flush(Processed([t EXCEPT !.output = <<>>], FirstToShow(t)))
  IN [drawn EXCEPT !.due = DOMAIN t.lines]

redraw(t) ==
  LET drawn == flush(Processed([t EXCEPT !.output = <<>>, !.output_buffer = <<>>],
                               FirstToShow(t)))
  IN [drawn EXCEPT !.due = DOMAIN t.lines]

\* Beside the output there is the row of the command line.
have_scrollbars(t) == t.visible /\ RowCount(t.output) + 1 > t.window.height

get_num_chars(t) == t.window.width - IF have_scrollbars(t) THEN 1 ELSE 0

\* Redraws only for another number of characters or rows.  The size is Nothing,
\* or the one to give the element.  A hidden terminal tries again in 500 ms.
resize(t, size) ==
  LET sized == IF size = Nothing THEN t ELSE [t EXCEPT !.window = size]
      chars == get_num_chars(sized)
      rows == sized.window.height
  IN IF ~t.visible THEN [t EXCEPT !.timer = <<size>>]
     ELSE IF chars = t.num_chars /\ rows = t.num_rows THEN sized
     ELSE [redraw([sized EXCEPT !.num_chars = chars, !.num_rows = rows])
             EXCEPT !.old_size = sized.window]

on_scrollbar_show_resize(t) ==
  IF t.scroll_bars = have_scrollbars(t) THEN t
  ELSE LET resized == resize(t, Nothing)
       IN [resized EXCEPT !.scroll_bars = have_scrollbars(resized)]

\* From process_line on: `shown` is printed and `text` is kept for redraws.
Kept(t, shown, text, options) ==
  LET i == Len(t.lines) + 1
      processed == process_line(t, i, shown)
      pushed == [processed EXCEPT !.lines =
                   Append(@, [text |-> text, same |-> shown = text])]
  IN on_scrollbar_show_resize(IF options.flush THEN flush(pushed) ELSE pushed)

echo(t, text, options) == Kept([t EXCEPT !.output_buffer = <<>>], text, text, options)

Normal == [flush |-> TRUE]
Waiting == [flush |-> FALSE]

\* An extended command runs before its line is printed, and may itself print;
\* later redraws show its text, too.
echoCalling(t, text, answer) ==
  LET fresh == [t EXCEPT !.output_buffer = <<>>]
      called == IF answer = Nothing THEN fresh ELSE echo(fresh, answer, Normal)
  IN Kept(called, text, [text EXCEPT ![1] = @ + CallLen], Normal)

error(t, message) == echo(t, message, Normal)

exception(t, message, stack) == echo(error(t, message), stack, Normal)

update(t, n, text) ==
  LET i == IF n < 0 THEN Len(t.lines) + n + 1 ELSE n + 1
  IN IF i \notin DOMAIN t.lines THEN error(t, <<1>>)
     ELSE redraw([t EXCEPT !.lines[i] = [text |-> text, same |-> TRUE]])

\* What waits to be flushed stays in the buffer, without a line of its own.
cleared(t) ==
  [t EXCEPT !.output = <<>>, !.lines = <<>>, !.due = {},
            !.output_buffer = [k \in DOMAIN @ |-> [@[k] EXCEPT !.of = 0]]]

-----------------------------------------------------------------------------
(* What happens to the terminal.                                           *)

Screens(size, shown, limit) ==
  [window |-> size, visible |-> shown, outputLimit |-> limit,
   num_chars |-> IF shown THEN size.width ELSE Undefined,
   num_rows |-> IF shown THEN size.height ELSE Undefined,
   lines |-> <<>>,           \* what was printed
   output_buffer |-> <<>>,   \* divs that are not on the page
   output |-> <<>>,          \* the divs on the page: [of : number of a line, rows]
   scroll_bars |-> FALSE,    \* as the terminal saw it last
   old_size |-> Nothing,        \* the size at the last redraw by resize
   timer |-> <<>>,           \* the resize that waits
   due |-> {}]               \* history: lines that have been on the page

OutputInit ==
  /\ \E size \in Windows, shown \in BOOLEAN, limit \in Limits :
       screen = Screens(size, shown, limit)
  /\ promised = {}

HasRoom(n) == Len(screen.lines) + n <= MaxLines

Echo(text, options) ==
  /\ HasRoom(1)
  /\ screen' = echo(screen, text, options)
  /\ UNCHANGED promised

EchoCalling(text, answer) ==
  /\ HasRoom(2)
  /\ screen' = echoCalling(screen, text, answer)
  /\ UNCHANGED promised

EchoPromise(text) ==
  /\ promised = {}
  /\ promised' = {text}
  /\ UNCHANGED screen

\* A promise that is rejected prints nothing.
Resolve(text) ==
  /\ text \in promised /\ HasRoom(1)
  /\ promised' = promised \ {text}
  /\ screen' = echo(screen, text, Normal)

Reject(text) == text \in promised /\ promised' = promised \ {text} /\ UNCHANGED screen

Flush == screen' = flush(screen) /\ UNCHANGED promised

Update(n, text) ==
  /\ HasRoom(1)
  /\ screen' = update(screen, n, text)
  /\ UNCHANGED promised

Exception(message, stack) ==
  /\ HasRoom(2)
  /\ screen' = exception(screen, message, stack)
  /\ UNCHANGED promised

\* resize(), and resize(width, height).
Resize(size) == screen' = resize(screen, size) /\ UNCHANGED promised

ResizeTimer ==
  /\ screen.timer # <<>>
  /\ screen' = resize([screen EXCEPT !.timer = <<>>], Head(screen.timer))
  /\ UNCHANGED promised

\* The page gives the element another size; the event is ignored when hidden.
WindowResizes(size) ==
  LET sized == [screen EXCEPT !.window = size]
  IN /\ screen' = IF screen.visible /\ screen.old_size # size
                  THEN resize(sized, Nothing) ELSE sized
     /\ UNCHANGED promised

Show(shown) == screen' = [screen EXCEPT !.visible = shown] /\ UNCHANGED promised

\* 10 ms after a key.
KeyTimer == screen' = on_scrollbar_show_resize(screen) /\ UNCHANGED promised

Prints ==
  \/ \E text \in Texts, options \in {Normal, Waiting} : Echo(text, options)
  \/ \E text \in Texts, answer \in Texts \cup {Nothing} : EchoCalling(text, answer)
  \/ \E text \in Texts : EchoPromise(text) \/ Resolve(text) \/ Reject(text)
  \/ Flush
  \/ \E n \in (-MaxLines)..MaxLines, text \in Texts : Update(n, text)
  \/ \E message, stack \in Texts : Exception(message, stack)

Resizes ==
  \/ \E size \in Windows \cup {Nothing} : Resize(size)
  \/ ResizeTimer
  \/ \E size \in Windows : WindowResizes(size)
  \/ \E shown \in BOOLEAN : Show(shown)
  \/ KeyTimer

-----------------------------------------------------------------------------
(* Correctness.                                                            *)

\* Div d shows its line as redraw would, unless the two differ: a div without a
\* line was flushed after a clear, and an extended command makes its line longer
\* when it is redrawn.
Whole(t, i) == [of |-> i, rows |-> split_equal(t.lines[i].text, t.num_chars)]
Right(t, d) == d.of # 0 /\ t.lines[d.of].same => d = Whole(t, d.of)

\* The screen shows the lines that were printed, in their order and each
\* once, split for the width of the terminal, through echoes with and without
\* flush, updates, resizes and redraws (terminal.js:3092-3164, 4317-4470):
\* only the first div on the screen may be cut, and without outputLimit every
\* line that was flushed or has been redrawn is there.
ScreenFollowsLines ==
  LET shown == screen.output
  IN /\ \A j, k \in DOMAIN shown :
          j < k /\ shown[k].of # 0 => shown[j].of < shown[k].of
     /\ \A k \in DOMAIN shown : k > 1 => Right(screen, shown[k])
     /\ Unlimited(screen) =>
          \A i \in screen.due : screen.lines[i].same /\ screen.lines[i].text # Empty =>
            \E k \in DOMAIN shown : shown[k] = Whole(screen, i)

====
