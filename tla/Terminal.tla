------------------------------ MODULE Terminal ------------------------------
(***************************************************************************)
(* What the desktop's terminal window keeps of the programs it runs        *)
(* (apps/xde_main.c): a fixed number of rows of a fixed width, filled by   *)
(* the captured output with its control characters and escape sequences,   *)
(* and the line being typed.  How a program is started and what it reports *)
(* is in ShellProtocol.                                                    *)
(***************************************************************************)
EXTENDS Integers, Sequences

CONSTANTS
    Rows, Cols, AnsiMax,    \* XDE_TERMINAL_ROWS, XDE_TERMINAL_COLS, the escape buffer
    CaptureMax,             \* how much of the capture file is read
    Chars,                  \* the characters of keys, outputs and messages
    Keys,                   \* the characters typed
    Upper,                  \* a letter to its capital
    Meaning,                \* a typed line to a builtin, or to "external"
    Outputs,                \* what a program prints
    MaxKeys, MaxLines       \* bounds: keys typed, lines submitted

ASSUME ScreenAssumption == Rows \in Nat \ {0} /\ Cols \in Nat \ {0, 1} /\ AnsiMax \in Nat \ {0} /\ CaptureMax \in Nat
ASSUME CharsAssumption ==
    /\ {" ", "$", "s", "C", "t", "f"} \subseteq Chars /\ {"CLEAR", "END"} \cap Chars = {}
    /\ Keys \subseteq Chars /\ Upper \in [Keys \ {"BS"} -> Chars] /\ Outputs \subseteq Seq(Chars)

VARIABLES
    rows, col, open,        \* terminal_rows, terminal_output_col, terminal_output_open
    ansi, params,           \* terminal_ansi_state, terminal_ansi_buf
    line, caps, exited,     \* terminal_line, terminal_caps, terminal_exited
    shown,                  \* everything given to the window since it opened
    keysLeft, linesLeft

screen == <<rows, col, open, ansi, params>>
terminalVars == <<screen, line, caps, exited, shown, keysLeft, linesLeft>>

Prompt == <<"$">>
\* What may stand inside an escape sequence; the rest ends it.
Inner == {"0", "1", "2", "3", ";", " ", "NL", "CR", "BS", "TAB", "BEL", "ESC"}

---------------------------------------------------------------------------
(***************************************************************************)
(* The functions on a screen s = [rows, col, open, ansi, params].          *)
(***************************************************************************)
Clipped(text) == IF Len(text) < Cols THEN text ELSE SubSeq(text, 1, Cols - 1)

\* Another row; the oldest one leaves a full window.
AddRow(s, text) ==
    [s EXCEPT !.rows = Append(IF Len(@) >= Rows THEN SubSeq(@, 2, Rows) ELSE @, text)]

Clear(s) == [s EXCEPT !.rows = <<>>, !.col = 0, !.open = FALSE]
Push(s, text) == [AddRow(s, Clipped(text)) EXCEPT !.col = 0, !.open = FALSE]
StartOutputLine(s) == IF s.open THEN s ELSE [AddRow(s, <<>>) EXCEPT !.col = 0, !.open = TRUE]
Newline_Always(s) == Push(s, <<>>)
Newline(s) == IF s.open THEN [s EXCEPT !.col = 0, !.open = FALSE] ELSE Push(s, <<>>)

\* A character in an open row.
PutAt(s, ch) == [s EXCEPT !.rows[Len(s.rows)] = Append(SubSeq(@, 1, s.col), ch), !.col = @ + 1]
PutChar(s, ch) ==
    LET here == StartOutputLine(s)
    IN  PutAt(IF here.col + 1 >= Cols THEN StartOutputLine(Newline(here)) ELSE here, ch)

Backspace(s) ==
    IF s.open /\ s.col > 0
    THEN [s EXCEPT !.col = @ - 1, !.rows[Len(s.rows)] = SubSeq(@, 1, s.col - 1)] ELSE s

HandleAnsi(s, final) ==
    IF final = "J" /\ \E i \in DOMAIN s.params : s.params[i] \in {"2", "3"} THEN Clear(s)
    ELSE IF final = "K" /\ s.open /\ s.rows # <<>>
    THEN [s EXCEPT !.rows[Len(s.rows)] = <<>>, !.col = 0] ELSE s

\* One character of the output.
OutputChar(s, ch) ==
    CASE s.ansi = 1 -> IF ch = "[" THEN [s EXCEPT !.ansi = 2, !.params = <<>>] ELSE [s EXCEPT !.ansi = 0]
      [] s.ansi = 2 -> IF ch \notin Inner THEN [HandleAnsi(s, ch) EXCEPT !.ansi = 0, !.params = <<>>]
                       ELSE IF Len(s.params) + 1 < AnsiMax THEN [s EXCEPT !.params = Append(@, ch)] ELSE s
      [] s.ansi = 0 /\ ch = "ESC" -> [s EXCEPT !.ansi = 1]
      [] s.ansi = 0 /\ ch = "NL"  -> Newline(s)
      [] s.ansi = 0 /\ ch = "BS"  -> Backspace(s)
      [] s.ansi = 0 /\ ch = "TAB" -> PutChar(PutChar(PutChar(PutChar(s, " "), " "), " "), " ")
      [] s.ansi = 0 /\ ch \in {"CR", "BEL"} -> s
      [] OTHER -> PutChar(s, ch)

AppendOutput(s, text) ==
    LET f[i \in 0..Len(text)] == IF i = 0 THEN s ELSE OutputChar(f[i - 1], text[i])
    IN  f[Len(text)]

---------------------------------------------------------------------------
Screen == [rows |-> rows, col |-> col, open |-> open, ansi |-> ansi, params |-> params]
Becomes(s, events) ==
    /\ rows' = s.rows /\ col' = s.col /\ open' = s.open /\ ansi' = s.ansi /\ params' = s.params
    /\ shown' = shown \o events

Row(text) == [row |-> TRUE, text |-> text]
Printed(text) == [i \in DOMAIN text |-> [row |-> FALSE, text |-> text[i]]]

\* A key; the line holds one character less than its buffer.
Key(ch) ==
    /\ IF ch = "BS" THEN line' = IF line = <<>> THEN line ELSE SubSeq(line, 1, Len(line) - 1)
       ELSE line' = IF Len(line) + 1 < Cols THEN Append(line, IF caps THEN Upper[ch] ELSE ch) ELSE line
    /\ keysLeft > 0 /\ keysLeft' = keysLeft - 1
    /\ UNCHANGED <<screen, caps, exited, shown, linesLeft>>

Asks(what) == linesLeft > 0 /\ (IF line \in DOMAIN Meaning THEN Meaning[line] ELSE "unknown") = what

\* Enter: the prompt with the line becomes a row, then the command answers.
Entered == Push(Screen, Prompt \o line)
Submit(s, events) ==
    /\ Becomes(s, <<Row(Prompt \o line)>> \o events)
    /\ line' = <<>>
    /\ linesLeft' = linesLeft - 1
    /\ UNCHANGED keysLeft

SubmitNothing ==
    /\ linesLeft > 0 /\ line = <<>> /\ Submit(Push(Entered, <<>>), <<Row(<<>>)>>)
    /\ UNCHANGED <<caps, exited>>
SubmitClosed ==
    /\ linesLeft > 0 /\ exited /\ line # <<>> /\ Submit(Push(Entered, <<"s">>), <<Row(<<"s">>)>>)
    /\ UNCHANGED <<caps, exited>>
RunClear ==
    /\ Asks("clear") /\ ~exited
    /\ Submit(Clear(Entered), Printed(<<"CLEAR">>))
    /\ UNCHANGED <<caps, exited>>
RunCaps ==
    /\ Asks("caps") /\ ~exited /\ Submit(Push(Entered, <<"C">>), <<Row(<<"C">>)>>)
    /\ caps' = ~caps
    /\ UNCHANGED exited
RunExit ==
    /\ Asks("exit") /\ ~exited /\ Submit(Push(Entered, <<"s">>), <<Row(<<"s">>)>>)
    /\ exited' = TRUE
    /\ UNCHANGED caps
RunUnknown ==
    /\ Asks("unknown") /\ line # <<>> /\ ~exited
    /\ Submit(Push(Entered, <<"t">>), <<Row(<<"t">>)>>)
    /\ UNCHANGED <<caps, exited>>

\* The capture is read as a C string.
UpToNul(text) ==
    LET nul == {i \in DOMAIN text : text[i] = "NUL"}
    IN  IF nul = {} THEN text ELSE SubSeq(text, 1, (CHOOSE i \in nul : \A j \in nul : i <= j) - 1)

\* A program has ended: what fits of its capture file, a line break, the session
\* it may have closed (what it leaves in the return file), and its status unless
\* that is 0.  A program that is killed after 8192 polls leaves the status at -1,
\* which is also what a program that could not start has; its return file is not
\* read.
EmitStatus(s, status) ==
    IF status = 0 THEN s ELSE Push(s, IF status = -1 THEN <<"f">> ELSE <<"t", "s">>)
StatusRow(status) == IF status = 0 THEN <<>> ELSE <<Row(IF status = -1 THEN <<"f">> ELSE <<"t", "s">>)>>
EmitClosed(s, closed) == IF closed THEN Push(s, <<"s">>) ELSE s
ClosedRow(closed) == IF closed THEN <<Row(<<"s">>)>> ELSE <<>>
RunProgram(output, status, closes) ==
    LET closed == closes /\ status # -1 IN
    /\ Asks("external") /\ ~exited
    /\ LET text  == UpToNul(IF Len(output) > CaptureMax THEN SubSeq(output, 1, CaptureMax) ELSE output)
           begun == IF status = -1 THEN Push(Entered, <<"t">>) ELSE Entered
           ended == IF output = <<>> THEN begun ELSE Newline(AppendOutput(begun, text))
       IN  Submit(EmitStatus(EmitClosed(ended, closed), status),
                  (IF status = -1 THEN <<Row(<<"t">>)>> ELSE <<>>) \o Printed(text)
                  \o (IF output = <<>> THEN <<>> ELSE Printed(<<"END">>)) \o ClosedRow(closed) \o StatusRow(status))
    /\ exited' = (exited \/ closed)
    /\ UNCHANGED caps
NotStarted ==
    /\ Asks("external") /\ ~exited
    /\ Submit(EmitStatus(Entered, -1), StatusRow(-1))
    /\ UNCHANGED <<caps, exited>>

TerminalInit ==
    /\ rows = <<>> /\ col = 0 /\ open = FALSE /\ ansi = 0 /\ params = <<>>
    /\ line = <<>> /\ caps = FALSE /\ exited = FALSE
    /\ shown = <<>>
    /\ keysLeft = MaxKeys /\ linesLeft = MaxLines

TerminalNext ==
    \/ \E ch \in Keys : Key(ch)
    \/ SubmitNothing \/ SubmitClosed \/ RunClear \/ RunCaps \/ RunExit \/ RunUnknown
    \/ \E output \in Outputs, status \in {0, 1, -1}, closes \in BOOLEAN : RunProgram(output, status, closes)
    \/ NotStarted

TerminalSpec == TerminalInit /\ [][TerminalNext]_terminalVars

---------------------------------------------------------------------------
\* A transcript: the lines since the last clear, an escape sequence that is not
\* at its end, and whether the next character begins a line.
Whole(p) == IF Len(p) = 2 THEN p[2] # "[" ELSE Len(p) > 2 /\ p[Len(p)] \notin Inner
RowWidth == Cols - 1
NoLines == [lines |-> <<>>, esc |-> <<>>, fresh |-> TRUE]
WithChar(t, ch) ==
    IF t.fresh THEN [t EXCEPT !.lines = Append(@, <<ch>>), !.fresh = FALSE]
    ELSE IF Len(t.lines[Len(t.lines)]) = RowWidth THEN [t EXCEPT !.lines = Append(@, <<ch>>)]
    ELSE [t EXCEPT !.lines[Len(t.lines)] = Append(@, ch)]
LastLine(t, text) == [t EXCEPT !.lines[Len(t.lines)] = text]
Emptied(t) == [t EXCEPT !.lines = <<>>, !.fresh = TRUE]
LineBreak(t) == [t EXCEPT !.lines = IF t.fresh THEN Append(@, <<>>) ELSE @, !.fresh = TRUE]

\* The end of the sequence p: of its parameters the first AnsiMax - 1 count.
Escaped(t, p) ==
    IF p[Len(p)] = "J" /\ \E i \in DOMAIN p : i <= AnsiMax + 1 /\ p[i] \in {"2", "3"} THEN [Emptied(t) EXCEPT !.esc = <<>>]
    ELSE IF p[Len(p)] = "K" /\ Len(p) > 2 /\ ~t.fresh THEN LastLine([t EXCEPT !.esc = <<>>], <<>>)
    ELSE [t EXCEPT !.esc = <<>>]
Spoken(t, ch) ==
    CASE ch = "ESC" -> [t EXCEPT !.esc = <<ch>>]
      [] ch = "NL" -> LineBreak(t)
      [] ch \in {"CR", "BEL"} -> t
      [] ch = "TAB" -> WithChar(WithChar(WithChar(WithChar(t, " "), " "), " "), " ")
      [] ch = "BS" -> IF t.fresh \/ t.lines[Len(t.lines)] = <<>> THEN t
                      ELSE LastLine(t, SubSeq(t.lines[Len(t.lines)], 1, Len(t.lines[Len(t.lines)]) - 1))
      [] OTHER -> WithChar(t, ch)
Event(t, e) ==
    IF e.row THEN [t EXCEPT !.lines = Append(@, Clipped(e.text)), !.fresh = TRUE]
    ELSE IF e.text = "CLEAR" THEN Emptied(t)
    ELSE IF e.text = "END" THEN LineBreak(t)
    ELSE IF t.esc = <<>> THEN Spoken(t, e.text)
    ELSE LET p == Append(t.esc, e.text)
         IN  IF Whole(p) THEN Escaped(t, p) ELSE [t EXCEPT !.esc = p]
Transcript(events) ==
    LET f[i \in 0..Len(events)] == IF i = 0 THEN NoLines ELSE Event(f[i - 1], events[i])
    IN  f[Len(events)]

LastRows(all) == IF Len(all) <= Rows THEN all ELSE SubSeq(all, Len(all) - Rows + 1, Len(all))

\* The window shows the end of the transcript: of everything given to it
\* since the last clear, cut to rows of the width, the last rows in order.
\* The transcript takes an escape sequence as a whole, also where it is cut
\* between two programs, and drops a sequence it does not know
\* (xde_terminal_append_output, xde_terminal_push).
ScreenIsTail == rows = LastRows(Transcript(shown).lines)

\* What the proofs add: the open row, its column and the state of the escape
\* sequence are the transcript's.
Window(s, t) ==
    /\ s.rows = LastRows(t.lines) /\ s.open = ~t.fresh
    /\ s.open => s.col = Len(t.lines[Len(t.lines)])
Escape(s, t) ==
    CASE s.ansi = 0 -> t.esc = <<>>
      [] s.ansi = 1 -> t.esc = <<"ESC">>
      [] s.ansi = 2 ->
           /\ Len(t.esc) >= 2 /\ t.esc[1] = "ESC" /\ t.esc[2] = "["
           /\ \A i \in 3..Len(t.esc) : t.esc[i] \in Inner
           /\ Len(s.params) = IF Len(t.esc) <= AnsiMax + 1 THEN Len(t.esc) - 2 ELSE AnsiMax - 1
           /\ \A i \in DOMAIN s.params : s.params[i] = t.esc[i + 2]
Agrees(s, t) == Window(s, t) /\ Escape(s, t)
Screens == [rows : Seq(Seq(Chars)), col : Nat, open : BOOLEAN, ansi : 0..2, params : Seq(Chars)]
Events == [row : {TRUE}, text : Seq(Chars)] \cup [row : {FALSE}, text : Chars \cup {"CLEAR", "END"}]
TerminalInv ==
    /\ Screen \in Screens /\ line \in Seq(Chars) /\ shown \in Seq(Events)
    /\ Agrees(Screen, Transcript(shown))
=============================================================================
