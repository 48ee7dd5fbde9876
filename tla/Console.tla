------------------------------- MODULE Console -------------------------------
(***************************************************************************)
(* The shell at the console: the line editor (console_read_line), the      *)
(* tokenizer, the dispatch and what each command does with its arguments,  *)
(* over the one buffer run_shell_loop keeps on its stack.                  *)
(*                                                                         *)
(* The buffer holds whatever was there before, and each line is written    *)
(* over the one before it.  Offsets count from 0, as in C.                 *)
(***************************************************************************)
EXTENDS Hex

CONSTANTS
    Sessions,     \* what may happen at a console; the fields are below
    Commands,     \* the commands table: a handler by the characters of its name
    MaxWords,     \* MAX_SHELL_ARGS
    RestartCall,  \* the system call numbers that do not return:
    PanicCall     \* 0x4444 and 0x7777

\* size: of the buffer; keys: the characters that may be typed at each place of
\* the line; fill: what the buffer may hold at first; lines: bound on lines read;
\* columns: of the terminal, more than the prompt takes.
ASSUME SessionAssumption ==
    \A s \in Sessions : /\ s.size \in Nat \ 0..1 /\ s.lines \in Nat
                        /\ s.columns \in Nat \ 0..2
                        /\ DOMAIN s.keys = 0..(s.size - 1)

Handlers == {"quiet", "add", "memread", "panic", "reboot", "trapsvc"}

ASSUME ShellAssumption == /\ MaxWords \in Nat \ {0}
                          /\ \A name \in DOMAIN Commands : Commands[name] \in Handlers
                          /\ RestartCall # PanicCall
                          /\ 4 \notin {RestartCall, PanicCall}  \* trapsvc's default

VARIABLES
    session,  \* which of Sessions: constant
    pc,       \* "prompt", "read", "dispatch", a handler, "stopped" or "restarting"
    text,     \* command[COMMAND_LENGTH]
    i,        \* characters of the line so far
    typed,    \* history: the line as it was when it ended
    length,   \* string_length of the line
    k,        \* the tokenizer's place in it
    between,  \* it has met a blank since the last word
    tokens,   \* offsets of argv[0], argv[1], ...
    arg,      \* the argument memread is at
    shown,    \* digits the running command printed last
    screen,   \* the row of the terminal that is written: cells and cursor column
    strayed,  \* history: a character was rubbed out that ended a row
    lines     \* prompts printed

scan_vars == <<length, k, between>>
vars == <<session, pc, text, i, typed, scan_vars, tokens, arg, shown, screen, strayed, lines>>

size == session.size
Index == 0..(size - 1)

Enter == {"LF", "CR"}
Erase == {"BS", "DEL"}
Blank == {" ", "TAB", "CR", "LF"}
Control == {"NUL", "TAB"} \cup Enter \cup Erase

-----------------------------------------------------------------------------
(* The terminal.  A row that is full stays so until the next character     *)
(* begins another; a cursor that moves left never leaves its row; a tab    *)
(* moves to the next multiple of eight, or to the last column.  What is    *)
(* above the cursor's row cannot change any more, and is not kept.         *)

Columns == session.columns
Row == 0..(Columns - 1)
NextRow == [cells |-> [n \in Row |-> " "], cursor |-> 0]
Fresh == [cells |-> [n \in Row |-> IF n = 0 THEN ">" ELSE " "], cursor |-> 2]

Write(s, c) == [cells |-> [s.cells EXCEPT ![s.cursor] = c], cursor |-> s.cursor + 1]

Echo(s, c) ==
    CASE c \notin Control -> Write(IF s.cursor = Columns THEN NextRow ELSE s, c)
      [] c = "BS"  -> [s EXCEPT !.cursor = CASE @ = 0 -> 0
                                             [] @ = Columns -> @ - 2
                                             [] OTHER -> @ - 1]
      [] c = "TAB" -> [s EXCEPT !.cursor = Min({8 * (@ \div 8) + 8, Columns - 1})]
      [] OTHER     -> s

\* Prompt and line together fill whole rows.
AtRowStart == (i + 2) % Columns = 0

-----------------------------------------------------------------------------
(* console_read_line.                                                      *)

Init == /\ session \in Sessions
        /\ pc = "prompt"
        /\ text \in [Index -> session.fill]
        /\ i = 0 /\ typed = <<>> /\ length = 0 /\ k = 0 /\ between = FALSE
        /\ tokens = <<>> /\ arg = 1 /\ shown = <<>>
        /\ screen = Fresh /\ strayed = FALSE
        /\ lines = 0

\* The prompt has a row of its own: all that is printed before it ends its row (but for
\* a line that was cut and is empty, which takes a typed NUL).
Prompt == /\ pc = "prompt"
          /\ pc' = "read"
          /\ i' = 0 /\ typed' = <<>> /\ length' = 0 /\ k' = 0 /\ between' = FALSE
          /\ tokens' = <<>> /\ arg' = 1 /\ shown' = <<>>
          /\ screen' = Fresh /\ strayed' = FALSE
          /\ lines' = lines + 1
          /\ UNCHANGED <<session, text>>

\* A plausible slip: no room is kept for the terminator.
RoomToTheEnd == i < size

Room == i + 1 < size

\* console_getc: what may be typed next.
Typed == IF lines <= session.lines THEN session.keys[i] ELSE {}

\* A plausible slip: the line ends where the buffer does, terminated or not.
Unterminated == text

Terminated == [text EXCEPT ![i] = "NUL"]

Line == [n \in 1..i |-> text[n - 1]]

\* The echo of the end of a line leaves the prompt's row.
EnterKey == /\ pc = "read" /\ Room
            /\ Typed \cap Enter # {}
            /\ text' = [text EXCEPT ![i] = "NUL"]
            /\ pc' = "dispatch"
            /\ typed' = Line
            /\ UNCHANGED <<session, i, scan_vars, tokens, arg, shown, screen, strayed, lines>>

\* A plausible slip: the character goes from the buffer but not from the screen.
RubOut(s) == Echo(s, "BS")

\* Left, space, left.
RubOutSpace(s) == Echo(Echo(Echo(s, "BS"), " "), "BS")

EraseKey == /\ pc = "read" /\ Room
            /\ Typed \cap Erase # {}
            /\ i > 0
            /\ i' = i - 1
            /\ screen' = RubOutSpace(screen)
            /\ strayed' = (strayed \/ AtRowStart)
            /\ UNCHANGED <<session, pc, text, typed, scan_vars, tokens, arg, shown, lines>>

Key == /\ pc = "read" /\ Room
       /\ \E c \in Typed \ (Enter \cup Erase) :
             /\ text' = [text EXCEPT ![i] = c]
             /\ screen' = Echo(screen, c)
       /\ i' = i + 1
       /\ UNCHANGED <<session, pc, typed, scan_vars, tokens, arg, shown, strayed, lines>>

\* The buffer is full: the line ends here, without an echo, and what is typed
\* next belongs to another.
FullLine == /\ pc = "read" /\ ~Room
            /\ text' = Terminated
            /\ pc' = "dispatch"
            /\ typed' = Line
            /\ UNCHANGED <<session, i, scan_vars, tokens, arg, shown, screen, strayed, lines>>

-----------------------------------------------------------------------------
(* tokenize_command and dispatch_command.                                  *)

\* string_length of what is at p: up to the first NUL, or out of the buffer.
End(t, p) == CHOOSE e \in p..size : /\ e < size => t[e] = "NUL"
                                    /\ \A n \in p..(e - 1) : t[n] # "NUL"
StringAt(t, p) == [n \in 1..(End(t, p) - p) |-> t[p + n - 1]]

argc == Len(tokens)
argv(n) == StringAt(text, tokens[n + 1])
Number(n) == console_uint64_from_hex(argv(n))

Measure == /\ pc = "dispatch"
           /\ length' = End(text, 0)
           /\ IF length' = 0 THEN pc' = "prompt" /\ UNCHANGED tokens
                             ELSE pc' = "tokenize" /\ tokens' = <<0>>
           /\ UNCHANGED <<session, text, i, typed, k, between, arg, shown, screen, strayed, lines>>

Scanning == pc = "tokenize" /\ k < length /\ text[k] # "NUL"

Scanned == /\ k' = k + 1
           /\ UNCHANGED <<session, pc, i, length, typed, arg, shown, screen, strayed, lines>>

\* A plausible slip: the blank after a word stays in the buffer.
BlankKept == text

BlankReplaced == [text EXCEPT ![k] = "NUL"]

ScanBlank == /\ Scanning /\ text[k] \in Blank
             /\ between' = TRUE
             /\ text' = BlankReplaced
             /\ Scanned /\ UNCHANGED tokens

ScanFirst == /\ Scanning /\ text[k] \notin Blank /\ between
             /\ argc < MaxWords
             /\ tokens' = Append(tokens, k)
             /\ between' = FALSE
             /\ Scanned /\ UNCHANGED text

ScanRest == /\ Scanning /\ text[k] \notin Blank /\ ~between
            /\ Scanned /\ UNCHANGED <<text, tokens, between>>

\* The line has no more words, or more than there is room for.
Dispatch == /\ pc = "tokenize"
            /\ Scanning => text[k] \notin Blank /\ between /\ argc >= MaxWords
            /\ pc' = IF argv(0) \in DOMAIN Commands THEN Commands[argv(0)] ELSE "quiet"
            /\ UNCHANGED <<session, text, i, typed, scan_vars, tokens, arg, shown,
                           screen, strayed, lines>>

-----------------------------------------------------------------------------
(* The handlers.  "quiet" is help, info, uptime and the message for a      *)
(* command that does not exist: text, and the prompt again.                *)

Return(n, next) == /\ shown' = n
                   /\ pc' = next
                   /\ UNCHANGED <<session, text, i, typed, scan_vars, tokens, screen,
                                  strayed, lines>>

Quiet == pc = "quiet" /\ Return(shown, "prompt") /\ UNCHANGED arg

Add == /\ pc = "add"
       /\ Return(IF argc # 3 THEN shown
                 ELSE console_print_hex_value((Number(1) + Number(2)) % WordValues),
                 "prompt")
       /\ UNCHANGED arg

\* One argument a step; any address may be unmapped, and the load then aborts.
Memread == /\ pc = "memread"
           /\ IF arg < argc
              THEN /\ \E next \in {"memread", "stopped"} :
                         Return(console_print_hex_value(Number(arg)), next)
                   /\ arg' = arg + 1
              ELSE Return(shown, "prompt") /\ UNCHANGED arg

Panic == pc = "panic" /\ Return(shown, "stopped") /\ UNCHANGED arg

Reboot == pc = "reboot" /\ Return(shown, "restarting") /\ UNCHANGED arg

\* x8 and svc; handle_exception prints the number of a call it returns from.
TrapSvc ==
    /\ pc = "trapsvc"
    /\ LET number == IF argc < 2 THEN 4 ELSE Number(1)
       IN CASE number = RestartCall -> Return(shown, "restarting")
            [] number = PanicCall -> Return(shown, "stopped")
            [] OTHER -> Return(console_print_hex_value(number), "prompt")
    /\ UNCHANGED arg

Next == \/ Prompt \/ EnterKey \/ EraseKey \/ Key \/ FullLine \/ Measure
        \/ ScanBlank \/ ScanFirst \/ ScanRest \/ Dispatch
        \/ Quiet \/ Add \/ Memread \/ Panic \/ Reboot \/ TrapSvc

Spec == Init /\ [][Next]_vars
-----------------------------------------------------------------------------
(* Properties.                                                             *)

Running == pc \in Handlers \cup {"stopped", "restarting"}

\* Every variable has a value of its kind: the editor and the tokenizer stay in
\* the buffer, and no more words are kept than there is room for.
ConsoleTypeOK ==
    /\ session \in Sessions
    /\ pc \in {"prompt", "read", "dispatch", "tokenize", "stopped", "restarting"}
             \cup Handlers
    /\ DOMAIN text = Index
    /\ i \in Index
    /\ length \in 0..size /\ k \in 0..size /\ between \in BOOLEAN
    /\ tokens \in Seq(Index) /\ argc <= MaxWords
    /\ arg \in Nat \ {0} /\ lines \in Nat

\* No string that a command is given reaches past the end of the line, into what
\* an earlier line or call has left in the buffer.
NothingStale ==
    Running => \A n \in DOMAIN tokens : End(text, tokens[n]) <= i

\* Prompt and line take p places, and the cursor stands after c of them in its row.
Reaches(w, p, c) == /\ c \in 0..w
                   /\ \E rows \in 0..p : p = rows * w + c
PromptAndLine(t, p) == IF p < 2 THEN <<">", " ">>[p + 1] ELSE t[p - 2]
LastRow(w, t, p, c) == [n \in 0..(w - 1) |-> IF n < c THEN PromptAndLine(t, p - c + n)
                                                      ELSE " "]

\* While a line of visible characters is edited, the terminal shows the prompt and
\* the line that will be run, and nothing else, in as many rows as that takes; until
\* a character is rubbed out that ends a row.
Visible == \A n \in DOMAIN session.keys : session.keys[n] \cap {"NUL", "TAB"} = {}
ScreenShowsLine ==
    pc = "read" /\ Visible /\ ~strayed =>
        /\ Reaches(Columns, i + 2, screen.cursor)
        /\ screen.cells = LastRow(Columns, text, i + 2, screen.cursor)

\* The digits a command shows denote what its arguments say: their sum modulo the
\* size of a word for add, the address read for memread, the call for trapsvc.
NumbersRight ==
    /\ pc = "prompt" /\ shown # <<>> =>
           CASE Commands[argv(0)] = "add" ->
                    Denoted(shown) = (NumberIn(argv(1)) + NumberIn(argv(2))) % WordValues
             [] Commands[argv(0)] = "trapsvc" /\ argc > 1 ->
                    Denoted(shown) = NumberIn(argv(1))
             [] OTHER -> TRUE
    /\ pc = "memread" /\ arg > 1 => Denoted(shown) = NumberIn(argv(arg - 1))

\* The promise of LineDiscipline, kept.
Phase == CASE pc = "read" -> "reading"
           [] pc \in {"dispatch", "tokenize"} -> IF Room THEN "entered" ELSE "cut"
           [] pc \in {"stopped", "restarting"} -> "stopped"
           [] pc = "prompt" /\ lines = 0 -> "new"
           [] OTHER -> "running"
Arguments == IF Phase = "running" \/ Phase = "stopped"
             THEN [n \in 1..argc |-> argv(n - 1)] ELSE <<>>
LineNow == CASE Phase = "reading" -> Line
             [] Phase \in {"entered", "cut"} -> typed
             [] OTHER -> <<>>
Discipline == INSTANCE LineDiscipline WITH phase <- Phase, line <- LineNow, words <- Arguments

\* The words a command gets are those of the line as edited, whatever the buffer
\* held before, and a command takes the prompt away exactly when it is meant to.
ImplementsLineDiscipline == Discipline!LineSpec
=============================================================================
