--------------------------- MODULE LineDiscipline ---------------------------
(***************************************************************************)
(* What the shell promises to somebody at the keyboard: the words handed   *)
(* to a command are those of the line as it was left after editing, and    *)
(* of nothing else, and only a command that is meant to takes the prompt   *)
(* away.  Console is shown to implement this.                              *)
(***************************************************************************)
EXTENDS Hex

CONSTANTS
    Commands,     \* handler of each command, by its name
    MaxWords,     \* MAX_SHELL_ARGS
    RestartCall,  \* the system call numbers that do not return:
    PanicCall     \* 0x4444 and 0x7777

VARIABLES
    size,   \* of the line buffer, its terminator included
    phase,  \* "new", "reading", "entered", "cut", "running" or "stopped"
    line,   \* the characters kept
    words   \* the words of the running command

line_vars == <<size, phase, line, words>>

Blank == {" ", "TAB", "CR", "LF"}

\* A serial break (NUL) ends the line.
Kept(typed) ==
    SubSeq(typed, 1, Min({n \in DOMAIN typed : typed[n] = "NUL"} \cup {Len(typed) + 1}) - 1)

\* A word starts at the first character, whatever that is, and wherever a blank is
\* followed by something else.  It ends before the next blank.
Starts(text) == {n \in DOMAIN text : n = 1 \/ (text[n] \notin Blank /\ text[n - 1] \in Blank)}
Start(text, n) == CHOOSE s \in Starts(text) :
                      Cardinality({r \in Starts(text) : r < s}) = n - 1
Stops(text) == {n \in DOMAIN text : text[n] \in Blank} \cup {Len(text) + 1}
WordFrom(text, s) == SubSeq(text, s, Min({e \in Stops(text) : e >= s}) - 1)

\* The words of a line; those after MaxWords are dropped.
Words(typed) ==
    [n \in 1..Min({MaxWords, Cardinality(Starts(Kept(typed)))}) |->
        WordFrom(Kept(typed), Start(Kept(typed), n))]

Handler == IF words # <<>> /\ words[1] \in DOMAIN Commands THEN Commands[words[1]]
                                                         ELSE "quiet"
MustStop == \/ Handler \in {"panic", "reboot"}
            \/ /\ Handler = "trapsvc" /\ Len(words) > 1
               /\ NumberIn(words[2]) \in {RestartCall, PanicCall}
MayStop == MustStop \/ (Handler = "memread" /\ Len(words) > 1)

LineInit == phase = "new" /\ line = <<>> /\ words = <<>>

Type == /\ phase = "reading" /\ Len(line) + 1 < size
        /\ Len(line') = Len(line) + 1 /\ Front(line') = line
        /\ UNCHANGED <<size, phase, words>>

Rub == /\ phase = "reading" /\ line # <<>>
       /\ line' = Front(line)
       /\ UNCHANGED <<size, phase, words>>

Enter == /\ phase = "reading" /\ Len(line) + 1 < size
         /\ phase' = "entered"
         /\ UNCHANGED <<size, line, words>>

Cut == /\ phase = "reading" /\ Len(line) + 1 = size
       /\ phase' = "cut"
       /\ UNCHANGED <<size, line, words>>

Run == /\ phase \in {"entered", "cut"}
       /\ phase' = "running"
       /\ words' = Words(line)
       /\ line' = <<>>
       /\ UNCHANGED size

Prompt == /\ phase = "new" \/ (phase = "running" /\ ~MustStop)
          /\ phase' = "reading"
          /\ words' = <<>>
          /\ UNCHANGED <<size, line>>

Stop == /\ phase = "running" /\ MayStop
        /\ phase' = "stopped"
        /\ UNCHANGED <<size, line, words>>

LineNext == Type \/ Rub \/ Enter \/ Cut \/ Run \/ Prompt \/ Stop

LineSpec == LineInit /\ [][LineNext]_line_vars
=============================================================================
