----------------------------- MODULE MCConsole ------------------------------
(***************************************************************************)
(* Console for TLC: words of two hexadecimal digits, commands with names   *)
(* of one or two letters, and a few kinds of session.                      *)
(***************************************************************************)
EXTENDS Console

MCCommands == (<<"a">> :> "add") @@ (<<"d">> :> "memread") @@ (<<"a", "a">> :> "panic")
              @@ (<<"a", "d">> :> "reboot") @@ (<<"d", "d">> :> "trapsvc")

\* Keys: first at the first places of the line, then rest.
Session(width, room, first, rest, fill, count) ==
    [columns |-> width, size |-> room, fill |-> fill, lines |-> count,
     keys |-> [n \in 0..(room - 1) |-> IF n < Len(first) THEN first[n + 1] ELSE rest]]

MCSessions ==
    {\* Editing: any keys, over any leftovers of the same characters.
     Session(4, 5, <<>>, {"a", "d", " ", "LF", "BS"}, {"a", "NUL"}, 2),
     \* Characters that are not printed, other keys for the same, a smallest buffer.
     Session(10, 4, <<>>, {"a", "NUL", "TAB", "CR", "DEL"}, {"a", " "}, 2),
     Session(3, 2, <<>>, {"a", " ", "LF", "BS"}, {"a"}, 3),
     \* More words than there is room for.
     Session(4, 9, <<>>, {"d", " ", "LF"}, {"d"}, 1),
     \* Numbers: add, memread and trapsvc with arguments of every kind.
     Session(12, 9, <<{"a"}, {" "}>>, {"0", "x", "f", " ", "LF"}, {"f"}, 1),
     Session(12, 8, <<{"d"}, {" "}>>, {"0", "X", "A", " ", "LF"}, {"f"}, 1),
     Session(12, 8, <<{"d"}, {"d"}, {" "}>>, {"0", "x", "f", " ", "LF"}, {"f"}, 1)}
=============================================================================
