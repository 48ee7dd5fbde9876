---------------------------- MODULE Console_proof -----------------------------
(***************************************************************************)
(* For a buffer of any size, whatever is typed and whatever the buffer     *)
(* held: the editor and the tokenizer stay in it, no word reaches past the *)
(* end of the line, and the terminal shows what will be run.  From that,   *)
(* step by step, that Console implements LineDiscipline: the tokenizer,    *)
(* which scans a buffer, finds the words LineDiscipline finds by counting  *)
(* where they start.  Last, that the numbers shown are the numbers typed.  *)
(***************************************************************************)
EXTENDS Console, Hex_proof, FiniteSetTheorems

\* What the buffer may hold.
Chars == {"NUL"} \cup session.fill \cup UNION {session.keys[n] : n \in Index}

\* Where the line is complete.
Ended == {"dispatch", "tokenize", "stopped", "restarting"} \cup Handlers

IsScreen(s) == s = [cells |-> s.cells, cursor |-> s.cursor]

ConsoleInv ==
    /\ ConsoleTypeOK
    /\ text \in [Index -> Chars]
    /\ pc \in Ended => text[i] = "NUL"
    /\ pc \in {"read", "dispatch"} => k = 0
    /\ pc = "tokenize" => k <= length /\ length <= i
    /\ pc \in Ended \ {"dispatch"} => \A n \in DOMAIN tokens : tokens[n] <= i
    /\ IsScreen(screen)
    /\ ScreenShowsLine

-----------------------------------------------------------------------------
(* string_length.                                                          *)

\* A string ends at its first NUL, or at the end of the buffer.
LEMMA EndFound ==
    ASSUME session \in Sessions, NEW t, NEW p \in 0..size
    PROVE  /\ End(t, p) \in p..size
           /\ End(t, p) < size => t[End(t, p)] = "NUL"
           /\ \A n \in p..(size - 1) : t[n] = "NUL" => End(t, p) <= n
<1>1. size \in Nat /\ p \in Nat /\ p <= size BY SessionAssumption DEF size
<1> DEFINE S == {n \in p..size : n < size => t[n] = "NUL"}
<1>2. S \subseteq Nat /\ size \in S BY <1>1
<1>3. PICK m \in S : \A n \in S : m <= n BY <1>2, Least
<1> DEFINE Ends(e) == /\ e < size => t[e] = "NUL"
                      /\ \A n \in p..(e - 1) : t[n] # "NUL"
<1>4. m \in p..size /\ Ends(m)
  <2>1. m \in p..size /\ (m < size => t[m] = "NUL") OBVIOUS
  <2>2. ASSUME NEW n \in p..(m - 1), t[n] = "NUL" PROVE FALSE
    <3>1. n \in p..size /\ n < m BY <1>1, <2>1
    <3>2. n \in S BY <3>1, <2>2
    <3>3. m <= n BY <3>2, <1>3
    <3> QED BY <3>1, <3>3, <2>1, <1>1
  <2> QED BY <2>1, <2>2
<1>5. End(t, p) \in p..size /\ Ends(End(t, p))
  <2>1. End(t, p) = CHOOSE e \in p..size : Ends(e) BY DEF End
  <2> HIDE DEF Ends, S
  <2> QED BY <2>1, <1>4
<1>6. ASSUME NEW n \in p..(size - 1), t[n] = "NUL", ~ (End(t, p) <= n) PROVE FALSE
  <2>1. n \in p..(End(t, p) - 1) BY <1>1, <1>5, <1>6
  <2> QED BY <2>1, <1>5, <1>6
<1> QED BY <1>5, <1>6

-----------------------------------------------------------------------------
(* The editor.                                                             *)

\* What every step leaves alone, and what is known of the sizes.
LEMMA Sizes ==
    ASSUME ConsoleInv, session' = session
    PROVE  /\ size \in Nat /\ size > 0 /\ size' = size /\ Index' = Index /\ Chars' = Chars
           /\ Visible' <=> Visible
           /\ session \in Sessions /\ session' \in Sessions
           /\ DOMAIN session.keys = Index
           /\ i \in Index /\ i \in Nat /\ i < size /\ 0 \in Index
           /\ Columns \in Nat /\ Columns > 2 /\ Columns' = Columns /\ Row' = Row
           /\ MaxWords \in Nat /\ MaxWords > 0
<1>1. session \in Sessions BY DEF ConsoleInv, ConsoleTypeOK
<1>2. size \in Nat /\ size > 0 /\ DOMAIN session.keys = Index
      BY <1>1, SessionAssumption DEF size, Index
<1>3. i \in Index BY DEF ConsoleInv, ConsoleTypeOK
<1>4. size' = size /\ Index' = Index /\ Chars' = Chars /\ (Visible' <=> Visible)
      BY DEF size, Index, Chars, Visible
<1>5. Columns \in Nat /\ Columns > 2 BY <1>1, SessionAssumption DEF Columns
<1>6. Columns' = Columns /\ Row' = Row BY DEF Columns, Row
<1> QED BY <1>1, <1>2, <1>3, <1>4, <1>5, <1>6, ShellAssumption DEF Index

\* The terminal stays one.
LEMMA EchoScreen ==
    ASSUME NEW s, IsScreen(s), NEW c PROVE IsScreen(Echo(s, c))
<1>1. CASE c \notin Control BY <1>1 DEF Echo, Write, IsScreen
<1>2. CASE c \in Control /\ c = "BS" BY <1>2 DEF Echo, IsScreen
<1>3. CASE c \in Control /\ c # "BS" /\ c = "TAB" BY <1>3 DEF Echo, IsScreen
<1>4. CASE c \in Control /\ c # "BS" /\ c # "TAB" BY <1>4 DEF Echo
<1> QED BY <1>1, <1>2, <1>3, <1>4

\* Left of the last column and right of the first, a left moves the cursor only.
LEMMA EchoLeft ==
    ASSUME NEW s, IsScreen(s), Columns \in Nat, s.cursor \in 1..(Columns - 1)
    PROVE  Echo(s, "BS") = [cells |-> s.cells, cursor |-> s.cursor - 1]
<1>1. "BS" \in Control BY DEF Control, Erase
<1>2. s.cursor # 0 /\ s.cursor # Columns OBVIOUS
<1> QED BY <1>1, <1>2 DEF Echo, IsScreen

LEMMA EchoVisible ==
    ASSUME NEW s, NEW c, c \notin Control
    PROVE  Echo(s, c) = Write(IF s.cursor = Columns THEN NextRow ELSE s, c)
<1>1. c # "BS" /\ c # "TAB" BY DEF Control, Erase
<1> QED BY <1>1 DEF Echo

\* Left, space, left takes the last character away, unless it is in the last column.
LEMMA RubbedOut ==
    ASSUME NEW s, IsScreen(s), Columns \in Nat, s.cursor \in 1..(Columns - 1)
    PROVE  /\ RubOutSpace(s).cursor = s.cursor - 1
           /\ RubOutSpace(s).cells = [s.cells EXCEPT ![s.cursor - 1] = " "]
<1> DEFINE left == Echo(s, "BS")
           blanked == Echo(left, " ")
<1>1. left.cells = s.cells /\ left.cursor = s.cursor - 1 BY EchoLeft
<1>2. " " \notin Control BY DEF Control, Enter, Erase
<1>3. blanked = [cells |-> [left.cells EXCEPT ![left.cursor] = " "],
                 cursor |-> left.cursor + 1]
  <2>1. left.cursor # Columns BY <1>1
  <2> HIDE DEF left
  <2> QED BY <1>2, <2>1, EchoVisible DEF Write
<1>4. RubOutSpace(s) = Echo(blanked, "BS") BY DEF RubOutSpace
<1> HIDE DEF left, blanked
<1>5. blanked.cells = [s.cells EXCEPT ![s.cursor - 1] = " "] /\ blanked.cursor = s.cursor
  <2>1. /\ blanked.cells = [left.cells EXCEPT ![left.cursor] = " "]
        /\ blanked.cursor = left.cursor + 1
        BY <1>3
  <2>2. s.cursor - 1 + 1 = s.cursor OBVIOUS
  <2> QED BY <1>1, <2>1, <2>2
<1>6. IsScreen(blanked) BY <1>3 DEF IsScreen
<1>7. Echo(blanked, "BS") = [cells |-> blanked.cells, cursor |-> blanked.cursor - 1]
      BY <1>5, <1>6, EchoLeft
<1>8. /\ RubOutSpace(s).cells = blanked.cells
      /\ RubOutSpace(s).cursor = blanked.cursor - 1
      BY <1>4, <1>7
<1> QED BY <1>5, <1>8

\* Whole rows leave no remainder.
LEMMA WholeRows ==
    ASSUME NEW r \in Nat, NEW w \in Nat \ {0} PROVE (r * w) % w = 0
<1> DEFINE n == r * w
<1>1. n \in Nat /\ w * r + 0 = n OBVIOUS
<1> HIDE DEF n
<1>2. /\ n \div w \in Nat /\ n % w \in Nat /\ n % w < w
      /\ n = w * (n \div w) + (n % w)
      BY <1>1, Divided
<1>3. n \div w = r BY <1>1, <1>2, OneQuotient
<1>4. w * r + (n % w) = w * r + 0 BY <1>1, <1>2, <1>3
<1>5. w * r \in Nat OBVIOUS
<1> QED BY <1>2, <1>4, <1>5 DEF n

\* How the place of the cursor moves when a character is added or taken away.
LEMMA NextPlace ==
    ASSUME NEW w \in Nat \ {0}, NEW p \in Nat, NEW c, Reaches(w, p, c)
    PROVE  /\ c # w => Reaches(w, p + 1, c + 1)
           /\ c = w => Reaches(w, p + 1, 1)
<1>1. PICK rows \in 0..p : p = rows * w + c BY DEF Reaches
<1> DEFINE before == rows * w
<1>2. before \in Nat /\ (rows + 1) * w = before + w /\ rows \in Nat OBVIOUS
<1>3. c \in 0..w /\ p = before + c BY <1>1 DEF Reaches
<1>4. CASE c # w
  <2>1. c + 1 \in 0..w /\ p + 1 = before + (c + 1) /\ rows \in 0..(p + 1)
    <3> HIDE DEF before
    <3> QED BY <1>2, <1>3, <1>4
  <2> QED BY <2>1, <1>4 DEF Reaches
<1>5. CASE c = w
  <2>1. 1 \in 0..w /\ p + 1 = (before + w) + 1 /\ rows + 1 \in 0..(p + 1)
    <3> HIDE DEF before
    <3> QED BY <1>2, <1>3, <1>5
  <2> QED BY <2>1, <1>2, <1>5 DEF Reaches
<1> QED BY <1>4, <1>5

LEMMA PlaceBefore ==
    ASSUME NEW w \in Nat \ {0}, NEW p \in Nat, NEW c, Reaches(w, p, c), p % w # 0
    PROVE  c \in 1..(w - 1) /\ Reaches(w, p - 1, c - 1) /\ c <= p
<1>1. PICK rows \in 0..p : p = rows * w + c BY DEF Reaches
<1> DEFINE before == rows * w
<1>2. before \in Nat /\ (rows + 1) * w = before + w /\ rows <= before /\ rows \in Nat
  OBVIOUS
<1>3. c \in 0..w /\ p = before + c BY <1>1 DEF Reaches
<1>4. c # 0
  <2> SUFFICES ASSUME c = 0 PROVE FALSE OBVIOUS
  <2>1. p = rows * w BY <1>2, <1>3
  <2> QED BY <2>1, WholeRows
<1>5. c # w
  <2> SUFFICES ASSUME c = w PROVE FALSE OBVIOUS
  <2>1. p = (rows + 1) * w /\ rows + 1 \in Nat BY <1>2, <1>3
  <2> QED BY <2>1, WholeRows
<1>6. c \in 1..(w - 1) /\ c <= p /\ c - 1 \in 0..w /\ p - 1 = before + (c - 1)
      /\ rows \in 0..(p - 1)
  <2> HIDE DEF before
  <2> QED BY <1>2, <1>3, <1>4, <1>5
<1> QED BY <1>6 DEF Reaches

\* What the cursor's row shows then.
LEMMA RowErased ==
    ASSUME NEW w \in Nat, NEW t, NEW p \in Nat, NEW c \in 1..(w - 1)
    PROVE  LastRow(w, t, p - 1, c - 1) = [LastRow(w, t, p, c) EXCEPT ![c - 1] = " "]
<1>1. (p - 1) - (c - 1) = p - c OBVIOUS
<1>2. \A n \in 0..(w - 1) : n < c - 1 <=> (n < c /\ n # c - 1) OBVIOUS
<1> QED BY <1>1, <1>2 DEF LastRow

SameBefore(n, t, u) == \A m \in 0..(n - 1) : u[m] = t[m]

LEMMA RowWritten ==
    ASSUME NEW w \in Nat, NEW n \in Nat, NEW t, NEW u, NEW c \in 0..(w - 1),
           SameBefore(n, t, u), c <= n + 2
    PROVE  LastRow(w, u, n + 1 + 2, c + 1) = [LastRow(w, t, n + 2, c) EXCEPT ![c] = u[n]]
<1> DEFINE ch == u[n]
<1>1. (n + 1 + 2) - (c + 1) = (n + 2) - c OBVIOUS
<1>2. \A p \in 0..(n + 1) : PromptAndLine(u, p) = PromptAndLine(t, p)
  <2>1. \A p \in 0..(n + 1) : p < 2 \/ p - 2 \in 0..(n - 1) OBVIOUS
  <2> QED BY <2>1 DEF PromptAndLine, SameBefore
<1>3. PromptAndLine(u, n + 2) = ch
  <2>1. ~(n + 2 < 2) /\ (n + 2) - 2 = n OBVIOUS
  <2> QED BY <2>1, Zenon DEF PromptAndLine
<1> HIDE DEF ch
<1>4. ASSUME NEW k_ \in 0..(w - 1)
      PROVE  (IF k_ < c + 1 THEN PromptAndLine(u, (n + 2) - c + k_) ELSE " ")
               = IF k_ = c THEN ch
                 ELSE IF k_ < c THEN PromptAndLine(t, (n + 2) - c + k_) ELSE " "
  <2>1. CASE k_ = c
    <3>1. (n + 2) - c + k_ = n + 2 /\ k_ < c + 1 BY <2>1
    <3> QED BY <2>1, <3>1, <1>3, Zenon
  <2>2. CASE k_ < c
    <3>1. (n + 2) - c + k_ \in 0..(n + 1) /\ k_ < c + 1 /\ k_ # c BY <2>2
    <3>2. PromptAndLine(u, (n + 2) - c + k_) = PromptAndLine(t, (n + 2) - c + k_) BY <3>1, <1>2
    <3> QED BY <2>2, <3>1, <3>2, Zenon
  <2>3. CASE k_ > c
    <3>1. ~(k_ < c + 1) /\ k_ # c /\ ~(k_ < c) BY <2>3
    <3> QED BY <3>1, Zenon
  <2>4. k_ = c \/ k_ < c \/ k_ > c OBVIOUS
  <2> QED BY <2>1, <2>2, <2>3, <2>4, Zenon
<1>5. LastRow(w, u, n + 1 + 2, c + 1)
        = [k_ \in 0..(w - 1) |-> IF k_ < c + 1 THEN PromptAndLine(u, (n + 2) - c + k_) ELSE " "]
  BY <1>1 DEF LastRow
<1>6. [LastRow(w, t, n + 2, c) EXCEPT ![c] = ch]
        = [k_ \in 0..(w - 1) |-> IF k_ = c THEN ch
                                 ELSE IF k_ < c THEN PromptAndLine(t, (n + 2) - c + k_) ELSE " "]
  <2> DEFINE cell(m) == IF m < c THEN PromptAndLine(t, (n + 2) - c + m) ELSE " "
  <2>1. LastRow(w, t, n + 2, c) = [k_ \in 0..(w - 1) |-> cell(k_)] BY DEF LastRow
  <2> HIDE DEF cell
  <2>2. [LastRow(w, t, n + 2, c) EXCEPT ![c] = ch]
          = [k_ \in 0..(w - 1) |-> IF k_ = c THEN ch ELSE cell(k_)]
    BY <2>1
  <2> QED BY <2>2 DEF cell
<1>7. LastRow(w, u, n + 1 + 2, c + 1) = [LastRow(w, t, n + 2, c) EXCEPT ![c] = ch]
  BY <1>4, <1>5, <1>6
<1> QED BY <1>7 DEF ch

LEMMA KeyWritten ==
    ASSUME Columns \in Nat, i \in Nat, SameBefore(i, text, text'),
           NEW d \in 0..(Columns - 1), d <= i + 2
    PROVE  LastRow(Columns, text', i + 1 + 2, d + 1)
               = [LastRow(Columns, text, i + 2, d) EXCEPT ![d] = text'[i]]
BY RowWritten

\* A row that begins is empty.
LEMMA EmptyRow ==
    ASSUME NEW w \in Nat, NEW t, NEW p
    PROVE  LastRow(w, t, p, 0) = [n \in 0..(w - 1) |-> " "]
<1>1. \A n \in 0..(w - 1) : ~(n < 0) OBVIOUS
<1> QED BY <1>1 DEF LastRow

LEMMA Initially == Init => ConsoleInv
<1> SUFFICES ASSUME Init PROVE ConsoleInv OBVIOUS
<1>1. session \in Sessions BY DEF Init
<1>2. size \in Nat /\ size > 0 BY <1>1, SessionAssumption DEF size
<1>3. text \in [Index -> Chars] BY DEF Init, Chars
<1>4. ConsoleTypeOK
  <2>1. tokens \in Seq(Index) /\ argc = 0 BY DEF Init, argc
  <2>2. argc <= MaxWords BY <2>1, ShellAssumption
  <2> QED BY <1>1, <1>2, <1>3, <2>1, <2>2 DEF Init, ConsoleTypeOK, Index
<1>5. pc = "prompt" BY DEF Init
<1>6. IsScreen(screen) BY DEF Init, Fresh, IsScreen
<1> QED BY <1>3, <1>4, <1>5, <1>6 DEF ConsoleInv, Ended, Handlers, ScreenShowsLine

LEMMA PromptKeeps == ConsoleInv /\ Prompt => ConsoleInv'
<1> SUFFICES ASSUME ConsoleInv, Prompt PROVE ConsoleInv' OBVIOUS
<1> USE DEF Prompt
<1>1. ConsoleTypeOK'
  <2>1. tokens' \in Seq(Index') /\ argc' = 0 BY DEF argc
  <2>2. DOMAIN text' = Index' /\ lines' \in Nat /\ session' \in Sessions
        BY Sizes DEF ConsoleInv, ConsoleTypeOK
  <2>3. i' \in Index' /\ length' \in 0..size' /\ k' \in 0..size' /\ argc' <= MaxWords
        BY <2>1, Sizes
  <2> QED BY <2>1, <2>2, <2>3 DEF ConsoleTypeOK
<1>2. text' \in [Index' -> Chars'] /\ IsScreen(screen')
      BY Sizes DEF ConsoleInv, IsScreen, Fresh
<1>3. ScreenShowsLine'
  <2>1. screen'.cursor = 2 /\ screen'.cells = [n \in Row |-> IF n = 0 THEN ">" ELSE " "]
    BY DEF Fresh
  <2>2. i' + 2 = 2 /\ Columns' = Columns /\ Columns \in Nat /\ Columns > 2 BY Sizes
  <2>3. Reaches(Columns, 2, 2)
    <3>1. 2 \in 0..Columns /\ 0 \in 0..2 /\ 2 = 0 * Columns + 2 BY <2>2
    <3> QED BY <3>1 DEF Reaches
  <2>4. LastRow(Columns, text', 2, 2) = [n \in Row |-> IF n = 0 THEN ">" ELSE " "]
    <3>1. ASSUME NEW n \in Row
          PROVE  (IF n < 2 THEN PromptAndLine(text', 2 - 2 + n) ELSE " ")
                     = IF n = 0 THEN ">" ELSE " "
      <4>1. n \in Nat BY <3>1 DEF Row
      <4>2. n = 0 \/ n = 1 \/ (~(n < 2) /\ n # 0) BY <4>1
      <4>3. 2 - 2 + n = n /\ 0 < 2 /\ 1 < 2 /\ 1 # 0 BY <4>1
      <4>4. \A t : PromptAndLine(t, 0) = ">" /\ PromptAndLine(t, 1) = " "
        BY DEF PromptAndLine
      <4> QED BY <4>2, <4>3, <4>4, Zenon
    <3> QED BY <3>1 DEF LastRow, Row
  <2> QED BY <2>1, <2>2, <2>3, <2>4 DEF ScreenShowsLine
<1> QED BY <1>1, <1>2, <1>3 DEF ConsoleInv, Ended, Handlers

LEMMA EnterKeyKeeps == ConsoleInv /\ EnterKey => ConsoleInv'
<1> SUFFICES ASSUME ConsoleInv, EnterKey PROVE ConsoleInv' OBVIOUS
<1> USE DEF EnterKey
<1>1. text' \in [Index' -> Chars'] /\ text'[i'] = "NUL"
  <2>1. "NUL" \in Chars BY DEF Chars
  <2> QED BY <2>1, Sizes DEF ConsoleInv
<1>2. ConsoleTypeOK' BY <1>1, Sizes DEF ConsoleInv, ConsoleTypeOK, scan_vars, argc
<1> QED BY <1>1, <1>2 DEF ConsoleInv, Ended, Handlers, ScreenShowsLine, scan_vars

LEMMA FullLineKeeps == ConsoleInv /\ FullLine => ConsoleInv'
<1> SUFFICES ASSUME ConsoleInv, FullLine PROVE ConsoleInv' OBVIOUS
<1> USE DEF FullLine, Terminated
<1>1. text' \in [Index' -> Chars'] /\ text'[i'] = "NUL"
  <2>1. "NUL" \in Chars BY DEF Chars
  <2> QED BY <2>1, Sizes DEF ConsoleInv
<1>2. ConsoleTypeOK' BY <1>1, Sizes DEF ConsoleInv, ConsoleTypeOK, scan_vars, argc
<1> QED BY <1>1, <1>2 DEF ConsoleInv, Ended, Handlers, ScreenShowsLine, scan_vars

\* Left, space, left takes a visible character away and nothing else.
LEMMA EraseKeyKeeps == ConsoleInv /\ EraseKey => ConsoleInv'
<1> SUFFICES ASSUME ConsoleInv, EraseKey PROVE ConsoleInv' OBVIOUS
<1> USE DEF EraseKey
<1>1. text' \in [Index' -> Chars'] BY Sizes DEF ConsoleInv
<1>2. i - 1 \in Index BY Sizes DEF Index
<1>3. ConsoleTypeOK' BY <1>2, Sizes DEF ConsoleInv, ConsoleTypeOK, scan_vars, argc
<1>4. ScreenShowsLine'
  <2> SUFFICES ASSUME Visible, ~strayed'
               PROVE  /\ Reaches(Columns, i' + 2, screen'.cursor)
                      /\ screen'.cells = LastRow(Columns, text', i' + 2, screen'.cursor)
    BY Sizes DEF ScreenShowsLine
  <2> DEFINE c == screen.cursor
  <2>1. ~strayed /\ ~AtRowStart /\ i' = i - 1 /\ text' = text OBVIOUS
  <2>2. Columns \in Nat \ {0} /\ i \in Nat /\ i > 0 /\ i + 2 \in Nat BY Sizes
  <2>3. Reaches(Columns, i + 2, c) /\ screen.cells = LastRow(Columns, text, i + 2, c)
    BY <2>1 DEF ConsoleInv, ScreenShowsLine
  <2>4. (i + 2) % Columns # 0 BY <2>1 DEF AtRowStart
  <2>5. i' + 2 = (i + 2) - 1 BY <2>1, <2>2
  <2>6. c \in 1..(Columns - 1) /\ Reaches(Columns, (i + 2) - 1, c - 1)
    BY <2>2, <2>3, <2>4, PlaceBefore
  <2>7. /\ screen'.cursor = c - 1
        /\ screen'.cells = [screen.cells EXCEPT ![c - 1] = " "]
    BY <2>2, <2>6, RubbedOut DEF ConsoleInv
  <2>8. LastRow(Columns, text, (i + 2) - 1, c - 1)
          = [LastRow(Columns, text, i + 2, c) EXCEPT ![c - 1] = " "]
    <3>1. Columns \in Nat BY <2>2
    <3> HIDE DEF c, EraseKey
    <3>2. \A q \in Nat : \A d \in 1..(Columns - 1) :
             LastRow(Columns, text, q - 1, d - 1)
               = [LastRow(Columns, text, q, d) EXCEPT ![d - 1] = " "]
      BY <3>1, RowErased
    <3> QED BY <2>2, <2>6, <3>2
  <2> HIDE DEF c, EraseKey
  <2> QED BY <2>1, <2>3, <2>5, <2>6, <2>7, <2>8
<1>5. IsScreen(screen') BY EchoScreen DEF ConsoleInv, RubOutSpace
<1> QED BY <1>1, <1>3, <1>4, <1>5 DEF ConsoleInv, Ended, Handlers, scan_vars

LEMMA KeyKeeps == ConsoleInv /\ Key => ConsoleInv'
<1> SUFFICES ASSUME ConsoleInv, Key PROVE ConsoleInv' OBVIOUS
<1> USE DEF Key
<1>1. PICK c \in Typed \ (Enter \cup Erase) : /\ text' = [text EXCEPT ![i] = c]
                                             /\ screen' = Echo(screen, c)
      OBVIOUS
<1>2. c \in session.keys[i] BY DEF Typed
<1>3. text' \in [Index' -> Chars']
  <2>1. c \in Chars BY <1>2, Sizes DEF Chars
  <2> QED BY <1>1, <2>1, Sizes DEF ConsoleInv
<1>4. ConsoleTypeOK'
  <2>1. i + 1 \in Index BY Sizes DEF Index, Room
  <2> QED BY <1>3, <2>1, Sizes DEF ConsoleInv, ConsoleTypeOK, scan_vars, argc
<1>5. ScreenShowsLine'
  <2> SUFFICES ASSUME Visible, ~strayed
               PROVE  /\ Reaches(Columns, i' + 2, screen'.cursor)
                      /\ screen'.cells = LastRow(Columns, text', i' + 2, screen'.cursor)
    BY Sizes DEF ScreenShowsLine
  <2> DEFINE u == screen.cursor
  <2>1. Reaches(Columns, i + 2, u) /\ screen.cells = LastRow(Columns, text, i + 2, u)
    BY DEF ConsoleInv, ScreenShowsLine
  <2>2. c \notin Control BY <1>2, Sizes DEF Visible, Control
  <2>3. Columns \in Nat \ {0} /\ i \in Nat /\ i + 2 \in Nat BY Sizes
  <2>4. i \in DOMAIN text /\ text = [m \in DOMAIN text |-> text[m]]
    BY Sizes DEF ConsoleInv
  <2>5. text' = [text EXCEPT ![i] = c] /\ i' + 2 = i + 1 + 2 /\ i + 1 + 2 = (i + 2) + 1
    <3>1. i' = i + 1 OBVIOUS
    <3> HIDE DEF Key
    <3> QED BY <1>1, <2>3, <3>1
  <2>6. u \in 0..Columns /\ u <= i + 2
    <3>1. PICK rows \in 0..(i + 2) : i + 2 = rows * Columns + u /\ u \in 0..Columns
      BY <2>1 DEF Reaches
    <3>2. rows * Columns \in Nat BY <2>3
    <3> QED BY <2>3, <3>1, <3>2
  <2>7. ASSUME NEW d \in 0..(Columns - 1), d <= i + 2
        PROVE  LastRow(Columns, text', i + 1 + 2, d + 1)
                 = [LastRow(Columns, text, i + 2, d) EXCEPT ![d] = c]
    <3>1. Columns \in Nat /\ i \in Nat BY <2>3
    <3> HIDE DEF Key
    <3>2. text'[i] = c BY <2>4, <2>5
    <3>3. SameBefore(i, text, text') BY <2>4, <2>5, <3>1 DEF SameBefore
    <3>4. LastRow(Columns, text', i + 1 + 2, d + 1)
            = [LastRow(Columns, text, i + 2, d) EXCEPT ![d] = text'[i]]
      BY <2>7, <3>1, <3>3, KeyWritten
    <3> QED BY <3>2, <3>4
  <2>8. CASE u # Columns
    <3>1. screen' = [cells |-> [screen.cells EXCEPT ![u] = c], cursor |-> u + 1]
      BY <1>1, <2>2, <2>8, EchoVisible DEF Write
    <3>2. u \in 0..(Columns - 1) BY <2>3, <2>6, <2>8
    <3>3. Reaches(Columns, (i + 2) + 1, u + 1) BY <2>1, <2>3, <2>8, NextPlace
    <3>4. LastRow(Columns, text', i + 1 + 2, u + 1)
            = [LastRow(Columns, text, i + 2, u) EXCEPT ![u] = c]
      BY <2>6, <3>2, <2>7
    <3> HIDE DEF u, Key
    <3> QED BY <2>1, <2>5, <3>1, <3>3, <3>4
  <2>9. CASE u = Columns
    <3>1. screen' = [cells |-> [[n \in 0..(Columns - 1) |-> " "] EXCEPT ![0] = c], cursor |-> 0 + 1]
      BY <1>1, <2>2, <2>9, EchoVisible DEF Write, NextRow, Row
    <3>2. 0 \in 0..(Columns - 1) /\ 0 <= i + 2 /\ 0 + 1 = 1 BY <2>3
    <3>3. Reaches(Columns, (i + 2) + 1, 1) BY <2>1, <2>3, <2>9, NextPlace
    <3>4. LastRow(Columns, text', i + 1 + 2, 0 + 1)
            = [LastRow(Columns, text, i + 2, 0) EXCEPT ![0] = c]
      BY <3>2, <2>7
    <3>5. LastRow(Columns, text, i + 2, 0) = [n \in 0..(Columns - 1) |-> " "]
      BY <2>3, EmptyRow
    <3> HIDE DEF u, Key
    <3> QED BY <2>5, <3>1, <3>2, <3>3, <3>4, <3>5
  <2> QED BY <2>8, <2>9
<1>6. IsScreen(screen') BY <1>1, EchoScreen DEF ConsoleInv
<1> QED BY <1>3, <1>4, <1>5, <1>6 DEF ConsoleInv, Ended, Handlers, scan_vars

-----------------------------------------------------------------------------
(* The tokenizer.                                                          *)

LEMMA MeasureKeeps == ConsoleInv /\ Measure => ConsoleInv'
<1> SUFFICES ASSUME ConsoleInv, Measure PROVE ConsoleInv' OBVIOUS
<1> USE DEF Measure
<1>1. length' \in 0..size /\ length' <= i
  <2>1. text[i] = "NUL" /\ i \in 0..(size - 1) BY Sizes DEF ConsoleInv, Ended, Index
  <2>2. 0 \in 0..size BY Sizes
  <2> QED BY <2>1, <2>2, Sizes, EndFound
<1>2. tokens' \in Seq(Index) /\ argc' <= MaxWords /\ \A n \in DOMAIN tokens' :
         length' # 0 => tokens'[n] <= i
  <2>1. CASE length' = 0 BY <2>1 DEF ConsoleInv, ConsoleTypeOK, argc
  <2>2. CASE length' # 0
    <3>1. tokens' = <<0>> BY <2>2
    <3>2. tokens' \in Seq(Index) /\ Len(tokens') = 1 BY <3>1, Sizes
    <3> QED BY <3>1, <3>2, Sizes DEF argc
  <2> QED BY <2>1, <2>2
<1>3. ConsoleTypeOK' BY <1>1, <1>2, Sizes DEF ConsoleInv, ConsoleTypeOK
<1>4. text' \in [Index' -> Chars'] BY Sizes DEF ConsoleInv
<1>5. k' = 0 /\ text'[i'] = "NUL" /\ 0 <= length' BY <1>1, Sizes DEF ConsoleInv, Ended
<1> QED BY <1>1, <1>2, <1>3, <1>4, <1>5
        DEF ConsoleInv, Ended, Handlers, ScreenShowsLine

\* The scan stays before the end of the line.
LEMMA ScanInLine ==
    ASSUME ConsoleInv, Scanning, session' = session
    PROVE  /\ k \in Index /\ k < i /\ k + 1 \in 0..size /\ k + 1 <= length /\ length <= i
           /\ text[i] = "NUL" /\ pc = "tokenize"
           /\ \A n \in DOMAIN tokens : tokens[n] <= i
<1>1. k \in 0..size /\ length \in 0..size /\ k < length /\ length <= i /\ pc = "tokenize"
      BY DEF ConsoleInv, ConsoleTypeOK, Scanning
<1>2. text[i] = "NUL" /\ \A n \in DOMAIN tokens : tokens[n] <= i
      BY <1>1 DEF ConsoleInv, Ended
<1> QED BY <1>1, <1>2, Sizes DEF Index

LEMMA ScanBlankKeeps == ConsoleInv /\ ScanBlank => ConsoleInv'
<1> SUFFICES ASSUME ConsoleInv, ScanBlank PROVE ConsoleInv' OBVIOUS
<1> USE DEF ScanBlank, Scanned, BlankReplaced
<1>1. text' \in [Index' -> Chars'] /\ text'[i'] = "NUL"
  <2>1. "NUL" \in Chars BY DEF Chars
  <2>2. k # i /\ i \in Index /\ k \in Index /\ text[i] = "NUL" BY Sizes, ScanInLine
  <2> QED BY <2>1, <2>2, Sizes DEF ConsoleInv
<1>2. ConsoleTypeOK' BY <1>1, Sizes, ScanInLine DEF ConsoleInv, ConsoleTypeOK, argc
<1> QED BY <1>1, <1>2, Sizes, ScanInLine
        DEF ConsoleInv, Ended, Handlers, ScreenShowsLine

LEMMA ScanFirstKeeps == ConsoleInv /\ ScanFirst => ConsoleInv'
<1> SUFFICES ASSUME ConsoleInv, ScanFirst PROVE ConsoleInv' OBVIOUS
<1> USE DEF ScanFirst, Scanned
<1>1. text' \in [Index' -> Chars'] /\ text'[i'] = "NUL" BY Sizes, ScanInLine DEF ConsoleInv
<1>2. tokens' \in Seq(Index) /\ Len(tokens') = argc + 1
      /\ \A n \in DOMAIN tokens' : tokens'[n] <= i
  <2>1. tokens \in Seq(Index) /\ k \in Index BY ScanInLine DEF ConsoleInv, ConsoleTypeOK
  <2>2. tokens' \in Seq(Index) /\ Len(tokens') = argc + 1
        /\ \A n \in DOMAIN tokens' : \/ n \in DOMAIN tokens /\ tokens'[n] = tokens[n]
                                    \/ tokens'[n] = k
        BY <2>1 DEF argc
  <2>3. k <= i BY ScanInLine, Sizes DEF Index
  <2> QED BY <2>2, <2>3, ScanInLine
<1>3. argc' <= MaxWords
  <2>1. argc \in Nat BY DEF argc, ConsoleInv, ConsoleTypeOK
  <2> QED BY <1>2, <2>1, Sizes DEF argc
<1>4. ConsoleTypeOK' BY <1>1, <1>2, <1>3, Sizes, ScanInLine DEF ConsoleInv, ConsoleTypeOK
<1> QED BY <1>1, <1>2, <1>4, Sizes, ScanInLine
        DEF ConsoleInv, Ended, Handlers, ScreenShowsLine

LEMMA ScanRestKeeps == ConsoleInv /\ ScanRest => ConsoleInv'
<1> SUFFICES ASSUME ConsoleInv, ScanRest PROVE ConsoleInv' OBVIOUS
<1> USE DEF ScanRest, Scanned
<1>1. text' \in [Index' -> Chars'] /\ text'[i'] = "NUL" BY Sizes, ScanInLine DEF ConsoleInv
<1>2. ConsoleTypeOK' BY <1>1, Sizes, ScanInLine DEF ConsoleInv, ConsoleTypeOK, argc
<1> QED BY <1>1, <1>2, Sizes, ScanInLine
        DEF ConsoleInv, Ended, Handlers, ScreenShowsLine

LEMMA DispatchKeeps == ConsoleInv /\ Dispatch => ConsoleInv'
<1> SUFFICES ASSUME ConsoleInv, Dispatch PROVE ConsoleInv' OBVIOUS
<1> USE DEF Dispatch
<1>1. pc' \in Handlers BY ShellAssumption DEF Handlers
<1>2. text' \in [Index' -> Chars'] /\ text'[i'] = "NUL" BY Sizes DEF ConsoleInv, Ended
<1>3. ConsoleTypeOK'
      BY <1>1, <1>2, Sizes DEF ConsoleInv, ConsoleTypeOK, scan_vars, argc
<1> QED BY <1>1, <1>2, <1>3 DEF ConsoleInv, Ended, Handlers, ScreenShowsLine, scan_vars

-----------------------------------------------------------------------------
(* The handlers.                                                           *)

\* A handler leaves the line alone.
LEMMA ReturnKeeps ==
    ASSUME ConsoleInv, pc \in Handlers, NEW n, NEW next, Return(n, next),
           next \in {"prompt", "memread", "stopped", "restarting"},
           arg' \in Nat \ {0}
    PROVE  ConsoleInv'
<1> USE DEF Return
<1>1. text' \in [Index' -> Chars'] /\ text'[i'] = "NUL" BY Sizes DEF ConsoleInv, Ended
<1>2. ConsoleTypeOK'
      BY <1>1, Sizes DEF ConsoleInv, ConsoleTypeOK, scan_vars, argc, Handlers
<1> QED BY <1>1, <1>2 DEF ConsoleInv, Ended, Handlers, ScreenShowsLine, scan_vars

LEMMA HandlersKeep ==
    ConsoleInv /\ (Quiet \/ Add \/ Memread \/ Panic \/ Reboot \/ TrapSvc) => ConsoleInv'
<1> SUFFICES ASSUME ConsoleInv, Quiet \/ Add \/ Memread \/ Panic \/ Reboot \/ TrapSvc
             PROVE  ConsoleInv'
    OBVIOUS
<1>1. arg \in Nat \ {0} BY DEF ConsoleInv, ConsoleTypeOK
<1>2. CASE Quiet BY <1>1, <1>2, ReturnKeeps DEF Quiet, Handlers
<1>3. CASE Add BY <1>1, <1>3, ReturnKeeps DEF Add, Handlers
<1>4. CASE Memread
  <2>1. CASE arg < argc
    <3>1. PICK next \in {"memread", "stopped"} :
             Return(console_print_hex_value(Number(arg)), next)
          BY <1>4, <2>1 DEF Memread
    <3>2. arg' = arg + 1 /\ pc = "memread" BY <1>4, <2>1 DEF Memread
    <3> QED BY <1>1, <3>1, <3>2, ReturnKeeps DEF Handlers
  <2>2. CASE ~ (arg < argc) BY <1>1, <1>4, <2>2, ReturnKeeps DEF Memread, Handlers
  <2> QED BY <2>1, <2>2
<1>5. CASE Panic BY <1>1, <1>5, ReturnKeeps DEF Panic, Handlers
<1>6. CASE Reboot BY <1>1, <1>6, ReturnKeeps DEF Reboot, Handlers
<1>7. CASE TrapSvc BY <1>1, <1>7, ReturnKeeps DEF TrapSvc, Handlers
<1> QED BY <1>2, <1>3, <1>4, <1>5, <1>6, <1>7

-----------------------------------------------------------------------------
LEMMA NextKeeps == ConsoleInv /\ [Next]_vars => ConsoleInv'
<1> SUFFICES ASSUME ConsoleInv, [Next]_vars PROVE ConsoleInv' OBVIOUS
<1>1. CASE UNCHANGED vars
  <2>1. UNCHANGED <<session, pc, text, i, length, k, between, tokens, arg, screen, strayed,
                    lines>>
        BY <1>1 DEF vars, scan_vars
  <2>2. ConsoleTypeOK' BY <2>1, Sizes DEF ConsoleInv, ConsoleTypeOK, argc
  <2>3. ScreenShowsLine' BY <2>1, Sizes DEF ConsoleInv, ScreenShowsLine, PromptAndLine
  <2> QED BY <2>1, <2>2, <2>3, Sizes DEF ConsoleInv, IsScreen
<1>2. CASE Next
  <2>1. CASE Prompt BY <2>1, PromptKeeps
  <2>2. CASE EnterKey BY <2>2, EnterKeyKeeps
  <2>3. CASE EraseKey BY <2>3, EraseKeyKeeps
  <2>4. CASE Key BY <2>4, KeyKeeps
  <2>5. CASE FullLine BY <2>5, FullLineKeeps
  <2>6. CASE Measure BY <2>6, MeasureKeeps
  <2>7. CASE ScanBlank BY <2>7, ScanBlankKeeps
  <2>8. CASE ScanFirst BY <2>8, ScanFirstKeeps
  <2>9. CASE ScanRest BY <2>9, ScanRestKeeps
  <2>10. CASE Dispatch BY <2>10, DispatchKeeps
  <2>11. CASE Quiet \/ Add \/ Memread \/ Panic \/ Reboot \/ TrapSvc BY <2>11, HandlersKeep
  <2> QED BY <1>2, <2>1, <2>2, <2>3, <2>4, <2>5, <2>6, <2>7, <2>8, <2>9, <2>10, <2>11
          DEF Next
<1> QED BY <1>1, <1>2

\* The invariant holds of every session.
THEOREM ConsoleInvariant == Spec => []ConsoleInv
<1>1. Init => ConsoleInv BY Initially
<1>2. ConsoleInv /\ [Next]_vars => ConsoleInv' BY NextKeeps
<1> QED BY <1>1, <1>2, PTL DEF Spec

\* Editor and tokenizer stay in a buffer of any size, with any number of words.
THEOREM InBuffer == Spec => []ConsoleTypeOK
<1>1. ConsoleInv => ConsoleTypeOK BY DEF ConsoleInv
<1> QED BY <1>1, ConsoleInvariant, PTL

\* The terminal shows the line that will be run, however it was edited.
THEOREM TerminalShowsLine == Spec => []ScreenShowsLine
<1>1. ConsoleInv => ScreenShowsLine BY DEF ConsoleInv
<1> QED BY <1>1, ConsoleInvariant, PTL

\* No word of a command comes from what an earlier line left in the buffer.
THEOREM WordsOfThisLine == Spec => []NothingStale
<1>1. ConsoleInv => NothingStale
  <2> SUFFICES ASSUME ConsoleInv, Running, NEW n \in DOMAIN tokens
               PROVE  End(text, tokens[n]) <= i
      BY DEF NothingStale
  <2>1. text[i] = "NUL" /\ tokens[n] <= i BY DEF ConsoleInv, Running, Ended, Handlers
  <2>2. session \in Sessions /\ tokens[n] \in Index /\ i \in Index
        BY DEF ConsoleInv, ConsoleTypeOK
  <2>3. size \in Nat BY <2>2, SessionAssumption DEF size
  <2>4. tokens[n] \in 0..size /\ i \in tokens[n]..(size - 1) BY <2>1, <2>2, <2>3 DEF Index
  <2> QED BY <2>1, <2>2, <2>4, EndFound
<1> QED BY <1>1, ConsoleInvariant, PTL

-----------------------------------------------------------------------------
(* The words of a line, found by counting (LineDiscipline) and by scanning *)
(* (tokenize_command).                                                     *)

LEMMA SameMin == \A S : Discipline!Min(S) = Min(S)
  BY DEF Discipline!Min, Min

LEMMA SameCardinality == \A S : Discipline!Cardinality(S) = Cardinality(S)
  BY DEF Discipline!Cardinality, Cardinality

\* The numbers that words start at, in the order in which the tokenizer finds them:
\* some of the starts, in order, and with each one all that come before it.
Found(starts, found) ==
    /\ starts \subseteq Nat /\ IsFiniteSet(starts)
    /\ found \in Seq(starts)
    /\ \A a, b \in 1..Len(found) : a < b => found[a] < found[b]
    /\ \A b \in 1..Len(found) : \A s \in starts :
          s <= found[b] => \E a \in 1..Len(found) : found[a] = s

LEMMA FoundTypes ==
    ASSUME NEW starts, NEW found, Found(starts, found)
    PROVE  /\ starts \subseteq Nat /\ IsFiniteSet(starts)
           /\ Len(found) \in Nat /\ found \in [1..Len(found) -> starts]
           /\ \A a \in 1..Len(found) : found[a] \in starts /\ found[a] \in Nat
           /\ \A a, b \in 1..Len(found) : a < b => found[a] < found[b]
<1>1. found \in Seq(starts) BY DEF Found
<1>2. Len(found) \in Nat /\ found \in [1..Len(found) -> starts] BY <1>1
<1>3. starts \subseteq Nat BY DEF Found
<1>4. \A a \in 1..Len(found) : found[a] \in starts BY <1>2
<1> QED BY <1>2, <1>3, <1>4 DEF Found

\* The first n found, and no others, lie below the next.
LEMMA FoundBelow ==
    ASSUME NEW starts, NEW found, Found(starts, found), NEW n \in 1..Len(found)
    PROVE  Cardinality({s \in starts : s < found[n]}) = n - 1
<1> DEFINE below == {s \in starts : s < found[n]}
           f == [a \in 1..(n - 1) |-> found[a]]
<1>1. /\ Len(found) \in Nat /\ n \in Nat /\ n - 1 \in Nat
      /\ \A a \in 1..(n - 1) : a \in 1..Len(found) /\ a < n
      /\ \A a \in 1..Len(found) : found[a] \in starts /\ found[a] \in Nat
      /\ \A a, b \in 1..Len(found) : a < b => found[a] < found[b]
  <2>1. Len(found) \in Nat BY FoundTypes
  <2>2. n \in Nat /\ n - 1 \in Nat /\ \A a \in 1..(n - 1) : a \in 1..Len(found) /\ a < n
    BY <2>1
  <2> QED BY <2>1, <2>2, FoundTypes
<1>2. \A a \in 1..(n - 1) : found[a] \in below BY <1>1
<1>3. \A a, b \in 1..(n - 1) : f[a] = f[b] => a = b
  <2> SUFFICES ASSUME NEW a \in 1..(n - 1), NEW b \in 1..(n - 1), a < b
               PROVE  f[a] # f[b]
    BY <1>1
  <2>1. found[a] < found[b] /\ found[a] \in Nat /\ found[b] \in Nat BY <1>1
  <2> QED BY <2>1
<1>4. \A s \in below : \E a \in 1..(n - 1) : f[a] = s
  <2> SUFFICES ASSUME NEW s \in below PROVE \E a \in 1..(n - 1) : f[a] = s OBVIOUS
  <2>1. s \in starts /\ s \in Nat /\ s < found[n] /\ s <= found[n] BY <1>1 DEF Found
  <2>2. PICK a \in 1..Len(found) : found[a] = s BY <2>1 DEF Found
  <2>3. ~(n < a) /\ a # n BY <1>1, <2>1, <2>2
  <2>4. a \in 1..(n - 1) BY <1>1, <2>3
  <2> QED BY <2>2, <2>4
<1> HIDE DEF below
<1>5. f \in [1..(n - 1) -> below] BY <1>2
<1>6. f \in Bijection(1..(n - 1), below)
  <2> HIDE DEF f
  <2> QED BY <1>3, <1>4, <1>5 DEF Bijection, Injection, Surjection, IsInjective
<1>7. ExistsBijection(1..(n - 1), below) BY <1>6 DEF ExistsBijection
<1> QED BY <1>1, <1>7, FS_CountingElements DEF below

\* Counting finds the same starts.
LEMMA FoundByCounting ==
    ASSUME NEW starts, NEW found, Found(starts, found), NEW n \in 1..Len(found)
    PROVE  (CHOOSE s \in starts : Cardinality({r \in starts : r < s}) = n - 1) = found[n]
<1> DEFINE Below(s) == {r \in starts : r < s}
           Is(s) == Cardinality(Below(s)) = n - 1
<1>1. found[n] \in starts /\ starts \subseteq Nat /\ IsFiniteSet(starts) BY DEF Found
<1>2. Is(found[n]) BY FoundBelow
<1>3. \A s \in starts : Below(s) \subseteq starts /\ IsFiniteSet(Below(s))
      BY <1>1, FS_Subset
<1>4. ASSUME NEW r \in starts, NEW s \in starts, r < s PROVE ~(Is(r) /\ Is(s))
  <2>1. Below(r) \subseteq Below(s)
    <3> SUFFICES ASSUME NEW q \in starts, q < r PROVE q < s OBVIOUS
    <3>1. q \in Nat /\ r \in Nat /\ s \in Nat BY <1>1
    <3> QED BY <1>4, <3>1
  <2>2. r \in Below(s) /\ r \notin Below(r) BY <1>1, <1>4
  <2>3. Below(r) # Below(s) BY <2>2
  <2> HIDE DEF Below
  <2> QED BY <1>3, <2>1, <2>3, FS_Subset
<1>5. ASSUME NEW s \in starts, Is(s) PROVE s = found[n]
  <2>1. ~(s < found[n]) /\ ~(found[n] < s) BY <1>1, <1>2, <1>4, <1>5
  <2>2. s \in Nat /\ found[n] \in Nat BY <1>1
  <2> QED BY <2>1, <2>2
<1>6. (CHOOSE s \in starts : Is(s)) = found[n]
  <2> HIDE DEF Is
  <2> QED BY <1>1, <1>2, <1>5
<1> QED BY <1>6

\* There are at least as many starts as were found, and as many if all were.
LEMMA FoundAtMost ==
    ASSUME NEW starts, NEW found, Found(starts, found)
    PROVE  /\ Cardinality(starts) \in Nat /\ Len(found) <= Cardinality(starts)
           /\ (\A s \in starts : \E a \in 1..Len(found) : found[a] = s)
                 => Cardinality(starts) = Len(found)
<1>1. /\ IsFiniteSet(starts) /\ Len(found) \in Nat /\ found \in [1..Len(found) -> starts]
      /\ \A a \in 1..Len(found) : found[a] \in Nat
      BY FoundTypes
<1>2. \A a, b \in 1..Len(found) : found[a] = found[b] => a = b
  <2> SUFFICES ASSUME NEW a \in 1..Len(found), NEW b \in 1..Len(found), a < b
               PROVE  found[a] # found[b]
    BY <1>1
  <2>1. found[a] < found[b] BY FoundTypes
  <2> QED BY <1>1, <2>1
<1>3. found \in Injection(1..Len(found), starts)
  <2>1. \A a, b \in 1..Len(found) : found[a] = found[b] => a = b BY <1>2
  <2> QED BY <1>1, <2>1 DEF Injection, IsInjective
<1>4. IsFiniteSet(1..Len(found)) /\ Cardinality(1..Len(found)) = Len(found)
  <2>1. Len(found) \in Int /\ 1 \in Int /\ (1 > Len(found) <=> Len(found) = 0) BY <1>1
  <2>2. /\ IsFiniteSet(1..Len(found))
        /\ Cardinality(1..Len(found)) =
              IF 1 > Len(found) THEN 0 ELSE Len(found) - 1 + 1
        BY <2>1, FS_Interval
  <2> QED BY <1>1, <2>1, <2>2
<1>5. Len(found) <= Cardinality(starts) BY <1>1, <1>3, <1>4, FS_Injection
<1>6. ASSUME \A s \in starts : \E a \in 1..Len(found) : found[a] = s
      PROVE  Cardinality(starts) = Len(found)
  <2>1. found \in Surjection(1..Len(found), starts) BY <1>1, <1>6 DEF Surjection
  <2> QED BY <1>1, <1>3, <1>4, <2>1, FS_Injection
<1>7. Cardinality(starts) \in Nat BY <1>1, FS_CardinalityType
<1> QED BY <1>5, <1>6, <1>7

\* The line up to its first NUL.
LEMMA KeptIs ==
    ASSUME NEW C, NEW line \in Seq(C), NEW n \in 0..Len(line),
           \A m \in 1..n : line[m] # "NUL",
           n < Len(line) => line[n + 1] = "NUL"
    PROVE  /\ Discipline!Kept(line) \in Seq(C)
           /\ Len(Discipline!Kept(line)) = n
           /\ \A m \in 1..n : Discipline!Kept(line)[m] = line[m]
<1> DEFINE S == {m \in DOMAIN line : line[m] = "NUL"} \cup {Len(line) + 1}
<1>1. Len(line) \in Nat /\ DOMAIN line = 1..Len(line) /\ n \in Nat /\ n <= Len(line)
      OBVIOUS
<1>2. S \subseteq Nat BY <1>1
<1>3. n + 1 \in S BY <1>1
<1>4. \A m \in S : n + 1 <= m BY <1>1
<1>5. Min(S) = n + 1
  <2> HIDE DEF S
  <2> QED BY <1>2, <1>3, <1>4, MinIs
<1>6. Discipline!Kept(line) = SubSeq(line, 1, n + 1 - 1) 
  <2>1. Discipline!Kept(line) = SubSeq(line, 1, Discipline!Min(S) - 1)
        BY DEF Discipline!Kept
  <2> HIDE DEF S
  <2> QED BY <1>5, <2>1, SameMin
<1>7. /\ n + 1 - 1 = n /\ 1 \in Int /\ n \in Int
      /\ \A m \in 1..n : line[m] \in C
      /\ (IF 1 <= n THEN n - 1 + 1 ELSE 0) = n
      BY <1>1
<1>8. /\ SubSeq(line, 1, n) \in Seq(C)
      /\ Len(SubSeq(line, 1, n)) = IF 1 <= n THEN n - 1 + 1 ELSE 0
      /\ \A m \in 1..n - 1 + 1 : SubSeq(line, 1, n)[m] = line[1 + m - 1]
      BY <1>7, SubSeqProperties
<1>9. \A m \in 1..n : m \in 1..n - 1 + 1 /\ 1 + m - 1 = m BY <1>1
<1> QED BY <1>6, <1>7, <1>8, <1>9

\* A string in the buffer that lasts as long as a word of the line is that word.
\* Up to place q every stop has been made a NUL, and there is one behind the start.
LEMMA WordRead ==
    ASSUME session \in Sessions, NEW C, NEW t \in Seq(C), Len(t) < size,
           NEW b, NEW p \in 0..(Len(t) - 1),
           NEW q \in Discipline!Stops(t), p + 1 <= q,
           \A e \in Discipline!Stops(t) : e <= q => b[e - 1] = "NUL",
           \A n \in 1..Len(t) : t[n] # "NUL"
              /\ (n \notin Discipline!Stops(t) => b[n - 1] = t[n])
    PROVE  StringAt(b, p) = Discipline!WordFrom(t, p + 1)
<1> DEFINE len == Len(t)
           S == {e \in Discipline!Stops(t) : e >= p + 1}
<1>1. size \in Nat BY SessionAssumption DEF size
<1>2. /\ len \in Nat /\ p \in Nat /\ p < len /\ len < size
      /\ \A n \in 1..len : t[n] \in C
      OBVIOUS
<1> HIDE DEF len
<1>3. Discipline!Stops(t) \subseteq 1..(len + 1)
  <2>1. DOMAIN t = 1..len BY DEF len
  <2> QED BY <1>2, <2>1 DEF Discipline!Stops, len
<1>4. S \subseteq Nat /\ q \in S BY <1>2, <1>3
<1>5. PICK e \in S : \A n \in S : e <= n BY <1>4, Least
<1>6. Min(S) = e BY <1>4, <1>5, MinIs
<1>7. /\ e \in Discipline!Stops(t) /\ e \in Nat /\ p + 1 <= e /\ e <= q /\ e <= len + 1
      BY <1>2, <1>3, <1>4, <1>5
<1>8. \A n \in (p + 1)..(e - 1) : n \in 1..len /\ n \notin Discipline!Stops(t)
  <2> SUFFICES ASSUME NEW n \in (p + 1)..(e - 1)
               PROVE  n \in 1..len /\ n \notin Discipline!Stops(t)
    OBVIOUS
  <2>1. n \in Nat /\ n < e /\ n >= p + 1 /\ n \in 1..len BY <1>2, <1>7
  <2> QED BY <1>5, <1>7, <2>1
<1>9. b[e - 1] = "NUL" /\ e - 1 \in p..size /\ e - 1 < size BY <1>1, <1>2, <1>7
<1>10. \A n \in p..(e - 2) : b[n] = t[n + 1] /\ b[n] # "NUL"
  <2> SUFFICES ASSUME NEW n \in p..(e - 2) PROVE b[n] = t[n + 1] /\ b[n] # "NUL"
    OBVIOUS
  <2>1. n + 1 \in (p + 1)..(e - 1) /\ n + 1 - 1 = n BY <1>2, <1>7
  <2>2. n + 1 \in 1..len /\ n + 1 \notin Discipline!Stops(t) BY <1>8, <2>1
  <2> QED BY <2>1, <2>2 DEF len
<1> HIDE DEF S
<1>11. End(b, p) = e - 1
  <2>1. p \in 0..size BY <1>1, <1>2
  <2>2. /\ End(b, p) \in p..size
        /\ \A n \in p..(size - 1) : b[n] = "NUL" => End(b, p) <= n
    BY <2>1, EndFound
  <2>3. e - 1 \in p..(size - 1) BY <1>1, <1>2, <1>7, <1>9
  <2>4. End(b, p) <= e - 1 BY <1>9, <2>2, <2>3
  <2>5. End(b, p) < size => b[End(b, p)] = "NUL" BY <2>1, EndFound
  <2>6. ~(End(b, p) < e - 1)
    <3> SUFFICES ASSUME End(b, p) < e - 1 PROVE FALSE OBVIOUS
    <3>1. End(b, p) \in p..(e - 2) /\ End(b, p) < size BY <1>1, <1>2, <1>7, <1>9, <2>2
    <3> QED BY <1>10, <2>5, <3>1
  <2> QED BY <1>1, <1>2, <1>7, <2>2, <2>4, <2>6
<1>12. StringAt(b, p) = [n \in 1..(e - 1 - p) |-> b[p + n - 1]] BY <1>11 DEF StringAt
<1>13. Discipline!WordFrom(t, p + 1) = SubSeq(t, p + 1, e - 1)
  BY <1>6, SameMin DEF Discipline!WordFrom, S
<1>14. \A n \in 1..(e - 1 - p) : /\ p + n - 1 \in p..(e - 2) /\ p + n - 1 + 1 = p + n
                                 /\ p + n \in 1..len
                                 /\ p + 1 + n - 1 = p + n
  BY <1>2, <1>7
<1>15. /\ SubSeq(t, p + 1, e - 1) \in Seq(C)
       /\ Len(SubSeq(t, p + 1, e - 1)) = e - 1 - p
       /\ \A n \in 1..(e - 1 - p) : SubSeq(t, p + 1, e - 1)[n] = t[p + n]
  <2>1. p + 1 \in Int /\ e - 1 \in Int /\ \A n \in (p + 1)..(e - 1) : t[n] \in C
    BY <1>2, <1>7, <1>8
  <2>2. /\ (IF p + 1 <= e - 1 THEN e - 1 - (p + 1) + 1 ELSE 0) = e - 1 - p
        /\ e - 1 - (p + 1) + 1 = e - 1 - p
    BY <1>2, <1>7
  <2>3. /\ SubSeq(t, p + 1, e - 1) \in Seq(C)
        /\ Len(SubSeq(t, p + 1, e - 1)) =
              IF p + 1 <= e - 1 THEN e - 1 - (p + 1) + 1 ELSE 0
        /\ \A n \in 1..e - 1 - (p + 1) + 1 :
              SubSeq(t, p + 1, e - 1)[n] = t[p + 1 + n - 1]
    BY <2>1, SubSeqProperties
  <2> QED BY <1>14, <2>2, <2>3
<1>16. SubSeq(t, p + 1, e - 1) = [n \in 1..(e - 1 - p) |-> t[p + n]]
  <2>1. e - 1 - p \in Nat BY <1>2, <1>7
  <2>2. DOMAIN SubSeq(t, p + 1, e - 1) = 1..(e - 1 - p) BY <1>15
  <2>3. SubSeq(t, p + 1, e - 1) = [n \in DOMAIN SubSeq(t, p + 1, e - 1) |->
                                      SubSeq(t, p + 1, e - 1)[n]]
    BY <1>15
  <2> QED BY <1>15, <2>2, <2>3
<1>17. \A n \in 1..(e - 1 - p) : b[p + n - 1] = t[p + n] BY <1>10, <1>14
<1> QED BY <1>12, <1>13, <1>16, <1>17

-----------------------------------------------------------------------------
(* What the scan has made of the line.                                     *)

TypedStart(n) == n = 1 \/ (typed[n] \notin Blank /\ typed[n - 1] \in Blank)

\* The buffer is the line as typed, with NULs for the blanks the scan has passed.
Blanked == \A n \in 1..i :
              text[n - 1] = IF n <= k /\ typed[n] \in Blank THEN "NUL" ELSE typed[n]

\* The tokens are the starts of words that the scan has passed.
ScanInv ==
    /\ length > 0 /\ length <= i /\ k <= length
    /\ \A n \in 1..length : typed[n] # "NUL"
    /\ length < i => typed[length + 1] = "NUL"
    /\ between <=> k > 0 /\ typed[k] \in Blank
    /\ argc > 0
    /\ \A a, b \in 1..argc : a < b => tokens[a] < tokens[b]
    /\ \A a \in 1..argc : /\ tokens[a] < length
                          /\ tokens[a] = 0 \/ tokens[a] < k
                          /\ TypedStart(tokens[a] + 1)
    /\ \A n \in 1..length : TypedStart(n) /\ (n = 1 \/ n <= k)
                               => \E a \in 1..argc : tokens[a] + 1 = n

\* What each step leaves for the next: the line as it was typed, the places of its
\* words, the handler of the words.
LineInv ==
    /\ pc # "prompt" => lines > 0
    /\ pc \in {"read", "dispatch"} => tokens = <<>> /\ ~between
    /\ pc \in {"dispatch", "tokenize"} => typed \in Seq(Chars) /\ Len(typed) = i /\ Blanked
    /\ pc = "tokenize" => ScanInv
    /\ pc \in Handlers => argc > 0 /\ Discipline!Handler = pc
    /\ pc = "prompt" /\ lines > 0 => ~Discipline!MustStop

\* The strings a command would get now.
WordsNow == [n \in 1..argc |-> argv(n - 1)]

\* When the scan ends, it has found the words of the line.
LEMMA WordsScanned ==
    ASSUME ConsoleInv, LineInv, pc = "tokenize",
           Scanning => text[k] \notin Blank /\ between /\ argc >= MaxWords
    PROVE  Discipline!Words(typed) = WordsNow
<1> DEFINE t == Discipline!Kept(typed)
           starts == Discipline!Starts(t)
           found == [a \in 1..argc |-> tokens[a] + 1]
<1>1. /\ size \in Nat /\ i \in Nat /\ i < size /\ session \in Sessions
      /\ MaxWords \in Nat /\ MaxWords > 0
  <2>1. session \in Sessions /\ i \in Index BY DEF ConsoleInv, ConsoleTypeOK
  <2>2. size \in Nat BY <2>1, SessionAssumption DEF size
  <2> QED BY <2>1, <2>2, ShellAssumption DEF Index
<1>2. /\ typed \in Seq(Chars) /\ Len(typed) = i /\ Blanked /\ ScanInv
      /\ text[i] = "NUL"
      /\ length \in Nat /\ k \in Nat /\ length <= i /\ k <= length
      /\ argc \in Nat /\ argc <= MaxWords
      /\ \A a \in 1..argc : tokens[a] \in Nat
  <2>1. tokens \in Seq(Index) BY DEF ConsoleInv, ConsoleTypeOK
  <2>2. argc \in Nat /\ \A a \in 1..argc : tokens[a] \in Index BY <2>1 DEF argc
  <2> QED BY <2>2 DEF LineInv, ConsoleInv, ConsoleTypeOK, Ended, Index, ScanInv
<1>3. /\ t \in Seq(Chars) /\ Len(t) = length
      /\ \A n \in 1..length : t[n] = typed[n] /\ t[n] # "NUL"
  <2>1. /\ length \in 0..Len(typed)
        /\ \A n \in 1..length : typed[n] # "NUL"
        /\ length < Len(typed) => typed[length + 1] = "NUL"
    BY <1>2 DEF ScanInv
  <2>2. /\ t \in Seq(Chars) /\ Len(t) = length
        /\ \A n \in 1..length : t[n] = typed[n]
    BY <1>2, <2>1, KeptIs
  <2> QED BY <2>1, <2>2
<1> HIDE DEF t
<1>4. starts = {n \in 1..length : TypedStart(n)}
  <2>1. DOMAIN t = 1..length BY <1>3
  <2>2. \A n \in 1..length : n # 1 => n - 1 \in 1..length BY <1>2
  <2>3. \A n \in 1..length : TypedStart(n) <=>
            n = 1 \/ (t[n] \notin Discipline!Blank /\ t[n - 1] \in Discipline!Blank)
    BY <1>3, <2>2 DEF TypedStart, Blank, Discipline!Blank
  <2> QED BY <2>1, <2>3 DEF Discipline!Starts
<1>5. /\ starts \subseteq Nat /\ IsFiniteSet(starts)
      /\ \A n \in starts : n \in 1..length /\ TypedStart(n)
  <2>1. starts \in SUBSET (1..length) BY <1>4
  <2>2. IsFiniteSet(1..length) BY <1>2, FS_Interval
  <2>3. IsFiniteSet(starts) BY <2>1, <2>2, FS_Subset
  <2> QED BY <1>4, <2>1, <2>3
<1>6. /\ found \in Seq(starts) /\ Len(found) = argc
      /\ \A a \in 1..argc : found[a] = tokens[a] + 1 /\ found[a] \in starts
  <2>1. \A a \in 1..argc : tokens[a] + 1 \in starts
    BY <1>2, <1>4 DEF ScanInv
  <2> QED BY <1>2, <2>1
<1> HIDE DEF starts, found
<1>7. \A a, b \in 1..argc : a < b => found[a] < found[b]
  <2>1. \A a, b \in 1..argc : a < b => tokens[a] < tokens[b] BY <1>2 DEF ScanInv
  <2> QED BY <1>2, <1>6, <2>1
\* The scan stops at the end, or at a start that is one too many.
<1>8. k = length \/ (between /\ argc = MaxWords)
  <2>1. CASE Scanning BY <1>1, <1>2, <2>1
  <2>2. CASE ~Scanning
    <3> SUFFICES ASSUME k < length PROVE FALSE BY <1>2
    <3>1. text[k] = "NUL" BY <2>2 DEF Scanning
    <3>2. k + 1 \in 1..i /\ k + 1 \in 1..length /\ k + 1 - 1 = k /\ ~(k + 1 <= k) BY <1>2
    <3>3. text[k] = typed[k + 1] BY <1>2, <3>2 DEF Blanked
    <3> QED BY <1>2, <3>1, <3>2, <3>3 DEF ScanInv
  <2> QED BY <2>1, <2>2
<1>9. \A n \in starts : (n = 1 \/ n <= k) => \E a \in 1..argc : found[a] = n
  BY <1>2, <1>5, <1>6 DEF ScanInv
<1>10. \A b \in 1..argc : \A n \in starts :
          n <= found[b] => \E a \in 1..argc : found[a] = n
  <2> SUFFICES ASSUME NEW b \in 1..argc, NEW n \in starts, n <= found[b]
               PROVE  \E a \in 1..argc : found[a] = n
    OBVIOUS
  <2>1. tokens[b] = 0 \/ tokens[b] < k BY <1>2 DEF ScanInv
  <2>2. n \in Nat /\ n >= 1 /\ tokens[b] \in Nat /\ n <= tokens[b] + 1
    BY <1>2, <1>5, <1>6
  <2>3. n = 1 \/ n <= k BY <1>2, <2>1, <2>2
  <2> QED BY <1>9, <2>3
<1>11. Found(starts, found) BY <1>5, <1>6, <1>7, <1>10 DEF Found
<1>12. Min({MaxWords, Cardinality(starts)}) = argc
  <2>1. Cardinality(starts) \in Nat /\ argc <= Cardinality(starts) BY <1>6, <1>11, FoundAtMost
  <2>2. CASE between /\ argc = MaxWords
    <3>1. {MaxWords, Cardinality(starts)} \subseteq Nat BY <1>1, <2>1
    <3>2. \A n \in {MaxWords, Cardinality(starts)} : argc <= n BY <2>1, <2>2, <1>2
    <3> QED BY <2>2, <3>1, <3>2, MinIs
  <2>3. CASE k = length
    <3>1. \A n \in starts : \E a \in 1..argc : found[a] = n BY <1>2, <1>5, <1>9, <2>3
    <3>2. Cardinality(starts) = argc BY <1>6, <1>11, <3>1, FoundAtMost
    <3>3. {MaxWords, Cardinality(starts)} \subseteq Nat BY <1>1, <2>1
    <3>4. \A n \in {MaxWords, Cardinality(starts)} : argc <= n BY <1>2, <3>2
    <3> QED BY <3>2, <3>3, <3>4, MinIs
  <2> QED BY <1>8, <2>2, <2>3
<1>13. \A n \in 1..argc : Discipline!Start(t, n) = tokens[n] + 1
  <2> SUFFICES ASSUME NEW n \in 1..argc PROVE Discipline!Start(t, n) = tokens[n] + 1
    OBVIOUS
  <2>1. (CHOOSE s \in starts : Cardinality({r \in starts : r < s}) = n - 1) = found[n]
    BY <1>6, <1>11, FoundByCounting
  <2>2. Discipline!Start(t, n) =
           CHOOSE s \in starts : Cardinality({r \in starts : r < s}) = n - 1
    BY SameCardinality DEF Discipline!Start, starts
  <2> QED BY <1>6, <2>1, <2>2
\* Behind every start that was found there is a stop, and a NUL in its place.
<1>14. PICK q \in Discipline!Stops(t) :
          /\ \A a \in 1..argc : tokens[a] + 1 <= q
          /\ \A e \in Discipline!Stops(t) : e <= q => text[e - 1] = "NUL"
  <2>1. /\ \A e \in Discipline!Stops(t) :
              (e \in 1..length /\ typed[e] \in Blank) \/ e = length + 1
        /\ length + 1 \in Discipline!Stops(t)
        /\ \A e \in 1..length : typed[e] \in Blank => e \in Discipline!Stops(t)
    <3>1. DOMAIN t = 1..length BY <1>3
    <3> QED BY <1>3, <3>1 DEF Discipline!Stops, Blank, Discipline!Blank
  <2>2. \A e \in 1..length : typed[e] \in Blank /\ e <= k => text[e - 1] = "NUL"
    BY <1>2 DEF Blanked
  <2>3. CASE k = length
    <3>1. text[length] = "NUL"
      <4>1. CASE length = i BY <1>2, <4>1
      <4>2. CASE length # i
        <5>1. length + 1 \in 1..i /\ length + 1 - 1 = length /\ length < i BY <1>2, <4>2
        <5>2. typed[length + 1] = "NUL" BY <1>2, <5>1 DEF ScanInv
        <5> QED BY <1>2, <5>1, <5>2 DEF Blanked
      <4> QED BY <4>1, <4>2
    <3>2. length + 1 - 1 = length /\ \A a \in 1..argc : tokens[a] + 1 <= length + 1
      BY <1>2 DEF ScanInv
    <3>3. ASSUME NEW e \in Discipline!Stops(t) PROVE text[e - 1] = "NUL"
      <4>1. CASE e = length + 1
        <5>1. e - 1 = length BY <1>2, <4>1
        <5> QED BY <3>1, <5>1
      <4>2. CASE e \in 1..length /\ typed[e] \in Blank
        <5>1. e <= k BY <1>2, <2>3, <4>2
        <5> QED BY <2>2, <4>2, <5>1
      <4> QED BY <2>1, <4>1, <4>2
    <3> QED BY <2>1, <3>2, <3>3
  <2>4. CASE between /\ k # length
    <3>1. k \in 1..length /\ typed[k] \in Blank BY <1>2, <2>4 DEF ScanInv
    <3>2. ASSUME NEW a \in 1..argc PROVE tokens[a] + 1 <= k
      <4>1. tokens[a] = 0 \/ tokens[a] < k BY <1>2 DEF ScanInv
      <4>2. tokens[a] \in Nat /\ k \in Nat /\ k >= 1 BY <1>2, <3>1
      <4> QED BY <4>1, <4>2
    <3>3. ASSUME NEW e \in Discipline!Stops(t), e <= k PROVE text[e - 1] = "NUL"
      <4>1. ~(e = length + 1) BY <1>2, <3>1, <3>3
      <4> QED BY <2>1, <2>2, <3>3, <4>1
    <3> QED BY <2>1, <3>1, <3>2, <3>3
  <2> QED BY <1>8, <2>3, <2>4
<1>15. \A n \in 1..length : n \notin Discipline!Stops(t) => text[n - 1] = t[n]
  <2> SUFFICES ASSUME NEW n \in 1..length, n \notin Discipline!Stops(t)
               PROVE  text[n - 1] = t[n]
    OBVIOUS
  <2>1. DOMAIN t = 1..length BY <1>3
  <2>2. typed[n] \notin Blank
    BY <1>3, <2>1 DEF Discipline!Stops, Blank, Discipline!Blank
  <2>3. n \in 1..i BY <1>2
  <2> QED BY <1>2, <1>3, <2>2, <2>3 DEF Blanked
<1>16. \A n \in 1..argc : argv(n - 1) = Discipline!WordFrom(t, tokens[n] + 1)
  <2> SUFFICES ASSUME NEW n \in 1..argc
               PROVE  argv(n - 1) = Discipline!WordFrom(t, tokens[n] + 1)
    OBVIOUS
  <2>1. tokens[n] \in 0..(Len(t) - 1) /\ Len(t) < size BY <1>1, <1>2, <1>3 DEF ScanInv
  <2>2. StringAt(text, tokens[n]) = Discipline!WordFrom(t, tokens[n] + 1)
    BY <1>1, <1>3, <1>14, <1>15, <2>1, WordRead
  <2>3. n - 1 + 1 = n BY <1>2
  <2> QED BY <2>2, <2>3 DEF argv
<1>17. Discipline!Words(typed) =
          [n \in 1..Min({MaxWords, Cardinality(starts)}) |->
              Discipline!WordFrom(t, Discipline!Start(t, n))]
  BY SameMin, SameCardinality DEF Discipline!Words, t, starts
<1>18. \A n \in 1..argc : argv(n - 1) = Discipline!WordFrom(t, Discipline!Start(t, n))
  BY <1>13, <1>16
<1> HIDE DEF t
<1>19. Discipline!Words(typed) =
          [n \in 1..argc |-> Discipline!WordFrom(t, Discipline!Start(t, n))]
  BY <1>12, <1>17
<1> QED BY <1>18, <1>19 DEF WordsNow

-----------------------------------------------------------------------------
(* What somebody at the keyboard sees of a state.                          *)

ModesInv ==
    /\ pc = "read" => Phase = "reading" /\ LineNow = Line /\ Arguments = <<>>
    /\ pc \in {"dispatch", "tokenize"} =>
          /\ Phase = IF Room THEN "entered" ELSE "cut"
          /\ LineNow = typed /\ Arguments = <<>>
    /\ pc \in Handlers => Phase = "running" /\ LineNow = <<>> /\ Arguments = WordsNow
    /\ pc = "prompt" =>
          /\ Phase = IF lines = 0 THEN "new" ELSE "running"
          /\ LineNow = <<>>
          /\ Arguments = IF lines = 0 THEN <<>> ELSE WordsNow
    /\ pc \in {"stopped", "restarting"} =>
          Phase = "stopped" /\ LineNow = <<>> /\ Arguments = WordsNow

LEMMA Modes == ModesInv
  BY DEF ModesInv, Phase, LineNow, Arguments, WordsNow, Handlers

LEMMA ModesNext == ModesInv'
  BY DEF ModesInv, Phase, LineNow, Arguments, WordsNow, Handlers

\* A step of the shell is one that was promised, or is not seen.
Promised == [Discipline!LineNext]_(Discipline!line_vars)

LEMMA Unseen ==
    ASSUME size' = size, Phase' = Phase, LineNow' = LineNow, Arguments' = Arguments
    PROVE  Promised
  BY DEF Promised, Discipline!line_vars

\* What every step may use of the state it starts from.
LEMMA LineTypes ==
    ASSUME ConsoleInv
    PROVE  /\ size \in Nat /\ size > 0 /\ session \in Sessions
           /\ i \in Nat /\ i < size /\ k \in Nat /\ length \in Nat /\ lines \in Nat
           /\ MaxWords \in Nat /\ MaxWords > 0
           /\ argc \in Nat /\ DOMAIN tokens = 1..argc
           /\ \A a \in 1..argc : tokens[a] \in 0..(size - 1)
           /\ text \in [0..(size - 1) -> Chars]
<1>1. session \in Sessions /\ i \in Index BY DEF ConsoleInv, ConsoleTypeOK
<1>2. size \in Nat /\ size > 0 BY <1>1, SessionAssumption DEF size
<1>3. tokens \in Seq(Index) /\ MaxWords \in Nat \ {0}
      BY ShellAssumption DEF ConsoleInv, ConsoleTypeOK
<1>4. argc \in Nat /\ DOMAIN tokens = 1..argc /\ \A a \in 1..argc : tokens[a] \in Index
      BY <1>3 DEF argc
<1>5. k \in 0..size /\ length \in 0..size /\ lines \in Nat /\ text \in [Index -> Chars]
      BY DEF ConsoleInv, ConsoleTypeOK
<1> QED BY <1>1, <1>2, <1>3, <1>4, <1>5 DEF Index

-----------------------------------------------------------------------------
(* The line, a key at a time.                                              *)

\* The characters before a place where one is written.
LEMMA LineWritten ==
    ASSUME ConsoleInv, NEW c, text' = [text EXCEPT ![i] = c]
    PROVE  \A n \in 1..i : text'[n - 1] = text[n - 1]
<1> SUFFICES ASSUME NEW n \in 1..i PROVE text'[n - 1] = text[n - 1] OBVIOUS
<1>1. n - 1 \in 0..(size - 1) /\ n - 1 # i BY LineTypes
<1> QED BY <1>1, LineTypes

LEMMA LineIsSeq ==
    ASSUME ConsoleInv
    PROVE  /\ Line \in Seq(Chars) /\ Len(Line) = i
           /\ \A n \in 1..i : Line[n] = text[n - 1]
<1>1. \A n \in 1..i : text[n - 1] \in Chars
  <2> SUFFICES ASSUME NEW n \in 1..i PROVE text[n - 1] \in Chars OBVIOUS
  <2>1. n - 1 \in 0..(size - 1) BY LineTypes
  <2> QED BY <2>1, LineTypes
<1> QED BY <1>1, LineTypes DEF Line

\* Init is the state before the first prompt.
LEMMA LineInitially == Init => LineInv /\ Discipline!LineInit
<1> SUFFICES ASSUME Init PROVE LineInv /\ Discipline!LineInit OBVIOUS
<1>1. pc = "prompt" /\ lines = 0 BY DEF Init
<1>2. LineInv BY <1>1 DEF LineInv, Handlers
<1>3. Phase = "new" /\ LineNow = <<>> /\ Arguments = <<>> BY <1>1, Modes DEF ModesInv
<1> QED BY <1>2, <1>3 DEF Discipline!LineInit

LEMMA PromptPromised ==
    ASSUME ConsoleInv, LineInv, Prompt
    PROVE  LineInv' /\ Promised
<1>1. /\ pc = "prompt" /\ pc' = "read" /\ i' = 0 /\ tokens' = <<>> /\ between' = FALSE
      /\ lines' = lines + 1 /\ lines \in Nat /\ session' = session
      BY LineTypes DEF Prompt
<1>2. LineInv' BY <1>1 DEF LineInv, Handlers
<1>3. Phase' = "reading" /\ Arguments' = <<>> /\ LineNow' = <<>>
  <2>1. Line' = <<>> BY <1>1 DEF Line
  <2> QED BY <1>1, <2>1, ModesNext DEF ModesInv
<1>4. /\ LineNow = <<>>
      /\ Phase = "new" \/ (Phase = "running" /\ ~Discipline!MustStop)
  <2>1. lines > 0 => ~Discipline!MustStop BY <1>1 DEF LineInv
  <2> QED BY <1>1, <2>1, Modes DEF ModesInv
<1>5. size' = size BY <1>1 DEF size
<1>6. Discipline!Prompt BY <1>3, <1>4, <1>5 DEF Discipline!Prompt
<1> QED BY <1>2, <1>6 DEF Promised, Discipline!LineNext

\* The line ends, for a key or for lack of room.
LEMMA LineEnds ==
    ASSUME ConsoleInv, LineInv, pc = "read", pc' = "dispatch", typed' = Line,
           text' = [text EXCEPT ![i] = "NUL"],
           UNCHANGED <<session, i, scan_vars, tokens, lines>>
    PROVE  /\ LineInv'
           /\ size' = size /\ LineNow' = LineNow /\ Arguments' = Arguments
           /\ Phase = "reading" /\ Phase' = (IF Room THEN "entered" ELSE "cut")
           /\ Len(LineNow) = i
<1>1. /\ i \in Nat /\ k = 0 /\ tokens = <<>> /\ ~between /\ lines > 0
      BY LineTypes DEF LineInv, ConsoleInv
<1>2. session' = session /\ size' = size /\ Chars' = Chars /\ i' = i /\ (Room' <=> Room)
      BY DEF size, Chars, Index, Room
<1>3. typed' \in Seq(Chars') /\ Len(typed') = i'
      BY <1>2, LineIsSeq
<1>4. Blanked'
  <2> SUFFICES ASSUME NEW n \in 1..i PROVE text'[n - 1] = typed'[n] /\ ~(n <= k')
    BY <1>2 DEF Blanked
  <2>1. text'[n - 1] = text[n - 1] BY LineWritten
  <2>2. typed'[n] = text[n - 1] BY LineIsSeq
  <2>3. ~(n <= k') BY <1>1 DEF scan_vars
  <2> QED BY <2>1, <2>2, <2>3
<1>5. LineInv' BY <1>1, <1>3, <1>4 DEF LineInv, scan_vars, Handlers
<1>6. Phase = "reading" /\ LineNow = Line /\ Arguments = <<>> BY Modes DEF ModesInv
<1>7. /\ LineNow' = typed' /\ Arguments' = <<>>
      /\ Phase' = IF Room' THEN "entered" ELSE "cut"
      BY ModesNext DEF ModesInv
<1> QED BY <1>2, <1>5, <1>6, <1>7, LineIsSeq

LEMMA EnterPromised ==
    ASSUME ConsoleInv, LineInv, EnterKey
    PROVE  LineInv' /\ Promised
<1>1. /\ LineInv'
      /\ size' = size /\ LineNow' = LineNow /\ Arguments' = Arguments
      /\ Phase = "reading" /\ Phase' = (IF Room THEN "entered" ELSE "cut")
      /\ Len(LineNow) = i
      BY LineEnds DEF EnterKey
<1>2. Room BY DEF EnterKey
<1>3. Discipline!Enter BY <1>1, <1>2 DEF Discipline!Enter, Room
<1> QED BY <1>1, <1>3 DEF Promised, Discipline!LineNext

LEMMA FullPromised ==
    ASSUME ConsoleInv, LineInv, FullLine
    PROVE  LineInv' /\ Promised
<1>1. /\ LineInv'
      /\ size' = size /\ LineNow' = LineNow /\ Arguments' = Arguments
      /\ Phase = "reading" /\ Phase' = (IF Room THEN "entered" ELSE "cut")
      /\ Len(LineNow) = i
      BY LineEnds DEF FullLine, Terminated
<1>2. ~Room /\ i + 1 = size BY LineTypes DEF FullLine, Room
<1>3. Discipline!Cut BY <1>1, <1>2 DEF Discipline!Cut
<1> QED BY <1>1, <1>3 DEF Promised, Discipline!LineNext

\* A line without its last character.
LEMMA FrontIs ==
    ASSUME NEW C, NEW longer \in Seq(C), NEW shorter \in Seq(C),
           Len(longer) = Len(shorter) + 1,
           \A n \in 1..Len(shorter) : longer[n] = shorter[n]
    PROVE  Discipline!Front(longer) = shorter
<1> DEFINE n == Len(shorter)
<1>1. n \in Nat /\ Len(longer) - 1 = n OBVIOUS
<1>2. \A m \in 1..n : longer[m] \in C OBVIOUS
<1>3. Discipline!Front(longer) = SubSeq(longer, 1, n) BY <1>1 DEF Discipline!Front
<1>4. shorter = [m \in 1..n |-> shorter[m]] OBVIOUS
<1> HIDE DEF n
<1>5. /\ 1 \in Int /\ n \in Int /\ (IF 1 <= n THEN n - 1 + 1 ELSE 0) = n
      /\ n - 1 + 1 = n /\ \A m \in 1..n : 1 + m - 1 = m
      BY <1>1
<1>6. /\ SubSeq(longer, 1, n) \in Seq(C)
      /\ Len(SubSeq(longer, 1, n)) = n
      /\ \A m \in 1..n : SubSeq(longer, 1, n)[m] = longer[m]
  <2>1. /\ SubSeq(longer, 1, n) \in Seq(C)
        /\ Len(SubSeq(longer, 1, n)) = IF 1 <= n THEN n - 1 + 1 ELSE 0
        /\ \A m \in 1..n - 1 + 1 : SubSeq(longer, 1, n)[m] = longer[1 + m - 1]
    BY <1>2, <1>5, SubSeqProperties
  <2> QED BY <1>5, <2>1
<1>7. SubSeq(longer, 1, n) = [m \in 1..n |-> SubSeq(longer, 1, n)[m]]
  <2>1. DOMAIN SubSeq(longer, 1, n) = 1..n BY <1>6
  <2> QED BY <1>6, <2>1
<1>8. \A m \in 1..n : SubSeq(longer, 1, n)[m] = shorter[m] BY <1>6 DEF n
<1> QED BY <1>3, <1>4, <1>7, <1>8

LEMMA KeyPromised ==
    ASSUME ConsoleInv, ConsoleInv', LineInv, Key
    PROVE  LineInv' /\ Promised
<1>1. /\ pc = "read" /\ pc' = "read" /\ i' = i + 1 /\ Room
      /\ UNCHANGED <<session, typed, scan_vars, tokens, lines>>
      /\ \E c : text' = [text EXCEPT ![i] = c]
      BY DEF Key
<1>2. size' = size /\ Chars' = Chars BY <1>1 DEF size, Chars, Index
<1>3. LineInv' BY <1>1 DEF LineInv, scan_vars, Handlers
<1>4. /\ Phase = "reading" /\ LineNow = Line /\ Arguments = <<>>
      /\ Phase' = "reading" /\ LineNow' = Line' /\ Arguments' = <<>>
      BY <1>1, Modes, ModesNext DEF ModesInv
<1>5. /\ Line \in Seq(Chars) /\ Len(Line) = i /\ \A n \in 1..i : Line[n] = text[n - 1]
      BY LineIsSeq
<1>6. /\ Line' \in Seq(Chars) /\ Len(Line') = i + 1
      /\ \A n \in 1..(i + 1) : Line'[n] = text'[n - 1]
  <2>1. /\ \A n \in 1..i' : text'[n - 1] \in Chars'
    <3> SUFFICES ASSUME NEW n \in 1..(i + 1) PROVE text'[n - 1] \in Chars BY <1>1, <1>2
    <3>1. n - 1 \in 0..(size - 1) BY <1>1, LineTypes
    <3>2. text' \in [0..(size - 1) -> Chars] BY <1>2 DEF ConsoleInv, Index
    <3> QED BY <3>1, <3>2
  <2>2. i + 1 \in Nat BY LineTypes
  <2> QED BY <1>1, <1>2, <2>1, <2>2 DEF Line
<1>7. \A n \in 1..i : Line'[n] = Line[n]
  <2> SUFFICES ASSUME NEW n \in 1..i PROVE Line'[n] = Line[n] OBVIOUS
  <2>1. n \in 1..(i + 1) BY LineTypes
  <2>2. text'[n - 1] = text[n - 1] BY <1>1, LineWritten
  <2> QED BY <1>5, <1>6, <2>1, <2>2
<1>8. Discipline!Front(Line') = Line BY <1>5, <1>6, <1>7, FrontIs
<1>9. Len(Line) + 1 < size BY <1>1, <1>5 DEF Room
<1>10. Discipline!Type BY <1>2, <1>4, <1>5, <1>6, <1>8, <1>9 DEF Discipline!Type
<1> QED BY <1>3, <1>10 DEF Promised, Discipline!LineNext

LEMMA ErasePromised ==
    ASSUME ConsoleInv, LineInv, EraseKey
    PROVE  LineInv' /\ Promised
<1>1. /\ pc = "read" /\ pc' = "read" /\ i > 0 /\ i' = i - 1 /\ i \in Nat
      /\ UNCHANGED <<session, text, typed, scan_vars, tokens, lines>>
      BY LineTypes DEF EraseKey
<1>2. size' = size /\ Chars' = Chars BY <1>1 DEF size, Chars, Index
<1>3. LineInv' BY <1>1 DEF LineInv, scan_vars, Handlers
<1>4. /\ Phase = "reading" /\ LineNow = Line /\ Arguments = <<>>
      /\ Phase' = "reading" /\ LineNow' = Line' /\ Arguments' = <<>>
      BY <1>1, Modes, ModesNext DEF ModesInv
<1>5. /\ Line \in Seq(Chars) /\ Len(Line) = i /\ \A n \in 1..i : Line[n] = text[n - 1]
      BY LineIsSeq
<1>6. \A n \in 1..(i - 1) : n \in 1..i BY <1>1
<1>7. Line' = [n \in 1..(i - 1) |-> text[n - 1]] BY <1>1 DEF Line
<1>8. \A n \in 1..(i - 1) : text[n - 1] \in Chars
  <2> SUFFICES ASSUME NEW n \in 1..(i - 1) PROVE text[n - 1] \in Chars OBVIOUS
  <2>1. n - 1 \in 0..(size - 1) BY LineTypes
  <2> QED BY <2>1, LineTypes
<1>9. /\ Line' \in Seq(Chars) /\ Len(Line') = i - 1
      /\ \A n \in 1..(i - 1) : Line'[n] = text[n - 1]
      BY <1>1, <1>7, <1>8
<1>10. Discipline!Front(Line) = Line'
  <2>1. Len(Line) = Len(Line') + 1 BY <1>1, <1>5, <1>9
  <2>2. \A n \in 1..Len(Line') : Line[n] = Line'[n] BY <1>5, <1>6, <1>9
  <2> QED BY <1>5, <1>9, <2>1, <2>2, FrontIs
<1>11. Line # <<>> BY <1>1, <1>5
<1>12. Discipline!Rub BY <1>2, <1>4, <1>10, <1>11 DEF Discipline!Rub
<1> QED BY <1>3, <1>12 DEF Promised, Discipline!LineNext

-----------------------------------------------------------------------------
(* The tokenizer.                                                          *)

LEMMA MeasurePromised ==
    ASSUME ConsoleInv, LineInv, Measure
    PROVE  LineInv' /\ Promised
<1>1. /\ pc = "dispatch" /\ length' = End(text, 0) /\ lines > 0 /\ k = 0 /\ ~between
      /\ tokens = <<>> /\ typed \in Seq(Chars) /\ Len(typed) = i /\ Blanked
      /\ text[i] = "NUL" /\ i \in Nat /\ i < size /\ size \in Nat /\ session \in Sessions
      /\ lines \in Nat
      /\ UNCHANGED <<session, text, i, typed, k, between, arg, lines>>
      BY LineTypes DEF Measure, LineInv, ConsoleInv, Ended
<1>2. size' = size /\ Chars' = Chars BY <1>1 DEF size, Chars, Index
<1>3. /\ length' \in 0..size /\ length' <= i
      /\ length' < size => text[length'] = "NUL"
      /\ \A n \in 0..(size - 1) : text[n] = "NUL" => length' <= n
  <2>1. 0 \in 0..size BY <1>1
  <2>2. /\ length' \in 0..size
        /\ length' < size => text[length'] = "NUL"
        /\ \A n \in 0..(size - 1) : text[n] = "NUL" => length' <= n
    BY <1>1, <2>1, EndFound
  <2>3. i \in 0..(size - 1) BY <1>1
  <2> QED BY <1>1, <2>2, <2>3
<1>4. /\ Phase = IF Room THEN "entered" ELSE "cut"
      /\ LineNow = typed /\ Arguments = <<>>
      BY <1>1, Modes DEF ModesInv
<1>5. \A n \in 1..i : text[n - 1] = typed[n]
  <2> SUFFICES ASSUME NEW n \in 1..i PROVE text[n - 1] = typed[n] OBVIOUS
  <2>1. ~(n <= k) BY <1>1
  <2> QED BY <1>1, <2>1 DEF Blanked
<1>6. Blanked' BY <1>1 DEF Blanked
\* An empty line has no words, and the prompt comes again.
<1>7. CASE length' = 0
  <2>1. pc' = "prompt" /\ tokens' = <<>> BY <1>1, <1>7 DEF Measure
  <2>2. WordsNow' = <<>>
    <3>1. argc' = 0 BY <2>1 DEF argc
    <3> QED BY <3>1 DEF WordsNow
  <2>3. Phase' = "running" /\ LineNow' = <<>> /\ Arguments' = <<>>
    BY <1>1, <2>1, <2>2, ModesNext DEF ModesInv
  <2>4. Discipline!Words(typed) = <<>>
    <3> DEFINE t == Discipline!Kept(typed)
    <3>1. t \in Seq(Chars) /\ Len(t) = 0
      <4>1. /\ 0 \in 0..Len(typed)
            /\ \A m \in 1..0 : typed[m] # "NUL"
            /\ 0 < Len(typed) => typed[0 + 1] = "NUL"
        <5>1. text[0] = "NUL" BY <1>1, <1>3, <1>7
        <5>2. 0 < i => 1 \in 1..i BY <1>1
        <5>3. 0 < i => typed[1] = "NUL" BY <1>5, <5>1, <5>2
        <5> QED BY <1>1, <5>3
      <4> QED BY <1>1, <4>1, KeptIs
    <3> HIDE DEF t
    <3>2. Discipline!Starts(t) = {} BY <3>1 DEF Discipline!Starts
    <3>3. Cardinality(Discipline!Starts(t)) = 0 BY <3>2, FS_EmptySet
    <3>4. Min({MaxWords, 0}) = 0
      <4>1. {MaxWords, 0} \subseteq Nat /\ \A n \in {MaxWords, 0} : 0 <= n BY LineTypes
      <4> QED BY <4>1, MinIs
    <3>5. Discipline!Words(typed) =
             [n \in 1..Min({MaxWords, Cardinality(Discipline!Starts(t))}) |->
                 Discipline!WordFrom(t, Discipline!Start(t, n))]
      BY SameMin, SameCardinality DEF Discipline!Words, t
    <3>6. Discipline!Words(typed) =
             [n \in 1..0 |-> Discipline!WordFrom(t, Discipline!Start(t, n))]
      BY <3>3, <3>4, <3>5
    <3>7. 1..0 = {} OBVIOUS
    <3> QED BY <3>6, <3>7
  <2>5. Discipline!Run BY <1>2, <1>4, <2>3, <2>4 DEF Discipline!Run
  <2>6. ~Discipline!MustStop' BY <2>3 DEF Discipline!MustStop, Discipline!Handler
  <2>7. LineInv' BY <1>1, <2>1, <2>6 DEF LineInv, Handlers
  <2> QED BY <2>5, <2>7 DEF Promised, Discipline!LineNext
<1>8. CASE length' # 0
  <2>1. pc' = "tokenize" /\ tokens' = <<0>> BY <1>1, <1>8 DEF Measure
  <2>2. argc' = 1 /\ tokens'[1] = 0 /\ length' \in Nat /\ length' > 0
    BY <1>3, <1>8, <2>1 DEF argc
  <2>3. \A n \in 1..length' : typed[n] # "NUL"
    <3> SUFFICES ASSUME NEW n \in 1..length', typed[n] = "NUL" PROVE FALSE OBVIOUS
    <3>1. n \in 1..i /\ n - 1 \in 0..(size - 1) /\ ~(length' <= n - 1) BY <1>1, <1>3, <2>2
    <3> QED BY <1>3, <1>5, <3>1
  <2>4. length' < i => typed[length' + 1] = "NUL"
    <3> SUFFICES ASSUME length' < i PROVE typed[length' + 1] = "NUL" OBVIOUS
    <3>1. length' + 1 \in 1..i /\ length' + 1 - 1 = length' /\ length' < size
      BY <1>1, <2>2
    <3> QED BY <1>3, <1>5, <3>1
  <2>5. ScanInv'
    <3>1. TypedStart(1)' BY DEF TypedStart
    <3>2. 0 + 1 = 1 /\ \A n \in 1..length' : ~(n <= 0) OBVIOUS
    <3>3. \A a \in 1..1 : a = 1 OBVIOUS
    <3>4. /\ \A a \in 1..argc' : /\ tokens'[a] < length'
                                 /\ tokens'[a] = 0 \/ tokens'[a] < k'
                                 /\ TypedStart(tokens[a] + 1)'
          /\ \A n \in 1..length' : TypedStart(n)' /\ (n = 1 \/ n <= k')
                                     => \E a \in 1..argc' : tokens'[a] + 1 = n
      BY <1>1, <2>2, <3>1, <3>2, <3>3
    <3>5. \A a, b \in 1..argc' : a < b => tokens'[a] < tokens'[b] BY <2>2, <3>3
    <3>6. between' <=> k' > 0 /\ typed'[k'] \in Blank BY <1>1
    <3> QED BY <1>1, <1>3, <2>2, <2>3, <2>4, <3>4, <3>5, <3>6 DEF ScanInv
  <2>6. LineInv' BY <1>1, <1>2, <1>6, <2>1, <2>5 DEF LineInv, Handlers
  <2>7. /\ Phase' = (IF Room THEN "entered" ELSE "cut")
        /\ LineNow' = typed /\ Arguments' = <<>>
    BY <1>1, <1>2, <2>1, ModesNext DEF ModesInv, Room
  <2> QED BY <1>2, <1>4, <2>6, <2>7, Unseen
<1> QED BY <1>7, <1>8

\* A step of the scan is not seen.
LEMMA ScanUnseen ==
    ASSUME pc = "tokenize", pc' = "tokenize", UNCHANGED <<session, i, typed>>
    PROVE  Promised
<1>1. size' = size /\ (Room' <=> Room) BY DEF size, Room
<1>2. Phase' = Phase /\ LineNow' = LineNow /\ Arguments' = Arguments
      BY <1>1, Modes, ModesNext DEF ModesInv
<1> QED BY <1>1, <1>2, Unseen

\* The character the scan is at, and how far its tokens and starts go.
LEMMA ScanAt ==
    ASSUME ConsoleInv, LineInv, Scanning
    PROVE  /\ pc = "tokenize" /\ ScanInv /\ Blanked
           /\ typed \in Seq(Chars) /\ Len(typed) = i /\ lines > 0
           /\ k \in Nat /\ length \in Nat /\ i \in Nat /\ i < size /\ size \in Nat
           /\ k < length /\ length <= i
           /\ text[k] = typed[k + 1]
           /\ argc \in Nat
           /\ \A a \in 1..argc : tokens[a] \in Nat
<1>1. pc = "tokenize" /\ k < length BY DEF Scanning
<1>2. /\ ScanInv /\ Blanked /\ typed \in Seq(Chars) /\ Len(typed) = i /\ lines > 0
      BY <1>1 DEF LineInv
<1>3. /\ k \in Nat /\ length \in Nat /\ i \in Nat /\ i < size /\ size \in Nat
      /\ argc \in Nat /\ \A a \in 1..argc : tokens[a] \in Nat
      BY LineTypes
<1>4. length <= i BY <1>2 DEF ScanInv
<1>5. k + 1 \in 1..i /\ k + 1 - 1 = k /\ ~(k + 1 <= k) BY <1>1, <1>3, <1>4
<1>6. ASSUME NEW n \in 1..i, n = k + 1 PROVE text[n - 1] = typed[n]
  <2>1. ~(n <= k) BY <1>5, <1>6
  <2> QED BY <1>2, <2>1 DEF Blanked
<1> QED BY <1>1, <1>2, <1>3, <1>4, <1>5, <1>6

\* The scan goes on past a character that starts no word.
LEMMA ScanPast ==
    ASSUME ConsoleInv, LineInv, Scanning, UNCHANGED <<session, pc, i, length, typed, lines>>,
           k' = k + 1, tokens' = tokens, Blanked',
           between' <=> typed[k + 1] \in Blank,
           TypedStart(k + 1) => k = 0
    PROVE  LineInv' /\ Promised
<1>1. /\ pc = "tokenize" /\ ScanInv /\ lines > 0
      /\ typed \in Seq(Chars) /\ Len(typed) = i
      /\ k \in Nat /\ length \in Nat /\ k < length /\ length <= i
      /\ argc \in Nat /\ \A a \in 1..argc : tokens[a] \in Nat
      BY ScanAt
<1>2. Chars' = Chars /\ argc' = argc /\ \A n : TypedStart(n)' <=> TypedStart(n)
      BY DEF Chars, Index, size, argc, TypedStart
<1>3. \A n \in 1..length : TypedStart(n) /\ (n = 1 \/ n <= k + 1) => (n = 1 \/ n <= k)
  <2> SUFFICES ASSUME NEW n \in 1..length, TypedStart(n), n <= k + 1, n # 1, ~(n <= k)
               PROVE  FALSE
    OBVIOUS
  <2>1. n = k + 1 BY <1>1
  <2> QED BY <1>1, <2>1
<1>4. ScanInv'
  <2>1. \A n \in 1..length' : TypedStart(n)' /\ (n = 1 \/ n <= k')
            => \E a \in 1..argc' : tokens'[a] + 1 = n
    BY <1>1, <1>2, <1>3 DEF ScanInv
  <2>2. ASSUME NEW a \in 1..argc'
        PROVE  /\ tokens'[a] < length' /\ (tokens'[a] = 0 \/ tokens'[a] < k')
               /\ TypedStart(tokens[a] + 1)'
    <3>1. /\ tokens[a] < length /\ (tokens[a] = 0 \/ tokens[a] < k)
          /\ TypedStart(tokens[a] + 1) /\ tokens[a] \in Nat
      BY <1>1, <1>2, <2>2 DEF ScanInv
    <3>2. tokens[a] < k => tokens[a] < k + 1 BY <1>1, <3>1
    <3> QED BY <1>2, <3>1, <3>2
  <2>3. k' > 0 /\ k' <= length' BY <1>1
  <2>4. between' <=> k' > 0 /\ typed'[k'] \in Blank BY <2>3
  <2>5. /\ \A n \in 1..length' : typed'[n] # "NUL"
        /\ length' < i' => typed'[length' + 1] = "NUL"
        /\ argc' > 0 /\ \A a, b \in 1..argc' : a < b => tokens'[a] < tokens'[b]
        /\ length' > 0 /\ length' <= i'
    BY <1>1, <1>2 DEF ScanInv
  <2> QED BY <2>1, <2>2, <2>3, <2>4, <2>5 DEF ScanInv
<1>5. LineInv' BY <1>1, <1>2, <1>4 DEF LineInv, Handlers
<1> QED BY <1>1, <1>5, ScanUnseen

LEMMA ScanBlankPromised ==
    ASSUME ConsoleInv, LineInv, ScanBlank
    PROVE  LineInv' /\ Promised
<1>1. /\ Scanning /\ k \in Nat /\ i \in Nat /\ k < i /\ i < size /\ size \in Nat /\ Blanked
      /\ typed[k + 1] \in Blank
      /\ k' = k + 1 /\ between' = TRUE /\ tokens' = tokens
      /\ text' = [text EXCEPT ![k] = "NUL"]
      /\ UNCHANGED <<session, pc, i, length, typed, lines>>
      BY ScanAt DEF ScanBlank, Scanned, BlankReplaced
<1>2. Blanked'
  <2> SUFFICES ASSUME NEW n \in 1..i
               PROVE  text'[n - 1] =
                         IF n <= k + 1 /\ typed[n] \in Blank THEN "NUL" ELSE typed[n]
    BY <1>1 DEF Blanked
  <2>1. text[n - 1] = IF n <= k /\ typed[n] \in Blank THEN "NUL" ELSE typed[n]
    BY <1>1 DEF Blanked
  <2>2. n - 1 \in 0..(size - 1) /\ (n - 1 = k <=> n = k + 1)
        /\ (n <= k + 1 <=> n <= k \/ n = k + 1)
    BY <1>1
  <2>3. text'[n - 1] = IF n - 1 = k THEN "NUL" ELSE text[n - 1] BY <1>1, <2>2, LineTypes
  <2> QED BY <1>1, <2>1, <2>2, <2>3
<1>3. TypedStart(k + 1) => k = 0
  <2>1. k + 1 = 1 => k = 0 BY <1>1
  <2> QED BY <1>1, <2>1 DEF TypedStart
<1> QED BY <1>1, <1>2, <1>3, ScanPast

LEMMA ScanRestPromised ==
    ASSUME ConsoleInv, LineInv, ScanRest
    PROVE  LineInv' /\ Promised
<1>1. /\ Scanning /\ k \in Nat /\ i \in Nat /\ Blanked /\ ScanInv
      /\ typed[k + 1] \notin Blank /\ ~between
      /\ k' = k + 1 /\ between' = between /\ tokens' = tokens /\ text' = text
      /\ UNCHANGED <<session, pc, i, length, typed, lines>>
      BY ScanAt DEF ScanRest, Scanned
<1>2. Blanked'
  <2> SUFFICES ASSUME NEW n \in 1..i
               PROVE  text[n - 1] =
                         IF n <= k + 1 /\ typed[n] \in Blank THEN "NUL" ELSE typed[n]
    BY <1>1 DEF Blanked
  <2>1. text[n - 1] = IF n <= k /\ typed[n] \in Blank THEN "NUL" ELSE typed[n]
    BY <1>1 DEF Blanked
  <2>2. n <= k + 1 <=> n <= k \/ n = k + 1 BY <1>1
  <2> QED BY <1>1, <2>1, <2>2
<1>3. TypedStart(k + 1) => k = 0
  <2>1. k # 0 => k > 0 /\ k + 1 - 1 = k BY <1>1
  <2>2. k > 0 => typed[k] \notin Blank BY <1>1 DEF ScanInv
  <2> QED BY <1>1, <2>1, <2>2 DEF TypedStart
<1> QED BY <1>1, <1>2, <1>3, ScanPast

LEMMA ScanFirstPromised ==
    ASSUME ConsoleInv, LineInv, ScanFirst
    PROVE  LineInv' /\ Promised
<1>1. /\ Scanning /\ pc = "tokenize" /\ lines > 0
      /\ k \in Nat /\ i \in Nat /\ length \in Nat /\ k < length /\ length <= i
      /\ Blanked /\ ScanInv /\ typed \in Seq(Chars) /\ Len(typed) = i
      /\ argc \in Nat /\ \A a \in 1..argc : tokens[a] \in Nat
      /\ typed[k + 1] \notin Blank /\ between
      /\ k' = k + 1 /\ between' = FALSE /\ tokens' = Append(tokens, k) /\ text' = text
      /\ UNCHANGED <<session, pc, i, length, typed, lines>>
      BY ScanAt DEF ScanFirst, Scanned
<1>2. Chars' = Chars /\ \A n : TypedStart(n)' <=> TypedStart(n)
      BY <1>1 DEF Chars, Index, size, TypedStart
<1>3. k > 0 /\ typed[k] \in Blank BY <1>1 DEF ScanInv
<1>4. TypedStart(k + 1)
  <2>1. k + 1 - 1 = k BY <1>1
  <2> QED BY <1>1, <1>3, <2>1 DEF TypedStart
<1>5. /\ argc' = argc + 1 /\ tokens'[argc + 1] = k
      /\ \A a \in 1..argc : tokens'[a] = tokens[a]
  <2>1. tokens \in Seq(Index) /\ Len(tokens) = argc
    BY DEF ConsoleInv, ConsoleTypeOK, argc
  <2> QED BY <1>1, <2>1 DEF argc
<1>6. Blanked'
  <2> SUFFICES ASSUME NEW n \in 1..i
               PROVE  text[n - 1] =
                         IF n <= k + 1 /\ typed[n] \in Blank THEN "NUL" ELSE typed[n]
    BY <1>1 DEF Blanked
  <2>1. text[n - 1] = IF n <= k /\ typed[n] \in Blank THEN "NUL" ELSE typed[n]
    BY <1>1 DEF Blanked
  <2>2. n <= k + 1 <=> n <= k \/ n = k + 1 BY <1>1
  <2> QED BY <1>1, <2>1, <2>2
<1>7. \A a \in 1..argc : /\ tokens[a] < length /\ tokens[a] < k
                         /\ TypedStart(tokens[a] + 1)
  <2> SUFFICES ASSUME NEW a \in 1..argc
               PROVE  /\ tokens[a] < length /\ tokens[a] < k
                      /\ TypedStart(tokens[a] + 1)
    OBVIOUS
  <2>1. /\ tokens[a] < length /\ (tokens[a] = 0 \/ tokens[a] < k)
        /\ TypedStart(tokens[a] + 1)
    BY <1>1 DEF ScanInv
  <2> QED BY <1>1, <1>3, <2>1
<1>8. \A a \in 1..(argc + 1) : a \in 1..argc \/ a = argc + 1 BY <1>1
<1>9. ScanInv'
  <2>1. ASSUME NEW a \in 1..argc', NEW b \in 1..argc', a < b
        PROVE  tokens'[a] < tokens'[b]
    <3>1. a \in 1..argc BY <1>1, <1>5, <2>1
    <3>2. CASE b \in 1..argc
      <4>1. tokens[a] < tokens[b] BY <1>1, <2>1, <3>1, <3>2 DEF ScanInv
      <4> QED BY <1>5, <3>1, <3>2, <4>1
    <3>3. CASE b = argc + 1 BY <1>5, <1>7, <3>1, <3>3
    <3> QED BY <1>5, <1>8, <3>2, <3>3
  <2>2. ASSUME NEW a \in 1..argc'
        PROVE  /\ tokens'[a] < length' /\ (tokens'[a] = 0 \/ tokens'[a] < k')
               /\ TypedStart(tokens[a] + 1)'
    <3>1. CASE a \in 1..argc
      <4>1. tokens[a] < k => tokens[a] < k + 1 BY <1>1, <3>1
      <4>2. TypedStart(tokens'[a] + 1) BY <1>5, <1>7, <3>1
      <4> QED BY <1>1, <1>2, <1>5, <1>7, <3>1, <4>1, <4>2
    <3>2. CASE a = argc + 1
      <4>1. k < k + 1 BY <1>1
      <4>2. tokens'[a] = k BY <1>5, <3>2
      <4>3. TypedStart(tokens'[a] + 1) BY <1>4, <4>2
      <4> QED BY <1>1, <1>2, <4>1, <4>2, <4>3
    <3> QED BY <1>5, <1>8, <3>1, <3>2
  <2>3. ASSUME NEW n \in 1..length', TypedStart(n)', n = 1 \/ n <= k'
        PROVE  \E a \in 1..argc' : tokens'[a] + 1 = n
    <3>1. n \in 1..length /\ TypedStart(n) /\ (n = 1 \/ n <= k \/ n = k + 1)
      BY <1>1, <1>2, <2>3
    <3>2. CASE n = 1 \/ n <= k
      <4>1. PICK a \in 1..argc : tokens[a] + 1 = n BY <1>1, <3>1, <3>2 DEF ScanInv
      <4>2. a \in 1..argc' BY <1>1, <1>5
      <4> QED BY <1>5, <4>1, <4>2
    <3>3. CASE n = k + 1
      <4>1. argc + 1 \in 1..argc' BY <1>1, <1>5
      <4> QED BY <1>5, <3>3, <4>1
    <3> QED BY <3>1, <3>2, <3>3
  <2>4. ~(typed'[k'] \in Blank) /\ k' <= length' BY <1>1
  <2>5. /\ \A n \in 1..length' : typed'[n] # "NUL"
        /\ length' < i' => typed'[length' + 1] = "NUL"
        /\ argc' > 0 /\ length' > 0 /\ length' <= i'
    BY <1>1, <1>5 DEF ScanInv
  <2> QED BY <1>1, <2>1, <2>2, <2>3, <2>4, <2>5 DEF ScanInv
<1>10. LineInv' BY <1>1, <1>2, <1>6, <1>9 DEF LineInv, Handlers
<1> QED BY <1>1, <1>10, ScanUnseen

LEMMA DispatchPromised ==
    ASSUME ConsoleInv, LineInv, Dispatch
    PROVE  LineInv' /\ Promised
<1>1. /\ pc = "tokenize" /\ ScanInv /\ lines > 0
      /\ pc' = IF argv(0) \in DOMAIN Commands THEN Commands[argv(0)] ELSE "quiet"
      /\ UNCHANGED <<session, text, i, typed, tokens, lines>>
      BY DEF Dispatch, LineInv
<1>2. pc' \in Handlers BY <1>1, ShellAssumption DEF Handlers
<1>3. size' = size /\ WordsNow' = WordsNow /\ argc' = argc
  <2>1. argc' = argc /\ size' = size BY <1>1 DEF argc, size
  <2>2. \A n : argv(n)' = argv(n) BY <1>1, <2>1 DEF argv, StringAt, End
  <2> QED BY <2>1, <2>2 DEF WordsNow
<1>4. /\ Phase = (IF Room THEN "entered" ELSE "cut") /\ LineNow = typed
      /\ Phase' = "running" /\ LineNow' = <<>> /\ Arguments' = WordsNow
      BY <1>1, <1>2, <1>3, Modes, ModesNext DEF ModesInv
<1>5. Discipline!Words(typed) = WordsNow BY <1>1, WordsScanned DEF Dispatch
<1>6. Discipline!Run BY <1>3, <1>4, <1>5 DEF Discipline!Run
<1>7. argc \in Nat /\ argc > 0 BY <1>1, LineTypes DEF ScanInv
<1>8. WordsNow # <<>> /\ WordsNow[1] = argv(0)
  <2>1. 1 \in 1..argc /\ 1 - 1 = 0 BY <1>7
  <2>2. DOMAIN WordsNow = 1..argc BY DEF WordsNow
  <2>3. WordsNow # <<>>
    <3>1. DOMAIN <<>> = {} OBVIOUS
    <3> QED BY <2>1, <2>2, <3>1
  <2> QED BY <2>1, <2>3 DEF WordsNow
<1>9. Discipline!Handler' = pc' BY <1>1, <1>4, <1>8 DEF Discipline!Handler
<1>10. LineInv' BY <1>1, <1>2, <1>3, <1>7, <1>9 DEF LineInv, Handlers
<1> QED BY <1>6, <1>10 DEF Promised, Discipline!LineNext

-----------------------------------------------------------------------------
(* The handlers.                                                           *)

LEMMA SameNumber == ASSUME NEW s PROVE Discipline!NumberIn(s) = NumberIn(s)
  BY DEF NumberIn, Discipline!NumberIn, Denoted, Discipline!Denoted,
         PlaceSums, Discipline!PlaceSums, Power16, Discipline!Power16,
         PrefixLength, Discipline!PrefixLength, IsDigit, Discipline!IsDigit,
         DigitValue, Discipline!DigitValue, Upper, Lower, Discipline!Upper,
         Discipline!Lower, Max, Min, Discipline!Max, Discipline!Min

\* An argument is a string of such characters.
LEMMA ArgumentIsString ==
    ASSUME ConsoleInv, NEW n \in Nat, n + 1 \in 1..argc
    PROVE  argv(n) \in Seq(Chars)
<1> DEFINE p == tokens[n + 1]
           e == End(text, p)
<1>1. session \in Sessions /\ size \in Nat /\ p \in 0..(size - 1) /\ p \in 0..size
  <2>1. tokens[n + 1] \in 0..(size - 1) /\ session \in Sessions /\ size \in Nat BY LineTypes
  <2> QED BY <2>1
<1>2. e \in p..size BY <1>1, EndFound
<1> HIDE DEF p, e
<1>3. \A m \in 1..(e - p) : text[p + m - 1] \in Chars
  <2> SUFFICES ASSUME NEW m \in 1..(e - p) PROVE text[p + m - 1] \in Chars OBVIOUS
  <2>1. p + m - 1 \in 0..(size - 1) BY <1>1, <1>2
  <2> QED BY <2>1, LineTypes
<1>4. e - p \in Nat BY <1>1, <1>2
<1>5. argv(n) = [m \in 1..(e - p) |-> text[p + m - 1]] BY DEF argv, StringAt, p, e
<1> QED BY <1>3, <1>4, <1>5

\* When a handler runs, the command is the one that LineDiscipline takes it for.
LEMMA HandlerIs ==
    ASSUME ConsoleInv, LineInv, pc \in Handlers
    PROVE  /\ Phase = "running" /\ LineNow = <<>> /\ Arguments = WordsNow
           /\ Discipline!Handler = pc /\ lines > 0 /\ lines \in Nat
           /\ argc \in Nat /\ Len(Arguments) = argc
           /\ argc > 1 => Arguments[2] = argv(1)
<1>1. Phase = "running" /\ LineNow = <<>> /\ Arguments = WordsNow BY Modes DEF ModesInv
<1>2. Discipline!Handler = pc /\ lines > 0 /\ lines \in Nat /\ argc \in Nat
      BY LineTypes DEF LineInv, Handlers
<1>3. Len(WordsNow) = argc BY <1>2 DEF WordsNow
<1>4. argc > 1 => WordsNow[2] = argv(1)
  <2>1. argc > 1 => 2 \in 1..argc BY <1>2
  <2>2. 2 - 1 = 1 OBVIOUS
  <2> QED BY <2>1, <2>2 DEF WordsNow
<1> QED BY <1>1, <1>2, <1>3, <1>4

\* A handler leaves the words alone.
LEMMA Returned ==
    ASSUME ConsoleInv, LineInv, pc \in Handlers, NEW n, NEW next, Return(n, next)
    PROVE  /\ size' = size /\ lines' = lines /\ argc' = argc /\ pc' = next
           /\ next \in {"prompt", "memread"} =>
                 Phase' = "running" /\ LineNow' = <<>> /\ Arguments' = Arguments
           /\ next \in {"stopped", "restarting"} =>
                 Phase' = "stopped" /\ LineNow' = <<>> /\ Arguments' = Arguments
<1>1. /\ pc' = next /\ UNCHANGED <<session, text, tokens, lines>> BY DEF Return
<1>2. size' = size /\ argc' = argc BY <1>1 DEF size, argc
<1>3. \A m : argv(m)' = argv(m) BY <1>1, <1>2 DEF argv, StringAt, End
<1>4. WordsNow' = WordsNow BY <1>2, <1>3 DEF WordsNow
<1>5. Arguments = WordsNow /\ lines > 0 /\ lines \in Nat BY HandlerIs
<1>6. lines' # 0 BY <1>1, <1>5
<1> QED BY <1>1, <1>2, <1>4, <1>5, <1>6, ModesNext DEF ModesInv, Handlers

\* A command that need not stop the kernel may go on, or end.
LEMMA ReturnPromised ==
    ASSUME ConsoleInv, LineInv, pc \in Handlers, NEW n, NEW next, Return(n, next),
           \/ next = "prompt" /\ ~Discipline!MustStop
           \/ next = "memread" /\ pc = "memread"
    PROVE  LineInv' /\ Promised
<1>1. /\ size' = size /\ lines' = lines /\ argc' = argc /\ pc' = next
      /\ Phase' = "running" /\ LineNow' = <<>> /\ Arguments' = Arguments
      BY Returned
<1>2. /\ Phase = "running" /\ LineNow = <<>> /\ Discipline!Handler = pc /\ lines > 0
      /\ argc > 0
      BY HandlerIs DEF LineInv
<1>3. Discipline!Handler' = Discipline!Handler BY <1>1 DEF Discipline!Handler
<1>4. Discipline!MustStop' <=> Discipline!MustStop
  BY <1>1, <1>3 DEF Discipline!MustStop
<1>5. LineInv' BY <1>1, <1>2, <1>3, <1>4 DEF LineInv, Handlers
<1>6. Promised BY <1>1, <1>2, Unseen
<1> QED BY <1>5, <1>6

\* A command that may stop the kernel may do so.
LEMMA StopPromised ==
    ASSUME ConsoleInv, LineInv, pc \in Handlers, NEW n, NEW next, Return(n, next),
           next \in {"stopped", "restarting"}, Discipline!MayStop
    PROVE  LineInv' /\ Promised
<1>1. /\ size' = size /\ lines' = lines /\ pc' = next
      /\ Phase' = "stopped" /\ LineNow' = <<>> /\ Arguments' = Arguments
      BY Returned
<1>2. Phase = "running" /\ LineNow = <<>> /\ lines > 0 BY HandlerIs
<1>3. LineInv' BY <1>1, <1>2 DEF LineInv, Handlers
<1>4. Discipline!Stop BY <1>1, <1>2 DEF Discipline!Stop
<1> QED BY <1>3, <1>4 DEF Promised, Discipline!LineNext

LEMMA MemreadPromised ==
    ASSUME ConsoleInv, LineInv, Memread
    PROVE  LineInv' /\ Promised
<1>1. pc = "memread" /\ pc \in Handlers BY DEF Memread, Handlers
<1>2. Discipline!Handler = "memread" /\ Len(Arguments) = argc /\ argc \in Nat
      BY <1>1, HandlerIs
<1>3. ~Discipline!MustStop BY <1>2 DEF Discipline!MustStop
<1>4. CASE arg < argc
  <2>1. PICK next \in {"memread", "stopped"} :
           Return(console_print_hex_value(Number(arg)), next)
    BY <1>4 DEF Memread
  <2>2. arg \in Nat \ {0} BY DEF ConsoleInv, ConsoleTypeOK
  <2>3. Discipline!MayStop BY <1>2, <1>4, <2>2 DEF Discipline!MayStop
  <2>4. CASE next = "memread" BY <1>1, <2>1, <2>4, ReturnPromised
  <2>5. CASE next = "stopped" BY <1>1, <2>1, <2>3, <2>5, StopPromised
  <2> QED BY <2>4, <2>5
<1>5. CASE ~(arg < argc)
  <2>1. Return(shown, "prompt") BY <1>5 DEF Memread
  <2> QED BY <1>1, <1>3, <2>1, ReturnPromised
<1> QED BY <1>4, <1>5

\* trapsvc takes the prompt away for the two calls that do not return, and for no other.
LEMMA TrapSvcPromised ==
    ASSUME ConsoleInv, LineInv, TrapSvc
    PROVE  LineInv' /\ Promised
<1> DEFINE number == IF argc < 2 THEN 4 ELSE Number(1)
<1>1. pc = "trapsvc" /\ pc \in Handlers BY DEF TrapSvc, Handlers
<1>2. /\ Discipline!Handler = "trapsvc" /\ Len(Arguments) = argc /\ argc \in Nat
      /\ argc > 1 => Arguments[2] = argv(1)
      BY <1>1, HandlerIs
<1>3. argc > 1 => Number(1) = Discipline!NumberIn(argv(1))
  <2> SUFFICES ASSUME argc > 1 PROVE Number(1) = Discipline!NumberIn(argv(1)) OBVIOUS
  <2>1. 1 + 1 \in 1..argc BY <1>2
  <2>2. argv(1) \in Seq(Chars) BY <2>1, ArgumentIsString
  <2> QED BY <2>2, ReadsNumber, SameNumber DEF Number
<1>4. argc < 2 <=> ~(argc > 1) BY <1>2
<1> HIDE DEF number
<1>5. Discipline!MustStop <=> number \in {RestartCall, PanicCall}
  <2>1. CASE argc > 1
    <3>1. number = Discipline!NumberIn(Arguments[2])
      BY <1>2, <1>3, <1>4, <2>1 DEF number
    <3> QED BY <1>2, <2>1, <3>1 DEF Discipline!MustStop
  <2>2. CASE ~(argc > 1)
    <3>1. number = 4 BY <1>4, <2>2 DEF number
    <3>2. 4 \notin {RestartCall, PanicCall} BY ShellAssumption
    <3> QED BY <1>2, <2>2, <3>1, <3>2 DEF Discipline!MustStop
  <2> QED BY <2>1, <2>2
<1>6. CASE number = RestartCall
  <2>1. number # PanicCall BY <1>6, ShellAssumption
  <2>2. Return(shown, "restarting") BY <1>6, <2>1 DEF TrapSvc, number
  <2> QED BY <1>1, <1>5, <1>6, <2>2, StopPromised DEF Discipline!MayStop
<1>7. CASE number # RestartCall /\ number = PanicCall
  <2>1. Return(shown, "stopped") BY <1>7 DEF TrapSvc, number
  <2> QED BY <1>1, <1>5, <1>7, <2>1, StopPromised DEF Discipline!MayStop
<1>8. CASE number # RestartCall /\ number # PanicCall
  <2>1. Return(console_print_hex_value(number), "prompt") BY <1>8 DEF TrapSvc, number
  <2> QED BY <1>1, <1>5, <1>8, <2>1, ReturnPromised
<1> QED BY <1>6, <1>7, <1>8

LEMMA OthersPromised ==
    ASSUME ConsoleInv, LineInv, Quiet \/ Add \/ Panic \/ Reboot
    PROVE  LineInv' /\ Promised
<1>1. CASE Quiet \/ Add
  <2>1. pc \in {"quiet", "add"} /\ pc \in Handlers BY <1>1 DEF Quiet, Add, Handlers
  <2>2. ~Discipline!MustStop BY <2>1, HandlerIs DEF Discipline!MustStop
  <2>3. \E n : Return(n, "prompt") BY <1>1 DEF Quiet, Add
  <2> QED BY <2>1, <2>2, <2>3, ReturnPromised
<1>2. CASE Panic \/ Reboot
  <2>1. pc \in {"panic", "reboot"} /\ pc \in Handlers BY <1>2 DEF Panic, Reboot, Handlers
  <2>2. Discipline!MayStop
    BY <2>1, HandlerIs DEF Discipline!MayStop, Discipline!MustStop
  <2>3. \E next \in {"stopped", "restarting"} : Return(shown, next)
    BY <1>2 DEF Panic, Reboot
  <2> QED BY <2>1, <2>2, <2>3, StopPromised
<1> QED BY <1>1, <1>2

LEMMA NextPromised ==
    ASSUME ConsoleInv, ConsoleInv', LineInv, [Next]_vars
    PROVE  LineInv' /\ Promised
<1>1. CASE UNCHANGED vars
  <2>1. UNCHANGED <<session, pc, text, i, typed, length, k, between, tokens, lines>>
    BY <1>1 DEF vars, scan_vars
  <2>2. size' = size /\ Chars' = Chars /\ argc' = argc /\ (Room' <=> Room) /\ Line' = Line
    BY <2>1 DEF size, Chars, Index, argc, Room, Line
  <2>3. \A m : argv(m)' = argv(m) BY <2>1, <2>2 DEF argv, StringAt, End
  <2>4. Phase' = Phase BY <2>1, <2>2 DEF Phase
  <2>5. Arguments' = Arguments BY <2>2, <2>3, <2>4 DEF Arguments
  <2>6. LineNow' = LineNow BY <2>1, <2>2, <2>4 DEF LineNow
  <2>7. Discipline!Handler' = Discipline!Handler BY <2>5 DEF Discipline!Handler
  <2>8. Discipline!MustStop' <=> Discipline!MustStop
    BY <2>5, <2>7 DEF Discipline!MustStop
  <2>9. (\A n : TypedStart(n)' <=> TypedStart(n)) /\ (Blanked' <=> Blanked)
    BY <2>1 DEF TypedStart, Blanked
  <2>10. ScanInv' <=> ScanInv BY <2>1, <2>2, <2>9 DEF ScanInv
  <2>11. LineInv' BY <2>1, <2>2, <2>7, <2>8, <2>9, <2>10 DEF LineInv
  <2> QED BY <2>2, <2>4, <2>5, <2>6, <2>11, Unseen
<1>2. CASE Next
  <2>1. CASE Prompt BY <2>1, PromptPromised
  <2>2. CASE EnterKey BY <2>2, EnterPromised
  <2>3. CASE EraseKey BY <2>3, ErasePromised
  <2>4. CASE Key BY <2>4, KeyPromised
  <2>5. CASE FullLine BY <2>5, FullPromised
  <2>6. CASE Measure BY <2>6, MeasurePromised
  <2>7. CASE ScanBlank BY <2>7, ScanBlankPromised
  <2>8. CASE ScanFirst BY <2>8, ScanFirstPromised
  <2>9. CASE ScanRest BY <2>9, ScanRestPromised
  <2>10. CASE Dispatch BY <2>10, DispatchPromised
  <2>11. CASE Quiet \/ Add \/ Panic \/ Reboot BY <2>11, OthersPromised
  <2>12. CASE Memread BY <2>12, MemreadPromised
  <2>13. CASE TrapSvc BY <2>13, TrapSvcPromised
  <2> QED BY <1>2, <2>1, <2>2, <2>3, <2>4, <2>5, <2>6, <2>7, <2>8, <2>9, <2>10, <2>11,
             <2>12, <2>13 DEF Next
<1> QED BY <1>1, <1>2

\* Whatever is typed, however it is edited, and whatever earlier lines have left in the
\* buffer, run_shell_loop hands to a command the words of the line as it was left, and
\* takes the prompt away for panic, for reboot, for the two calls of trapsvc and for a
\* memread that faults, and for nothing else.
THEOREM LineAsPromised == Spec => ImplementsLineDiscipline
<1>1. Init => LineInv /\ Discipline!LineInit BY LineInitially
<1>2. ConsoleInv /\ ConsoleInv' /\ LineInv /\ [Next]_vars => LineInv' /\ Promised
      BY NextPromised
<1>3. Promised => [Discipline!LineNext]_(Discipline!line_vars) BY DEF Promised
<1> QED BY <1>1, <1>2, <1>3, ConsoleInvariant, PTL
        DEF Spec, ImplementsLineDiscipline, Discipline!LineSpec

-----------------------------------------------------------------------------
(* Numbers, from what is typed to what is shown.                           *)

\* Nothing is shown before a handler runs, and memread is at its first argument then.
NumbersInv ==
    /\ pc \in {"read", "dispatch", "tokenize"} => arg = 1
    /\ pc \in {"read", "dispatch", "tokenize"} \cup (Handlers \ {"memread"}) => shown = <<>>
    /\ pc = "prompt" /\ shown # <<>> =>
          argc > 0 /\ argv(0) \in DOMAIN Commands /\ Commands[argv(0)] \in Handlers \ {"quiet"}
    /\ NumbersRight

\* What an argument denotes, and what is printed of it.
LEMMA NumberShown ==
    ASSUME ConsoleInv, NEW n \in Nat, n + 1 \in 1..argc
    PROVE  /\ Number(n) = NumberIn(argv(n)) /\ NumberIn(argv(n)) \in Nat
           /\ Denoted(console_print_hex_value(Number(n))) = NumberIn(argv(n))
<1>1. argv(n) \in Seq(Chars) BY ArgumentIsString
<1>2. /\ Number(n) = NumberIn(argv(n))
      /\ NumberIn(argv(n)) \in Nat /\ NumberIn(argv(n)) < WordValues
      BY <1>1, ReadsNumber DEF Number
<1> QED BY <1>2, PrintsNumber

\* The command that runs is the one that is named first.
LEMMA CommandNamed ==
    ASSUME ConsoleInv, LineInv, pc \in Handlers \ {"quiet"}
    PROVE  argc > 0 /\ argc \in Nat /\ argv(0) \in DOMAIN Commands /\ Commands[argv(0)] = pc
<1>1. argc \in Nat /\ argc > 0 /\ Arguments = WordsNow /\ Discipline!Handler = pc
  BY HandlerIs DEF LineInv
<1>2. 1 \in 1..argc /\ 1 - 1 = 0 BY <1>1
<1>3. WordsNow[1] = argv(0) BY <1>2 DEF WordsNow
<1> QED BY <1>1, <1>3 DEF Discipline!Handler

\* A handler leaves the words where they are.
LEMMA SameWords ==
    ASSUME UNCHANGED <<session, text, tokens>>
    PROVE  argc' = argc /\ \A n : argv(n)' = argv(n)
<1>1. argc' = argc /\ size' = size BY DEF argc, size
<1> QED BY <1>1 DEF argv, StringAt, End

\* A command that shows nothing.
LEMMA SilentNumbers ==
    ASSUME ConsoleInv, LineInv, NumbersInv, pc \in Handlers \ {"memread"},
           NEW next \in {"prompt", "stopped", "restarting"}, Return(shown, next)
    PROVE  NumbersInv'
<1>1. shown = <<>> /\ shown' = shown /\ pc' = next BY DEF NumbersInv, Return
<1> QED BY <1>1 DEF NumbersInv, NumbersRight, Handlers

LEMMA AddNumbers ==
    ASSUME ConsoleInv, LineInv, NumbersInv, Add
    PROVE  NumbersInv'
<1>1. pc = "add" /\ pc \in Handlers \ {"quiet"} BY DEF Add, Handlers
<1>2. argc > 0 /\ argc \in Nat /\ argv(0) \in DOMAIN Commands /\ Commands[argv(0)] = "add"
  BY <1>1, CommandNamed
<1>3. CASE argc # 3
  <2>1. Return(shown, "prompt") BY <1>3 DEF Add
  <2> QED BY <1>1, <2>1, SilentNumbers
<1>4. CASE argc = 3
  <2> DEFINE sum == (Number(1) + Number(2)) % WordValues
  <2>1. Return(console_print_hex_value(sum), "prompt") BY <1>4 DEF Add
  <2>2. 1 + 1 \in 1..argc /\ 2 + 1 \in 1..argc BY <1>4
  <2>3. /\ Number(1) = NumberIn(argv(1)) /\ NumberIn(argv(1)) \in Nat
        /\ Number(2) = NumberIn(argv(2)) /\ NumberIn(argv(2)) \in Nat
    BY <2>2, NumberShown
  <2>4. sum = (NumberIn(argv(1)) + NumberIn(argv(2))) % WordValues
    BY <2>3
  <2>5. sum \in Nat /\ sum < WordValues
    <3>1. WordValues \in Nat \ {0} BY Powers, HexAssumption DEF WordValues
    <3>2. NumberIn(argv(1)) + NumberIn(argv(2)) \in Nat BY <2>3
    <3> HIDE DEF sum
    <3> QED BY <2>4, <3>1, <3>2, Divided
  <2> HIDE DEF sum
  <2>6. Denoted(console_print_hex_value(sum)) = sum BY <2>5, PrintsNumber
  <2>7. UNCHANGED <<session, text, tokens>> /\ pc' = "prompt"
        /\ shown' = console_print_hex_value(sum)
    BY <2>1 DEF Return
  <2>8. argc' = argc /\ argv(0)' = argv(0) /\ argv(1)' = argv(1) /\ argv(2)' = argv(2)
    BY <2>7, SameWords
  <2>9. Denoted(shown') = (NumberIn(argv(1)') + NumberIn(argv(2)')) % WordValues
    BY <2>4, <2>6, <2>7, <2>8
  <2>10. Commands[argv(0)'] = "add" BY <1>2, <2>8
  <2>11. NumbersRight' BY <2>7, <2>9, <2>10 DEF NumbersRight
  <2> QED BY <1>2, <2>7, <2>8, <2>11 DEF NumbersInv, Handlers
<1> QED BY <1>3, <1>4

LEMMA MemreadNumbers ==
    ASSUME ConsoleInv, LineInv, NumbersInv, Memread
    PROVE  NumbersInv'
<1>1. pc = "memread" /\ pc \in Handlers \ {"quiet"} BY DEF Memread, Handlers
<1>2. argc > 0 /\ argc \in Nat /\ argv(0) \in DOMAIN Commands /\ Commands[argv(0)] = "memread"
  BY <1>1, CommandNamed
<1>3. arg \in Nat \ {0} BY DEF ConsoleInv, ConsoleTypeOK
<1>4. CASE arg < argc
  <2>1. PICK next \in {"memread", "stopped"} :
           Return(console_print_hex_value(Number(arg)), next)
    BY <1>4 DEF Memread
  <2>2. arg' = arg + 1 /\ (arg + 1) - 1 = arg BY <1>3, <1>4 DEF Memread
  <2>3. arg + 1 \in 1..argc BY <1>2, <1>3, <1>4
  <2>4. Denoted(console_print_hex_value(Number(arg))) = NumberIn(argv(arg))
    BY <1>3, <2>3, NumberShown
  <2>5. UNCHANGED <<session, text, tokens>> /\ pc' = next
        /\ shown' = console_print_hex_value(Number(arg))
    BY <2>1 DEF Return
  <2>6. argv(arg - 1)' = argv(arg)
    <3>1. tokens' = tokens /\ text' = text /\ size' = size BY <2>5 DEF size
    <3>2. (arg - 1)' + 1 = arg + 1 BY <2>2
    <3> QED BY <3>1, <3>2 DEF argv, StringAt, End
  <2>7. NumbersRight' BY <2>4, <2>5, <2>6 DEF NumbersRight
  <2> QED BY <2>5, <2>7 DEF NumbersInv, Handlers
<1>5. CASE ~(arg < argc)
  <2>1. Return(shown, "prompt") BY <1>5 DEF Memread
  <2>2. UNCHANGED <<session, text, tokens>> /\ pc' = "prompt" BY <2>1 DEF Return
  <2>3. argc' = argc /\ argv(0)' = argv(0) BY <2>2, SameWords
  <2>4. NumbersRight' BY <1>2, <2>2, <2>3 DEF NumbersRight
  <2> QED BY <1>2, <2>2, <2>3, <2>4 DEF NumbersInv, Handlers
<1> QED BY <1>4, <1>5

LEMMA TrapSvcNumbers ==
    ASSUME ConsoleInv, LineInv, NumbersInv, TrapSvc
    PROVE  NumbersInv'
<1> DEFINE number == IF argc < 2 THEN 4 ELSE Number(1)
<1>1. pc = "trapsvc" /\ pc \in Handlers \ {"quiet"} BY DEF TrapSvc, Handlers
<1>2. argc > 0 /\ argc \in Nat /\ argv(0) \in DOMAIN Commands /\ Commands[argv(0)] = "trapsvc"
  BY <1>1, CommandNamed
<1>3. \/ Return(shown, "restarting")
      \/ Return(shown, "stopped")
      \/ Return(console_print_hex_value(number), "prompt")
  BY DEF TrapSvc
<1>4. CASE Return(console_print_hex_value(number), "prompt")
  <2>1. UNCHANGED <<session, text, tokens>> /\ pc' = "prompt"
        /\ shown' = console_print_hex_value(number)
    BY <1>4 DEF Return
  <2>2. argc' = argc /\ argv(0)' = argv(0) /\ argv(1)' = argv(1) BY <2>1, SameWords
  <2>3. argc > 1 => Denoted(shown') = NumberIn(argv(1)')
    <3> SUFFICES ASSUME argc > 1 PROVE Denoted(shown') = NumberIn(argv(1)') OBVIOUS
    <3>1. 1 + 1 \in 1..argc /\ ~(argc < 2) BY <1>2
    <3>2. number = Number(1) BY <3>1
    <3>3. Denoted(console_print_hex_value(Number(1))) = NumberIn(argv(1))
      BY <3>1, NumberShown
    <3> QED BY <2>1, <2>2, <3>2, <3>3
  <2>4. NumbersRight' BY <1>2, <2>1, <2>2, <2>3 DEF NumbersRight
  <2> QED BY <1>2, <2>1, <2>2, <2>4 DEF NumbersInv, Handlers
<1>5. CASE Return(shown, "restarting") \/ Return(shown, "stopped")
  <2>1. pc \in Handlers \ {"memread"} BY <1>1 DEF Handlers
  <2> QED BY <1>5, <2>1, SilentNumbers
<1> QED BY <1>3, <1>4, <1>5

LEMMA NumbersInitially == Init => NumbersInv
BY DEF Init, NumbersInv, NumbersRight, Handlers

\* Before a command runs nothing is shown, and nothing is promised of it.
LEMMA EditNumbers ==
    ASSUME NumbersInv, shown = <<>>, arg = 1, shown' = shown, arg' = arg,
           pc' \in {"prompt", "read", "dispatch", "tokenize"} \cup Handlers
    PROVE  NumbersInv'
BY DEF NumbersInv, NumbersRight, Handlers

LEMMA NextNumbers ==
    ASSUME ConsoleInv, LineInv, NumbersInv, [Next]_vars
    PROVE  NumbersInv'
<1>1. CASE UNCHANGED vars
  <2>1. UNCHANGED <<session, pc, text, tokens, arg, shown>> BY <1>1 DEF vars
  <2>2. argc' = argc /\ \A n : argv(n)' = argv(n) BY <2>1, SameWords
  <2>3. argv(arg - 1)' = argv(arg - 1) BY <2>1 DEF argv, StringAt, End, size
  <2>4. NumbersRight' BY <2>1, <2>2, <2>3 DEF NumbersInv, NumbersRight
  <2> QED BY <2>1, <2>2, <2>4 DEF NumbersInv
<1>2. CASE Prompt
  <2>1. pc' = "read" /\ arg' = 1 /\ shown' = <<>> BY <1>2 DEF Prompt
  <2> QED BY <2>1 DEF NumbersInv, NumbersRight, Handlers
<1>3. CASE EnterKey \/ EraseKey \/ Key \/ FullLine
  <2>1. pc = "read" /\ pc' \in {"read", "dispatch"} /\ UNCHANGED <<arg, shown>>
    BY <1>3 DEF EnterKey, EraseKey, Key, FullLine
  <2> QED BY <2>1, EditNumbers DEF NumbersInv
<1>4. CASE Measure
  <2>1. pc = "dispatch" /\ pc' \in {"prompt", "tokenize"} /\ UNCHANGED <<arg, shown>>
    BY <1>4 DEF Measure
  <2> QED BY <2>1, EditNumbers DEF NumbersInv
<1>5. CASE ScanBlank \/ ScanFirst \/ ScanRest
  <2>1. pc = "tokenize" /\ pc' = pc /\ UNCHANGED <<arg, shown>>
    BY <1>5 DEF ScanBlank, ScanFirst, ScanRest, Scanning, Scanned
  <2> QED BY <2>1, EditNumbers DEF NumbersInv
<1>6. CASE Dispatch
  <2>1. pc = "tokenize" /\ UNCHANGED <<arg, shown>> BY <1>6 DEF Dispatch
  <2>2. pc' = IF argv(0) \in DOMAIN Commands THEN Commands[argv(0)] ELSE "quiet"
    BY <1>6 DEF Dispatch
  <2>3. pc' \in Handlers BY <2>2, ShellAssumption DEF Handlers
  <2> QED BY <2>1, <2>3, EditNumbers DEF NumbersInv
<1>7. CASE Quiet \/ Panic \/ Reboot
  <2>1. /\ pc \in Handlers \ {"memread"}
        /\ \E next \in {"prompt", "stopped", "restarting"} : Return(shown, next)
    BY <1>7 DEF Quiet, Panic, Reboot, Handlers
  <2> QED BY <2>1, SilentNumbers
<1>8. CASE Add BY <1>8, AddNumbers
<1>9. CASE Memread BY <1>9, MemreadNumbers
<1>10. CASE TrapSvc BY <1>10, TrapSvcNumbers
<1> QED BY <1>1, <1>2, <1>3, <1>4, <1>5, <1>6, <1>7, <1>8, <1>9, <1>10 DEF Next

\* Whatever digits are typed, add shows the sum of the numbers they denote modulo the
\* size of a word, memread the address it is given and trapsvc the call it makes: no
\* digit is dropped, wrapped or misplaced between console_uint64_from_hex and
\* console_print_hex_value.
THEOREM NumbersShownRight == Spec => []NumbersRight
<1>1. Init => LineInv /\ NumbersInv BY LineInitially, NumbersInitially
<1>2. ConsoleInv /\ ConsoleInv' /\ LineInv /\ NumbersInv /\ [Next]_vars
         => LineInv' /\ NumbersInv'
  BY NextPromised, NextNumbers
<1>3. NumbersInv => NumbersRight BY DEF NumbersInv
<1> QED BY <1>1, <1>2, <1>3, ConsoleInvariant, PTL DEF Spec
=============================================================================
