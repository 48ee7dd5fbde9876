-------------------------------- MODULE Hex ---------------------------------
(***************************************************************************)
(* Hexadecimal numbers as the console reads and prints them.  A character  *)
(* is a string of length one, or the name of one that is not printed; a    *)
(* C string is the sequence of the characters before its NUL.              *)
(***************************************************************************)
EXTENDS Integers, SequencesExt

CONSTANT Digits  \* hexadecimal digits of a word, two for each byte: 16 in the kernel

ASSUME HexAssumption == Digits \in Nat \ {0} /\ Digits % 2 = 0

Power16[n \in Nat] == IF n = 0 THEN 1 ELSE 16 * Power16[n - 1]

WordValues == Power16[Digits]

Upper == <<"0", "1", "2", "3", "4", "5", "6", "7", "8", "9", "A", "B", "C", "D", "E", "F">>
Lower == <<"0", "1", "2", "3", "4", "5", "6", "7", "8", "9", "a", "b", "c", "d", "e", "f">>

IsDigit(c) == \E n \in 1..16 : c \in {Upper[n], Lower[n]}
DigitValue(c) == (CHOOSE n \in 1..16 : c \in {Upper[n], Lower[n]}) - 1

-----------------------------------------------------------------------------
PrefixLength(s) == IF Len(s) >= 2 /\ s[1] = "0" /\ s[2] \in {"x", "X"} THEN 2 ELSE 0

\* A plausible slip: the prefix is counted among the digits.
MaxCharsPrefixed(s) == Digits

MaxChars(s) == Digits + PrefixLength(s)

\* result << 4 | digit, until a character that is no digit.
ReadDigit(t, c) == IF t.done \/ ~IsDigit(c) THEN [t EXCEPT !.done = TRUE]
                   ELSE [value |-> (t.value * 16 + DigitValue(c)) % WordValues,
                         done |-> FALSE]

\* The state of the loop, by the characters it has read.
Reading(s) == LET after[n \in 0..Len(s)] == IF n = 0 THEN [value |-> 0, done |-> FALSE]
                                                  ELSE ReadDigit(after[n - 1], s[n])
              IN after

console_uint64_from_hex(s) ==
    LET body == SubSeq(s, PrefixLength(s) + 1, Min({Len(s), MaxChars(s)}))
    IN Reading(body)[Len(body)].value

\* The bytes of n, the most significant first, each as two digits.
console_print_hex_value(n) ==
    [k \in 1..Digits |->
        LET byte == (n \div Power16[2 * ((Digits - k) \div 2)]) % 256
        IN Upper[1 + IF k % 2 = 1 THEN byte \div 16 ELSE byte % 16]]

-----------------------------------------------------------------------------
(* What the two are meant to compute.                                      *)

\* The number that a sequence of digits denotes: each has the weight of its place.
PlaceSums(s) == LET sum[n \in 0..Len(s)] ==
                       IF n = 0 THEN 0
                       ELSE sum[n - 1] + DigitValue(s[n]) * Power16[Len(s) - n]
                IN sum
Denoted(s) == PlaceSums(s)[Len(s)]

\* The leading digits of s after its prefix, as many as fit a word.
NumberIn(s) ==
    LET body == SubSeq(s, PrefixLength(s) + 1, Len(s))
        lengths == {n \in 0..Min({Digits, Len(body)}) : \A k \in 1..n : IsDigit(body[k])}
    IN Denoted(SubSeq(body, 1, Max(lengths)))
=============================================================================
