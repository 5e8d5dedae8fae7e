------------------------------- MODULE Printf -------------------------------
(***************************************************************************)
(* kprintf.c: what is put on the screen for a format and the words that    *)
(* the caller pushed for it, or that the division traps.  Beside it, what  *)
(* C says of the same call, as a reference.                                *)
(*                                                                         *)
(* A text is a sequence of characters.  A word of the stack is a number    *)
(* below WORD, or a character or text for the directives %c and %s.        *)
(***************************************************************************)
EXTENDS Integers, Sequences, SequencesExt

CONSTANT WORD   \* values of a word (2^32)

ASSUME PrintfAssumption == WORD \in Nat /\ WORD > 16 /\ WORD % 2 = 0

NL == "\n"
hex_chars == <<"0", "1", "2", "3", "4", "5", "6", "7", "8", "9", "a", "b", "c", "d", "e", "f">>
Digit(n) == <<hex_chars[n + 1]>>

-----------------------------------------------------------------------------
(* printf_number *)

\* The words of the argument, low one first.
Low(p)  == p.args[p.argp]
High(p) == p.args[p.argp + 1]

\* A negative number of one word is negated in that word and then extended
\* to 64 bits, so the one that has no positive counterpart stays negative.
NegatedWord(n) == IF n = WORD \div 2 THEN WORD * WORD - n ELSE WORD - n
NegatedLongLong(n) == WORD * WORD - n

IsNegative(p, signed) ==
  signed /\ (IF p.length = "ll" THEN High(p) ELSE Low(p)) >= WORD \div 2
Magnitude(p, signed) ==
  IF p.length = "ll"
  THEN IF IsNegative(p, signed) THEN NegatedLongLong(Low(p) + WORD * High(p))
       ELSE Low(p) + WORD * High(p)
  ELSE IF IsNegative(p, signed) THEN NegatedWord(Low(p)) ELSE Low(p)

\* Words that the argument pointer is moved by.
ArgumentWords(length) ==
  CASE length = "l" -> 2 [] length = "ll" -> 4 [] OTHER -> 1

\* div64_32 divides edx:eax, and the CPU traps when the quotient has more
\* than 32 bits.
div64_32(number, radix) == number \div WORD < radix

\* Mutant: the loop stops before the last digit when that is the radix.
DigitsShort(number, radix) ==
  LET digits[n \in Nat] == IF n <= radix THEN Digit(n % radix)
                           ELSE digits[n \div radix] \o Digit(n % radix)
  IN  digits[number]

Digits(number, radix) ==
  LET digits[n \in Nat] == IF n < radix THEN Digit(n)
                           ELSE digits[n \div radix] \o Digit(n % radix)
  IN  digits[number]

printf_number(p, radix, signed) ==
  IF ~div64_32(Magnitude(p, signed), radix) THEN [p EXCEPT !.trap = TRUE]
  ELSE [p EXCEPT !.argp = @ + ArgumentWords(p.length),
                 !.out = @ \o (IF IsNegative(p, signed) THEN <<"-">> ELSE <<>>)
                           \o Digits(Magnitude(p, signed), radix)]

-----------------------------------------------------------------------------
(* kprintf *)

Put(p, text) == [p EXCEPT !.out = @ \o text]
PutArgument(p, text) == [Put(p, text) EXCEPT !.argp = @ + 1]

Convert(p, c) ==
  CASE c = "c" -> PutArgument(p, <<Low(p)>>)
    [] c = "s" -> PutArgument(p, Low(p))
    [] c = "%" -> Put(p, <<"%">>)
    [] c = "d" \/ c = "i" -> printf_number(p, 10, TRUE)
    [] c = "u" -> printf_number(p, 10, FALSE)
    [] c \in {"x", "X", "p"} -> printf_number(p, 16, FALSE)
    [] c = "o" -> printf_number(p, 8, FALSE)
    [] OTHER -> p

Converted(p, c) == [Convert(p, c) EXCEPT !.state = "normal", !.length = "default"]

\* One round of the loop, for the character c of the format.
Round(p, c) ==
  CASE p.trap -> p
    [] p.state = "normal" -> IF c = "%" THEN [p EXCEPT !.state = "length"] ELSE Put(p, <<c>>)
    [] p.state = "length" /\ c = "h" -> [p EXCEPT !.state = "short", !.length = "h"]
    [] p.state = "length" /\ c = "l" -> [p EXCEPT !.state = "long", !.length = "l"]
    [] p.state = "short" /\ c = "h" -> [p EXCEPT !.state = "spec", !.length = "hh"]
    [] p.state = "long" /\ c = "l" -> [p EXCEPT !.state = "spec", !.length = "ll"]
    [] OTHER -> Converted(p, c)

\* args is what the caller pushed, and above it what else is on the stack.
kprintf(fmt, args) ==
  FoldLeft(Round, [state |-> "normal", length |-> "default", args |-> args, argp |-> 1,
                   out |-> <<>>, trap |-> FALSE], fmt)

-----------------------------------------------------------------------------
(* What C says, of a call that is given by its directives *)

Literal(c) == [kind |-> "literal", text |-> <<c>>, words |-> <<>>]
Percent == [kind |-> "percent", text |-> <<"%">>, words |-> <<>>]
Char(c) == [kind |-> "c", text |-> <<c>>, words |-> <<c>>]
String(s) == [kind |-> "s", text |-> s, words |-> <<s>>]
Number(kind, length, words) == [kind |-> kind, length |-> length, words |-> words]

IsNumber(d) == d.kind \in {"d", "u", "x", "o"}

Format(d) ==
  CASE d.kind = "literal" -> d.text
    [] d.kind = "percent" -> <<"%", "%">>
    [] d.kind \in {"c", "s"} -> <<"%", d.kind>>
    [] OTHER -> <<"%">> \o d.length \o <<d.kind>>

FormatOf(call) == FlattenSeq([k \in DOMAIN call |-> Format(call[k])])
WordsOf(call)  == FlattenSeq([k \in DOMAIN call |-> call[k].words])

Radix(d) == CASE d.kind = "x" -> 16 [] d.kind = "o" -> 8 [] OTHER -> 10

\* The number that the words are in two's complement, or without a sign.
Unsigned(d) == IF Len(d.words) = 1 THEN d.words[1] ELSE d.words[1] + WORD * d.words[2]
Modulus(d) == IF Len(d.words) = 1 THEN WORD ELSE WORD * WORD
Value(d) ==
  IF d.kind = "d" /\ 2 * Unsigned(d) >= Modulus(d) THEN Unsigned(d) - Modulus(d) ELSE Unsigned(d)
Abs(n) == IF n < 0 THEN -n ELSE n

\* n in the radix: as many digits as it needs, each for its power.
Numeral(n, radix) ==
  LET count == CHOOSE k \in 1 .. 32 :
                 n < radix^k /\ (k = 1 \/ n >= radix^(k - 1))
  IN  FlattenSeq([k \in 1 .. count |-> Digit((n \div radix^(count - k)) % radix)])

Printed(d) ==
  IF ~IsNumber(d) THEN d.text
  ELSE (IF Value(d) < 0 THEN <<"-">> ELSE <<>>) \o Numeral(Abs(Value(d)), Radix(d))

Reference(call) == FlattenSeq([k \in DOMAIN call |-> Printed(call[k])])

\* The two cases in which a number of its own divides into a trap, and the
\* conversions after which the argument pointer is not where C has it.
Traps(d) ==
  /\ IsNumber(d)
  /\ \/ Abs(Value(d)) >= WORD * Radix(d)
     \/ Len(d.words) = 1 /\ 2 * Value(d) = -WORD
LosesItsPlace(d) == IsNumber(d) /\ d.length \in {<<"l">>, <<"l", "l">>}
=============================================================================
