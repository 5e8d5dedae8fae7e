------------------------------- MODULE Config -------------------------------
(***************************************************************************)
(* config.c: the search for a key in a file of lines key=value, and the    *)
(* functions of the C library that it is made of.  A string is the bytes   *)
(* in front of its terminating 0.                                          *)
(***************************************************************************)
EXTENDS Fat32Disk

CONSTANT EQUALS   \* the byte that separates a key from its value

CString(bytes) ==
  IF 0 \in Range(bytes) THEN SubSeq(bytes, 1, SelectInSeq(bytes, LAMBDA b : b = 0) - 1) ELSE bytes

strncpy(src, n) == SubSeq(src, 1, Min({n, Len(src)}))

\* strtok with one delimiter: the token, empty when there is none, and what
\* the static pointer is left at.
Skipped(str) ==
  IF \E k \in DOMAIN str : str[k] # EQUALS
  THEN SubSeq(str, SelectInSeq(str, LAMBDA b : b # EQUALS), Len(str)) ELSE <<>>

\* Mutant: the delimiter is not overwritten.
TokenEndLate(str) ==
  IF EQUALS \in Range(str) THEN SelectInSeq(str, LAMBDA b : b = EQUALS) ELSE Len(str)

TokenEnd(str) ==
  IF EQUALS \in Range(str) THEN SelectInSeq(str, LAMBDA b : b = EQUALS) - 1 ELSE Len(str)

TokenOf(str) ==
  [token |-> SubSeq(str, 1, TokenEnd(str)), next |-> SubSeq(str, TokenEnd(str) + 2, Len(str))]

strtok(str) == TokenOf(Skipped(str))

\* What config_get_str knows after a line: whether it found the key, what it
\* returns in out, and the handle.
TakeValue(c, key, size, t) ==
  IF t.token = key /\ t.token # <<>> /\ strtok(t.next).token # <<>>
  THEN [c EXCEPT !.done = TRUE, !.found = TRUE, !.out = strncpy(strtok(t.next).token, size - 1)]
  ELSE c
TakeConfigLine(c, key, size, l) ==
  IF l.out = <<>> THEN [c EXCEPT !.h = l.h, !.done = TRUE]
  ELSE TakeValue([c EXCEPT !.h = l.h], key, size, strtok(CString(l.out)))

\* buffer is the size of the local buffer; a file has no more lines than bytes.
config_get_str(d, file, key, size, buffer) ==
  FoldLeft(LAMBDA c, i :
             IF c.done THEN c
             ELSE TakeConfigLine(c, key, size, fat32_read_line(d, c.h, buffer)),
           [h |-> file, done |-> FALSE, found |-> FALSE, out |-> <<>>],
           [i \in 1 .. file.size + 1 |-> i])
=============================================================================
