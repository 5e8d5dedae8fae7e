------------------------------ MODULE KeyQueue ------------------------------
(***************************************************************************)
(* What the keyboard driver promises: the characters typed are returned by *)
(* keyboard_getchar in the order they were typed, each of them once, and a *)
(* call that finds one, or waits until there is one, returns.  A character *)
(* too many empties the queue, but for the one that a call is taking or    *)
(* for the new one.                                                        *)
(***************************************************************************)
EXTENDS Integers, Sequences

CONSTANTS Chars, Capacity

VARIABLES
  queue,    \* characters typed and not returned
  asking,   \* a call of keyboard_getchar is under way
  last      \* the character the last call returned, or a value not in Chars

vars == <<queue, asking, last>>

Init == queue = <<>> /\ asking = FALSE /\ last \notin Chars

\* A call that has found a character makes room for one more.
Type(c) ==
  /\ Len(queue) < Capacity \/ (asking /\ Len(queue) = Capacity)
  /\ queue' = Append(queue, c)
  /\ UNCHANGED <<asking, last>>

Overflow(c) ==
  /\ Len(queue) >= Capacity
  /\ \/ Len(queue) = Capacity /\ queue' = <<>>
     \/ Len(queue) > Capacity /\ queue' \in {<<Head(queue)>>, <<c>>}
  /\ UNCHANGED <<asking, last>>

Ask == ~asking /\ asking' = TRUE /\ UNCHANGED <<queue, last>>

Return ==
  /\ asking
  /\ queue # <<>>
  /\ last' = Head(queue)
  /\ queue' = Tail(queue)
  /\ asking' = FALSE

Next == (\E c \in Chars : Type(c) \/ Overflow(c)) \/ Ask \/ Return

Spec == Init /\ [][Next]_vars /\ WF_vars(Return)

=============================================================================
