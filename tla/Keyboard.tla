------------------------------ MODULE Keyboard ------------------------------
(***************************************************************************)
(* The keyboard driver: keyboard_handler, which interrupts wherever IF is  *)
(* set, fills a ring of characters, and keyboard_getchar, called by        *)
(* syscall_read, empties it one statement at a time with interrupts on.    *)
(***************************************************************************)
EXTENDS Integers, Sequences

CONSTANTS
  KEYBOARD_BUFFER_SIZE,   \* 1024, a power of two
  IndexValues,            \* values of a uint8_t, the type of the indexes: 256
  LetterKeys,             \* keys with an upper case
  OtherKeys               \* keys with the same character in both tables

KEY_CAPSLOCK == "capslock"
ShiftKeys == {"lshift", "rshift"}
Keys == LetterKeys \union OtherKeys \union ShiftKeys \union {KEY_CAPSLOCK}

ASSUME KeyboardAssumption ==
  /\ KEYBOARD_BUFFER_SIZE \in Nat \ {0}
  /\ IndexValues \in Nat \ {0}
  /\ KEYBOARD_BUFFER_SIZE <= IndexValues \/ KEYBOARD_BUFFER_SIZE % IndexValues = 0
  /\ LetterKeys \intersect OtherKeys = {}
  /\ ({"none"} \union ShiftKeys \union {KEY_CAPSLOCK}) \intersect (LetterKeys \union OtherKeys) = {}

\* keyboard_lowercase and keyboard_uppercase.
keyboard_lowercase(key) == [key |-> key, upper |-> FALSE]
keyboard_uppercase(key) == [key |-> key, upper |-> key \in LetterKeys]

Chars == [key : LetterKeys \union OtherKeys, upper : {FALSE}]
           \union [key : LetterKeys, upper : {TRUE}]
Zero == [key |-> "none", upper |-> FALSE]

VARIABLES
  caps,              \* a shift key is down
  capslock,
  keyboard_buffer,
  write_index,
  read_index,
  pc,                \* the statement of keyboard_getchar, or "idle"
  c,                 \* its local variable
  last,              \* what the last call returned
  down               \* the shift keys that the user holds down

driver == <<caps, capslock, keyboard_buffer, write_index>>
reader == <<read_index, pc, c, last>>
vars == <<driver, reader, down>>

BufferIndexes == 0 .. KEYBOARD_BUFFER_SIZE - 1

Init ==
  /\ caps = FALSE
  /\ capslock = FALSE
  /\ keyboard_buffer = [k \in BufferIndexes |-> Zero]
  /\ write_index = 0
  /\ read_index = 0
  /\ pc = "idle"
  /\ c = Zero
  /\ last = Zero
  /\ down = {}

\* Mutant: the index is not masked and has a wider type.
Advance_unmasked(index) == index + 1

\* (index + 1) & (KEYBOARD_BUFFER_SIZE - 1), stored in a uint8_t.
Advance(index) == ((index + 1) % KEYBOARD_BUFFER_SIZE) % IndexValues

\* The positions that the indexes go through, and the characters in the ring.
Positions == IF KEYBOARD_BUFFER_SIZE <= IndexValues THEN KEYBOARD_BUFFER_SIZE ELSE IndexValues
RingLength == (write_index - read_index) % Positions

-----------------------------------------------------------------------------
(* keyboard_handler: one scan code, with interrupts off *)

capslock_key(release) ==
  /\ capslock' = IF release THEN capslock ELSE ~capslock
  /\ UNCHANGED <<caps, keyboard_buffer, write_index, down>>

\* Mutant: the release of the right shift key is not seen.
shift_key_sticks(key, release) ==
  /\ release => key \in down
  /\ down' = IF release THEN down \ {key} ELSE down \union {key}
  /\ caps' = IF key = "lshift" THEN ~release ELSE TRUE
  /\ UNCHANGED <<capslock, keyboard_buffer, write_index>>

\* A key that is held down is reported again and again.
shift_key(key, release) ==
  /\ release => key \in down
  /\ down' = IF release THEN down \ {key} ELSE down \union {key}
  /\ caps' = ~release
  /\ UNCHANGED <<capslock, keyboard_buffer, write_index>>

\* Nothing looks whether the ring is full; a release does nothing.
character_key(key) ==
  /\ keyboard_buffer' = [keyboard_buffer EXCEPT ![write_index] =
       IF caps # capslock THEN keyboard_uppercase(key) ELSE keyboard_lowercase(key)]
  /\ write_index' = Advance(write_index)
  /\ UNCHANGED <<caps, capslock, down>>

keyboard_handler ==
  /\ \/ \E release \in BOOLEAN : capslock_key(release)
     \/ \E key \in ShiftKeys, release \in BOOLEAN : shift_key(key, release)
     \/ \E key \in LetterKeys \union OtherKeys : character_key(key)
  /\ UNCHANGED reader

-----------------------------------------------------------------------------
(* keyboard_getchar *)

getchar_call ==
  /\ pc = "idle"
  /\ pc' = "wait"
  /\ UNCHANGED <<driver, read_index, c, last, down>>

getchar_wait ==
  /\ pc = "wait"
  /\ read_index # write_index
  /\ pc' = "take"
  /\ UNCHANGED <<driver, read_index, c, last, down>>

\* Mutant: the index is advanced before the character is taken.
getchar_take_next ==
  /\ pc = "take"
  /\ c' = keyboard_buffer[Advance(read_index)]
  /\ pc' = "advance"
  /\ UNCHANGED <<driver, read_index, last, down>>

getchar_take ==
  /\ pc = "take"
  /\ c' = keyboard_buffer[read_index]
  /\ pc' = "advance"
  /\ UNCHANGED <<driver, read_index, last, down>>

getchar_advance ==
  /\ pc = "advance"
  /\ read_index' = Advance(read_index)
  /\ pc' = "echo"
  /\ UNCHANGED <<driver, c, last, down>>

\* tty_putchar, cli and return.
getchar_return ==
  /\ pc = "echo"
  /\ last' = c
  /\ pc' = "idle"
  /\ UNCHANGED <<driver, read_index, c, down>>

getchar_step == getchar_wait \/ getchar_take \/ getchar_advance \/ getchar_return

-----------------------------------------------------------------------------

Next == keyboard_handler \/ getchar_call \/ getchar_step

\* The CPU goes on with getchar after every interrupt.
Spec == Init /\ [][Next]_vars /\ WF_vars(getchar_step)

-----------------------------------------------------------------------------
(* Properties *)

TypeOK ==
  /\ caps \in BOOLEAN /\ capslock \in BOOLEAN
  /\ keyboard_buffer \in [BufferIndexes -> Chars \union {Zero}]
  /\ write_index \in 0 .. Positions - 1 /\ read_index \in 0 .. Positions - 1
  /\ pc \in {"idle", "wait", "take", "advance", "echo"}
  /\ c \in Chars \union {Zero} /\ last \in Chars \union {Zero}
  /\ down \in SUBSET ShiftKeys

\* A call that saw a character takes it whatever has arrived since.  So when
\* the ring has run over under it, to no characters, all are still there; and
\* the oldest is the one it has taken, if it has.
Committed == pc \in {"take", "advance"}
Oldest == IF pc = "advance" THEN c ELSE keyboard_buffer[read_index]
Waiting == IF Committed /\ RingLength = 0 THEN Positions ELSE RingLength
Ring == [k \in 1 .. Waiting |->
           IF k = 1 THEN Oldest ELSE keyboard_buffer[(read_index + k - 1) % Positions]]

Queue == INSTANCE KeyQueue WITH
  Capacity <- Positions - 1,
  queue    <- Ring,
  asking   <- pc = "wait" \/ Committed,
  last     <- IF pc = "echo" THEN c ELSE last

\* Every character typed is returned, once and in order, whichever statements
\* of getchar it arrives between, and a call that has a character returns.
\* What is lost when nobody reads is what KeyQueue says: nothing up to one
\* character less than an index can count, then all.  (keyboard.c:48-59)
ImplementsKeyQueue == Queue!Spec

\* With two shift keys and one flag, a letter is never shifted by a key that
\* was let go: the flag is set only while a shift key is down.  (keyboard.c:29)
ShiftNeverSticks == caps => down # {}

=============================================================================
