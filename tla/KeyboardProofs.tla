--------------------------- MODULE KeyboardProofs ---------------------------
(***************************************************************************)
(* Proofs about Keyboard, for every size of the ring, every width of an    *)
(* index and every set of keys: its invariants, and that each of its steps *)
(* is a step of KeyQueue or leaves the queue as it is.                     *)
(***************************************************************************)
EXTENDS Keyboard, SequenceTheorems, TLAPS

\* The remainder on the numbers that positions add up to.
LEMMA Modulo ==
  ASSUME NEW n \in Nat \ {0}, NEW a \in Int
  PROVE  /\ a % n \in 0 .. n - 1
         /\ a \in 0 .. n - 1 => a % n = a
         /\ a \in n .. 2 * n - 1 => a % n = a - n
         /\ a \in -n .. -1 => a % n = a + n
OBVIOUS

\* An index steps through the positions, whatever type holds it.
LEMMA PositionsType ==
  /\ Positions \in Nat \ {0}
  /\ 0 .. Positions - 1 \subseteq BufferIndexes
BY KeyboardAssumption DEF Positions, BufferIndexes

\* An index goes on by one, and from the last position to the first.
LEMMA AdvanceStep ==
  ASSUME NEW p \in 0 .. Positions - 1
  PROVE  Advance(p) = (p + 1) % Positions
<1>0. /\ KEYBOARD_BUFFER_SIZE \in Nat \ {0} /\ IndexValues \in Nat \ {0}
      /\ p \in Nat
  BY KeyboardAssumption, PositionsType
<1>1. CASE KEYBOARD_BUFFER_SIZE <= IndexValues
  <2>1. Positions = KEYBOARD_BUFFER_SIZE BY <1>1 DEF Positions
  <2>2. PICK q \in 0 .. KEYBOARD_BUFFER_SIZE - 1 : q = (p + 1) % KEYBOARD_BUFFER_SIZE
    BY <1>0
  <2>3. q \in 0 .. IndexValues - 1 BY <1>0, <1>1
  <2>4. q % IndexValues = q BY <1>0, <2>3
  <2> QED BY <2>1, <2>2, <2>4 DEF Advance
<1>2. CASE IndexValues < KEYBOARD_BUFFER_SIZE
  <2>1. Positions = IndexValues BY <1>0, <1>2 DEF Positions
  <2>2. p + 1 \in 0 .. KEYBOARD_BUFFER_SIZE - 1 BY <1>0, <1>2, <2>1
  <2>3. \A k \in 0 .. KEYBOARD_BUFFER_SIZE - 1 : k % KEYBOARD_BUFFER_SIZE = k
    BY <1>0
  <2> QED BY <2>1, <2>2, <2>3 DEF Advance
<1> QED BY <1>0, <1>1, <1>2

-----------------------------------------------------------------------------
(* The type of the state, and the shift keys *)

\* A character that has been seen is there: an index has two values at least.
IInv == TypeOK /\ ShiftNeverSticks /\ (Committed => Positions > 1)

\* What a key types is a character.
LEMMA CharTypes ==
  ASSUME NEW key \in LetterKeys \union OtherKeys
  PROVE  keyboard_uppercase(key) \in Chars /\ keyboard_lowercase(key) \in Chars
<1>1. key \in LetterKeys => (key \in LetterKeys) = TRUE OBVIOUS
<1>2. key \notin LetterKeys => (key \in LetterKeys) = FALSE OBVIOUS
<1>3. CASE key \in LetterKeys
  <2>1. keyboard_uppercase(key) = [key |-> key, upper |-> TRUE]
    BY <1>1, <1>3, Zenon DEF keyboard_uppercase
  <2> QED BY <1>3, <2>1 DEF keyboard_lowercase, Chars
<1>4. CASE key \notin LetterKeys
  <2>1. keyboard_uppercase(key) = [key |-> key, upper |-> FALSE]
    BY <1>2, <1>4, Zenon DEF keyboard_uppercase
  <2> QED BY <1>4, <2>1 DEF keyboard_lowercase, Chars
<1> QED BY <1>3, <1>4

\* An interrupt keeps the type of the state and the promise about the shift keys,
LEMMA HandlerType ==
  ASSUME IInv, keyboard_handler PROVE TypeOK' /\ ShiftNeverSticks'
<1>1. TypeOK /\ ShiftNeverSticks /\ UNCHANGED reader BY DEF IInv, keyboard_handler
<1>2. CASE \E release \in BOOLEAN : capslock_key(release)
  <2>1. capslock' \in BOOLEAN BY <1>1, <1>2, Zenon DEF capslock_key, TypeOK
  <2>2. UNCHANGED <<caps, keyboard_buffer, write_index, down>>
    BY <1>2 DEF capslock_key
  <2> QED BY <1>1, <2>1, <2>2 DEF TypeOK, ShiftNeverSticks, reader
<1>3. CASE \E key \in ShiftKeys, release \in BOOLEAN : shift_key(key, release)
  BY <1>1, <1>3 DEF shift_key, TypeOK, ShiftNeverSticks, reader
<1>4. CASE \E key \in LetterKeys \union OtherKeys : character_key(key)
  <2>1. PICK key \in LetterKeys \union OtherKeys : character_key(key) BY <1>4
  <2>2. write_index' \in 0 .. Positions - 1
    BY <1>1, <2>1, AdvanceStep, PositionsType, Modulo DEF TypeOK, character_key
  <2>3. keyboard_buffer' \in [BufferIndexes -> Chars \union {Zero}]
    BY <1>1, <2>1, CharTypes DEF TypeOK, character_key
  <2> QED BY <1>1, <2>1, <2>2, <2>3 DEF character_key, TypeOK, ShiftNeverSticks, reader
<1> QED BY <1>2, <1>3, <1>4 DEF keyboard_handler

\* and so does each statement of getchar.
LEMMA GetcharType ==
  ASSUME IInv, getchar_call \/ getchar_step PROVE TypeOK' /\ ShiftNeverSticks'
<1>1. TypeOK /\ ShiftNeverSticks /\ UNCHANGED <<driver, down>>
  BY DEF IInv, getchar_call, getchar_step, getchar_wait, getchar_take, getchar_advance,
        getchar_return
<1>2. read_index' \in 0 .. Positions - 1
  BY <1>1, AdvanceStep, PositionsType, Modulo
  DEF TypeOK, getchar_call, getchar_step, getchar_wait, getchar_take, getchar_advance,
        getchar_return
<1>3. c' \in Chars \union {Zero} /\ last' \in Chars \union {Zero}
      /\ pc' \in {"idle", "wait", "take", "advance", "echo"}
  BY <1>1, PositionsType
  DEF TypeOK, getchar_call, getchar_step, getchar_wait, getchar_take, getchar_advance,
        getchar_return
<1> QED BY <1>1, <1>2, <1>3 DEF TypeOK, ShiftNeverSticks, driver

\* The invariant holds in every state, for every ring and every set of keys.
THEOREM Invariance == Spec => []IInv
<1>1. Init => IInv
  <2> SUFFICES ASSUME Init PROVE IInv OBVIOUS
  <2>1. caps \in BOOLEAN /\ capslock \in BOOLEAN /\ caps = FALSE BY Zenon DEF Init
  <2>2. keyboard_buffer \in [BufferIndexes -> Chars \union {Zero}] BY DEF Init
  <2>3. write_index = 0 /\ read_index = 0 /\ 0 \in 0 .. Positions - 1 BY PositionsType DEF Init
  <2> QED BY <2>1, <2>2, <2>3 DEF Init, IInv, TypeOK, ShiftNeverSticks, Committed
<1>2. IInv /\ [Next]_vars => IInv'
  <2> SUFFICES ASSUME IInv, [Next]_vars PROVE IInv' OBVIOUS
  <2>1. CASE keyboard_handler
    <3>1. UNCHANGED pc BY <2>1 DEF keyboard_handler, reader
    <3> QED BY <2>1, <3>1, HandlerType DEF IInv, Committed
  <2>2. CASE getchar_call \/ getchar_step
    <3>1. Committed' => Committed \/ read_index # write_index
      BY <2>2 DEF Committed, getchar_call, getchar_step, getchar_wait, getchar_take,
            getchar_advance, getchar_return
    <3>2. read_index # write_index => Positions > 1
      BY PositionsType DEF IInv, TypeOK
    <3> QED BY <2>2, <3>1, <3>2, GetcharType DEF IInv
  <2>3. CASE UNCHANGED vars
    BY <2>3 DEF vars, driver, reader, IInv, TypeOK, ShiftNeverSticks, Committed
  <2> QED BY <2>1, <2>2, <2>3 DEF Next
<1> QED BY <1>1, <1>2, PTL DEF Spec

\* The state has its type.
THEOREM TypeCorrect == Spec => []TypeOK
<1>1. IInv => TypeOK BY DEF IInv
<1> QED BY <1>1, Invariance, PTL

\* No letter is shifted by a key that was let go.
THEOREM ShiftKeysRelease == Spec => []ShiftNeverSticks
<1>1. IInv => ShiftNeverSticks BY DEF IInv
<1> QED BY <1>1, Invariance, PTL

-----------------------------------------------------------------------------
(* The ring as a sequence *)

Values == Chars \union {Zero}

\* A number that has passed one end of the ring comes in at the other.
Wrap(a) == IF a < 0 THEN a + Positions ELSE IF a >= Positions THEN a - Positions ELSE a

\* This is what the remainder does between the two ends.
LEMMA WrapIsModulo ==
  ASSUME NEW a \in -Positions .. 2 * Positions - 1
  PROVE  a % Positions = Wrap(a) /\ Wrap(a) \in 0 .. Positions - 1
<1>1. \A n \in Nat \ {0}, x \in Int :
        /\ x \in 0 .. n - 1 => x % n = x
        /\ x \in n .. 2 * n - 1 => x % n = x - n
        /\ x \in -n .. -1 => x % n = x + n
  BY Modulo
<1>2. a \in Int /\ Positions \in Nat \ {0} BY PositionsType
<1>3. /\ a \in 0 .. Positions - 1 => a % Positions = a
      /\ a \in Positions .. 2 * Positions - 1 => a % Positions = a - Positions
      /\ a \in -Positions .. -1 => a % Positions = a + Positions
  BY <1>1, <1>2
<1> QED BY <1>2, <1>3 DEF Wrap

\* What the steps of the indexes do to the number of characters between them.
GapMoves(r, w) ==
  /\ Wrap(w - r) \in 0 .. Positions - 1
  /\ Wrap(w - r) = 0 <=> w = r
  /\ Wrap(r + Wrap(w - r)) = w
  /\ Wrap(Wrap(w + 1) - r) = IF Wrap(w - r) = Positions - 1 THEN 0 ELSE Wrap(w - r) + 1
  /\ Wrap(w - Wrap(r + 1)) = IF w = r THEN Positions - 1 ELSE Wrap(w - r) - 1

\* It is so wherever the indexes are.
LEMMA GapSteps ==
  ASSUME NEW r \in 0 .. Positions - 1, NEW w \in 0 .. Positions - 1
  PROVE  GapMoves(r, w)
BY PositionsType DEF Wrap, GapMoves

\* The characters from position r on, the first of them apart.
RingOf(buffer, r, length, oldest) ==
  [k \in 1 .. length |-> IF k = 1 THEN oldest ELSE buffer[Wrap(r + k - 1)]]

IsRing(ring, buffer, r, length, oldest) ==
  /\ ring \in Seq(Values)
  /\ Len(ring) = length
  /\ \A k \in 1 .. length : ring[k] = IF k = 1 THEN oldest ELSE buffer[Wrap(r + k - 1)]

\* It is a sequence of characters.
LEMMA RingType ==
  ASSUME NEW buffer \in [BufferIndexes -> Values], NEW r \in 0 .. Positions - 1,
         NEW length \in 0 .. Positions, NEW oldest \in Values
  PROVE  IsRing(RingOf(buffer, r, length, oldest), buffer, r, length, oldest)
<1>1. length \in Nat BY PositionsType
<1>2. \A k \in 1 .. length : Wrap(r + k - 1) \in 0 .. Positions - 1
  BY PositionsType DEF Wrap
<1>3. RingOf(buffer, r, length, oldest) \in [1 .. length -> Values]
  BY <1>2, PositionsType DEF RingOf
<1> QED BY <1>1, <1>3 DEF RingOf, IsRing

\* A character behind the others goes to the end of the sequence,
AppendsOne(new, buffer, r, length, first, oldest, e) ==
  RingOf(new, r, length + 1, first) = Append(RingOf(buffer, r, length, oldest), e)

\* if its position is free.
LEMMA RingAppend ==
  ASSUME NEW buffer \in [BufferIndexes -> Values], NEW r \in 0 .. Positions - 1,
         NEW length \in 0 .. Positions - 1, NEW oldest \in Values, NEW e \in Values,
         NEW first \in Values, length = 0 => first = e, length # 0 => first = oldest,
         NEW new, new = [buffer EXCEPT ![Wrap(r + length)] = e]
  PROVE  AppendsOne(new, buffer, r, length, first, oldest, e)
<1> DEFINE wp == Wrap(r + length)
           s == RingOf(new, r, length + 1, first)
           t == RingOf(buffer, r, length, oldest)
<1>1. wp \in 0 .. Positions - 1 /\ length \in Nat BY PositionsType DEF Wrap
<1>2. new \in [BufferIndexes -> Values] OBVIOUS
<1>3. length + 1 \in 0 .. Positions /\ length \in 0 .. Positions BY PositionsType
<1>4. /\ s \in Seq(Values) /\ Len(s) = length + 1
      /\ \A k \in 1 .. length + 1 : s[k] = IF k = 1 THEN first ELSE new[Wrap(r + k - 1)]
  <2>1. IsRing(s, new, r, length + 1, first) BY <1>2, <1>3, RingType, Zenon
  <2> QED BY <2>1 DEF IsRing
<1>5. /\ t \in Seq(Values) /\ Len(t) = length
      /\ \A k \in 1 .. length : t[k] = IF k = 1 THEN oldest ELSE buffer[Wrap(r + k - 1)]
  <2>1. IsRing(t, buffer, r, length, oldest) BY <1>3, RingType, Zenon
  <2> QED BY <2>1 DEF IsRing
<1>6. \A k \in 1 .. length : Wrap(r + k - 1) \in 0 .. Positions - 1 /\ Wrap(r + k - 1) # wp
  BY PositionsType DEF Wrap
<1>7. new[wp] = e /\ \A p \in BufferIndexes : p # wp => new[p] = buffer[p]
  BY <1>1, PositionsType
<1> HIDE DEF s, t
<1>8. /\ Append(t, e) \in Seq(Values) /\ Len(Append(t, e)) = length + 1
      /\ Append(t, e)[length + 1] = e
      /\ \A k \in 1 .. length : Append(t, e)[k] = t[k]
  BY <1>5
<1>9. \A k \in 1 .. length : s[k] = t[k]
  <2>1. SUFFICES ASSUME NEW k \in 1 .. length PROVE s[k] = t[k] OBVIOUS
  <2>2. k \in 1 .. length + 1 /\ length # 0 BY <1>1
  <2>3. Wrap(r + k - 1) \in BufferIndexes /\ Wrap(r + k - 1) # wp BY <1>6, PositionsType
  <2>4. new[Wrap(r + k - 1)] = buffer[Wrap(r + k - 1)] BY <1>7, <2>3
  <2> QED BY <1>4, <1>5, <2>2, <2>4
<1>10. s[length + 1] = e
  <2>1. length + 1 \in 1 .. length + 1 /\ r + (length + 1) - 1 = r + length
    BY <1>1, PositionsType
  <2>2. s[length + 1] = IF length + 1 = 1 THEN first ELSE new[wp] BY <1>4, <2>1 DEF wp
  <2> QED BY <1>1, <1>7, <2>2
<1>11. \A k \in 1 .. length + 1 : s[k] = Append(t, e)[k]
  BY <1>1, <1>8, <1>9, <1>10
<1>12. s = Append(t, e) BY <1>4, <1>8, <1>11, SeqEqual
<1> QED BY <1>12 DEF s, t, wp, AppendsOne

\* and the one in front goes from its head.
TailsOne(buffer, r, length, oldest) ==
  LET ring == RingOf(buffer, r, length, oldest) IN
  /\ ring # <<>> /\ Head(ring) = oldest
  /\ RingOf(buffer, Wrap(r + 1), length - 1, buffer[Wrap(r + 1)]) = Tail(ring)

\* when there is one.
LEMMA RingTail ==
  ASSUME NEW buffer \in [BufferIndexes -> Values], NEW r \in 0 .. Positions - 1,
         NEW length \in 1 .. Positions, NEW oldest \in Values
  PROVE  TailsOne(buffer, r, length, oldest)
<1> DEFINE next == Wrap(r + 1)
           s == RingOf(buffer, r, length, oldest)
           t == RingOf(buffer, next, length - 1, buffer[next])
<1>1. next \in 0 .. Positions - 1 /\ length \in Nat \ {0} BY PositionsType DEF Wrap
<1>2. buffer[next] \in Values BY <1>1, PositionsType
<1>3. length - 1 \in 0 .. Positions /\ length \in 0 .. Positions BY PositionsType
<1>4. /\ s \in Seq(Values) /\ Len(s) = length
      /\ \A k \in 1 .. length : s[k] = IF k = 1 THEN oldest ELSE buffer[Wrap(r + k - 1)]
  <2>1. IsRing(s, buffer, r, length, oldest) BY <1>3, RingType, Zenon
  <2> QED BY <2>1 DEF IsRing
<1>5. /\ t \in Seq(Values) /\ Len(t) = length - 1
      /\ \A k \in 1 .. length - 1 : t[k] = IF k = 1 THEN buffer[next] ELSE buffer[Wrap(next + k - 1)]
  <2>1. IsRing(t, buffer, next, length - 1, buffer[next]) BY <1>1, <1>2, <1>3, RingType, Zenon
  <2> QED BY <2>1 DEF IsRing
<1>6. \A k \in 1 .. length - 1 : Wrap(next + k - 1) = Wrap(r + k) /\ Wrap(next) = next
  BY PositionsType DEF Wrap
<1> HIDE DEF s, t
<1>7. s # <<>> /\ Head(s) = oldest BY <1>1, <1>4
<1>8. /\ Tail(s) \in Seq(Values) /\ Len(Tail(s)) = length - 1
      /\ \A k \in 1 .. length - 1 : Tail(s)[k] = s[k + 1]
  BY <1>1, <1>4, <1>7, HeadTailProperties
<1>9. \A k \in 1 .. length - 1 : t[k] = Tail(s)[k]
  <2>1. SUFFICES ASSUME NEW k \in 1 .. length - 1 PROVE t[k] = Tail(s)[k] OBVIOUS
  <2>2. k + 1 \in 1 .. length /\ k + 1 # 1 /\ r + (k + 1) - 1 = r + k BY <1>1, PositionsType
  <2>3. Tail(s)[k] = buffer[Wrap(r + k)] BY <1>4, <1>8, <2>2
  <2>4. k = 1 => next + k - 1 = next BY <1>1, PositionsType
  <2> QED BY <1>5, <1>6, <2>3, <2>4
<1>10. t = Tail(s) BY <1>5, <1>8, <1>9, SeqEqual
<1> QED BY <1>7, <1>10 DEF s, t, next, TailsOne

-----------------------------------------------------------------------------
(* The steps of the driver as steps of the queue *)

RingSound ==
  /\ RingLength = Wrap(write_index - read_index)
  /\ Ring = RingOf(keyboard_buffer, read_index, Waiting, Oldest)
  /\ RingLength \in 0 .. Positions - 1
  /\ Waiting \in 0 .. Positions
  /\ Oldest \in Values

\* The ring of the refinement in these terms.
LEMMA RingIsRingOf == TypeOK => RingSound
<1> SUFFICES ASSUME TypeOK PROVE RingSound OBVIOUS
<1>1. /\ read_index \in 0 .. Positions - 1 /\ write_index \in 0 .. Positions - 1
      /\ Positions \in Nat \ {0} /\ 0 .. Positions - 1 \subseteq BufferIndexes
      /\ keyboard_buffer \in [BufferIndexes -> Values] /\ c \in Values
  BY PositionsType DEF TypeOK, Values
<1>2. RingLength = Wrap(write_index - read_index) /\ RingLength \in 0 .. Positions - 1
  <2>1. write_index - read_index \in -Positions .. 2 * Positions - 1 BY <1>1
  <2> QED BY <2>1, WrapIsModulo DEF RingLength
<1>3. Waiting \in 0 .. Positions BY <1>1, <1>2 DEF Waiting
<1>4. Oldest \in Values BY <1>1 DEF Oldest
<1>5. \A k \in 1 .. Waiting :
        (read_index + k - 1) % Positions = Wrap(read_index + k - 1)
  <2>1. SUFFICES ASSUME NEW k \in 1 .. Waiting
                 PROVE  (read_index + k - 1) % Positions = Wrap(read_index + k - 1)
    OBVIOUS
  <2>2. read_index + k - 1 \in -Positions .. 2 * Positions - 1 BY <1>1, <1>3
  <2> QED BY <2>2, WrapIsModulo
<1>6. Ring = RingOf(keyboard_buffer, read_index, Waiting, Oldest)
  BY <1>5 DEF Ring, RingOf
<1> QED BY <1>2, <1>3, <1>4, <1>6 DEF RingSound

\* What the steps leave as it is.
LEMMA SameRing ==
  ASSUME UNCHANGED <<keyboard_buffer, write_index, read_index>>,
         Committed' = Committed, Oldest' = Oldest
  PROVE  UNCHANGED Ring
BY DEF Ring, Waiting, RingLength

\* A shift key or caps lock changes nothing in the queue.
LEMMA HandlerStutters ==
  ASSUME UNCHANGED <<keyboard_buffer, write_index, reader>>
  PROVE  UNCHANGED Queue!vars
<1>1. Committed' = Committed /\ Oldest' = Oldest BY DEF reader, Committed, Oldest
<1>2. UNCHANGED Ring BY <1>1, SameRing DEF reader
<1> QED BY <1>1, <1>2 DEF Queue!vars, reader

\* A character is typed.
LEMMA TypeStep ==
  ASSUME IInv, NEW key \in LetterKeys \union OtherKeys, character_key(key), UNCHANGED reader
  PROVE  \E ch \in Chars : Queue!Type(ch) \/ Queue!Overflow(ch)
<1> DEFINE ch == IF caps # capslock THEN keyboard_uppercase(key) ELSE keyboard_lowercase(key)
           r == read_index
           w == write_index
           L == RingLength
<1>1. TypeOK /\ (Committed => Positions > 1) BY DEF IInv
<1>2. ch \in Chars /\ ch \in Values BY CharTypes DEF Values
<1>3. /\ r \in 0 .. Positions - 1 /\ w \in 0 .. Positions - 1 /\ Positions \in Nat \ {0}
      /\ keyboard_buffer \in [BufferIndexes -> Values] /\ 0 .. Positions - 1 \subseteq BufferIndexes
  BY <1>1, PositionsType DEF TypeOK, Values
<1>4. TypeOK' BY HandlerType DEF keyboard_handler
<1>5. /\ L = Wrap(w - r) /\ L \in 0 .. Positions - 1
      /\ Ring = RingOf(keyboard_buffer, r, Waiting, Oldest)
      /\ Waiting \in 0 .. Positions /\ Oldest \in Values
  BY <1>1, RingIsRingOf DEF RingSound
<1>6. /\ RingLength' = Wrap(write_index' - r)
      /\ Ring' = RingOf(keyboard_buffer', r, Waiting', Oldest')
      /\ Waiting' \in 0 .. Positions /\ Oldest' \in Values
  <2>1. RingSound' BY <1>4, RingIsRingOf, PTL
  <2>2. UNCHANGED read_index BY DEF reader
  <2> QED BY <2>1, <2>2 DEF RingSound
<1>0. GapMoves(r, w) BY <1>3, GapSteps, Zenon
<1>7. UNCHANGED <<read_index, pc, c, last>> /\ Committed' = Committed
  BY DEF reader, Committed
<1> HIDE DEF ch
<1>8. keyboard_buffer' = [keyboard_buffer EXCEPT ![w] = ch]
  BY DEF character_key, ch
<1>9. write_index' = Wrap(w + 1)
  <2>1. w + 1 \in -Positions .. 2 * Positions - 1 BY <1>3
  <2> QED BY <1>3, <2>1, AdvanceStep, WrapIsModulo DEF character_key
<1>10. RingLength' = IF L = Positions - 1 THEN 0 ELSE L + 1
  BY <1>3, <1>5, <1>6, <1>9, <1>0 DEF GapMoves
<1>11. Wrap(r + L) = w BY <1>5, <1>0 DEF GapMoves
<1>12. Waiting = L /\ Waiting' = L + 1 /\ Oldest' = (IF L = 0 THEN ch ELSE Oldest)
         => Ring' = Append(Ring, ch)
  <2>1. SUFFICES ASSUME Waiting = L, Waiting' = L + 1,
                        Oldest' = IF L = 0 THEN ch ELSE Oldest
                 PROVE  Ring' = Append(Ring, ch)
    OBVIOUS
  <2>3. (L = 0 => Oldest' = ch) /\ (L # 0 => Oldest' = Oldest) BY <2>1
  <2>4. keyboard_buffer' = [keyboard_buffer EXCEPT ![Wrap(r + L)] = ch] BY <1>8, <1>11
  <2>2. AppendsOne(keyboard_buffer', keyboard_buffer, r, L, Oldest', Oldest, ch)
    BY <1>2, <1>3, <1>5, <1>6, <2>3, <2>4, RingAppend, Zenon
  <2> QED BY <1>5, <1>6, <2>1, <2>2 DEF AppendsOne
<1>13. UNCHANGED <<IF pc = "echo" THEN c ELSE last, pc = "wait" \/ Committed>>
  BY <1>7
<1>14. \A p \in 0 .. Positions - 1 : p # w => keyboard_buffer'[p] = keyboard_buffer[p]
  BY <1>3, <1>8
<1>15. keyboard_buffer'[w] = ch BY <1>3, <1>8
<1>16. Len(Ring) = Waiting /\ Ring \in Seq(Values)
  <2>1. IsRing(Ring, keyboard_buffer, r, Waiting, Oldest)
    BY <1>3, <1>5, RingType
  <2> QED BY <2>1 DEF IsRing
<1>17. /\ Oldest = IF pc = "advance" THEN c ELSE keyboard_buffer[r]
       /\ Oldest' = IF pc = "advance" THEN c ELSE keyboard_buffer'[r]
       /\ Waiting = IF Committed /\ L = 0 THEN Positions ELSE L
       /\ Waiting' = IF Committed /\ RingLength' = 0 THEN Positions ELSE RingLength'
       /\ w = r <=> L = 0
  <2>1. w = r <=> L = 0 BY <1>5, <1>0 DEF GapMoves
  <2>2. /\ Oldest = IF pc = "advance" THEN c ELSE keyboard_buffer[r]
        /\ Oldest' = IF pc = "advance" THEN c ELSE keyboard_buffer'[r]
    BY <1>7 DEF Oldest
  <2>3. Waiting = IF Committed /\ L = 0 THEN Positions ELSE L
    BY DEF Waiting, Committed
  <2>4. Waiting' = IF Committed /\ RingLength' = 0 THEN Positions ELSE RingLength'
    BY <1>7 DEF Waiting, Positions, Committed
  <2> QED BY <2>1, <2>2, <2>3, <2>4
<1> HIDE DEF r, w, L
<1>18. CASE Committed /\ L = 0
  <2>1. Waiting = Positions /\ Waiting' = 1 /\ Positions > 1
    BY <1>1, <1>3, <1>10, <1>17, <1>18
  <2>2. Ring' = <<Oldest'>> /\ Head(Ring) = Oldest
    <3>1. Ring' = [k \in 1 .. 1 |-> IF k = 1 THEN Oldest' ELSE keyboard_buffer'[Wrap(r + k - 1)]]
      BY <1>6, <2>1 DEF RingOf
    <3>2. Ring' = [k \in 1 .. 1 |-> Oldest'] BY <3>1
    <3>3. Ring[1] = Oldest
      BY <1>3, <1>5, <2>1 DEF RingOf
    <3> QED BY <1>3, <1>16, <2>1, <3>2, <3>3
  <2>3. Oldest' \in {Oldest, ch} BY <1>15, <1>17, <1>18
  <2>4. Queue!Overflow(ch) BY <1>3, <1>13, <1>16, <2>1, <2>2, <2>3 DEF Queue!Overflow
  <2> QED BY <1>2, <2>4
<1>19. CASE ~Committed /\ L = Positions - 1
  <2>1. Waiting = Positions - 1 /\ Waiting' = 0 BY <1>3, <1>10, <1>17, <1>19
  <2>2. Ring' = <<>> BY <1>6, <2>1 DEF RingOf
  <2>3. Queue!Overflow(ch) BY <1>3, <1>13, <1>16, <2>1, <2>2 DEF Queue!Overflow
  <2> QED BY <1>2, <2>3
<1>20. CASE (Committed /\ L # 0) \/ (~Committed /\ L # Positions - 1)
  <2>1. Waiting = L /\ Waiting' = L + 1
    BY <1>3, <1>5, <1>10, <1>17, <1>20
  <2>2. Oldest' = IF L = 0 THEN ch ELSE Oldest
    BY <1>3, <1>14, <1>15, <1>17, <1>20 DEF Committed
  <2>3. Ring' = Append(Ring, ch) BY <1>12, <2>1, <2>2
  <2>4. Len(Ring) < Positions - 1 \/ (Committed /\ Len(Ring) = Positions - 1)
    BY <1>3, <1>5, <1>16, <1>20, <2>1
  <2>5. Queue!Type(ch) BY <1>13, <2>3, <2>4 DEF Queue!Type
  <2> QED BY <1>2, <2>5
<1> QED BY <1>18, <1>19, <1>20

\* getchar has taken the character that it returns.
LEMMA ReturnStep ==
  ASSUME IInv, getchar_advance
  PROVE  Queue!Return
<1> DEFINE r == read_index
           w == write_index
           next == Wrap(r + 1)
<1>1. TypeOK /\ pc = "advance" /\ pc' = "echo" /\ UNCHANGED <<driver, c, last, down>>
  BY DEF IInv, getchar_advance
<1>2. /\ r \in 0 .. Positions - 1 /\ w \in 0 .. Positions - 1 /\ Positions \in Nat \ {0}
      /\ keyboard_buffer \in [BufferIndexes -> Values] /\ 0 .. Positions - 1 \subseteq BufferIndexes
  BY <1>1, PositionsType DEF TypeOK, Values
<1>3. /\ RingLength = Wrap(w - r) /\ RingLength \in 0 .. Positions - 1
      /\ Ring = RingOf(keyboard_buffer, r, Waiting, c) /\ c \in Values
      /\ Waiting = IF RingLength = 0 THEN Positions ELSE RingLength
  BY <1>1, RingIsRingOf DEF RingSound, Oldest, Waiting, Committed
<1>4. read_index' = next
  <2>1. r + 1 \in -Positions .. 2 * Positions - 1 BY <1>2
  <2> QED BY <1>2, <2>1, AdvanceStep, WrapIsModulo DEF getchar_advance
<1>5. /\ RingLength' = Wrap(w - next)
      /\ Ring' = RingOf(keyboard_buffer, next, RingLength', keyboard_buffer[next])
  <2>1. TypeOK' BY GetcharType DEF getchar_step
  <2>2. RingSound' BY <2>1, RingIsRingOf, PTL
  <2>3. Waiting' = RingLength' /\ Oldest' = keyboard_buffer[next]
          /\ UNCHANGED <<keyboard_buffer, write_index>>
    BY <1>1, <1>4 DEF Waiting, Oldest, Committed, driver
  <2> QED BY <1>4, <2>2, <2>3 DEF RingSound
<1> HIDE DEF next, r, w
<1>6. RingLength' = Waiting - 1 /\ Waiting \in 1 .. Positions
  <2>0. GapMoves(r, w) BY <1>2, GapSteps, Zenon
  <2>1. RingLength = 0 <=> w = r BY <1>3, <2>0 DEF GapMoves
  <2>2. RingLength' = IF w = r THEN Positions - 1 ELSE RingLength - 1
    BY <1>3, <1>5, <2>0 DEF GapMoves, next
  <2> QED BY <1>2, <1>3, <2>1, <2>2
<1>7. TailsOne(keyboard_buffer, r, Waiting, c)
  BY <1>2, <1>3, <1>6, RingTail, Zenon
<1>8. Ring # <<>> /\ Head(Ring) = c /\ Ring' = Tail(Ring)
  BY <1>3, <1>5, <1>6, <1>7 DEF TailsOne, next
<1> QED BY <1>1, <1>8 DEF Queue!Return, Committed

\* The other statements of getchar.
LEMMA GetcharStutters ==
  ASSUME IInv, getchar_wait \/ getchar_take \/ getchar_return
  PROVE  UNCHANGED Queue!vars
<1>1. UNCHANGED <<keyboard_buffer, write_index, read_index, IF pc = "echo" THEN c ELSE last,
                  pc = "wait" \/ Committed>>
  BY DEF getchar_wait, getchar_take, getchar_return, Committed, driver
<1>2. UNCHANGED Ring
  <2>1. CASE getchar_wait
    <3>1. RingLength # 0
      <4>1. RingSound BY RingIsRingOf DEF IInv
      <4>2. read_index \in 0 .. Positions - 1 /\ write_index \in 0 .. Positions - 1
              /\ read_index # write_index
        BY <2>1 DEF IInv, TypeOK, getchar_wait
      <4> QED BY <4>1, <4>2, GapSteps DEF RingSound, GapMoves
    <3>2. UNCHANGED Oldest BY <2>1 DEF getchar_wait, Oldest, driver
    <3>3. UNCHANGED RingLength BY <1>1 DEF RingLength, Positions
    <3>4. UNCHANGED Waiting BY <3>1, <3>3, <2>1 DEF Waiting, Committed, getchar_wait, Positions
    <3> QED BY <1>1, <3>2, <3>4 DEF Ring, Positions
  <2>2. CASE getchar_take
    <3>1. UNCHANGED <<Oldest, Committed>> BY <2>2 DEF getchar_take, Oldest, Committed, driver
    <3> QED BY <1>1, <3>1, SameRing
  <2>3. CASE getchar_return
    <3>1. UNCHANGED <<Oldest, Committed>> BY <2>3 DEF getchar_return, Oldest, Committed, driver
    <3> QED BY <1>1, <3>1, SameRing
  <2> QED BY <2>1, <2>2, <2>3
<1> QED BY <1>1, <1>2 DEF Queue!vars

\* keyboard_getchar is called.
LEMMA AskStep ==
  ASSUME IInv, getchar_call
  PROVE  Queue!Ask
<1>1. UNCHANGED <<Oldest, Committed>> BY DEF getchar_call, Oldest, Committed, driver
<1>2. UNCHANGED Ring BY <1>1, SameRing DEF getchar_call, driver
<1> QED BY <1>1, <1>2 DEF Queue!Ask, getchar_call, Committed

-----------------------------------------------------------------------------

\* Each behaviour of the driver is one of the queue, but for what the queue
\* promises about its progress: characters are returned once each and in the
\* order typed, whatever the interrupts interleave with.
THEOREM ImplementsKeyQueueSteps == Spec => Queue!Init /\ [][Queue!Next]_(Queue!vars)
<1>1. Init => Queue!Init
  <2> SUFFICES ASSUME Init PROVE Queue!Init OBVIOUS
  <2>1. Zero \notin Chars BY KeyboardAssumption DEF Zero, Chars
  <2>2. RingLength = 0
    <3>1. 0 \in 0 .. Positions - 1 /\ 0 - 0 = 0
            /\ 0 \in -Positions .. 2 * Positions - 1 BY PositionsType
    <3>2. 0 % Positions = 0 BY <3>1, WrapIsModulo, PositionsType DEF Wrap
    <3> QED BY <3>1, <3>2 DEF Init, RingLength
  <2>3. Ring = <<>> BY <2>2 DEF Init, Ring, Waiting, Committed
  <2> QED BY <2>1, <2>3 DEF Init, Queue!Init, Committed
<1>2. IInv /\ [Next]_vars => [Queue!Next]_(Queue!vars)
  <2> SUFFICES ASSUME IInv, [Next]_vars PROVE [Queue!Next]_(Queue!vars) OBVIOUS
  <2>1. CASE keyboard_handler
    <3>1. CASE \E key \in LetterKeys \union OtherKeys : character_key(key)
      BY <2>1, <3>1, TypeStep DEF keyboard_handler, Queue!Next
    <3>2. CASE \/ \E release \in BOOLEAN : capslock_key(release)
               \/ \E key \in ShiftKeys, release \in BOOLEAN : shift_key(key, release)
      <4>1. UNCHANGED <<keyboard_buffer, write_index, reader>>
        BY <2>1, <3>2 DEF keyboard_handler, capslock_key, shift_key
      <4> QED BY <4>1, HandlerStutters
    <3> QED BY <2>1, <3>1, <3>2 DEF keyboard_handler
  <2>2. CASE getchar_call BY <2>2, AskStep DEF Queue!Next
  <2>3. CASE getchar_advance BY <2>3, ReturnStep DEF Queue!Next
  <2>4. CASE getchar_wait \/ getchar_take \/ getchar_return BY <2>4, GetcharStutters
  <2>5. CASE UNCHANGED vars
    <3>1. UNCHANGED <<keyboard_buffer, write_index, reader>> BY <2>5 DEF vars, driver
    <3> QED BY <3>1, HandlerStutters
  <2> QED BY <2>1, <2>2, <2>3, <2>4, <2>5 DEF Next, getchar_step
<1> QED BY <1>1, <1>2, Invariance, PTL DEF Spec
=============================================================================
