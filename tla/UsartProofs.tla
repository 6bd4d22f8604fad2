---------------------------- MODULE UsartProofs ----------------------------
(***************************************************************************)
(* Theorems about Usart for every buffer size, line size and alphabet.     *)
(***************************************************************************)
EXTENDS Usart, TLAPS, SequenceTheorems

\* What the program counter implies about the registers and the line, which
\* TypeOK alone does not carry from one step to the next.
ControlInv ==
    /\ pc \in {"loop", "enter", "find"} => line = <<>>
    /\ pc \in {"getc", "take"} => Len(line) < BufSize - 1
    /\ pc \in {"store", "done"} => Len(line) > 0
    /\ pc = "take" => Num >= 1
    /\ pc \in {"take", "store"} => reg >= 1

\* What Num and its copy in a register may claim, against the bytes waiting.
CountInv ==
    /\ Len(taken) <= Len(accepted)
    /\ Num <= Unread + (IF pc = "store" THEN 1 ELSE 0)
    /\ pc = "take" => reg <= Unread
    /\ pc = "store" => reg <= Unread + 1

\* In its first round each index equals the number of bytes that passed it,
\* and the slots below In hold bytes that were received; after the first round
\* every slot does.
ContentInv ==
    /\ Len(accepted) <= Size => In = Len(accepted)
    /\ Len(taken) <= Size => Out = Len(taken)
    /\ \A k \in 0 .. Size - 1 : k < Len(accepted) => Buffer[k] \in Chars
    /\ taken \in Seq(Chars)

\* Slot j places after d in the ring.
At(d, j) == IF d + j < Size THEN d + j ELSE d + j - Size

\* As long as nothing unread was overwritten, the slots from Out on hold the
\* unread bytes in their order, and In is behind the last of them.
DataInv ==
    ~lapped =>
        /\ Unread <= Size
        /\ Wrap(In) = At(Wrap(Out), Unread)
        /\ \A j \in 0 .. Unread - 1 :
              Buffer[At(Wrap(Out), j)] = accepted[Len(taken) + 1 + j]
        /\ \A k \in 1 .. Len(taken) : taken[k] = accepted[k]

\* One of the next m unread bytes is a newline.
NewlineWithin(m) == \E j \in 0 .. m - 1 : accepted[Len(taken) + 1 + j] = NL

\* What FindCharacter has searched is counted by Num, and so is the newline it
\* found, until Gets has it in the line.
LineInv ==
    /\ pc \in {"loop", "enter", "find"} => ~found
    /\ pc = "enter" => reg <= Num
    /\ pc = "take" => reg <= Num
    /\ pc = "find" => \E s \in 0 .. Size : s + num <= Num /\ Wrap(out) = At(Wrap(Out), s)
    /\ ~lapped /\ found =>
          /\ \A k \in 1 .. Len(line) : line[k] # NUL
          /\ pc = "getc" => NewlineWithin(Num)
          /\ pc = "take" => NewlineWithin(reg)
          /\ pc = "store" => Last(line) = NL \/ NewlineWithin(reg - 1)
    /\ pc = "done" => Last(line) = NL \/ Len(line) = BufSize - 1

\* The conjunction is inductive.
Inv == TypeOK /\ ControlInv /\ CountInv /\ ContentInv

\* Wrap keeps an index inside the array.
LEMMA WrapRange ==
    ASSUME NEW k \in 0 .. Size
    PROVE  Wrap(k) \in 0 .. Size - 1
BY UsartAssumption DEF Wrap

\* The while loop of Gets goes on only while the caller's array has room.
LEMMA NextPcRange ==
    ASSUME NEW l
    PROVE  /\ NextPc(l) \in {"getc", "done"}
           /\ NextPc(l) = "getc" => ~(Len(l) >= BufSize - 1)
BY DEF NextPc

\* TM_USART_Init establishes the invariant.
LEMMA InitInv == Init => Inv
<1> SUFFICES ASSUME Init PROVE Inv
  OBVIOUS
<1> USE UsartAssumption
<1>1. TypeOK
  <2>1. <<>> \in Seq(Byte) /\ <<>> \in Seq(Chars) /\ Len(<<>>) = 0
    OBVIOUS
  <2> QED BY <2>1 DEF Init, TypeOK, Byte
<1>2. ControlInv /\ CountInv
  BY DEF Init, ControlInv, CountInv, Unread
<1>3. ContentInv
  BY DEF Init, ContentInv
<1> QED BY <1>1, <1>2, <1>3 DEF Inv

\* A byte that the handler stores keeps the counts and the contents right.
LEMMA InsertInv ==
    ASSUME Inv, NEW c \in Chars, InsertToBuffer(c)
    PROVE  Inv'
<1> USE UsartAssumption
<1> USE DEF Inv
<1>1. Wrap(In) \in 0 .. Size - 1
  BY WrapRange DEF TypeOK
<1>2. /\ accepted' \in Seq(Chars)
      /\ Len(accepted') = Len(accepted) + 1
      /\ Len(taken) \in Nat
  BY DEF InsertToBuffer, TypeOK
<1>3. TypeOK'
  BY <1>1, <1>2 DEF InsertToBuffer, TypeOK, Byte
<1>4. ControlInv'
  BY DEF InsertToBuffer, TypeOK, ControlInv
<1>5. CountInv'
  BY <1>2 DEF InsertToBuffer, TypeOK, CountInv, Unread
<1>6. ContentInv'
  BY <1>1, <1>2 DEF InsertToBuffer, TypeOK, ContentInv, Wrap
<1> QED BY <1>3, <1>4, <1>5, <1>6

\* So does a byte that Getc reads, while Num still counts it.
LEMMA TakeInv ==
    ASSUME Inv, GetcTake
    PROVE  Inv'
<1> USE UsartAssumption
<1> USE DEF Inv
<1> DEFINE c == Buffer[Wrap(Out)]
<1>1. Wrap(Out) \in 0 .. Size - 1
  BY WrapRange DEF TypeOK
<1>2. Len(taken) < Len(accepted)
  BY DEF GetcTake, TypeOK, ControlInv, CountInv, Unread
<1>3. c \in Chars
  BY <1>1, <1>2 DEF TypeOK, ContentInv, Wrap
<1> HIDE DEF c
<1>4. /\ taken' \in Seq(Chars) /\ taken' \in Seq(Byte)
      /\ Len(taken') = Len(taken) + 1
      /\ line' \in Seq(Byte)
      /\ Len(line') = Len(line) + 1
      /\ Len(taken) \in Nat /\ Len(line) \in Nat /\ Len(accepted) \in Nat
  BY <1>3 DEF GetcTake, TypeOK, ContentInv, Byte, c
<1>5. TypeOK'
  BY <1>1, <1>4 DEF GetcTake, TypeOK, ControlInv
<1>6. ControlInv'
  BY <1>4 DEF GetcTake, TypeOK, ControlInv
<1>7. CountInv'
  BY <1>2, <1>4 DEF GetcTake, TypeOK, CountInv, Unread
<1>8. ContentInv'
  BY <1>1, <1>2, <1>4 DEF GetcTake, TypeOK, ContentInv, Wrap
<1> QED BY <1>5, <1>6, <1>7, <1>8

\* A step of the interrupt handler or of Gets preserves the invariant.
LEMMA NextInv == Inv /\ [Next]_vars => Inv'
<1> SUFFICES ASSUME Inv, [Next]_vars PROVE Inv'
  OBVIOUS
<1> USE UsartAssumption
<1>1. CASE UNCHANGED vars
  BY <1>1 DEF vars, Inv, TypeOK, ControlInv, CountInv, ContentInv, Unread
<1>2. CASE USART6_IRQHandler
  BY <1>1, <1>2, InsertInv DEF USART6_IRQHandler
<1>3. CASE GetsSomething
  BY <1>3 DEF GetsSomething, Inv, TypeOK, ControlInv, CountInv, ContentInv, Unread, ring
<1>4. CASE FindCharacterStart
  BY <1>4 DEF FindCharacterStart, Inv, TypeOK, ControlInv, CountInv, ContentInv, Unread, ring
<1>5. CASE FindCharacterStep
  <2>1. Wrap(out) \in 0 .. Size - 1
    BY WrapRange DEF Inv, TypeOK
  <2>2. TypeOK'
    <3>1. CASE Buffer[Wrap(out)] = NL
      BY <1>5, <3>1 DEF FindCharacterStep, Inv, TypeOK, ring
    <3>2. CASE Buffer[Wrap(out)] # NL
      BY <1>5, <2>1, <3>2 DEF FindCharacterStep, Inv, TypeOK, ring
    <3> QED BY <3>1, <3>2
  <2>3. ControlInv' /\ CountInv' /\ ContentInv'
    BY <1>5 DEF FindCharacterStep, Inv, TypeOK, ControlInv, CountInv, ContentInv, Unread, ring
  <2> QED BY <2>2, <2>3 DEF Inv
<1>6. CASE GetsFull
  <2>1. TypeOK'
    BY <1>6 DEF GetsFull, Inv, TypeOK, ring
  <2>2. ControlInv' /\ CountInv' /\ ContentInv'
    BY <1>6 DEF GetsFull, Inv, TypeOK, ControlInv, CountInv, ContentInv, Unread, ring
  <2> QED BY <2>1, <2>2 DEF Inv
<1>7. CASE GetcCheck
  <2>1. CASE Num > 0
    BY <1>7, <2>1 DEF GetcCheck, Inv, TypeOK, ControlInv, CountInv, ContentInv, Unread, ring
  <2>2. CASE ~(Num > 0)
    <3>1. /\ line' \in Seq(Byte)
          /\ Len(line') = Len(line) + 1
          /\ Len(line) \in Nat
      <4>1. NUL \in Byte /\ line \in Seq(Byte) /\ line' = Append(line, NUL)
        BY <1>7, <2>2 DEF GetcCheck, Inv, TypeOK, Byte
      <4> QED BY <4>1
    <3>2. /\ pc' \in {"getc", "done"}
          /\ pc' = "getc" => ~(Len(line') >= BufSize - 1)
      BY <1>7, <2>2, NextPcRange DEF GetcCheck
    <3> QED BY <1>7, <2>2, <3>1, <3>2
            DEF GetcCheck, Inv, TypeOK, ControlInv, CountInv, ContentInv, Unread, ring
  <2> QED BY <2>1, <2>2
<1>8. CASE GetcTake
  BY <1>8, TakeInv
<1>9. CASE GetcStore
  <2>1. /\ pc' \in {"getc", "done"}
        /\ pc' = "getc" => ~(Len(line) >= BufSize - 1)
    BY <1>9, NextPcRange DEF GetcStore
  <2> QED BY <1>9, <2>1
          DEF GetcStore, Inv, TypeOK, ControlInv, CountInv, ContentInv, Unread, local
<1>10. CASE GetsReturn
  <2>1. line' \in Seq(Byte) /\ Len(line') = 0
    BY <1>10 DEF GetsReturn
  <2>2. TypeOK'
    <3>1. Len(line') < BufSize
      BY <2>1
    <3>2. pc' = "loop" /\ found' \in BOOLEAN
      BY <1>10 DEF GetsReturn
    <3>3. UNCHANGED <<Buffer, Num, In, Out, reg, num, out, accepted, taken, lapped>>
      BY <1>10 DEF GetsReturn, ring
    <3> QED BY <2>1, <3>1, <3>2, <3>3 DEF Inv, TypeOK
  <2>3. ControlInv' /\ CountInv' /\ ContentInv'
    BY <1>10 DEF GetsReturn, Inv, TypeOK, ControlInv, CountInv, ContentInv, Unread, ring
  <2> QED BY <2>2, <2>3 DEF Inv
<1> QED
  BY <1>1, <1>2, <1>3, <1>4, <1>5, <1>6, <1>7, <1>8, <1>9, <1>10
     DEF Next, TM_USART_Gets, TM_USART_Getc, GetsNothing

\* The invariant holds in every state of the handler and the main loop.
LEMMA Invariance == Spec => []Inv
BY InitInv, NextInv, PTL DEF Spec

\* No index of the ring or of the caller's array leaves its range.
THEOREM TypeCorrect == Spec => []TypeOK
<1>1. Inv => TypeOK
  BY DEF Inv
<1> QED BY <1>1, Invariance, PTL

\* Num never counts more bytes than are waiting, whatever increments are lost.
THEOREM CountSafe == Spec => []NumNeverOverstates
<1>1. Inv => NumNeverOverstates
  BY DEF Inv, CountInv, NumNeverOverstates
<1> QED BY <1>1, Invariance, PTL

\* Getc only ever takes bytes that were received.
THEOREM NoPhantom == Spec => []NoPhantomByte
<1>1. Inv => NoPhantomByte
  BY DEF Inv, ContentInv, NoPhantomByte
<1> QED BY <1>1, Invariance, PTL

-----------------------------------------------------------------------------
(* What the main loop reads.                                               *)

\* At stays in the ring, steps with Wrap, and reaches each slot once a round.
LEMMA AtFacts ==
    ASSUME NEW d \in 0 .. Size - 1
    PROVE  /\ \A j \in 0 .. Size : At(d, j) \in 0 .. Size - 1
           /\ At(d, 0) = d /\ At(d, Size) = d
           /\ Wrap(d) = d
           /\ \A j \in 0 .. Size - 1 : Wrap(At(d, j) + 1) = At(d, j + 1)
           /\ \A j \in 0 .. Size - 1 : At(Wrap(d + 1), j) = At(d, j + 1)
           /\ \A j, k \in 0 .. Size - 1 : At(d, j) = At(d, k) => j = k
BY UsartAssumption DEF At, Wrap

\* Types of what the proofs below compare.
LEMMA NumberFacts ==
    ASSUME Inv
    PROVE  /\ Wrap(Out) \in 0 .. Size - 1 /\ Wrap(In) \in 0 .. Size - 1
           /\ Len(accepted) \in Nat /\ Len(taken) \in Nat /\ Len(line) \in Nat
           /\ Unread \in Nat /\ Unread = Len(accepted) - Len(taken)
           /\ Num \in 0 .. Size /\ reg \in 0 .. Size /\ num \in 0 .. Size
<1>1. Wrap(Out) \in 0 .. Size - 1 /\ Wrap(In) \in 0 .. Size - 1
  BY WrapRange DEF Inv, TypeOK
<1>2. Len(accepted) \in Nat /\ Len(taken) \in Nat /\ Len(line) \in Nat
  BY DEF Inv, TypeOK
<1>3. Unread \in Nat /\ Unread = Len(accepted) - Len(taken)
  BY <1>2 DEF Unread, Inv, CountInv
<1> QED BY <1>1, <1>2, <1>3 DEF Inv, TypeOK

\* The handler stores behind the last unread byte.
LEMMA DataInsert ==
    ASSUME Inv, DataInv, NEW c \in Chars, InsertToBuffer(c)
    PROVE  DataInv'
<1> SUFFICES ASSUME ~lapped' PROVE DataInv'
  BY DEF DataInv
<1> USE UsartAssumption
<1> DEFINE d == Wrap(Out)
           u == Unread
           t == Len(taken)
<1>1. /\ d \in 0 .. Size - 1 /\ u \in Nat /\ t \in Nat /\ Len(accepted) = t + u
      /\ Wrap(In) \in 0 .. Size - 1 /\ Len(accepted) \in Nat
  BY NumberFacts
<1>2. ~lapped /\ ~(u >= Size) /\ u \in 0 .. Size - 1
  <2>1. lapped' = (lapped \/ u >= Size)
    BY DEF InsertToBuffer
  <2>2. ~lapped /\ ~(u >= Size)
    BY <2>1, Zenon
  <2> QED BY <1>1, <2>2
<1>3. /\ Buffer' = [Buffer EXCEPT ![Wrap(In)] = c] /\ In' = Wrap(In) + 1
      /\ accepted' = Append(accepted, c) /\ UNCHANGED <<Out, taken>>
  BY DEF InsertToBuffer
<1>4. /\ Len(accepted') = t + u + 1 /\ accepted'[t + u + 1] = c
      /\ \A k \in 1 .. t + u : accepted'[k] = accepted[k]
  <2>1. accepted \in Seq(Chars)
    BY DEF Inv, TypeOK
  <2>2. /\ Len(accepted') = Len(accepted) + 1 /\ accepted'[Len(accepted) + 1] = c
        /\ \A k \in 1 .. Len(accepted) : accepted'[k] = accepted[k]
    BY <1>3, <2>1, AppendProperties
  <2> QED BY <1>1, <2>2
<1>5. /\ Wrap(In) = At(d, u)
      /\ \A j \in 0 .. u - 1 : Buffer[At(d, j)] = accepted[t + 1 + j]
      /\ \A k \in 1 .. t : taken[k] = accepted[k]
  BY <1>2 DEF DataInv
<1>6. Unread' = u + 1 /\ Wrap(Out') = d /\ Len(taken') = t
  <2>1. Unread' = Len(accepted') - t
    BY <1>3 DEF Unread
  <2> QED BY <1>1, <1>3, <1>4, <2>1
<1> HIDE DEF d, u, t
<1>7. Wrap(In') = At(d, u + 1)
  BY <1>1, <1>2, <1>3, <1>5, AtFacts
<1>8. \A j \in 0 .. u : Buffer'[At(d, j)] = accepted'[t + 1 + j]
  <2> SUFFICES ASSUME NEW j \in 0 .. u PROVE Buffer'[At(d, j)] = accepted'[t + 1 + j]
    OBVIOUS
  <2>0. j \in 0 .. Size - 1 /\ j \in 0 .. Size
    BY <1>2
  <2>1. At(d, j) \in 0 .. Size - 1 /\ j \in 0 .. Size - 1
    BY <1>1, <2>0, AtFacts
  <2>2. Buffer \in [0 .. Size - 1 -> Byte]
    BY DEF Inv, TypeOK
  <2>3. CASE j = u
    <3>1. t + 1 + j = t + u + 1
      BY <1>1, <2>3
    <3> QED BY <1>3, <1>4, <1>5, <2>1, <2>2, <2>3, <3>1
  <2>4. CASE j # u
    <3>1. At(d, j) # Wrap(In)
      BY <1>1, <1>2, <1>5, <2>1, <2>4, AtFacts
    <3>2. Buffer'[At(d, j)] = Buffer[At(d, j)]
      BY <1>3, <2>1, <2>2, <3>1
    <3>3. j \in 0 .. u - 1 /\ t + 1 + j \in 1 .. t + u
      BY <1>1, <2>4
    <3> QED BY <1>4, <1>5, <3>2, <3>3
  <2> QED BY <2>3, <2>4
<1>9. \A k \in 1 .. t : taken'[k] = accepted'[k]
  <2>1. \A k \in 1 .. t : k \in 1 .. t + u
    BY <1>1
  <2> QED BY <1>3, <1>4, <1>5, <2>1
<1>10. u + 1 <= Size /\ 0 .. (u + 1) - 1 = 0 .. u
  BY <1>1, <1>2
<1> QED BY <1>6, <1>7, <1>8, <1>9, <1>10 DEF DataInv

\* Getc reads the oldest unread byte.
LEMMA DataTake ==
    ASSUME Inv, DataInv, GetcTake
    PROVE  /\ DataInv'
           /\ Len(taken') = Len(taken) + 1 /\ Len(taken) < Len(accepted)
           /\ ~lapped => Buffer[Wrap(Out)] = accepted[Len(taken) + 1]
           /\ Buffer[Wrap(Out)] \in Chars
<1> USE UsartAssumption
<1> DEFINE d == Wrap(Out)
           u == Unread
           t == Len(taken)
           c == Buffer[d]
<1>1. /\ d \in 0 .. Size - 1 /\ u \in Nat /\ t \in Nat /\ Len(accepted) = t + u
      /\ Wrap(In) \in 0 .. Size - 1 /\ Len(accepted) \in Nat
  BY NumberFacts
<1>2. t < Len(accepted) /\ u >= 1
  BY <1>1 DEF GetcTake, Inv, TypeOK, ControlInv, CountInv
<1>3. /\ taken' = Append(taken, c) /\ Out' = d + 1
      /\ UNCHANGED <<Buffer, In, accepted, lapped>>
  BY DEF GetcTake
<1>4. c \in Chars
  BY <1>1, <1>2 DEF Inv, TypeOK, ContentInv, Wrap
<1>5. /\ Len(taken') = t + 1 /\ taken'[t + 1] = c
      /\ \A k \in 1 .. t : taken'[k] = taken[k]
  <2>1. taken \in Seq(Chars)
    BY DEF Inv, ContentInv
  <2> HIDE DEF c
  <2> QED BY <1>3, <1>4, <2>1
<1>6. ~lapped => c = accepted[t + 1]
  <2> SUFFICES ASSUME ~lapped PROVE c = accepted[t + 1]
    OBVIOUS
  <2>1. \A j \in 0 .. u - 1 : Buffer[At(d, j)] = accepted[t + 1 + j]
    BY DEF DataInv
  <2>2. 0 \in 0 .. u - 1 /\ t + 1 + 0 = t + 1
    BY <1>1, <1>2
  <2>3. At(d, 0) = d
    BY <1>1, AtFacts
  <2> QED BY <2>1, <2>2, <2>3
<1>7. DataInv'
  <2> SUFFICES ASSUME ~lapped PROVE DataInv'
    BY <1>3 DEF DataInv
  <2>1. /\ u <= Size /\ Wrap(In) = At(d, u)
        /\ \A j \in 0 .. u - 1 : Buffer[At(d, j)] = accepted[t + 1 + j]
        /\ \A k \in 1 .. t : taken[k] = accepted[k]
    BY DEF DataInv
  <2>2. Unread' = u - 1
    <3>1. Unread' = Len(accepted) - (t + 1)
      BY <1>3, <1>5 DEF Unread
    <3> QED BY <1>1, <3>1
  <2> HIDE DEF d, u, t, c
  <2>3. u - 1 \in 0 .. Size - 1 /\ (u - 1) + 1 = u
    BY <1>1, <1>2, <2>1
  <2>4. \A j \in 0 .. Size - 1 : At(Wrap(Out'), j) = At(d, j + 1)
    BY <1>1, <1>3, AtFacts
  <2>5. Wrap(In') = At(Wrap(Out'), u - 1)
    BY <1>3, <2>1, <2>3, <2>4
  <2>6. \A j \in 0 .. (u - 1) - 1 : Buffer'[At(Wrap(Out'), j)] = accepted'[(t + 1) + 1 + j]
    <3> SUFFICES ASSUME NEW j \in 0 .. (u - 1) - 1
                 PROVE  Buffer'[At(Wrap(Out'), j)] = accepted'[(t + 1) + 1 + j]
      OBVIOUS
    <3>1. j \in 0 .. Size - 1 /\ j + 1 \in 0 .. u - 1 /\ (t + 1) + 1 + j = t + 1 + (j + 1)
      BY <1>1, <2>1, <2>3
    <3> QED BY <1>3, <2>1, <2>4, <3>1
  <2>7. \A k \in 1 .. t + 1 : taken'[k] = accepted'[k]
    <3> SUFFICES ASSUME NEW k \in 1 .. t + 1 PROVE taken'[k] = accepted'[k]
      OBVIOUS
    <3>1. CASE k = t + 1
      BY <1>3, <1>5, <1>6, <3>1
    <3>2. CASE k # t + 1
      <4>1. k \in 1 .. t
        BY <1>1, <3>2
      <4> QED BY <1>3, <1>5, <2>1, <4>1
    <3> QED BY <3>1, <3>2
  <2>8. u - 1 <= Size
    BY <2>3
  <2> QED BY <1>5, <2>2, <2>5, <2>6, <2>7, <2>8 DEF DataInv, t
<1> QED BY <1>2, <1>4, <1>5, <1>6, <1>7

\* No other step touches what DataInv is about.
LEMMA DataNext == Inv /\ DataInv /\ [Next]_vars => DataInv'
<1> SUFFICES ASSUME Inv, DataInv, [Next]_vars PROVE DataInv'
  OBVIOUS
<1>1. CASE \E c \in Chars : InsertToBuffer(c)
  BY <1>1, DataInsert
<1>2. CASE GetcTake
  BY <1>2, DataTake
<1>3. CASE ~(\E c \in Chars : InsertToBuffer(c)) /\ ~GetcTake
  <2>1. UNCHANGED <<Buffer, In, Out, accepted, taken, lapped>>
    BY <1>3 DEF Next, USART6_IRQHandler, TM_USART_Gets, TM_USART_Getc, GetsNothing,
       GetsSomething, FindCharacterStart, FindCharacterStep, GetsFull, GetcCheck,
       GetcStore, GetsReturn, ring, vars
  <2> QED BY <2>1 DEF DataInv, Unread
<1> QED BY <1>1, <1>2, <1>3

\* A byte that the handler adds is behind a newline seen before.
LEMMA LineInsert ==
    ASSUME Inv, Inv', LineInv, NEW c \in Chars, InsertToBuffer(c)
    PROVE  LineInv'
<1> USE UsartAssumption
<1>1. /\ UNCHANGED <<Out, pc, reg, num, out, found, line, taken>>
      /\ Num' = Num + 1 /\ accepted' = Append(accepted, c)
  BY DEF InsertToBuffer
<1>2. ~lapped' => ~lapped
  <2>1. lapped' = (lapped \/ Unread >= Size)
    BY DEF InsertToBuffer
  <2> QED BY <2>1, Zenon
<1>3. /\ Num \in Nat /\ Num <= Num' /\ reg \in Nat /\ num \in Nat
      /\ Len(taken) \in Nat /\ Len(accepted) \in Nat /\ Unread = Len(accepted) - Len(taken)
  <2>1. Num \in Nat
    BY NumberFacts
  <2>2. Num <= Num'
    BY <1>1, <2>1
  <2> QED BY <2>1, <2>2, NumberFacts
<1>4. \A m \in Int : NewlineWithin(m) /\ m <= Unread
        => \E j \in 0 .. m - 1 : accepted'[Len(taken') + 1 + j] = NL
  <2> SUFFICES ASSUME NEW m \in Int, NewlineWithin(m), m <= Unread
               PROVE  \E j \in 0 .. m - 1 : accepted'[Len(taken') + 1 + j] = NL
    OBVIOUS
  <2>1. PICK j \in 0 .. m - 1 : accepted[Len(taken) + 1 + j] = NL
    BY DEF NewlineWithin
  <2>2. Len(taken) + 1 + j \in 1 .. Len(accepted)
    BY <1>3
  <2>3. accepted \in Seq(Chars)
    BY DEF Inv, TypeOK
  <2>4. \A k \in 1 .. Len(accepted) : accepted'[k] = accepted[k]
    BY <1>1, <2>3, AppendProperties
  <2> QED BY <1>1, <2>1, <2>2, <2>4
<1>5. pc = "getc" /\ NewlineWithin(Num) => NewlineWithin(Num)'
  <2> SUFFICES ASSUME pc = "getc", NewlineWithin(Num)
               PROVE  \E j \in 0 .. Num' - 1 : accepted'[Len(taken') + 1 + j] = NL
    BY DEF NewlineWithin
  <2>1. Num <= Unread /\ Num \in Int
    BY <1>3 DEF Inv, CountInv
  <2>2. \E j \in 0 .. Num - 1 : accepted'[Len(taken') + 1 + j] = NL
    BY <1>4, <2>1
  <2>3. \A j \in 0 .. Num - 1 : j \in 0 .. Num' - 1
    BY <1>1, <1>3
  <2> QED BY <2>2, <2>3
<1>6. pc = "take" /\ NewlineWithin(reg) => NewlineWithin(reg)'
  <2>1. reg \in Int /\ (pc = "take" => reg <= Unread)
    BY <1>3 DEF Inv, CountInv
  <2> QED BY <1>1, <1>4, <2>1 DEF NewlineWithin
<1>7. pc = "store" /\ NewlineWithin(reg - 1) => NewlineWithin(reg - 1)'
  <2>1. reg - 1 \in Int /\ (pc = "store" => reg - 1 <= Unread)
    BY <1>3 DEF Inv, CountInv
  <2> QED BY <1>1, <1>4, <2>1 DEF NewlineWithin
<1>8. pc = "find" =>
        \E s \in 0 .. Size : s + num' <= Num' /\ Wrap(out') = At(Wrap(Out'), s)
  <2> SUFFICES ASSUME pc = "find"
               PROVE  \E s \in 0 .. Size : s + num' <= Num' /\ Wrap(out') = At(Wrap(Out'), s)
    OBVIOUS
  <2>1. PICK s \in 0 .. Size : s + num <= Num /\ Wrap(out) = At(Wrap(Out), s)
    BY DEF LineInv
  <2>2. s + num <= Num'
    BY <1>1, <1>3, <2>1
  <2> QED BY <1>1, <2>1, <2>2
<1>9. pc \in {"enter", "take"} => reg' <= Num'
  BY <1>1, <1>3 DEF LineInv
<1> QED BY <1>1, <1>2, <1>5, <1>6, <1>7, <1>8, <1>9 DEF LineInv

\* FindCharacter searches what Num counts.
LEMMA LineFind ==
    ASSUME Inv, DataInv, LineInv, FindCharacterStep
    PROVE  LineInv'
<1> USE UsartAssumption
<1>1. /\ pc = "find" /\ num > 0 /\ UNCHANGED <<Buffer, Num, In, Out, reg, line, accepted, taken, lapped>>
  BY DEF FindCharacterStep, ring
<1>2. PICK s \in 0 .. Size : s + num <= Num /\ Wrap(out) = At(Wrap(Out), s)
  BY <1>1 DEF LineInv
<1>3. /\ num \in Nat /\ Num \in 0 .. Size /\ Wrap(Out) \in 0 .. Size - 1 /\ Num <= Unread
      /\ Unread \in Nat /\ line = <<>>
  BY <1>1, NumberFacts DEF Inv, CountInv, ControlInv
<1>4. s \in 0 .. Num - 1 /\ s \in 0 .. Size - 1 /\ s \in 0 .. Unread - 1
  BY <1>1, <1>2, <1>3
<1>5. CASE Buffer[Wrap(out)] = NL
  <2>1. pc' = "getc" /\ found' = TRUE
    BY <1>5 DEF FindCharacterStep
  <2>2. ~lapped => accepted[Len(taken) + 1 + s] = NL
    BY <1>2, <1>4, <1>5 DEF DataInv
  <2>3. ~lapped' => NewlineWithin(Num)'
    BY <1>1, <1>4, <2>2 DEF NewlineWithin
  <2>4. Len(line') = 0 /\ 1 .. 0 = {}
    BY <1>1, <1>3
  <2>5. \A k \in 1 .. Len(line') : line'[k] # NUL
    BY <2>4
  <2> QED BY <2>1, <2>3, <2>5 DEF LineInv
<1>6. CASE Buffer[Wrap(out)] # NL
  <2>1. pc' = "find" /\ found' = found /\ out' = Wrap(out) + 1 /\ num' = num - 1
    BY <1>1, <1>6 DEF FindCharacterStep
  <2>2. Wrap(out') = At(Wrap(Out'), s + 1)
    BY <1>1, <1>2, <1>3, <1>4, <2>1, AtFacts
  <2>3. s + 1 \in 0 .. Size /\ (s + 1) + num' <= Num'
    BY <1>1, <1>2, <1>3, <1>4, <2>1
  <2> QED BY <1>1, <2>1, <2>2, <2>3 DEF LineInv
<1> QED BY <1>5, <1>6

\* A byte taken is the newline looked for, or comes before it.
LEMMA LineTake ==
    ASSUME Inv, Inv', DataInv, LineInv, GetcTake
    PROVE  LineInv'
<1> USE UsartAssumption
<1> DEFINE c == Buffer[Wrap(Out)]
<1>1. /\ pc = "take" /\ pc' = "store" /\ reg' \in {reg, Num} /\ line' = Append(line, c)
      /\ UNCHANGED <<Num, found, accepted, lapped>>
  BY DEF GetcTake
<1>2. /\ Len(taken') = Len(taken) + 1 /\ (~lapped => c = accepted[Len(taken) + 1])
      /\ c \in Chars
  BY DataTake
<1> HIDE DEF c
<1>3. /\ Num \in Nat /\ reg \in Nat /\ Len(taken) \in Nat /\ reg <= Num /\ Len(line) \in Nat
      /\ line \in Seq(Byte) /\ c \in Byte
  BY <1>1, <1>2, NumberFacts DEF LineInv, Inv, TypeOK, Byte
<1>4. /\ Len(line') = Len(line) + 1 /\ line'[Len(line) + 1] = c
      /\ \A k \in 1 .. Len(line) : line'[k] = line[k]
  BY <1>1, <1>3, AppendProperties
<1>5. Last(line') = c
  BY <1>4 DEF Last
<1> SUFFICES ASSUME ~lapped, found
             PROVE  /\ \A k \in 1 .. Len(line') : line'[k] # NUL
                    /\ Last(line') = NL \/ NewlineWithin(reg - 1)'
  BY <1>1 DEF LineInv
<1>6. \A k \in 1 .. Len(line') : line'[k] # NUL
  <2>1. c # NUL
    BY <1>2
  <2>2. \A k \in 1 .. Len(line) : line[k] # NUL
    BY DEF LineInv
  <2>3. \A k \in 1 .. Len(line) + 1 : k \in 1 .. Len(line) \/ k = Len(line) + 1
    BY <1>3
  <2> QED BY <1>4, <2>1, <2>2, <2>3
<1>7. PICK j \in 0 .. reg - 1 : accepted[Len(taken) + 1 + j] = NL
  BY <1>1 DEF LineInv, NewlineWithin
<1>8. CASE j = 0
  <2>1. Len(taken) + 1 + j = Len(taken) + 1
    BY <1>3, <1>8
  <2> QED BY <1>2, <1>5, <1>6, <1>7, <2>1
<1>9. CASE j # 0
  <2>1. /\ j - 1 \in 0 .. (reg' - 1) - 1
        /\ Len(taken') + 1 + (j - 1) = Len(taken) + 1 + j
    <3>1. reg' \in Nat /\ reg <= reg'
      BY <1>1, <1>3
    <3>2. j \in Nat /\ j >= 1 /\ j <= reg - 1
      BY <1>3, <1>9
    <3>3. j - 1 \in 0 .. (reg' - 1) - 1
      <4>1. \A r, q \in Nat : q <= r /\ j <= q - 1 => j - 1 \in 0 .. (r - 1) - 1
        BY <3>2
      <4> QED BY <1>3, <3>1, <3>2, <4>1
    <3>4. Len(taken') + 1 + (j - 1) = Len(taken) + 1 + j
      BY <1>2, <1>3, <3>2
    <3> QED BY <3>3, <3>4
  <2>2. accepted'[Len(taken') + 1 + (j - 1)] = NL
    BY <1>1, <1>7, <2>1
  <2>3. NewlineWithin(reg - 1)'
    BY <2>1, <2>2 DEF NewlineWithin
  <2> QED BY <1>6, <2>3
<1> QED BY <1>8, <1>9

\* Where Gets goes on, the line has no newline yet; where it stops, it has one
\* or is full.
LEMMA NextPcFacts ==
    ASSUME NEW l
    PROVE  /\ NextPc(l) = "getc" => Last(l) # NL
           /\ NextPc(l) = "done" => Last(l) = NL \/ Len(l) >= BufSize - 1
BY DEF NextPc

\* The search and the line stay in step with what Num counts.
LEMMA LineNext == Inv /\ Inv' /\ DataInv /\ LineInv /\ [Next]_vars => LineInv'
<1> SUFFICES ASSUME Inv, Inv', DataInv, LineInv, [Next]_vars PROVE LineInv'
  OBVIOUS
<1> USE UsartAssumption
<1>1. CASE UNCHANGED vars
  BY <1>1 DEF vars, LineInv, NewlineWithin
<1>2. CASE USART6_IRQHandler
  BY <1>1, <1>2, LineInsert DEF USART6_IRQHandler
<1>3. CASE GetsSomething
  <2>1. pc = "loop" /\ pc' = "enter" /\ found' = found /\ reg' = Num /\ Num' = Num
    BY <1>3 DEF GetsSomething, ring
  <2>2. reg' <= Num'
    BY <2>1, NumberFacts
  <2> QED BY <2>1, <2>2 DEF LineInv
<1>4. CASE FindCharacterStart
  <2>1. /\ pc = "enter" /\ pc' = "find" /\ found' = found /\ reg' \in {reg, Num} /\ num' = reg'
        /\ out' = Out /\ Out' = Out /\ Num' = Num
    BY <1>4 DEF FindCharacterStart, ring
  <2>2. Wrap(Out) \in 0 .. Size - 1 /\ Num \in Nat /\ reg \in Nat /\ reg <= Num
    BY <2>1, NumberFacts DEF LineInv
  <2>3. 0 + num' <= Num' /\ 0 \in 0 .. Size
    <3>1. num' \in Nat /\ num' <= Num
      BY <2>1, <2>2
    <3> QED BY <2>1, <3>1
  <2>4. Wrap(out') = At(Wrap(Out'), 0)
    BY <2>1, <2>2, AtFacts
  <2> QED BY <2>1, <2>3, <2>4 DEF LineInv
<1>5. CASE FindCharacterStep
  BY <1>5, LineFind
<1>6. CASE GetsFull
  <2>1. pc' \in {"getc", "loop"} /\ found' = FALSE
    BY <1>6 DEF GetsFull
  <2> QED BY <2>1 DEF LineInv
<1>7. CASE GetcCheck
  <2>1. pc = "getc" /\ reg' = Num /\ UNCHANGED <<Num, found, lapped, accepted, taken>>
    BY <1>7 DEF GetcCheck, ring
  <2>2. CASE Num > 0
    <3>1. pc' = "take" /\ line' = line
      BY <1>7, <2>2 DEF GetcCheck
    <3>2. reg' <= Num'
      BY <2>1, NumberFacts
    <3>3. NewlineWithin(reg)' <=> NewlineWithin(Num)
      BY <2>1 DEF NewlineWithin
    <3> QED BY <2>1, <3>1, <3>2, <3>3 DEF LineInv
  <2>3. CASE ~(Num > 0)
    <3>1. line' = Append(line, NUL) /\ pc' = NextPc(line') /\ pc' \in {"getc", "done"}
      BY <1>7, <2>3, NextPcRange DEF GetcCheck
    <3>2. ~(~lapped' /\ found')
      <4> SUFFICES ASSUME ~lapped, found PROVE FALSE
        BY <2>1
      <4>1. PICK j \in 0 .. Num - 1 : accepted[Len(taken) + 1 + j] = NL
        BY <2>1 DEF LineInv, NewlineWithin
      <4> QED BY <2>3, <4>1, NumberFacts
    <3>3. pc' = "done" => Last(line') = NL \/ Len(line') = BufSize - 1
      <4>1. Len(line') \in Nat /\ Len(line') < BufSize
        BY DEF Inv, TypeOK
      <4>2. pc' = "done" => Last(line') = NL \/ Len(line') >= BufSize - 1
        BY <3>1, NextPcFacts
      <4> QED BY <4>1, <4>2
    <3> QED BY <3>1, <3>2, <3>3 DEF LineInv
  <2> QED BY <2>2, <2>3
<1>8. CASE GetcTake
  BY <1>8, LineTake
<1>9. CASE GetcStore
  <2>1. /\ pc = "store" /\ Num' = reg - 1 /\ pc' = NextPc(line) /\ pc' \in {"getc", "done"}
        /\ UNCHANGED <<found, lapped, accepted, taken, line, reg>>
    BY <1>9, NextPcRange DEF GetcStore, local
  <2>2. pc' = "done" => Last(line') = NL \/ Len(line') = BufSize - 1
    <3>1. Len(line') \in Nat /\ Len(line') < BufSize
      BY DEF Inv, TypeOK
    <3>2. pc' = "done" => Last(line) = NL \/ Len(line) >= BufSize - 1
      BY <2>1, NextPcFacts
    <3> QED BY <2>1, <3>1, <3>2
  <2>3. NewlineWithin(Num)' <=> NewlineWithin(reg - 1)
    BY <2>1 DEF NewlineWithin
  <2>4. pc' = "getc" => Last(line) # NL
    BY <2>1, NextPcFacts
  <2> QED BY <2>1, <2>2, <2>3, <2>4 DEF LineInv
<1>10. CASE GetsReturn
  <2>1. pc' = "loop" /\ found' = FALSE
    BY <1>10 DEF GetsReturn
  <2> QED BY <2>1 DEF LineInv
<1> QED
  BY <1>1, <1>2, <1>3, <1>4, <1>5, <1>6, <1>7, <1>8, <1>9, <1>10
     DEF Next, TM_USART_Gets, TM_USART_Getc, GetsNothing

\* At the start there is nothing to read.
LEMMA InitLine == Init => DataInv /\ LineInv
<1> SUFFICES ASSUME Init PROVE DataInv /\ LineInv
  OBVIOUS
<1>1. /\ Len(accepted) = 0 /\ Len(taken) = 0 /\ In = 0 /\ Out = 0 /\ pc = "loop" /\ found = FALSE
      /\ Unread = 0
  BY DEF Init, Unread
<1>2. 0 \in 0 .. Size - 1 /\ 0 <= Size
  BY UsartAssumption
<1>3. Wrap(0) = 0 /\ At(0, 0) = 0
  BY <1>2, AtFacts
<1>4. 0 .. Unread - 1 = {} /\ 1 .. Len(taken) = {}
  BY <1>1
<1>5. DataInv
  BY <1>1, <1>2, <1>3, <1>4 DEF DataInv
<1> QED BY <1>1, <1>5 DEF LineInv

\* TM_USART_Gets (tm_stm32f4_usart.c:302): until the handler overwrites unread
\* bytes the line is made of the bytes received, in their order, and after
\* TM_USART_FindCharacter found a '\n' Getc does not run dry before it, although
\* the handler runs between any two accesses and increments of Num get lost.
THEOREM LineWhole == Spec => []FoundLineIsWhole
<1>1. Inv /\ DataInv /\ LineInv => FoundLineIsWhole
  <2> SUFFICES ASSUME Inv, DataInv, LineInv, ~lapped
               PROVE  /\ IsPrefix(taken, accepted)
                      /\ found => /\ \A k \in 1 .. Len(line) : line[k] # NUL
                                  /\ pc = "done" => Last(line) = NL \/ Len(line) = BufSize - 1
    BY DEF FoundLineIsWhole
  <2>1. /\ taken \in Seq(Chars) /\ accepted \in Seq(Chars) /\ Len(taken) <= Len(accepted)
        /\ Len(taken) \in Nat /\ Len(accepted) \in Nat
    BY NumberFacts DEF Inv, TypeOK, ContentInv, CountInv
  <2>2. \A k \in 1 .. Len(taken) : taken[k] = accepted[k]
    BY DEF DataInv
  <2>3. SubSeq(taken, 1, Len(taken)) = SubSeq(accepted, 1, Len(taken))
    <3> DEFINE n == Len(taken)
    <3>1. \A k \in 1 .. n : taken[k] \in Chars /\ accepted[k] \in Chars
      BY <2>1
    <3>2. n \in Int /\ 1 \in Int /\ (IF 1 <= n THEN n - 1 + 1 ELSE 0) = n
      BY <2>1
    <3>3. /\ SubSeq(taken, 1, n) \in Seq(Chars) /\ SubSeq(accepted, 1, n) \in Seq(Chars)
          /\ Len(SubSeq(taken, 1, n)) = n /\ Len(SubSeq(accepted, 1, n)) = n
          /\ \A k \in 1 .. n - 1 + 1 : SubSeq(taken, 1, n)[k] = taken[1 + k - 1]
          /\ \A k \in 1 .. n - 1 + 1 : SubSeq(accepted, 1, n)[k] = accepted[1 + k - 1]
      <4> HIDE DEF n
      <4> QED BY <3>1, <3>2, SubSeqProperties
    <3>4. \A k \in 1 .. n : k \in 1 .. n - 1 + 1 /\ 1 + k - 1 = k
      BY <2>1
    <3>5. \A k \in 1 .. n : SubSeq(taken, 1, n)[k] = SubSeq(accepted, 1, n)[k]
      BY <2>2, <3>3, <3>4
    <3> HIDE DEF n
    <3>6. SubSeq(taken, 1, n) = SubSeq(accepted, 1, n)
      BY <3>3, <3>5, SeqEqual
    <3> QED BY <3>6 DEF n
  <2>4. IsPrefix(taken, accepted)
    BY <2>1, <2>3 DEF IsPrefix
  <2> QED BY <2>4 DEF LineInv
<1>2. Inv /\ DataInv /\ LineInv /\ Inv' /\ [Next]_vars => (DataInv /\ LineInv)'
  BY DataNext, LineNext
<1> QED BY <1>1, <1>2, InitLine, Invariance, PTL DEF Spec
=============================================================================
