------------------------------- MODULE Usart -------------------------------
(***************************************************************************)
(* The receive side of the serial console (src/tm_stm32f4_usart.c): a      *)
(* cyclic buffer that USART6_IRQHandler fills and the main loop empties    *)
(* through TM_USART_Gets.  Nothing masks the interrupt, so the handler may *)
(* run between any two memory accesses of the main loop, while the main    *)
(* loop never runs inside the handler.                                     *)
(*                                                                         *)
(* A TM_USART_t is the four variables Buffer, Num, In and Out.  `reg' is   *)
(* the copy of Num held in a CPU register: the fields are not volatile, so *)
(* wherever the C text reads Num again the compiler may reuse the register *)
(* or load afresh, and the model chooses.                                  *)
(***************************************************************************)
EXTENDS Naturals, Sequences, SequencesExt

CONSTANTS
    Size,       \* TM_USART6_BUFFER_SIZE, length of the cyclic buffer
    BufSize,    \* size of the char array main() hands to TM_USART_Gets
    Chars,      \* the bytes a terminal sends, '\n' among them
    NL,         \* '\n'
    NUL,        \* the byte 0, never sent by the terminal
    MaxRx       \* model bound: bytes accepted into the buffer in a behaviour

ASSUME UsartAssumption ==
    /\ Size \in Nat \ {0}
    /\ BufSize \in Nat \ {0, 1}
    /\ MaxRx \in Nat
    /\ NL \in Chars
    /\ NUL \notin Chars

VARIABLES
    Buffer, Num, In, Out,       \* TM_USART6
    pc,                         \* where the main loop is in TM_USART_Gets
    reg,                        \* Num as the main loop last loaded it
    num, out,                   \* locals of TM_USART_FindCharacter
    found,                      \* what TM_USART_FindCharacter returned
    line,                       \* buffer[0..i-1] of main(); i = Len(line)
    accepted, taken,            \* history: bytes stored by the handler, read by Getc
    lapped                      \* history: a byte not yet read was overwritten

ring  == <<Buffer, Num, In, Out>>
local == <<reg, num, out, found, line>>
vars  == <<Buffer, Num, In, Out, pc, reg, num, out, found, line,
           accepted, taken, lapped>>

Byte == Chars \cup {NUL}

\* An index of the ring that has run to the end restarts at 0.
Wrap(k) == IF k = Size THEN 0 ELSE k

\* Bytes stored and not read, whatever Num says.
Unread == Len(accepted) - Len(taken)

Init ==
    /\ Buffer = [k \in 0 .. Size - 1 |-> NUL]
    /\ Num = 0 /\ In = 0 /\ Out = 0
    /\ pc = "loop"
    /\ reg = 0 /\ num = 0 /\ out = 0 /\ found = FALSE
    /\ line = <<>>
    /\ accepted = <<>> /\ taken = <<>> /\ lapped = FALSE

-----------------------------------------------------------------------------
(* The interrupt handler.                                                  *)

\* Mutant: the test for space is missing.
BugInsertUnchecked(c) ==
    /\ Buffer' = [Buffer EXCEPT ![Wrap(In)] = c]
    /\ In' = Wrap(In) + 1
    /\ Num' = Num + 1
    /\ accepted' = Append(accepted, c)
    /\ lapped' = (lapped \/ Unread >= Size)
    /\ UNCHANGED <<Out, pc, reg, num, out, found, line, taken>>

\* Mutant: In is advanced before the byte is stored.
BugAdvanceFirst(c) ==
    /\ Num < Size
    /\ In' = Wrap(In) + 1
    /\ Buffer' = [Buffer EXCEPT ![Wrap(In')] = c]
    /\ Num' = Num + 1
    /\ accepted' = Append(accepted, c)
    /\ lapped' = (lapped \/ Unread >= Size)
    /\ UNCHANGED <<Out, pc, reg, num, out, found, line, taken>>

\* TM_USART_INT_InsertToBuffer: a byte that finds Num = Size is dropped.
InsertToBuffer(c) ==
    /\ Num < Size
    /\ Buffer' = [Buffer EXCEPT ![Wrap(In)] = c]
    /\ In' = Wrap(In) + 1
    /\ Num' = Num + 1
    /\ accepted' = Append(accepted, c)
    /\ lapped' = (lapped \/ Unread >= Size)
    /\ UNCHANGED <<Out, pc, reg, num, out, found, line, taken>>

USART6_IRQHandler ==
    \E c \in Chars :
        \/ Len(accepted) < MaxRx /\ InsertToBuffer(c)
        \/ Num >= Size /\ UNCHANGED vars

-----------------------------------------------------------------------------
(* TM_USART_Gets, called in every turn of the main loop.                   *)

\* TM_USART_BufferEmpty: Gets returns 0 and main() calls it again.
GetsNothing == pc = "loop" /\ Num = 0 /\ UNCHANGED vars

\* There is something: load Num and go on.
GetsSomething ==
    /\ pc = "loop"
    /\ Num # 0
    /\ pc' = "enter"
    /\ reg' = Num
    /\ UNCHANGED <<ring, num, out, found, line, accepted, taken, lapped>>

\* Mutant: the search stops one byte short.
BugFindShort ==
    /\ pc = "enter"
    /\ reg' \in {reg, Num}
    /\ num' = reg' - 1
    /\ out' = Out
    /\ pc' = "find"
    /\ UNCHANGED <<ring, found, line, accepted, taken, lapped>>

\* Mutant: the search covers the whole array instead of the Num bytes in use.
BugFindWhole ==
    /\ pc = "enter"
    /\ reg' \in {reg, Num}
    /\ num' = Size
    /\ out' = Out
    /\ pc' = "find"
    /\ UNCHANGED <<ring, found, line, accepted, taken, lapped>>

\* TM_USART_FindCharacter copies Num and Out ...
FindCharacterStart ==
    /\ pc = "enter"
    /\ reg' \in {reg, Num}
    /\ num' = reg'
    /\ out' = Out
    /\ pc' = "find"
    /\ UNCHANGED <<ring, found, line, accepted, taken, lapped>>

\* ... and looks at one byte after the other.
FindCharacterStep ==
    /\ pc = "find"
    /\ num > 0
    /\ IF Buffer[Wrap(out)] = NL
       THEN /\ pc' = "getc" /\ found' = TRUE
            /\ UNCHANGED <<num, out>>
       ELSE /\ out' = Wrap(out) + 1
            /\ num' = num - 1
            /\ UNCHANGED <<pc, found>>
    /\ UNCHANGED <<ring, reg, line, accepted, taken, lapped>>

\* No '\n': go on only if TM_USART_BufferFull, otherwise return 0.
GetsFull ==
    /\ pc = "find"
    /\ num = 0
    /\ reg' \in {reg, Num}
    /\ found' = FALSE
    /\ pc' = IF reg' = Size THEN "getc" ELSE "loop"
    /\ UNCHANGED <<ring, num, out, line, accepted, taken, lapped>>

\* Where the while loop of Gets goes after it stored a byte.
NextPc(l) == IF Last(l) = NL \/ Len(l) >= BufSize - 1 THEN "done" ELSE "getc"

\* TM_USART_Getc loads Num; an empty buffer gives the byte 0.
GetcCheck ==
    /\ pc = "getc"
    /\ reg' = Num
    /\ IF Num > 0
       THEN pc' = "take" /\ UNCHANGED line
       ELSE line' = Append(line, NUL) /\ pc' = NextPc(line')
    /\ UNCHANGED <<ring, num, out, found, accepted, taken, lapped>>

\* c = Buffer[Out]; Out++; Num is loaded for the decrement, or was already.
GetcTake ==
    /\ pc = "take"
    /\ line' = Append(line, Buffer[Wrap(Out)])
    /\ taken' = Append(taken, Buffer[Wrap(Out)])
    /\ Out' = Wrap(Out) + 1
    /\ reg' \in {reg, Num}
    /\ pc' = "store"
    /\ UNCHANGED <<Buffer, Num, In, num, out, found, accepted, lapped>>

\* Mutant: the decrement is forgotten.
BugNoDecrement ==
    /\ pc = "store"
    /\ Num' = reg
    /\ pc' = NextPc(line)
    /\ UNCHANGED <<Buffer, In, Out, local, accepted, taken, lapped>>

\* The store of Num--: what the handler added since the load is lost.
GetcStore ==
    /\ pc = "store"
    /\ Num' = reg - 1
    /\ pc' = NextPc(line)
    /\ UNCHANGED <<Buffer, In, Out, local, accepted, taken, lapped>>

\* Gets returns i # 0; main() passes the line to parser() and loops.
GetsReturn ==
    /\ pc = "done"
    /\ pc' = "loop"
    /\ line' = <<>>
    /\ found' = FALSE
    /\ UNCHANGED <<ring, reg, num, out, accepted, taken, lapped>>

TM_USART_Getc == GetcCheck \/ GetcTake \/ GetcStore

TM_USART_Gets ==
    \/ GetsNothing
    \/ GetsSomething
    \/ FindCharacterStart
    \/ FindCharacterStep
    \/ GetsFull
    \/ TM_USART_Getc
    \/ GetsReturn

Next == USART6_IRQHandler \/ TM_USART_Gets

\* The main loop always goes on: the handler is short and returns to it.
Spec == Init /\ [][Next]_vars /\ WF_vars(TM_USART_Gets)

-----------------------------------------------------------------------------
(* Properties.                                                             *)

\* The fields of TM_USART6 and the locals of Gets stay in their ranges: no
\* index leaves the cyclic buffer and main()'s array is never overrun.
TypeOK ==
    /\ Buffer \in [0 .. Size - 1 -> Byte]
    /\ Num \in 0 .. Size
    /\ In \in 0 .. Size
    /\ Out \in 0 .. Size
    /\ pc \in {"loop", "enter", "find", "getc", "take", "store", "done"}
    /\ reg \in 0 .. Size
    /\ num \in 0 .. Size
    /\ out \in 0 .. Size
    /\ found \in BOOLEAN
    /\ line \in Seq(Byte) /\ Len(line) < BufSize
    /\ accepted \in Seq(Chars)
    /\ taken \in Seq(Byte)
    /\ lapped \in BOOLEAN

\* Whatever increments of Num are lost to the race between Getc and the
\* handler, Num never claims more bytes than are really waiting, so Getc never
\* returns a slot that no byte was stored into since it was last read.
NumNeverOverstates ==
    Num <= Unread + (IF pc = "store" THEN 1 ELSE 0)

\* Every byte Getc takes from the buffer is one the terminal sent: the NUL
\* that Gets may put in a line only ever stands for an empty buffer.
NoPhantomByte == taken \in Seq(Chars)

\* Until a lost increment lets the handler overwrite unread bytes, the main
\* loop reads the bytes the handler stored, in their order.  Once FindCharacter
\* saw '\n', Gets reaches it before it runs out of bytes, so the line given to
\* parser() has no NUL inside and ends in that '\n'.
FoundLineIsWhole ==
    ~lapped =>
        /\ IsPrefix(taken, accepted)
        /\ found => /\ \A k \in 1 .. Len(line) : line[k] # NUL
                    /\ pc = "done" => Last(line) = NL \/ Len(line) = BufSize - 1

\* There is a newline among the Num bytes from Out on.
CountedNewline == \E k \in 0 .. Num - 1 : Buffer[(Out + k) % Size] = NL

\* A newline that Num counts makes Gets deliver a line to parser(), and so does
\* a full buffer, with or without a newline ("prevent infinite loop if '\n'
\* never happen"), unless the handler laps the reader first.
CountedLineDelivered ==
    (pc = "loop" /\ (CountedNewline \/ Num = Size)) ~> (pc = "done" \/ lapped)

-----------------------------------------------------------------------------
(* What a comment says and the code does not do.                           *)

\* There is a newline among the bytes stored and not yet read.
NewlineWaiting == \E k \in Len(taken) + 1 .. Len(accepted) : accepted[k] = NL

\* "returns 0 till '\n' is not available in buffer or buffer is full": a '\n'
\* that is in the buffer makes Gets deliver a line.
NewlineDelivered == NewlineWaiting ~> (pc = "done")
=============================================================================
