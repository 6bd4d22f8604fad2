------------------------------- MODULE ULoader -------------------------------
(***************************************************************************)
(* From power-up to the prompt and round the main loop (src/uLoader.c): the*)
(* MAC is reset and the PHY is waited for with counted polls (ETH_BSP_     *)
(* Config, ETH_Init), or the board stops for good; then every turn of the  *)
(* loop takes at most one frame from the ring, runs the periodic tasks and *)
(* takes at most one line from the console.  The cable, the DMA, SysTick   *)
(* and the console go on by themselves.  What a frame, a task or a command *)
(* does is in the other modules; here it ends, and the command read takes  *)
(* one step per byte.                                                      *)
(***************************************************************************)
EXTENDS Naturals, Sequences, SequencesExt

CONSTANTS
    PHY_READ_TO,    \* polls before ETH_Init gives up
    MaxFrames,      \* frames in the receive ring
    MaxLines,       \* model bound: complete lines in the console buffer
    MaxRead         \* model bound: bytes that the command read is asked for

ASSUME ULoaderAssumption ==
    PHY_READ_TO \in Nat \ {0} /\ MaxFrames \in Nat /\ MaxLines \in Nat
    /\ MaxRead \in Nat

\* What the prefix of a line selects in parser.
Commands == {"empty", "echo", "printenv", "read", "tftp", "dhcp", "static",
             "unknown"}

VARIABLES
    pc,         \* where main is
    timeout,    \* the counter of ETH_Init
    phy,        \* the status bits of the PHY
    seen,       \* history: the bits for which ETH_Init waited with success
    frames,     \* complete frames in the receive ring
    due,        \* some periodic task is due
    lines,      \* complete lines in the console buffer
    left,       \* bytes that read still has to print
    ran         \* history: the last command that main ran

loaderVars == <<pc, timeout, phy, seen, frames, due, lines, left, ran>>
boot == <<timeout, phy, seen>>
work == <<frames, due, lines, left, ran>>

Loop == {"frame", "periodic", "gets", "read"}
Running == pc \in Loop

LoaderInit ==
    /\ pc = "reset" /\ timeout = 0
    /\ phy = {} /\ seen = {}
    /\ frames = 0 /\ due = FALSE /\ lines = <<>> /\ left = 0
    /\ ran = "empty"

-----------------------------------------------------------------------------
(* ETH_MACDMA_Config and ETH_Init.  A read or write of a PHY register that *)
(* times out itself is an error for a write, and bits that are not set for *)
(* a read.                                                                 *)

Goto(next) == pc' = next /\ timeout' = 0

\* The reset of the MAC ends; it is waited for without a limit.
SoftwareResetDone ==
    /\ pc = "reset"
    /\ Goto("phy_reset")
    /\ UNCHANGED <<phy, seen>> /\ UNCHANGED work

\* ETH_WritePHYRegister of PHY_BCR: PHY_Reset, PHY_AutoNegotiation.
WritePHY(at, next) ==
    /\ pc = at
    /\ Goto(next) \/ Goto("halt")
    /\ UNCHANGED <<phy, seen>> /\ UNCHANGED work

\* Mutant: running out of polls is not an error.
BugPollGoesOn(at, bit, next) ==
    /\ pc = at
    /\ \E set \in {FALSE, (bit \in phy)} :
          IF set THEN Goto(next) /\ seen' = seen \union {bit}
          ELSE IF timeout + 1 = PHY_READ_TO THEN Goto(next) /\ UNCHANGED seen
          ELSE timeout' = timeout + 1 /\ UNCHANGED <<pc, seen>>
    /\ UNCHANGED phy /\ UNCHANGED work

\* Mutant: a poll that finds the bit not set is not counted.
BugPollUncounted(at, bit, next) ==
    /\ pc = at
    /\ IF bit \in phy THEN Goto(next) /\ seen' = seen \union {bit}
       ELSE UNCHANGED <<pc, timeout, seen>>
    /\ UNCHANGED phy /\ UNCHANGED work

\* One poll of PHY_BSR; the last one that is allowed is an error whatever it
\* finds, since only the counter is looked at afterwards.
Poll(at, bit, next) ==
    /\ pc = at
    /\ \E set \in {FALSE, (bit \in phy)} :
          IF timeout + 1 = PHY_READ_TO THEN Goto("halt") /\ UNCHANGED seen
          ELSE IF set THEN Goto(next) /\ seen' = seen \union {bit}
          ELSE timeout' = timeout + 1 /\ UNCHANGED <<pc, seen>>
    /\ UNCHANGED phy /\ UNCHANGED work

\* SysTick_Config, LwIP_Init and TM_USART_Init, with nothing to wait for.
StartNetwork ==
    /\ pc = "start"
    /\ Goto("frame")
    /\ UNCHANGED <<phy, seen>> /\ UNCHANGED work

ETH_BSP_Config ==
    \/ WritePHY("phy_reset", "link")
    \/ Poll("link", "linked", "autonego")
    \/ WritePHY("autonego", "nego")
    \/ Poll("nego", "negotiated", "start")
    \/ StartNetwork

-----------------------------------------------------------------------------
(* The main loop.                                                          *)

\* Mutant: the ring is emptied before the loop goes on.
BugHandleAllFrames ==
    /\ pc = "frame"
    /\ IF frames > 0 THEN frames' = frames - 1 /\ UNCHANGED pc
       ELSE pc' = "periodic" /\ UNCHANGED frames
    /\ UNCHANGED <<due, lines, left, ran>> /\ UNCHANGED boot

HandleFrame ==
    /\ pc = "frame"
    /\ frames' = IF frames > 0 THEN frames - 1 ELSE 0
    /\ pc' = "periodic"
    /\ UNCHANGED <<due, lines, left, ran>> /\ UNCHANGED boot

Periodic ==
    /\ pc = "periodic"
    /\ due' = FALSE
    /\ pc' = "gets"
    /\ UNCHANGED <<frames, lines, left, ran>> /\ UNCHANGED boot

GetsNothing ==
    /\ pc = "gets" /\ lines = <<>>
    /\ pc' = "frame"
    /\ UNCHANGED work /\ UNCHANGED boot

\* TM_USART_Gets found a line; parser runs it.
parser ==
    /\ pc = "gets" /\ lines # <<>>
    /\ lines' = Tail(lines)
    /\ ran' = Head(lines)
    /\ IF Head(lines) = "read"
       THEN pc' = "read" /\ left' \in 0 .. MaxRead
       ELSE pc' = "frame" /\ UNCHANGED left
    /\ UNCHANGED <<frames, due>> /\ UNCHANGED boot

\* The loop of cmd_read, a byte at a time.
cmd_read ==
    /\ pc = "read"
    /\ IF left > 0 THEN left' = left - 1 /\ UNCHANGED pc
       ELSE pc' = "frame" /\ UNCHANGED left
    /\ UNCHANGED <<frames, due, lines, ran>> /\ UNCHANGED boot

Main ==
    ETH_BSP_Config
    \/ HandleFrame \/ Periodic \/ GetsNothing \/ parser \/ cmd_read

-----------------------------------------------------------------------------
(* The surroundings.                                                       *)

\* The cable is plugged or pulled; negotiation may follow a link.
LinkChanges ==
    /\ phy' \in {{}, {"linked"}, {"linked", "negotiated"}}
    /\ "negotiated" \in phy' => "linked" \in phy
    /\ UNCHANGED <<pc, timeout, seen>> /\ UNCHANGED work

FrameArrives ==
    /\ Running /\ frames < MaxFrames
    /\ frames' = frames + 1
    /\ UNCHANGED <<pc, due, lines, left, ran>> /\ UNCHANGED boot

SysTick ==
    /\ Running
    /\ due' = TRUE
    /\ UNCHANGED <<pc, frames, lines, left, ran>> /\ UNCHANGED boot

LineArrives ==
    /\ Running /\ Len(lines) < MaxLines
    /\ \E c \in Commands : lines' = Append(lines, c)
    /\ UNCHANGED <<pc, frames, due, left, ran>> /\ UNCHANGED boot

LoaderNext ==
    \/ SoftwareResetDone \/ Main
    \/ LinkChanges \/ FrameArrives \/ SysTick \/ LineArrives

(* The processor goes on with main, and the MAC ends its reset once the    *)
(* PHY drives its clock.  Nothing is assumed of cable, network and user.   *)
LoaderSpec ==
    /\ LoaderInit /\ [][LoaderNext]_loaderVars
    /\ WF_loaderVars(Main) /\ WF_loaderVars(SoftwareResetDone)

-----------------------------------------------------------------------------
(* The loop is entered only after the PHY reported a link and a finished   *)
(* negotiation, each within the polls ETH_Init allows (stm32f4x7_eth.c:404,*)
(* 425), whatever the cable does in between.  That the speed read from the *)
(* PHY afterwards (:434) is the negotiated one is not part of the model.   *)
RunsOnlyNegotiated == Running => seen = {"linked", "negotiated"}

(* Waiting for the PHY ends, with the loop or with the stop of ETH_BSP_    *)
(* Config, also if the cable is never plugged or keeps being pulled.       *)
BootEnds == <>(Running \/ pc = "halt")

(* A turn of the loop takes one frame and one line, so that neither a flood*)
(* of frames nor a long command nor a stream of lines keeps the others     *)
(* from being served: every line that TM_USART_Gets reports is run, a full *)
(* ring gets room, and every due task is run.                              *)
LoopServesAll ==
    /\ \A c \in Commands : (c \in ToSet(lines)) ~> (ran = c)
    /\ (frames = MaxFrames) ~> (frames < MaxFrames)
    /\ due ~> ~due
=============================================================================
