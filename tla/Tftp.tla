-------------------------------- MODULE Tftp --------------------------------
(***************************************************************************)
(* The TFTP client (src/tftp.c) over the pcbs of UdpPcb, a network that    *)
(* loses, repeats and reorders datagrams, and a server that sends a block, *)
(* waits for its ACK and repeats the block when nothing comes, or gives up *)
(* with an error at any time.  Any host may send the board an ERROR, an    *)
(* ACK or something unknown.  The DHCP client is here only as the other    *)
(* user of the pool.  Every handler of the board runs to its end on the    *)
(* main loop.                                                              *)
(*                                                                         *)
(* The client never looks at block numbers, has no timer, and keeps one    *)
(* pointer, tftp_upcb, to the pcb of the latest transfer.  A transfer is   *)
(* known by its local port.                                                *)
(***************************************************************************)
EXTENDS UdpPcb, FiniteSets

CONSTANTS
    Block,          \* bytes in a full block, 512 in the code
    FileSize,       \* bytes in the file on the server
    MaxTransfers,   \* model bound: tftp commands in a behaviour
    MaxLosses,      \* model bound: datagrams lost
    MaxRepeats,     \* model bound: datagrams delivered once more
    MaxStrays,      \* model bound: packets but DATA not asked for by the board
    Impatient       \* a user may start a transfer before the last one ended

ASSUME TftpAssumption ==
    /\ Block \in Nat \ {0}
    /\ FileSize \in Nat /\ MaxTransfers \in Nat
    /\ MaxLosses \in Nat /\ MaxRepeats \in Nat /\ MaxStrays \in Nat
    /\ Impatient \in BOOLEAN

DHCP_CLIENT_PORT == MaxTransfers + 1    \* 68: none of the ephemeral ports

VARIABLES
    u,              \* pool and list of pcbs
    tftp_upcb, file_size,
    dhcp_pcb,       \* netif->dhcp->pcb
    halted,         \* a NULL pcb was used
    net,            \* datagrams under way
    srv,            \* the block the server waits for an ACK of, by transfer
    issued,         \* history: the pcb each transfer was given, 0 before
    done,           \* history: transfers whose pcb got a short packet
    cut,            \* history: those where the short packet was not DATA
    got,            \* history: blocks received, by transfer
    losses, repeats, strays     \* history: counts against the bounds

board   == <<u, tftp_upcb, file_size, dhcp_pcb, halted>>
history == <<issued, done, cut, got>>
budget  == <<losses, repeats, strays>>
vars    == <<board, net, srv, history, budget>>

Transfers == 1 .. MaxTransfers
Blocks    == FileSize \div Block + 1
Length(b) == IF b < Blocks THEN Block ELSE FileSize % Block
GaveUp    == Blocks + 2     \* the server's state after it sent an error

Rrq(t)         == [kind |-> "RRQ", port |-> t]
Data(t, b)     == [kind |-> "DATA", port |-> t, block |-> b]
Ack(t, b, src) == [kind |-> "ACK", port |-> t, block |-> b, src |-> src]

\* A packet to the board that is not DATA: tftp_recv only prints whether it
\* is an ACK, an ERROR or unknown.  "full": it has 512 + 4 bytes or more.
Sizes          == {"short", "full"}
Other(t, size) == [kind |-> "OTHER", port |-> t, size |-> size]

Init ==
    /\ u = PoolInit
    /\ tftp_upcb = NULL /\ file_size = 0
    /\ dhcp_pcb = NULL /\ halted = FALSE
    /\ net = {}
    /\ srv = [t \in Transfers |-> 0]
    /\ issued = [t \in Transfers |-> NULL]
    /\ done = {} /\ cut = {} /\ got = [t \in Transfers |-> {}]
    /\ losses = 0 /\ repeats = 0 /\ strays = 0

-----------------------------------------------------------------------------
(* The command: tftp_init and tftp_rrq.                                    *)

NextTransfer == NewPort(u)

\* Mutant: file_size is not reset for the new file.
BugCmdNoReset ==
    /\ ~halted
    /\ NextTransfer \in Transfers
    /\ Impatient \/ \A t \in Transfers : issued[t] = NULL \/ t \in done
    /\ u' = Bind(New(u), Fresh(u), 0)
    /\ tftp_upcb' = Fresh(u)
    /\ net' = net \cup {Rrq(NextTransfer)}
    /\ issued' = [issued EXCEPT ![NextTransfer] = Fresh(u)]
    /\ UNCHANGED <<file_size, dhcp_pcb, halted, srv, done, cut, got, budget>>

tftp ==
    /\ ~halted
    /\ NextTransfer \in Transfers
    /\ Impatient \/ \A t \in Transfers : issued[t] = NULL \/ t \in done
    /\ file_size' = 0
    /\ tftp_upcb' = Fresh(u)
    /\ IF Fresh(u) = NULL
       THEN halted' = TRUE /\ UNCHANGED <<u, net, issued>>
       ELSE /\ u' = Bind(New(u), Fresh(u), 0)
            /\ net' = net \cup {Rrq(NextTransfer)}
            /\ issued' = [issued EXCEPT ![NextTransfer] = Fresh(u)]
            /\ UNCHANGED halted
    /\ UNCHANGED <<dhcp_pcb, srv, done, cut, got, budget>>

-----------------------------------------------------------------------------
(* A datagram reaches the board.                                           *)

\* The network hands over m, and may keep a copy to deliver again.
Deliver(m) ==
    /\ ~halted
    /\ m \in net
    /\ UNCHANGED <<srv, dhcp_pcb, halted, issued, losses, strays>>

\* tftp_ack answers the sender, but from the pcb of the latest transfer.
tftp_ack(m) ==
    IF CanSend(u, tftp_upcb)
    THEN {Ack(m.port, m.block, u.local_port[tftp_upcb])} ELSE {}

\* Mutant: the pcb stays bound.
BugDeinitKeeps == UNCHANGED u

\* tftp_deinit removes the pcb of the latest transfer.
tftp_deinit == u' = Remove(u, tftp_upcb)

\* What becomes of m, once it is delivered: used up or repeated.
Consume(m, answer) ==
    \/ net' = (net \ {m}) \cup answer /\ UNCHANGED repeats
    \/ /\ repeats < MaxRepeats
       /\ repeats' = repeats + 1
       /\ net' = net \cup answer

\* Mutant: a full block ends the transfer as well.
BugRecvDataEager(m) ==
    /\ Deliver(m) /\ m.kind = "DATA"
    /\ Receivers(u, m.port) # {}
    /\ Consume(m, tftp_ack(m))
    /\ file_size' = file_size + Length(m.block)
    /\ got' = [got EXCEPT ![m.port] = @ \cup {m.block}]
    /\ tftp_deinit /\ done' = done \cup {m.port}
    /\ UNCHANGED <<tftp_upcb, cut>>

\* tftp_recv with a DATA packet: acknowledge, count, stop at a short one.
RecvData(m) ==
    /\ Deliver(m) /\ m.kind = "DATA"
    /\ Receivers(u, m.port) # {}
    /\ Consume(m, tftp_ack(m))
    /\ file_size' = file_size + Length(m.block)
    /\ got' = [got EXCEPT ![m.port] = @ \cup {m.block}]
    /\ IF Length(m.block) < Block
       THEN tftp_deinit /\ done' = done \cup {m.port}
       ELSE UNCHANGED <<u, done>>
    /\ UNCHANGED <<tftp_upcb, cut>>

\* tftp_recv with any other packet: a short one ends the transfer as well.
RecvOther(m) ==
    /\ Deliver(m) /\ m.kind = "OTHER"
    /\ Receivers(u, m.port) # {}
    /\ Consume(m, {})
    /\ IF m.size = "full"
       THEN UNCHANGED <<u, done, cut>>
       ELSE tftp_deinit /\ done' = done \cup {m.port} /\ cut' = cut \cup {m.port}
    /\ UNCHANGED <<tftp_upcb, file_size, got>>

\* No pcb has the port: udp_input drops the datagram.
RecvUnreachable(m) ==
    /\ Deliver(m) /\ m.kind \in {"DATA", "OTHER"}
    /\ Receivers(u, m.port) = {}
    /\ net' = net \ {m}
    /\ UNCHANGED <<u, tftp_upcb, file_size, done, cut, got, repeats>>

-----------------------------------------------------------------------------
(* The other user of the pool: dhcp_start and dhcp_stop.                   *)

DhcpStart ==
    LET freed == IF dhcp_pcb = NULL THEN u ELSE Remove(u, dhcp_pcb)
    IN  /\ ~halted
        /\ dhcp_pcb' = Fresh(freed)
        /\ u' = IF Fresh(freed) = NULL THEN freed
                ELSE Bind(New(freed), Fresh(freed), DHCP_CLIENT_PORT)
        /\ UNCHANGED <<tftp_upcb, file_size, halted, net, srv, history, budget>>

DhcpStop ==
    /\ ~halted
    /\ dhcp_pcb # NULL
    /\ u' = Remove(u, dhcp_pcb)
    /\ dhcp_pcb' = NULL
    /\ UNCHANGED <<tftp_upcb, file_size, halted, net, srv, history, budget>>

-----------------------------------------------------------------------------
(* The server, other hosts and the losses of the network.                  *)

\* A read request is answered with the first block or with an error.
ServerRrq(t) ==
    /\ Rrq(t) \in net
    /\ \/ srv' = [srv EXCEPT ![t] = 1]
          /\ net' = (net \ {Rrq(t)}) \cup {Data(t, 1)}
       \/ srv' = [srv EXCEPT ![t] = GaveUp]
          /\ net' = (net \ {Rrq(t)}) \cup {Other(t, "short")}
    /\ UNCHANGED <<board, history, budget>>

\* The server gives up in the middle of the file, with an ERROR packet.
ServerError(t) ==
    /\ srv[t] \in 1 .. Blocks
    /\ strays < MaxStrays
    /\ strays' = strays + 1
    /\ srv' = [srv EXCEPT ![t] = GaveUp]
    /\ net' = net \cup {Other(t, "short")}
    /\ UNCHANGED <<board, history, losses, repeats>>

\* Any host sends something that is not DATA to the port of a transfer.
Stray(t, size) ==
    /\ strays < MaxStrays
    /\ strays' = strays + 1
    /\ net' = net \cup {Other(t, size)}
    /\ UNCHANGED <<board, srv, history, losses, repeats>>

\* An ACK of the block waited for, from the port the request came from.
ServerAck(t) ==
    /\ Ack(t, srv[t], t) \in net
    /\ srv' = [srv EXCEPT ![t] = @ + 1]
    /\ net' = (net \ {Ack(t, srv[t], t)})
                 \cup (IF srv[t] < Blocks THEN {Data(t, srv[t] + 1)} ELSE {})
    /\ UNCHANGED <<board, history, budget>>

\* Nothing of this exchange is under way any more: send the block again.
ServerRepeat(t) ==
    /\ srv[t] \in 1 .. Blocks
    /\ {Data(t, srv[t]), Ack(t, srv[t], t)} \cap net = {}
    /\ net' = net \cup {Data(t, srv[t])}
    /\ UNCHANGED <<board, srv, history, budget>>

\* An ACK nobody waits for.
ServerIgnore(m) ==
    /\ m \in net /\ m.kind = "ACK"
    /\ m.src # m.port \/ m.block # srv[m.port]
    /\ net' = net \ {m}
    /\ UNCHANGED <<board, srv, history, budget>>

Lose(m) ==
    /\ m \in net
    /\ losses < MaxLosses
    /\ losses' = losses + 1
    /\ net' = net \ {m}
    /\ UNCHANGED <<board, srv, history, repeats, strays>>

-----------------------------------------------------------------------------
Recv(t) ==
    \E m \in net : m.port = t /\ (RecvData(m) \/ RecvOther(m) \/ RecvUnreachable(m))

Server(t) == ServerRrq(t) \/ ServerAck(t) \/ ServerRepeat(t)

Next ==
    \/ tftp \/ DhcpStart \/ DhcpStop
    \/ \E t \in Transfers : Recv(t) \/ Server(t)
    \/ \E t \in Transfers : ServerError(t) \/ \E size \in Sizes : Stray(t, size)
    \/ \E m \in net : ServerIgnore(m) \/ Lose(m)

(* The main loop polls for frames on every turn, so a datagram that is not *)
(* lost is received; the server answers and repeats.  The user, the DHCP   *)
(* client and other hosts need not do anything, nor the server give up.    *)
Spec ==
    /\ Init /\ [][Next]_vars
    /\ \A t \in Transfers : WF_vars(Recv(t)) /\ WF_vars(Server(t))

-----------------------------------------------------------------------------
\* The users of pcbs: transfers under way, and the DHCP client as port 68.
Running == {t \in Transfers : issued[t] # NULL /\ t \notin done}
Holders == Running \cup {c \in {DHCP_CLIENT_PORT} : dhcp_pcb # NULL}
Held(h) == IF h = DHCP_CLIENT_PORT THEN dhcp_pcb ELSE issued[h]

(* lwipopts.h:66, one pcb "per active UDP connection": transfers under way *)
(* and the DHCP client hold different pcbs, each in the list udp_input     *)
(* searches and still bound to its holder's port.  None is lost to the     *)
(* pool: what nobody holds is free, on a list without a loop.              *)
OnePcbPerConnection ==
    /\ \A h \in Holders : Held(h) \in Listed(u) /\ u.local_port[Held(h)] = h
    /\ \A g, h \in Holders : Held(g) = Held(h) => g = h
    /\ Free(u) \cap Listed(u) = {}
    /\ Cardinality(Free(u)) = NPcb - Cardinality(Holders)

(* The client looks at no block number, and still the blocks it takes have *)
(* no gap, in spite of lost and repeated datagrams: what a transfer has is *)
(* a beginning of the file.  When a DATA packet ends the transfer ("done   *)
(* with receiving"), that is the whole file.  Only a short packet that is  *)
(* not DATA, at any moment, ends it with less (tftp.c:129-145).            *)
DoneMeansAllBlocks ==
    /\ \A t \in Transfers : \E n \in 0 .. Blocks : got[t] = 1 .. n
    /\ \A t \in done \ cut : got[t] = 1 .. Blocks

\* Bytes in the first n blocks of the file.
Counted(n) == IF n < Blocks THEN Block * n ELSE FileSize

(* file_size, reported at the end of the last transfer, is never less than *)
(* the bytes of the blocks that came, so never less than the file when     *)
(* DATA ended it, and it is exactly that when the network neither lost nor *)
(* repeated anything, wherever an ERROR or a stray packet fell.            *)
SizeCoversFile ==
    \A t \in done : t = u.udp_port =>
        /\ file_size >= Counted(Cardinality(got[t]))
        /\ losses + repeats = 0 => file_size = Counted(Cardinality(got[t]))
        /\ t \notin cut => file_size >= FileSize

(* Datagrams that arrive late for a finished transfer change nothing: once *)
(* no transfer runs, file_size moves only when a new one is started.       *)
LateDataIgnored ==
    [][Running = {} /\ issued' = issued => file_size' = file_size]_vars

(* A transfer the server has begun comes to its end, though the client has *)
(* no timer of its own, unless the server gives up: the client             *)
(* acknowledges every repeated block.                                      *)
TransferCompletes ==
    \A t \in Transfers : srv[t] \in 1 .. Blocks ~> t \in done \/ srv[t] = GaveUp

(* The report: printenv shows "how many bytes the last file via TFTP was". *)
FileSizeExact ==
    \A t \in done : t = u.udp_port /\ got[t] # {} => file_size = FileSize

(* The report: "The call tftp will issue an tftp read request".            *)
RequestIssued == ~halted
=============================================================================
