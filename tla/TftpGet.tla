------------------------------- MODULE TftpGet -------------------------------
(***************************************************************************)
(* TFTP from the PC to the board: serve_tftp_get on the PC, nokia-tftp (or *)
(* U-Boot) on the board, over a cable that may lose and repeat datagrams   *)
(* but does not reorder them.  Two uses of the same server:                *)
(*                                                                         *)
(*   one call       a package, a restore payload, a recovery image: the    *)
(*                  server serves one file to one peer and returns         *)
(*   rescue = TRUE  _RescueTftpServer: the server is called again and      *)
(*                  again, for a U-Boot that asks once a second for ever   *)
(*                                                                         *)
(* A board that restarts asks from another source port.  Datagrams to the  *)
(* port of an earlier start reach nobody.                                  *)
(***************************************************************************)
EXTENDS Naturals, Sequences

CONSTANTS
    Blocks,       \* DATA blocks of the file, the last one short
    Wrap,         \* block numbers on the wire are taken modulo Wrap (65536)
    ServerTries,  \* timeouts of the server before it gives up
    ClientTries,  \* timeouts nokia-tftp survives (12)
    Starts,       \* bound: how often the board starts a transfer
    Room,         \* bound: datagrams a socket buffers
    Rescues,      \* the uses to look at, a subset of BOOLEAN
    Faults        \* TRUE: datagrams may be lost and repeated

ASSUME ConstantsAssumption ==
    /\ Blocks \in Nat \ {0}
    /\ Wrap \in Nat /\ Wrap > 1
    /\ ServerTries \in Nat \ {0}
    /\ ClientTries \in Nat
    /\ Starts \in Nat \ {0}
    /\ Room \in Nat \ {0}
    /\ Rescues \subseteq BOOLEAN
    /\ Faults \in BOOLEAN

VARIABLES
    rescue,       \* which of the two uses this behaviour is
    call,         \* where serve_tftp_get is
    peer,         \* the port it serves, 0 before a request
    block,        \* the block it is sending, 0 for the OACK
    tries,        \* its timeouts in a row
    toServer,     \* datagrams on their way to the server
    toBoard,      \* datagrams on their way to the board's current port
    board,        \* what the board's client does
    port,         \* its source port: the number of the start
    expected,     \* the block it waits for
    got,          \* the blocks it has written, in order
    last,         \* the datagram it repeats
    waits         \* its timeouts in a row

server == <<call, peer, block, tries>>
client == <<board, port, expected, got, last, waits>>
vars == <<rescue, server, toServer, toBoard, client>>

\* n counts blocks without wrapping; only Wire(n) is in the datagram.
Ops == {"rrq", "oack", "data", "ack"}
Packet(op, n) == [op |-> op, n |-> n]
Packets == [op : Ops, n : 0..Blocks]
Mail == [from : 1..Starts, what : Packets]

TypeOK ==
    /\ rescue \in BOOLEAN
    /\ call \in {"request", "option", "data", "done", "failed"}
    /\ peer \in 0..Starts
    /\ block \in 0..Blocks
    /\ tries \in 0..ServerTries
    /\ toServer \in Seq(Mail) /\ Len(toServer) <= Room
    /\ toBoard \in Seq(Packets) /\ Len(toBoard) <= Room
    /\ board \in {"idle", "asking", "receiving", "done", "failed"}
    /\ port \in 0..Starts
    /\ expected \in 1..Blocks + 1
    /\ got \in Seq(1..Blocks)
    /\ last \in Packets
    /\ waits \in 0..ClientTries

\* 16-bit block numbers.  A rescue image is far below 65536 blocks.
Wire(n) == IF rescue THEN n ELSE n % Wrap

\* What a socket buffer may hold after m has been sent to it.
Sent(q, m) ==
    IF Faults THEN {s \in {q, Append(q, m), q \o <<m, m>>} : Len(s) <= Room}
              ELSE {IF Len(q) < Room THEN Append(q, m) ELSE q}

Init ==
    /\ rescue \in Rescues
    /\ call = "request" /\ peer = 0 /\ block = 0 /\ tries = 0
    /\ toServer = <<>> /\ toBoard = <<>>
    /\ board = "idle" /\ port = 0 /\ expected = 1 /\ got = <<>>
    /\ last = Packet("rrq", 0) /\ waits = 0

(***************************************************************************)
(* serve_tftp_get.                                                         *)
(***************************************************************************)
\* sendto the peer: the current board hears it only on its own port.
ToPeer(p, m) == toBoard' \in IF p = port THEN Sent(toBoard, m) ELSE {toBoard}

\* The packet the loops send at the top of every turn.
Current(b) == IF b = 0 THEN Packet("oack", 0) ELSE Packet("data", b)

\* Before a request only a read request counts.
HearRequest ==
    /\ call = "request" /\ toServer # <<>>
    /\ toServer' = Tail(toServer)
    /\ IF Head(toServer).what.op = "rrq"
       THEN /\ call' = "option" /\ peer' = Head(toServer).from
            /\ block' = 0 /\ tries' = 0
            /\ ToPeer(Head(toServer).from, Current(0))
       ELSE UNCHANGED <<server, toBoard>>
    /\ UNCHANGED <<rescue, client>>

\* The acknowledgement the option and the data loop break on.
Acknowledged(m) ==
    /\ m.from = peer
    /\ m.what.op = "ack"
    /\ Wire(m.what.n) = Wire(block)

\* (Mutant: the call returns as soon as it has sent the last block.)
HearAckLeavesEarly ==
    /\ call \in {"option", "data"} /\ toServer # <<>>
    /\ Acknowledged(Head(toServer))
    /\ toServer' = Tail(toServer)
    /\ call' = IF block + 1 = Blocks THEN "done" ELSE "data"
    /\ block' = block + 1 /\ tries' = 0
    /\ ToPeer(peer, Current(block + 1))
    /\ UNCHANGED <<rescue, peer, client>>

\* The acknowledgement of the last block ends the call; that of another one
\* brings the next block.
HearAck ==
    /\ call \in {"option", "data"} /\ toServer # <<>>
    /\ Acknowledged(Head(toServer))
    /\ toServer' = Tail(toServer)
    /\ IF block = Blocks
       THEN call' = "done" /\ UNCHANGED <<block, tries, toBoard>>
       ELSE /\ call' = "data" /\ block' = block + 1 /\ tries' = 0
            /\ ToPeer(peer, Current(block + 1))
    /\ UNCHANGED <<rescue, peer, client>>

\* Anything else, from anyone, goes round the loop: the packet is sent again
\* and the timeouts are not counted.
HearOther ==
    /\ call \in {"option", "data"} /\ toServer # <<>>
    /\ ~Acknowledged(Head(toServer))
    /\ toServer' = Tail(toServer)
    /\ ToPeer(peer, Current(block))
    /\ UNCHANGED <<rescue, server, client>>

\* boot_tftp_forever: one request a second.
AsksForEver == rescue /\ board = "asking"

\* The server's receive timeout (five seconds) passes only without requests.
Silence == toServer = <<>> /\ ~AsksForEver

\* (Mutant: a timeout sends the packet again without counting.)
ServerTimeoutUncounted ==
    /\ call \in {"option", "data"} /\ Silence
    /\ ToPeer(peer, Current(block))
    /\ UNCHANGED <<rescue, server, toServer, client>>

ServerTimeout ==
    /\ call \in {"option", "data"} /\ Silence
    /\ tries' = tries + 1
    /\ IF tries + 1 = ServerTries
       THEN call' = "failed" /\ UNCHANGED toBoard
       ELSE ToPeer(peer, Current(block)) /\ UNCHANGED call
    /\ UNCHANGED <<rescue, peer, block, toServer, client>>

\* request_deadline.
RequestTimeout ==
    /\ call = "request" /\ Silence
    /\ call' = "failed"
    /\ UNCHANGED <<rescue, peer, block, tries, toServer, toBoard, client>>

\* _RescueTftpServer._loop: a new socket, the old buffer is gone or not read yet.
ServeAgain ==
    /\ rescue /\ call \in {"done", "failed"}
    /\ call' = "request" /\ peer' = 0 /\ block' = 0 /\ tries' = 0
    /\ toServer' \in {toServer, <<>>}
    /\ UNCHANGED <<rescue, toBoard, client>>

Server == HearRequest \/ HearAck \/ HearOther \/ ServerTimeout \/ RequestTimeout \/ ServeAgain

(***************************************************************************)
(* nokia-tftp.c; the client of U-Boot is external and taken to do the same *)
(* except that it never stops asking.                                      *)
(***************************************************************************)
Post(m) == toServer' \in Sent(toServer, [from |-> port', what |-> m])

\* The board starts a transfer: at first, or once more after a power cut.
Start ==
    /\ port < Starts /\ board # "done"
    /\ port' = port + 1
    /\ board' = "asking" /\ expected' = 1 /\ got' = <<>>
    /\ last' = Packet("rrq", 0) /\ waits' = 0
    /\ toBoard' = <<>>
    /\ Post(last')
    /\ UNCHANGED <<rescue, server>>

Listening == board \in {"asking", "receiving"}

HearOack ==
    /\ Listening /\ toBoard # <<>> /\ Head(toBoard).op = "oack"
    /\ toBoard' = Tail(toBoard)
    /\ board' = "receiving" /\ last' = Packet("ack", 0) /\ waits' = 0
    /\ UNCHANGED <<port, expected, got>>
    /\ Post(last')
    /\ UNCHANGED <<rescue, server>>

\* (Mutant: whatever DATA arrives is written.)
HearAnyData ==
    /\ Listening /\ toBoard # <<>> /\ Head(toBoard).op = "data"
    /\ expected <= Blocks
    /\ toBoard' = Tail(toBoard)
    /\ got' = Append(got, Head(toBoard).n)
    /\ expected' = expected + 1
    /\ board' = IF Head(toBoard).n = Blocks THEN "done" ELSE "receiving"
    /\ last' = Packet("ack", Head(toBoard).n) /\ waits' = 0
    /\ UNCHANGED port
    /\ Post(last')
    /\ UNCHANGED <<rescue, server>>

\* The expected block is written and acknowledged; a short one is the last, and
\* its acknowledgement is not repeated: the client exits.
HearData ==
    /\ Listening /\ toBoard # <<>> /\ Head(toBoard).op = "data"
    /\ Wire(Head(toBoard).n) = Wire(expected)
    /\ toBoard' = Tail(toBoard)
    /\ got' = Append(got, Head(toBoard).n)
    /\ expected' = expected + 1
    /\ board' = IF Head(toBoard).n = Blocks THEN "done" ELSE "receiving"
    /\ last' = Packet("ack", Head(toBoard).n) /\ waits' = 0
    /\ UNCHANGED port
    /\ Post(last')
    /\ UNCHANGED <<rescue, server>>

\* The block before it makes the client repeat its last datagram; other blocks
\* are dropped.
HearOldData ==
    /\ Listening /\ toBoard # <<>> /\ Head(toBoard).op = "data"
    /\ Wire(Head(toBoard).n) # Wire(expected)
    /\ toBoard' = Tail(toBoard)
    /\ board' = "receiving"
    /\ UNCHANGED <<port, expected, got, last, waits>>
    /\ IF Wire(Head(toBoard).n) = Wire(expected - 1) THEN Post(last) ELSE UNCHANGED toServer
    /\ UNCHANGED <<rescue, server>>

\* SO_RCVTIMEO: send again or give up.  U-Boot does not give up asking.
ClientTimeout ==
    /\ Listening /\ toBoard = <<>>
    /\ UNCHANGED <<port, expected, got, last>>
    /\ \/ /\ waits < ClientTries \/ AsksForEver
          /\ waits' = IF waits < ClientTries THEN waits + 1 ELSE waits
          /\ UNCHANGED board
          /\ Post(last)
       \/ /\ waits = ClientTries /\ ~AsksForEver
          /\ board' = "failed"
          /\ UNCHANGED <<waits, toServer>>
    /\ UNCHANGED <<rescue, server, toBoard>>

\* No socket is open any more.
Unheard ==
    /\ ~Listening /\ toBoard # <<>>
    /\ toBoard' = Tail(toBoard)
    /\ UNCHANGED <<rescue, server, toServer, client>>

Client == HearOack \/ HearData \/ HearOldData \/ ClientTimeout \/ Unheard

Next == Server \/ Client \/ Start

\* Both loops run and both kernels deliver; nobody has to start a transfer.
Spec == Init /\ [][Next]_vars
FairSpec == Spec /\ WF_vars(Server) /\ WF_vars(Client)

(***************************************************************************)
(* Properties.                                                             *)
(***************************************************************************)
\* Loss, repetition, wrapped block numbers and restarts never shift, repeat or
\* drop a block: what the client has written is a prefix of the file, and it
\* stops with success only at its end.
WrittenInOrder ==
    /\ \A i \in 1..Len(got) : got[i] = i
    /\ board = "done" => Len(got) = Blocks

\* serve_tftp_get returns without an error only if the board it served has the
\* whole file, unless that board has restarted since.
SuccessIsDelivery == call = "done" /\ peer = port => board = "done"

\* Both loops end, whatever is lost and however often the board starts over: no
\* turn of the two loops of a call waits for ever, and nokia-tftp leaves the
\* shell an exit status.
BothEndsReturn ==
    /\ []<>(rescue \/ call \in {"done", "failed"})
    /\ board \in {"asking", "receiving"} /\ ~rescue
          ~> board \in {"done", "failed"} \/ rescue

\* _RescueTftpServer: "the board asks $serverip for $bootfile once a second,
\* indefinitely -- and it is fully recoverable, provided somebody answers".
\* (Does not hold: README, Known disagreements.)
RescueAnswers == board = "asking" ~> board # "asking"
=============================================================================
