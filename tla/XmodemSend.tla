----------------------------- MODULE XmodemSend -----------------------------
(***************************************************************************)
(* XMODEM from the PC to the BootROM of a bricked board: xmodem_send over  *)
(* a serial line that keeps the order of its bytes, but loses and damages  *)
(* them.  The BootROM is the usual receiver with CRC: it asks with C until *)
(* the first block, acknowledges a block it has, and answers a damaged one *)
(* with NAK.  A board that is slow to answer makes the PC send a block     *)
(* twice; the spare acknowledgement then meets the next block.             *)
(***************************************************************************)
EXTENDS Naturals, Sequences, FiniteSets

CONSTANTS
    Total,    \* blocks of 128 bytes in the file
    Modulus,  \* sequence numbers are taken modulo Modulus (256)
    Tries,    \* how often a block, and the end of file, is sent (10)
    MaxLate,  \* bound: timeouts that overtake an answer still to come
    MaxAsked  \* bound: answers on the line when the BootROM asks again

\* Of MaxLate: a timeout is 12 s, and numbers are mistaken for each other only
\* after Modulus - 1 (255) of them have overtaken their answers in one transfer.
ASSUME XmodemAssumption ==
    /\ {Total, Tries} \subseteq Nat \ {0}
    /\ {Modulus, MaxLate, MaxAsked} \subseteq Nat
    /\ MaxLate + 2 <= Modulus

VARIABLES
    sender,   \* what xmodem_send does: "send" a packet, "wait", "sent", "failed"
    index,    \* the block it is at, Total for the end of file
    attempts, \* how often it has sent that
    cancels,  \* the CANs it has read since it sent it
    late,     \* timeouts it took while an answer was still to come
    toBoard,  \* packets on the line to the board
    toPC,     \* bytes on the line to the PC
    board,    \* "receiving", "done" after the end of file, "cancelled"
    got       \* the blocks the board has taken

pc == <<sender, index, attempts, cancels, late>>
receiver == <<board, got>>
xvars == <<pc, toBoard, toPC, receiver>>

Answers == {"ACK", "NAK", "C", "CAN"}
Data == [op : {"block"}, seq : 0..Modulus - 1, data : 0..Total - 1]
EndOfFile == [op |-> "EOT"]
Abort == [op |-> "CAN"]

XmodemTypeOK ==
    /\ sender \in {"send", "wait", "sent", "failed"}
    /\ index \in 0..Total
    /\ attempts \in 0..Tries
    /\ cancels \in 0..1
    /\ late \in 0..MaxLate
    /\ toBoard \in Seq(Data \cup {EndOfFile, Abort})
    /\ toPC \in Seq(Answers)
    /\ board \in {"receiving", "done", "cancelled"}
    /\ got \in Seq(0..Total - 1)

\* wait_bootrom_xmodem has counted three C and the input is flushed.
XmodemInit ==
    /\ sender = "send" /\ index = 0 /\ attempts = 0 /\ cancels = 0 /\ late = 0
    /\ toBoard = <<>> /\ toPC = <<>>
    /\ board = "receiving" /\ got = <<>>

(***************************************************************************)
(* xmodem_send.                                                            *)
(***************************************************************************)
\* (Mutant of Packet: the file is read on in every attempt.)
PacketReadAgain(i) ==
    IF i = Total THEN EndOfFile
    ELSE [op |-> "block", seq |-> (i + 1) % Modulus,
          data |-> IF attempts = 0 \/ i + 1 = Total THEN i ELSE i + 1]

\* SOH with the sequence number, which starts at 1, or EOT.
Packet(i) ==
    IF i = Total THEN EndOfFile
    ELSE [op |-> "block", seq |-> (i + 1) % Modulus, data |-> i]

Send ==
    /\ sender = "send" /\ attempts < Tries
    /\ toBoard' = Append(toBoard, Packet(index))
    /\ sender' = "wait" /\ attempts' = attempts + 1 /\ cancels' = 0
    /\ UNCHANGED <<index, late, toPC, receiver>>

\* The except clause: CAN CAN CAN, and the error goes up.
Fail ==
    /\ sender' = "failed"
    /\ toBoard' = Append(toBoard, Abort)
    /\ UNCHANGED <<index, attempts, cancels, late>>

Exhausted ==
    /\ sender = "send" /\ attempts = Tries
    /\ Fail
    /\ UNCHANGED <<toPC, receiver>>

\* The places of a response the loop over its bytes gets to: up to the first
\* byte that ends the loop.  What follows in the same response is lost.
Looked(response) == {i \in DOMAIN response : \A j \in 1..i - 1 : response[j] = "CAN"}

\* A block is acknowledged by an ACK the loop gets to, the end of file by
\* one anywhere in the response.
Accepted(response) ==
    \E i \in IF index = Total THEN DOMAIN response ELSE Looked(response) : response[i] = "ACK"
Refused(response) == ~Accepted(response) /\ \E i \in DOMAIN response : response[i] = "NAK"

\* (Mutant of SendAgain: a damaged block is repeated without counting.)
SendAgainUncounted ==
    sender' = "send" /\ attempts' = attempts - 1 /\ UNCHANGED <<index, cancels, late>>

SendAgain == sender' = "send" /\ UNCHANGED <<index, attempts, cancels, late>>

\* (Mutant of NextBlock: size // 128 blocks, the short last one is left out.)
NextBlockFloor ==
    /\ IF index = Total THEN sender' = "sent" /\ UNCHANGED <<index, attempts>>
       ELSE /\ sender' = "send" /\ attempts' = 0
            /\ index' = IF index + 2 = Total THEN Total ELSE index + 1
    /\ cancels' = 0
    /\ UNCHANGED late

NextBlock ==
    /\ IF index = Total THEN sender' = "sent" /\ UNCHANGED <<index, attempts>>
                        ELSE sender' = "send" /\ index' = index + 1 /\ attempts' = 0
    /\ cancels' = 0
    /\ UNCHANGED late

\* serial_port.read returns some of the bytes that have come.  The second
\* CAN of a block ends the transfer; after the end of file CAN is ignored.
Hear ==
    /\ sender = "wait" /\ toPC # <<>>
    /\ \E k \in 1..Len(toPC) :
         LET response == SubSeq(toPC, 1, k)
             seen == cancels + (IF index = Total THEN 0 ELSE
                       Cardinality({i \in Looked(response) : response[i] = "CAN"}))
         IN  /\ toPC' = SubSeq(toPC, k + 1, Len(toPC))
             /\ \/ seen >= 2 /\ Fail
                \/ seen < 2 /\ Accepted(response) /\ NextBlock /\ UNCHANGED toBoard
                \/ seen < 2 /\ Refused(response) /\ SendAgain /\ UNCHANGED toBoard
                \/ /\ seen < 2 /\ ~Accepted(response) /\ ~Refused(response)
                   /\ cancels' = seen
                   /\ UNCHANGED <<sender, index, attempts, late, toBoard>>
    /\ UNCHANGED receiver

\* The deadline, 12 s after a block and 10 s after the end of file.
AnswerToCome == toBoard # <<>> \/ \E i \in DOMAIN toPC : toPC[i] # "C"

Timeout ==
    /\ sender = "wait"
    /\ AnswerToCome => late < MaxLate
    /\ sender' = "send"
    /\ late' = IF AnswerToCome THEN late + 1 ELSE late
    /\ UNCHANGED <<index, attempts, cancels, toBoard, toPC, receiver>>

(***************************************************************************)
(* The BootROM and the line.                                               *)
(***************************************************************************)
\* A damaged packet: C before the first block, NAK after it.
Refusal == IF got = <<>> THEN {"C", "NAK"} ELSE {"NAK"}

\* A block out of turn is refused or ends the session, as receivers do.
Take(p) ==
    \/ /\ p.seq = (Len(got) + 1) % Modulus
       /\ got' = Append(got, p.data) /\ board' = board
       /\ toPC' = Append(toPC, "ACK")
    \/ /\ p.seq = Len(got) % Modulus /\ got # <<>>
       /\ toPC' = Append(toPC, "ACK") /\ UNCHANGED receiver
    \/ /\ p.seq # (Len(got) + 1) % Modulus
       /\ p.seq = Len(got) % Modulus => got = <<>>
       /\ \/ toPC' = Append(toPC, "NAK") /\ UNCHANGED receiver
          \/ toPC' = toPC \o <<"CAN", "CAN">> /\ board' = "cancelled" /\ got' = got

Receive ==
    /\ toBoard # <<>>
    /\ toBoard' = Tail(toBoard)
    /\ IF board # "receiving" THEN UNCHANGED <<receiver, toPC>>
       ELSE LET p == Head(toBoard) IN
            \/ p.op = "block" /\ Take(p)
            \/ /\ p.op = "block" /\ UNCHANGED receiver
               /\ \E b \in Refusal : toPC' = Append(toPC, b)
            \/ /\ p.op = "EOT" /\ board' = "done" /\ got' = got
               /\ toPC' = Append(toPC, "ACK")
            \/ p.op = "CAN" /\ board' = "cancelled" /\ UNCHANGED <<got, toPC>>
    /\ UNCHANGED pc

\* The BootROM repeats its invitation until a block has come.
Invite ==
    /\ board = "receiving" /\ got = <<>> /\ Len(toPC) < MaxAsked
    /\ toPC' = Append(toPC, "C")
    /\ UNCHANGED <<pc, toBoard, receiver>>

Lose ==
    \/ toBoard # <<>> /\ toBoard' = Tail(toBoard) /\ UNCHANGED <<pc, toPC, receiver>>
    \/ toPC # <<>> /\ toPC' = Tail(toPC) /\ UNCHANGED <<pc, toBoard, receiver>>

XmodemNext ==
    \/ Send \/ Exhausted \/ Hear \/ Timeout
    \/ Receive \/ Invite \/ Lose

\* The PC's loop runs; the line delivers or loses what is on it.
XmodemSpec == XmodemInit /\ [][XmodemNext]_xvars
XmodemFairSpec ==
    /\ XmodemSpec
    /\ WF_xvars(Send) /\ WF_xvars(Exhausted) /\ WF_xvars(Hear) /\ WF_xvars(Timeout)
    /\ WF_xvars(Receive)

-----------------------------------------------------------------------------
(***************************************************************************)
(* Properties.                                                             *)
(***************************************************************************)
\* What the BootROM has is the beginning of the file, block by block: no
\* resent, delayed or refused block is taken for another, although sequence
\* numbers wrap (xmodem_send, 7255-7291).
InOrder == \A i \in DOMAIN got : got[i] = i - 1

\* xmodem_send returns only after the BootROM has the whole file, save for at
\* most one block for each timeout that overtook its answer (7292-7302): the
\* spare ACK of a block sent twice acknowledges the next one.  The SAFE marker
\* is what catches a file that lacks its end (7522-7560).
SuccessIsDelivery == sender = "sent" => Len(got) + late >= Total

\* The transfer ends, whatever the line does.
SenderReturns == <>(sender \in {"sent", "failed"})
=============================================================================
