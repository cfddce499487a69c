---------------------------- MODULE TftpGetProofs ----------------------------
(***************************************************************************)
(* What holds of serve_tftp_get and nokia-tftp for every file length, every *)
(* modulus of the block numbers, every number of restarts and every pattern *)
(* of loss and repetition.                                                 *)
(***************************************************************************)
EXTENDS TftpGet, Integers, TLAPS

\* The place of a datagram of the server in the order of the file.
Place(m) == IF m.op = "oack" THEN 0 ELSE m.n

\* The i-th datagram to the server acknowledges on the current port.
Acks(i) == toServer[i].from = port /\ toServer[i].what.op = "ack"

\* Where the server and the client are.
Control ==
    /\ call = "request" => peer = 0
    /\ call = "option" => block = 0
    /\ call = "data" => block > 0
    /\ call = "done" => block = Blocks
    /\ call \in {"option", "data", "done"} => peer > 0
    /\ call \in {"option", "data"} => tries < ServerTries
    /\ peer <= port
    /\ board = "idle" <=> port = 0
    /\ port = 0 => toServer = <<>> /\ toBoard = <<>>
    /\ \A i \in 1..Len(toServer) : toServer[i].from <= port

\* The file written so far.
Prefix ==
    /\ Len(got) = expected - 1
    /\ \A i \in 1..Len(got) : got[i] = i
    /\ board = "done" <=> expected = Blocks + 1
    /\ last.op \in {"rrq", "ack"}

\* What the server sends.
FromServer ==
    \A i \in 1..Len(toBoard) : \/ toBoard[i].op = "oack" /\ toBoard[i].n = 0
                               \/ toBoard[i].op = "data" /\ toBoard[i].n > 0

\* Nothing is acknowledged before it is written, and the server is never ahead
\* of its peer.
Acknowledgements ==
    /\ last.op = "ack" => last.n < expected
    /\ \A i \in 1..Len(toServer) : Acks(i) => toServer[i].what.n < expected
    /\ peer = port => block <= expected
    /\ peer = port /\ call = "done" => board = "done"

\* One call: a board the server has not heard of since its last start has been
\* sent nothing and has acknowledged nothing.
Unserved ==
    ~rescue /\ peer # port =>
        /\ toBoard = <<>> /\ expected = 1 /\ last.op = "rrq"
        /\ \A i \in 1..Len(toServer) : ~Acks(i)

\* The board is at most one block ahead of what the server is sending.
Abreast ==
    ~rescue /\ peer = port =>
        /\ expected <= block + 1
        /\ last.op = "ack" => last.n = expected - 1

\* What is on its way to the board comes in order from the two latest places.
BoardOrder ==
    ~rescue =>
        /\ \A i \in 1..Len(toBoard) : /\ Place(toBoard[i]) \in {block - 1, block}
                                      /\ expected = block + 1 => Place(toBoard[i]) = block
        /\ \A i, j \in 1..Len(toBoard) : i < j => Place(toBoard[i]) <= Place(toBoard[j])

\* And what comes back.
AckOrder ==
    ~rescue =>
        /\ \A i \in 1..Len(toServer) : Acks(i) =>
              /\ toServer[i].what.n \in {block - 1, block}
              /\ expected = block => toServer[i].what.n = block - 1
        /\ \A i, j \in 1..Len(toServer) : i < j /\ Acks(i) /\ Acks(j) =>
              toServer[i].what.n <= toServer[j].what.n

InOrder == Unserved /\ Abreast /\ BoardOrder /\ AckOrder

IInv == TypeOK /\ Control /\ Prefix /\ FromServer /\ Acknowledgements /\ InOrder

(***************************************************************************)
(* Socket buffers and block numbers.                                       *)
(***************************************************************************)
\* A datagram that was sent is in the buffer behind the others, or lost.
LEMMA SentSeq ==
    ASSUME NEW S, NEW q \in Seq(S), NEW m \in S, Len(q) <= Room, NEW s \in Sent(q, m)
    PROVE  /\ s \in Seq(S) /\ Len(s) <= Room /\ Len(q) <= Len(s)
           /\ Len(q) \in Nat /\ Len(s) \in Nat
           /\ \A i \in 1..Len(q) : s[i] = q[i]
           /\ \A i \in Len(q) + 1..Len(s) : s[i] = m
<1>0. Room \in Nat
  BY ConstantsAssumption
<1>1. CASE s = q
  BY <1>0, <1>1
<1>2. CASE s = Append(q, m) /\ Len(s) <= Room
  BY <1>0, <1>2
<1>3. CASE s = q \o <<m, m>> /\ Len(s) <= Room
  BY <1>0, <1>3
<1> QED
  BY <1>0, <1>1, <1>2, <1>3 DEF Sent

\* What is left of a buffer after its first datagram was received.
LEMMA TailSeq ==
    ASSUME NEW S, NEW q \in Seq(S), q # <<>>
    PROVE  /\ Tail(q) \in Seq(S) /\ Len(Tail(q)) = Len(q) - 1
           /\ \A i \in 1..Len(Tail(q)) : Tail(q)[i] = q[i + 1]
           /\ Head(q) \in S /\ Head(q) = q[1] /\ Len(q) > 0
  OBVIOUS

\* Two neighbouring block numbers differ on the wire.
LEMMA Neighbours == \A n \in Nat : Wire(n) # Wire(n + 1)
<1>1. SUFFICES ASSUME NEW n \in Nat, n % Wrap = (n + 1) % Wrap PROVE FALSE
  BY DEF Wire
<1> DEFINE a == n \div Wrap
           b == (n + 1) \div Wrap
<1>2. Wrap \in Nat /\ Wrap > 1
  BY ConstantsAssumption
<1>3. a \in Int /\ b \in Int
  BY <1>2
<1>4. n = Wrap * a + (n % Wrap)
  BY <1>2
<1>5. n + 1 = Wrap * b + ((n + 1) % Wrap)
  BY <1>2
<1>6. n % Wrap \in Int
  BY <1>2
<1> HIDE DEF a, b
<1>7. Wrap * b = Wrap * a + 1
  BY <1>1, <1>2, <1>3, <1>4, <1>5, <1>6
<1>8. CASE b <= a
  <2>1. Wrap * b <= Wrap * a
    BY <1>2, <1>3, <1>8
  <2> QED
    BY <1>2, <1>3, <1>7, <2>1
<1>9. CASE b >= a + 1
  <2>1. Wrap * b >= Wrap * (a + 1)
    BY <1>2, <1>3, <1>9
  <2>2. Wrap * (a + 1) = Wrap * a + Wrap
    BY <1>2, <1>3
  <2> QED
    BY <1>2, <1>3, <1>7, <2>1, <2>2
<1> QED
  BY <1>3, <1>8, <1>9

LEMMA OtherBlock == ASSUME NEW n \in Nat, n > 0 PROVE Wire(n - 1) # Wire(n)
<1>1. n - 1 \in Nat /\ (n - 1) + 1 = n
  OBVIOUS
<1> QED
  BY <1>1, Neighbours

\* A datagram to the peer reaches the buffer of the board, if it listens there.
LEMMA ToPeerSends ==
    ASSUME TypeOK, NEW p, NEW m \in Packets, ToPeer(p, m)
    PROVE  /\ toBoard' \in Seq(Packets) /\ Len(toBoard') <= Room
           /\ Len(toBoard) <= Len(toBoard') /\ Len(toBoard) \in Nat /\ Len(toBoard') \in Nat
           /\ \A i \in 1..Len(toBoard) : toBoard'[i] = toBoard[i]
           /\ \A i \in Len(toBoard) + 1..Len(toBoard') : toBoard'[i] = m
           /\ p # port => toBoard' = toBoard
<1>1. toBoard \in Seq(Packets) /\ Len(toBoard) <= Room
  BY DEF TypeOK
<1>2. CASE p = port
  BY <1>1, <1>2, SentSeq DEF ToPeer
<1>3. CASE p # port
  BY <1>1, <1>3 DEF ToPeer
<1> QED
  BY <1>2, <1>3

\* A datagram of the client carries its current port.
LEMMA PostSends ==
    ASSUME TypeOK, port' \in 1..Starts, NEW m \in Packets, Post(m)
    PROVE  /\ toServer' \in Seq(Mail) /\ Len(toServer') <= Room
           /\ Len(toServer) <= Len(toServer') /\ Len(toServer) \in Nat /\ Len(toServer') \in Nat
           /\ \A i \in 1..Len(toServer) : toServer'[i] = toServer[i]
           /\ \A i \in Len(toServer) + 1..Len(toServer') : toServer'[i] = [from |-> port', what |-> m]
<1>1. toServer \in Seq(Mail) /\ Len(toServer) <= Room
  BY DEF TypeOK
<1>2. [from |-> port', what |-> m] \in Mail
  BY DEF Mail
<1> QED
  BY <1>1, <1>2, SentSeq DEF Post

LEMMA Sizes == /\ Blocks \in Nat /\ Blocks > 0 /\ Starts \in Nat /\ Starts > 0
               /\ Room \in Nat /\ ServerTries \in Nat /\ ClientTries \in Nat
               /\ Rescues \subseteq BOOLEAN /\ ServerTries > 0
  BY ConstantsAssumption

\* The types the other parts of the invariant need.
LEMMA Types ==
    ASSUME TypeOK
    PROVE  /\ toServer \in Seq(Mail) /\ toBoard \in Seq(Packets) /\ got \in Seq(1..Blocks)
           /\ Len(toServer) \in Nat /\ Len(toBoard) \in Nat /\ Len(got) \in Nat
           /\ block \in Nat /\ expected \in Nat /\ expected > 0 /\ port \in Nat /\ peer \in Nat
           /\ last.op \in Ops /\ last.n \in Nat /\ rescue \in BOOLEAN
           /\ \A i \in 1..Len(toServer) : /\ toServer[i] \in Mail /\ toServer[i].from \in Nat
                                          /\ toServer[i].what.n \in Nat
           /\ \A i \in 1..Len(toBoard) : toBoard[i] \in Packets /\ toBoard[i].n \in Nat
<1> USE Sizes
<1>1. /\ toServer \in Seq(Mail) /\ toBoard \in Seq(Packets) /\ got \in Seq(1..Blocks)
      /\ block \in Nat /\ expected \in Nat /\ expected > 0 /\ port \in Nat /\ peer \in Nat
      /\ last \in Packets /\ rescue \in BOOLEAN
  BY DEF TypeOK
<1>2. \A p \in Packets : p.op \in Ops /\ p.n \in Nat
  BY DEF Packets
<1>3. \A m \in Mail : m.from \in Nat /\ m.what.n \in Nat
  BY <1>2 DEF Mail
<1> HIDE DEF Packets, Mail
<1> QED
  BY <1>1, <1>2, <1>3

\* The server receives the first datagram of its buffer.
LEMMA ServerHears ==
    ASSUME TypeOK, toServer # <<>>, toServer' = Tail(toServer), port' = port
    PROVE  /\ toServer' \in Seq(Mail) /\ Len(toServer') = Len(toServer) - 1 /\ Len(toServer') \in Nat
           /\ Head(toServer) = toServer[1] /\ Len(toServer) > 0 /\ Head(toServer) \in Mail
           /\ \A i \in 1..Len(toServer') : /\ i + 1 \in 1..Len(toServer)
                                           /\ toServer'[i] = toServer[i + 1]
                                           /\ Acks(i)' <=> Acks(i + 1)
<1>1. /\ toServer' \in Seq(Mail) /\ Len(toServer') = Len(toServer) - 1
      /\ \A i \in 1..Len(toServer') : toServer'[i] = toServer[i + 1]
      /\ Head(toServer) = toServer[1] /\ Len(toServer) > 0 /\ Head(toServer) \in Mail
  BY Types, TailSeq
<1>2. \A i \in 1..Len(toServer') : i + 1 \in 1..Len(toServer)
  BY <1>1, Types
<1>3. \A i \in 1..Len(toServer') : Acks(i)' <=> Acks(i + 1)
  BY <1>1 DEF Acks
<1> QED
  BY <1>1, <1>2, <1>3, Types

\* The board receives the first datagram of its buffer.
LEMMA BoardHears ==
    ASSUME TypeOK, toBoard # <<>>, toBoard' = Tail(toBoard)
    PROVE  /\ toBoard' \in Seq(Packets) /\ Len(toBoard') = Len(toBoard) - 1 /\ Len(toBoard') \in Nat
           /\ Head(toBoard) = toBoard[1] /\ Len(toBoard) > 0 /\ Head(toBoard) \in Packets
           /\ \A i \in 1..Len(toBoard') : /\ i + 1 \in 1..Len(toBoard)
                                          /\ toBoard'[i] = toBoard[i + 1]
  BY Types, TailSeq

\* What the client posts is the only datagram that can be new to the server.
LEMMA ClientPosts ==
    ASSUME TypeOK, port' = port, port \in 1..Starts, NEW m \in Packets, Post(m)
    PROVE  /\ toServer' \in Seq(Mail) /\ Len(toServer') <= Room
           /\ Len(toServer) <= Len(toServer') /\ Len(toServer) \in Nat /\ Len(toServer') \in Nat
           /\ \A i \in 1..Len(toServer) : toServer'[i] = toServer[i] /\ (Acks(i)' <=> Acks(i))
           /\ \A i \in Len(toServer) + 1..Len(toServer') :
                 /\ toServer'[i].from = port /\ toServer'[i].what = m
                 /\ Acks(i)' <=> m.op = "ack"
<1>1. /\ toServer' \in Seq(Mail) /\ Len(toServer') <= Room
      /\ Len(toServer) <= Len(toServer') /\ Len(toServer) \in Nat /\ Len(toServer') \in Nat
      /\ \A i \in 1..Len(toServer) : toServer'[i] = toServer[i]
      /\ \A i \in Len(toServer) + 1..Len(toServer') : toServer'[i] = [from |-> port, what |-> m]
  BY PostSends
<1> QED
  BY <1>1 DEF Acks

\* The server's packets.
LEMMA Currents ==
    /\ \A b \in 0..Blocks : /\ Current(b) \in Packets /\ Place(Current(b)) = b
                            /\ Current(b).op = "oack" => Current(b).n = 0
                            /\ Current(b).op # "oack" => Current(b).op = "data" /\ Current(b).n > 0
    /\ Current(0) = Packet("oack", 0)
<1>1. ASSUME NEW b \in 0..Blocks
      PROVE  /\ Current(b) \in Packets /\ Place(Current(b)) = b
             /\ Current(b).op = "oack" => Current(b).n = 0
             /\ Current(b).op # "oack" => Current(b).op = "data" /\ Current(b).n > 0
  <2>1. CASE b = 0
    <3>1. Current(b) = Packet("oack", 0) /\ 0 \in 0..Blocks
      BY <2>1, Sizes DEF Current
    <3>2. Packet("oack", 0) \in Packets
      BY <3>1 DEF Packet, Packets, Ops
    <3>3. Packet("oack", 0).op = "oack" /\ Packet("oack", 0).n = 0
      BY DEF Packet
    <3> QED
      BY <2>1, <3>1, <3>2, <3>3 DEF Place
  <2>2. CASE b # 0
    <3>1. Current(b) = Packet("data", b) /\ b > 0
      BY <2>2, Sizes DEF Current
    <3> QED
      BY <3>1 DEF Packet, Packets, Ops, Place
  <2> QED
    BY <2>1, <2>2
<1> QED
  BY <1>1 DEF Current

(***************************************************************************)
(* The server's turns.                                                     *)
(***************************************************************************)
LEMMA InitHolds == Init => IInv
<1> SUFFICES ASSUME Init PROVE IInv
  OBVIOUS
<1> USE Sizes DEF Init
<1>1. TypeOK
  BY DEF TypeOK, Packet, Packets, Ops, Mail
<1>2. Control /\ Prefix /\ FromServer
  BY DEF Control, Prefix, FromServer, Packet
<1>3. Acknowledgements /\ Unserved /\ Abreast
  BY DEF Acknowledgements, Unserved, Abreast, Packet, Acks
<1>4. BoardOrder /\ AckOrder
  BY DEF BoardOrder, AckOrder
<1> QED
  BY <1>1, <1>2, <1>3, <1>4 DEF IInv, InOrder

\* A packet of the place it is at, sent to the peer, keeps what is known of the
\* datagrams to the board.
LEMMA ToPeerOrder ==
    ASSUME TypeOK, FromServer, BoardOrder, Unserved, Abreast,
           block' = block, ToPeer(peer, Current(block)),
           UNCHANGED <<rescue, peer, port, expected>>
    PROVE  FromServer' /\ BoardOrder' /\ (peer # port => toBoard' = toBoard)
<1>1. block \in 0..Blocks
  BY DEF TypeOK
<1>2. /\ Len(toBoard) <= Len(toBoard') /\ Len(toBoard) \in Nat /\ Len(toBoard') \in Nat
      /\ \A i \in 1..Len(toBoard) : toBoard'[i] = toBoard[i]
      /\ \A i \in Len(toBoard) + 1..Len(toBoard') : toBoard'[i] = Current(block)
      /\ peer # port => toBoard' = toBoard
  BY <1>1, Currents, ToPeerSends
<1>3. \A i \in 1..Len(toBoard') : i \in 1..Len(toBoard) \/ i \in Len(toBoard) + 1..Len(toBoard')
  BY <1>2
<1>4. FromServer'
  BY <1>1, <1>2, <1>3, Currents DEF FromServer
<1>5. BoardOrder'
  <2>1. Place(Current(block)) = block /\ block \in Nat
    BY <1>1, Currents
  <2>2. CASE ~rescue
    <3>1. \A i \in 1..Len(toBoard) : /\ Place(toBoard'[i]) \in {block - 1, block}
                                     /\ expected = block + 1 => Place(toBoard'[i]) = block
      BY <1>2, <2>2 DEF BoardOrder
    <3>2. \A i \in Len(toBoard) + 1..Len(toBoard') : Place(toBoard'[i]) = block
      BY <1>2, <2>1
    <3>3. \A i, j \in 1..Len(toBoard) : i < j => Place(toBoard'[i]) <= Place(toBoard'[j])
      BY <1>2, <2>2 DEF BoardOrder
    <3>4. \A i, j \in 1..Len(toBoard') : i < j => Place(toBoard'[i]) <= Place(toBoard'[j])
      BY <1>2, <1>3, <2>1, <3>1, <3>2, <3>3
    <3>5. \A i \in 1..Len(toBoard') : /\ Place(toBoard'[i]) \in {block - 1, block}
                                      /\ expected = block + 1 => Place(toBoard'[i]) = block
      BY <1>3, <3>1, <3>2
    <3> QED
      BY <3>4, <3>5 DEF BoardOrder
  <2>3. CASE rescue
    BY <2>3 DEF BoardOrder
  <2> QED
    BY <2>2, <2>3
<1> QED
  BY <1>2, <1>4, <1>5

\* A datagram received from the board leaves the rest in order.
LEMMA AckOrderHears ==
    ASSUME TypeOK, AckOrder, toServer # <<>>, toServer' = Tail(toServer),
           UNCHANGED <<rescue, port, expected, block>>
    PROVE  AckOrder'
<1>1. /\ Len(toServer') \in Nat
      /\ \A i \in 1..Len(toServer') : /\ i + 1 \in 1..Len(toServer)
                                      /\ toServer'[i] = toServer[i + 1]
                                      /\ Acks(i)' <=> Acks(i + 1)
  BY ServerHears
<1>2. CASE ~rescue
  <2>1. \A i \in 1..Len(toServer') : Acks(i)' =>
          /\ toServer'[i].what.n \in {block - 1, block}
          /\ expected = block => toServer'[i].what.n = block - 1
    BY <1>1, <1>2 DEF AckOrder
  <2>2. \A i, j \in 1..Len(toServer') : i < j /\ Acks(i)' /\ Acks(j)' =>
          toServer'[i].what.n <= toServer'[j].what.n
    BY <1>1, <1>2 DEF AckOrder
  <2> QED
    BY <2>1, <2>2 DEF AckOrder
<1>3. CASE rescue
  BY <1>3 DEF AckOrder
<1> QED
  BY <1>2, <1>3

LEMMA HearRequestKeeps == IInv /\ HearRequest => IInv'
<1> SUFFICES ASSUME IInv, HearRequest PROVE IInv'
  OBVIOUS
<1> USE Sizes DEF IInv, InOrder
<1>0. /\ call = "request" /\ toServer # <<>> /\ toServer' = Tail(toServer)
      /\ UNCHANGED <<rescue, board, port, expected, got, last, waits>>
  BY DEF HearRequest, client
<1>1. /\ toServer' \in Seq(Mail) /\ Len(toServer') = Len(toServer) - 1 /\ Len(toServer') \in Nat
      /\ Head(toServer) = toServer[1] /\ Len(toServer) > 0 /\ Head(toServer) \in Mail
      /\ \A i \in 1..Len(toServer') : /\ i + 1 \in 1..Len(toServer)
                                      /\ toServer'[i] = toServer[i + 1]
                                      /\ Acks(i)' <=> Acks(i + 1)
  BY <1>0, ServerHears
<1>2. CASE Head(toServer).what.op = "rrq"
  <2> DEFINE from == Head(toServer).from
  <2>1. /\ call' = "option" /\ peer' = from /\ block' = 0 /\ tries' = 0
        /\ ToPeer(from, Current(0))
    BY <1>2 DEF HearRequest
  <2>2. from \in 1..Starts /\ from <= port
    BY <1>1 DEF Mail, Control
  <2> HIDE DEF from
  <2>3. /\ toBoard' \in Seq(Packets) /\ Len(toBoard') <= Room
        /\ Len(toBoard) <= Len(toBoard') /\ Len(toBoard) \in Nat /\ Len(toBoard') \in Nat
        /\ \A i \in 1..Len(toBoard) : toBoard'[i] = toBoard[i]
        /\ \A i \in Len(toBoard) + 1..Len(toBoard') : toBoard'[i] = Current(0)
        /\ from # port => toBoard' = toBoard
    BY <2>1, Currents, ToPeerSends
  <2>4. \A i \in 1..Len(toBoard') : i \in 1..Len(toBoard) \/ i \in Len(toBoard) + 1..Len(toBoard')
    BY <2>3
  <2>5. Current(0).op = "oack" /\ Current(0).n = 0 /\ Place(Current(0)) = 0
    BY DEF Current, Packet, Place
  <2>6. TypeOK'
    BY <1>0, <1>1, <2>1, <2>2, <2>3 DEF TypeOK
  <2>7. Control'
    <3>1. \A i \in 1..Len(toServer') : toServer'[i].from <= port
      BY <1>1 DEF Control
    <3>2. port > 0
      BY <1>0, <1>1 DEF Control, TypeOK
    <3> QED
      BY <1>0, <2>1, <2>2, <3>1, <3>2 DEF Control
  <2>8. Prefix' /\ FromServer'
    BY <1>0, <2>3, <2>4, <2>5 DEF Prefix, FromServer
  <2>9. Acknowledgements'
    BY <1>0, <1>1, <2>1, Types DEF Acknowledgements
  <2>10. peer # port
    BY <1>0, <2>2, Types DEF Control
  <2>11. CASE ~rescue
    <3>1. /\ toBoard = <<>> /\ expected = 1 /\ last.op = "rrq"
          /\ \A i \in 1..Len(toServer) : ~Acks(i)
      BY <2>10, <2>11 DEF Unserved
    <3>2. \A i \in 1..Len(toServer') : ~Acks(i)'
      BY <1>1, <3>1
    <3>3. Unserved' /\ Abreast'
      BY <1>0, <2>1, <2>3, <3>1, <3>2 DEF Unserved, Abreast
    <3>4. \A i \in 1..Len(toBoard') : Place(toBoard'[i]) = 0
      BY <2>3, <2>4, <2>5, <3>1
    <3>5. BoardOrder'
      BY <2>1, <3>4 DEF BoardOrder
    <3>6. AckOrder'
      BY <3>2 DEF AckOrder
    <3> QED
      BY <2>6, <2>7, <2>8, <2>9, <3>3, <3>5, <3>6
  <2>12. CASE rescue
    BY <1>0, <2>6, <2>7, <2>8, <2>9, <2>12 DEF Unserved, Abreast, BoardOrder, AckOrder
  <2> QED
    BY <2>11, <2>12
<1>3. CASE Head(toServer).what.op # "rrq"
  <2>1. UNCHANGED <<call, peer, block, tries, toBoard>>
    BY <1>3 DEF HearRequest, server
  <2>2. TypeOK'
    BY <1>0, <1>1, <2>1 DEF TypeOK
  <2>3. Control' /\ Prefix' /\ FromServer'
    <3>1. \A i \in 1..Len(toServer') : toServer'[i].from <= port
      BY <1>1 DEF Control
    <3>2. port > 0
      BY <1>0, <1>1 DEF Control, TypeOK
    <3> QED
      BY <1>0, <2>1, <3>1, <3>2 DEF Control, Prefix, FromServer
  <2>4. Acknowledgements' /\ Unserved' /\ Abreast'
    BY <1>0, <1>1, <2>1 DEF Acknowledgements, Unserved, Abreast
  <2>5. BoardOrder'
    BY <1>0, <2>1 DEF BoardOrder
  <2>6. AckOrder'
    BY <1>0, <2>1, AckOrderHears
  <2> QED
    BY <2>2, <2>3, <2>4, <2>5, <2>6
<1> QED
  BY <1>2, <1>3

\* What the loops break on: the peer's acknowledgement of the packet they send,
\* which the board has written.
LEMMA AcknowledgedIsWritten ==
    ASSUME IInv, toServer # <<>>, Acknowledged(Head(toServer)), peer = port
    PROVE  /\ Head(toServer) = toServer[1] /\ 1 \in 1..Len(toServer) /\ Acks(1)
           /\ toServer[1].what.n = block
           /\ block < expected
           /\ ~rescue => expected = block + 1
<1> USE DEF IInv, InOrder
<1>1. Head(toServer) = toServer[1] /\ 1 \in 1..Len(toServer)
  BY Types, TailSeq
<1>2. Acks(1) /\ Wire(toServer[1].what.n) = Wire(block)
  BY <1>1 DEF Acknowledged, Acks
<1>3. toServer[1].what.n \in Nat /\ toServer[1].what.n < expected
  BY <1>1, <1>2, Types DEF Acknowledgements
<1>4. block \in Nat /\ expected \in Nat
  BY Types
<1>5. CASE rescue
  BY <1>1, <1>2, <1>3, <1>4, <1>5 DEF Wire
<1>6. CASE ~rescue
  <2>1. toServer[1].what.n \in {block - 1, block}
    BY <1>1, <1>2, <1>6 DEF AckOrder
  <2>2. toServer[1].what.n = block
    <3>1. CASE block > 0
      BY <1>2, <1>3, <1>4, <2>1, <3>1, OtherBlock
    <3>2. CASE block = 0
      BY <1>3, <2>1, <3>2
    <3> QED
      BY <1>4, <3>1, <3>2
  <2>3. expected # block
    BY <1>3, <1>4, <2>2
  <2>4. expected <= block + 1
    BY <1>6 DEF Abreast
  <2> QED
    BY <1>1, <1>2, <1>3, <1>4, <2>2, <2>3, <2>4
<1> QED
  BY <1>5, <1>6

LEMMA HearAckKeeps == IInv /\ HearAck => IInv'
<1> SUFFICES ASSUME IInv, HearAck PROVE IInv'
  OBVIOUS
<1> USE Sizes DEF IInv, InOrder
<1>0. /\ call \in {"option", "data"} /\ toServer # <<>> /\ Acknowledged(Head(toServer))
      /\ toServer' = Tail(toServer)
      /\ UNCHANGED <<rescue, peer, board, port, expected, got, last, waits>>
  BY DEF HearAck, client
<1>1. /\ toServer' \in Seq(Mail) /\ Len(toServer') = Len(toServer) - 1 /\ Len(toServer') \in Nat
      /\ \A i \in 1..Len(toServer') : /\ i + 1 \in 1..Len(toServer)
                                      /\ toServer'[i] = toServer[i + 1]
                                      /\ Acks(i)' <=> Acks(i + 1)
  BY <1>0, ServerHears
<1>2. /\ \A i \in 1..Len(toServer') : toServer'[i].from <= port
      /\ \A i \in 1..Len(toServer') : Acks(i)' => toServer'[i].what.n < expected
      /\ peer > 0 /\ port > 0 /\ block \in 0..Blocks /\ peer \in Nat /\ port \in Nat
  BY <1>0, <1>1, Types DEF Control, TypeOK, Acknowledgements
<1>3. CASE block = Blocks
  <2>1. call' = "done" /\ UNCHANGED <<block, tries, toBoard>>
    BY <1>3 DEF HearAck
  <2>2. TypeOK'
    BY <1>0, <1>1, <2>1 DEF TypeOK
  <2>3. Control' /\ Prefix' /\ FromServer'
    BY <1>0, <1>2, <1>3, <2>1 DEF Control, Prefix, FromServer
  <2>4. peer = port => board = "done"
    BY <1>0, <1>3, AcknowledgedIsWritten DEF Prefix, TypeOK
  <2>5. Acknowledgements'
    BY <1>0, <1>2, <2>1, <2>4 DEF Acknowledgements
  <2>6. Unserved' /\ Abreast' /\ BoardOrder'
    BY <1>0, <1>1, <2>1 DEF Unserved, Abreast, BoardOrder
  <2>7. AckOrder'
    BY <1>0, <2>1, AckOrderHears
  <2> QED
    BY <2>2, <2>3, <2>5, <2>6, <2>7
<1>4. CASE block # Blocks
  <2>1. /\ call' = "data" /\ block' = block + 1 /\ tries' = 0 /\ ToPeer(peer, Current(block + 1))
        /\ block + 1 \in 0..Blocks
    BY <1>2, <1>4 DEF HearAck
  <2>2. /\ Current(block + 1) \in Packets /\ Place(Current(block + 1)) = block + 1
        /\ Current(block + 1).op # "oack" /\ Current(block + 1).op = "data" /\ Current(block + 1).n > 0
    BY <1>2, <2>1, Currents DEF Place
  <2>3. /\ toBoard' \in Seq(Packets) /\ Len(toBoard') <= Room
        /\ Len(toBoard) <= Len(toBoard') /\ Len(toBoard) \in Nat /\ Len(toBoard') \in Nat
        /\ \A i \in 1..Len(toBoard) : toBoard'[i] = toBoard[i]
        /\ \A i \in Len(toBoard) + 1..Len(toBoard') : toBoard'[i] = Current(block + 1)
        /\ peer # port => toBoard' = toBoard
    BY <2>1, <2>2, ToPeerSends
  <2>4. \A i \in 1..Len(toBoard') : i \in 1..Len(toBoard) \/ i \in Len(toBoard) + 1..Len(toBoard')
    BY <2>3
  <2>5. TypeOK'
    BY <1>0, <1>1, <2>1, <2>3 DEF TypeOK
  <2>6. Control' /\ Prefix'
    BY <1>0, <1>2, <2>1 DEF Control, Prefix
  <2>7. FromServer'
    BY <2>2, <2>3, <2>4 DEF FromServer
  <2>8. Acknowledgements'
    BY <1>0, <1>2, <2>1, AcknowledgedIsWritten, Types DEF Acknowledgements
  <2>9. CASE rescue
    BY <1>0, <2>5, <2>6, <2>7, <2>8, <2>9 DEF Unserved, Abreast, BoardOrder, AckOrder
  <2>10. CASE ~rescue /\ peer # port
    <3>1. /\ toBoard' = <<>> /\ expected = 1 /\ last.op = "rrq"
          /\ \A i \in 1..Len(toServer') : ~Acks(i)'
      BY <1>1, <2>3, <2>10 DEF Unserved
    <3>2. Unserved' /\ Abreast' /\ BoardOrder' /\ AckOrder'
      BY <1>0, <2>10, <3>1 DEF Unserved, Abreast, BoardOrder, AckOrder
    <3> QED
      BY <2>5, <2>6, <2>7, <2>8, <3>2
  <2>11. CASE ~rescue /\ peer = port
    <3>1. /\ 1 \in 1..Len(toServer) /\ Acks(1) /\ toServer[1].what.n = block
          /\ expected = block + 1
      BY <1>0, <2>11, AcknowledgedIsWritten
    <3>2. Unserved' /\ Abreast'
      BY <1>0, <1>2, <2>1, <2>11, <3>1 DEF Unserved, Abreast
    <3>3. \A i \in 1..Len(toBoard) : Place(toBoard'[i]) = block
      BY <2>3, <2>11, <3>1 DEF BoardOrder
    <3>4. \A i \in Len(toBoard) + 1..Len(toBoard') : Place(toBoard'[i]) = block + 1
      BY <2>2, <2>3
    <3>5. \A i \in 1..Len(toBoard') : Place(toBoard'[i]) \in {block, block + 1}
      BY <2>4, <3>3, <3>4
    <3>6. \A i, j \in 1..Len(toBoard') : i < j => Place(toBoard'[i]) <= Place(toBoard'[j])
      BY <1>2, <2>3, <2>4, <3>3, <3>4
    <3>7. expected' # block' + 1 /\ block' - 1 = block /\ expected' = block'
      BY <1>0, <1>2, <2>1, <3>1
    <3>8. BoardOrder'
      BY <2>1, <3>5, <3>6, <3>7 DEF BoardOrder
    <3>9. \A i \in 1..Len(toServer') : Acks(i)' => toServer'[i].what.n = block
      <4>1. \A i \in 1..Len(toServer) : i > 1 /\ Acks(i) =>
              block <= toServer[i].what.n /\ toServer[i].what.n \in {block - 1, block}
        BY <2>11, <3>1 DEF AckOrder
      <4> QED
        BY <1>1, <1>2, <4>1
    <3>10. AckOrder'
      BY <1>2, <3>7, <3>9 DEF AckOrder
    <3> QED
      BY <2>5, <2>6, <2>7, <2>8, <3>2, <3>8, <3>10
  <2> QED
    BY <2>9, <2>10, <2>11
<1> QED
  BY <1>3, <1>4

LEMMA HearOtherKeeps == IInv /\ HearOther => IInv'
<1> SUFFICES ASSUME IInv, HearOther PROVE IInv'
  OBVIOUS
<1> USE Sizes DEF IInv, InOrder
<1>0. /\ toServer # <<>> /\ toServer' = Tail(toServer) /\ ToPeer(peer, Current(block))
      /\ UNCHANGED <<rescue, call, peer, block, tries, board, port, expected, got, last, waits>>
      /\ block \in 0..Blocks
  BY DEF HearOther, client, server, TypeOK
<1>1. /\ toServer' \in Seq(Mail) /\ Len(toServer') = Len(toServer) - 1 /\ Len(toServer') \in Nat
      /\ \A i \in 1..Len(toServer') : /\ i + 1 \in 1..Len(toServer)
                                      /\ toServer'[i] = toServer[i + 1]
                                      /\ Acks(i)' <=> Acks(i + 1)
  BY <1>0, ServerHears
<1>2. toBoard' \in Seq(Packets) /\ Len(toBoard') <= Room
  BY <1>0, Currents, ToPeerSends
<1>3. FromServer' /\ BoardOrder' /\ (peer # port => toBoard' = toBoard)
  BY <1>0, ToPeerOrder
<1>4. port > 0
  BY <1>0, <1>1 DEF Control, TypeOK
<1>5. TypeOK'
  BY <1>0, <1>1, <1>2 DEF TypeOK
<1>6. Control' /\ Prefix'
  BY <1>0, <1>1, <1>4 DEF Control, Prefix
<1>7. Acknowledgements' /\ Unserved' /\ Abreast'
  BY <1>0, <1>1, <1>3 DEF Acknowledgements, Unserved, Abreast
<1>8. AckOrder'
  BY <1>0, AckOrderHears
<1> QED
  BY <1>3, <1>5, <1>6, <1>7, <1>8

LEMMA ServerTimeoutKeeps == IInv /\ ServerTimeout => IInv'
<1> SUFFICES ASSUME IInv, ServerTimeout PROVE IInv'
  OBVIOUS
<1> USE Sizes DEF IInv, InOrder
<1>0. /\ call \in {"option", "data"} /\ tries' = tries + 1
      /\ UNCHANGED <<rescue, peer, block, toServer, board, port, expected, got, last, waits>>
      /\ block \in 0..Blocks
  BY DEF ServerTimeout, client, TypeOK
<1>1. port > 0
  BY <1>0, Types DEF Control
<1>2. Prefix'
  BY <1>0 DEF Prefix
<1>3. AckOrder'
  BY <1>0 DEF AckOrder, Acks
<1>4. CASE tries + 1 = ServerTries
  <2>1. call' = "failed" /\ toBoard' = toBoard
    BY <1>4 DEF ServerTimeout
  <2>2. TypeOK'
    BY <1>0, <1>4, <2>1 DEF TypeOK
  <2>3. Control' /\ FromServer' /\ BoardOrder'
    BY <1>0, <1>1, <2>1 DEF Control, FromServer, BoardOrder
  <2>4. Acknowledgements' /\ Unserved' /\ Abreast'
    BY <1>0, <2>1 DEF Acknowledgements, Unserved, Abreast, Acks
  <2> QED
    BY <1>2, <1>3, <2>2, <2>3, <2>4
<1>5. CASE tries + 1 # ServerTries
  <2>1. call' = call /\ ToPeer(peer, Current(block))
    BY <1>5 DEF ServerTimeout
  <2>2. toBoard' \in Seq(Packets) /\ Len(toBoard') <= Room
    BY <1>0, <2>1, Currents, ToPeerSends
  <2>3. FromServer' /\ BoardOrder' /\ (peer # port => toBoard' = toBoard)
    BY <1>0, <2>1, ToPeerOrder
  <2>4. TypeOK'
    <3>1. tries' \in 0..ServerTries
      BY <1>0, <1>5 DEF TypeOK, Control
    <3> QED
      BY <1>0, <2>1, <2>2, <3>1 DEF TypeOK
  <2>5. Control'
    BY <1>0, <1>1, <1>5, <2>1 DEF Control, TypeOK
  <2>6. Acknowledgements' /\ Unserved' /\ Abreast'
    BY <1>0, <2>1, <2>3 DEF Acknowledgements, Unserved, Abreast, Acks
  <2> QED
    BY <1>2, <1>3, <2>3, <2>4, <2>5, <2>6
<1> QED
  BY <1>4, <1>5

\* Between two calls the buffers stay as they are, or the server's is emptied.
LEMMA RequestTimeoutKeeps == IInv /\ RequestTimeout => IInv'
<1> SUFFICES ASSUME IInv, RequestTimeout PROVE IInv'
  OBVIOUS
<1> USE DEF IInv, InOrder
<1>0. /\ call' = "failed"
      /\ UNCHANGED <<rescue, peer, block, tries, toServer, toBoard, board, port, expected, got, last, waits>>
  BY DEF RequestTimeout, client
<1>1. TypeOK'
  BY <1>0 DEF TypeOK
<1>2. Control' /\ Prefix' /\ FromServer' /\ BoardOrder'
  BY <1>0 DEF Control, Prefix, FromServer, BoardOrder
<1>3. Acknowledgements' /\ Unserved' /\ Abreast' /\ AckOrder'
  BY <1>0 DEF Acknowledgements, Unserved, Abreast, AckOrder, Acks
<1> QED
  BY <1>1, <1>2, <1>3

LEMMA ServeAgainKeeps == IInv /\ ServeAgain => IInv'
<1> SUFFICES ASSUME IInv, ServeAgain PROVE IInv'
  OBVIOUS
<1> USE Sizes DEF IInv, InOrder
<1>0. /\ rescue /\ rescue' /\ call' = "request" /\ peer' = 0 /\ block' = 0 /\ tries' = 0
      /\ toServer' = toServer \/ toServer' = <<>>
      /\ UNCHANGED <<toBoard, board, port, expected, got, last, waits>>
  BY DEF ServeAgain, client
<1>1. TypeOK'
  <2>1. toServer' \in Seq(Mail) /\ Len(toServer') <= Room
    <3>1. toServer \in Seq(Mail) /\ Len(toServer) <= Room
      BY DEF TypeOK
    <3>2. <<>> \in Seq(Mail) /\ Len(<<>>) <= Room
      OBVIOUS
    <3>3. toServer' = toServer \/ toServer' = <<>>
      BY <1>0
    <3> QED
      BY <3>1, <3>2, <3>3
  <2>2. rescue' \in BOOLEAN
    BY DEF ServeAgain, TypeOK
  <2> QED
    BY <1>0, <2>1, <2>2 DEF TypeOK
<1>2. Control' /\ Prefix' /\ FromServer'
  BY <1>0, Types DEF Control, Prefix, FromServer
<1>3. Acknowledgements'
  BY <1>0, Types DEF Acknowledgements, Acks
<1>4. Unserved' /\ Abreast' /\ BoardOrder' /\ AckOrder'
  BY <1>0 DEF Unserved, Abreast, BoardOrder, AckOrder
<1> QED
  BY <1>1, <1>2, <1>3, <1>4

(***************************************************************************)
(* The board's turns.                                                      *)
(***************************************************************************)
\* Nothing that was on its way before a restart comes from the new port.
LEMMA StartKeeps == IInv /\ Start => IInv'
<1> SUFFICES ASSUME IInv, Start PROVE IInv'
  OBVIOUS
<1> USE Sizes DEF IInv, InOrder
<1> DEFINE request == Packet("rrq", 0)
<1>0. /\ port < Starts /\ port' = port + 1 /\ board' = "asking" /\ expected' = 1 /\ got' = <<>>
      /\ last' = request /\ waits' = 0 /\ toBoard' = <<>> /\ Post(request)
      /\ UNCHANGED <<rescue, call, peer, block, tries>>
  BY DEF Start, server
<1>1. request \in Packets /\ request.op = "rrq"
  BY DEF Packet, Packets, Ops
<1> HIDE DEF request
<1>2. port' \in 1..Starts /\ port \in Nat /\ peer \in Nat /\ peer <= port
  BY <1>0, Types DEF Control
<1>3. /\ toServer' \in Seq(Mail) /\ Len(toServer') <= Room
      /\ Len(toServer) <= Len(toServer') /\ Len(toServer) \in Nat /\ Len(toServer') \in Nat
      /\ \A i \in 1..Len(toServer) : toServer'[i] = toServer[i]
      /\ \A i \in Len(toServer) + 1..Len(toServer') : toServer'[i] = [from |-> port', what |-> request]
  BY <1>0, <1>1, <1>2, PostSends
<1>4. \A i \in 1..Len(toServer') : i \in 1..Len(toServer) \/ i \in Len(toServer) + 1..Len(toServer')
  BY <1>3
<1>5. \A i \in 1..Len(toServer') : toServer'[i].from <= port'
  <2>1. \A i \in 1..Len(toServer) : toServer'[i].from <= port /\ toServer'[i].from \in Nat
    BY <1>3, Types DEF Control
  <2>2. \A i \in Len(toServer) + 1..Len(toServer') : toServer'[i].from = port'
    BY <1>3
  <2> QED
    <3>1. \A n, p \in Nat : p <= n => p <= n + 1
      OBVIOUS
    <3> QED
      BY <1>0, <1>2, <1>4, <2>1, <2>2, <3>1
<1>6. \A i \in 1..Len(toServer') : ~Acks(i)'
  <2>1. \A i \in 1..Len(toServer) : toServer'[i].from # port'
    <3>1. \A i \in 1..Len(toServer) : toServer'[i].from <= port /\ toServer'[i].from \in Nat
      BY <1>3, Types DEF Control
    <3>2. \A n, p \in Nat : p <= n => p # n + 1
      OBVIOUS
    <3> QED
      BY <1>0, <1>2, <3>1, <3>2
  <2>2. \A i \in Len(toServer) + 1..Len(toServer') : toServer'[i].what.op = "rrq"
    BY <1>1, <1>3
  <2> QED
    BY <1>4, <2>1, <2>2 DEF Acks
<1>7. TypeOK'
  BY <1>0, <1>1, <1>2, <1>3 DEF TypeOK
<1>8. Control'
  BY <1>0, <1>2, <1>5 DEF Control
<1>9. Prefix' /\ FromServer'
  BY <1>0, <1>1 DEF Prefix, FromServer
<1>10. peer' # port'
  BY <1>0, <1>2
<1>11. Acknowledgements' /\ Unserved' /\ Abreast'
  BY <1>0, <1>1, <1>6, <1>10 DEF Acknowledgements, Unserved, Abreast
<1>12. BoardOrder' /\ AckOrder'
  BY <1>0, <1>6 DEF BoardOrder, AckOrder
<1> QED
  BY <1>7, <1>8, <1>9, <1>11, <1>12

\* A datagram received by the board leaves the rest in order.
LEMMA BoardOrderHears ==
    ASSUME TypeOK, FromServer, BoardOrder, toBoard # <<>>, toBoard' = Tail(toBoard),
           UNCHANGED <<rescue, expected, block>>
    PROVE  FromServer' /\ BoardOrder'
<1>0. rescue' = rescue /\ expected' = expected /\ block' = block
  OBVIOUS
<1>1. /\ Len(toBoard') \in Nat
      /\ \A i \in 1..Len(toBoard') : /\ i + 1 \in 1..Len(toBoard)
                                     /\ toBoard'[i] = toBoard[i + 1]
  BY BoardHears
<1>2. FromServer'
  BY <1>1 DEF FromServer
<1>3. CASE ~rescue
  <2>1. \A i \in 1..Len(toBoard') : /\ Place(toBoard'[i]) \in {block - 1, block}
                                    /\ expected = block + 1 => Place(toBoard'[i]) = block
    BY <1>1, <1>3 DEF BoardOrder
  <2>2. \A i, j \in 1..Len(toBoard') : i < j => Place(toBoard'[i]) <= Place(toBoard'[j])
    BY <1>1, <1>3 DEF BoardOrder
  <2> QED
    BY <1>0, <1>2, <2>1, <2>2 DEF BoardOrder
<1>4. CASE rescue
  BY <1>0, <1>2, <1>4 DEF BoardOrder
<1> QED
  BY <1>2, <1>3, <1>4

\* Posting a read request, or an acknowledgement of the block before the expected
\* one, keeps what is known of the datagrams to the server.
LEMMA AckOrderPosts ==
    ASSUME IInv, port \in 1..Starts, NEW m \in Packets, m.op \in {"rrq", "ack"}, Post(m),
           ~rescue /\ m.op = "ack" => peer = port /\ m.n = expected - 1,
           m.op = "ack" => m.n < expected,
           UNCHANGED <<rescue, block, port, expected>>
    PROVE  /\ AckOrder'
           /\ \A i \in 1..Len(toServer') : /\ toServer'[i].from <= port
                                           /\ Acks(i)' => toServer'[i].what.n < expected
           /\ m.op = "rrq" /\ (\A i \in 1..Len(toServer) : ~Acks(i)) =>
                 \A i \in 1..Len(toServer') : ~Acks(i)'
           /\ toServer' \in Seq(Mail) /\ Len(toServer') <= Room
<1> USE DEF IInv, InOrder
<1>0. rescue' = rescue /\ expected' = expected /\ block' = block
  OBVIOUS
<1>1. /\ toServer' \in Seq(Mail) /\ Len(toServer') <= Room
      /\ Len(toServer) <= Len(toServer') /\ Len(toServer) \in Nat /\ Len(toServer') \in Nat
      /\ \A i \in 1..Len(toServer) : toServer'[i] = toServer[i] /\ (Acks(i)' <=> Acks(i))
      /\ \A i \in Len(toServer) + 1..Len(toServer') :
            /\ toServer'[i].from = port /\ toServer'[i].what = m
            /\ Acks(i)' <=> m.op = "ack"
  BY ClientPosts
<1>2. \A i \in 1..Len(toServer') : i \in 1..Len(toServer) \/ i \in Len(toServer) + 1..Len(toServer')
  BY <1>1
<1>3. \A i \in 1..Len(toServer') : toServer'[i].from <= port
  <2>1. \A i \in 1..Len(toServer) : toServer'[i].from <= port
    BY <1>1 DEF Control
  <2>2. \A i \in Len(toServer) + 1..Len(toServer') : toServer'[i].from <= port
    <3>1. port <= port
      BY Types
    <3> QED
      BY <1>1, <3>1
  <2> QED
    BY <1>2, <2>1, <2>2
<1>4. \A i \in 1..Len(toServer') : Acks(i)' => toServer'[i].what.n < expected
  <2>1. \A i \in 1..Len(toServer) : Acks(i)' => toServer'[i].what.n < expected
    BY <1>1 DEF Acknowledgements
  <2>2. \A i \in Len(toServer) + 1..Len(toServer') : Acks(i)' => toServer'[i].what.n < expected
    BY <1>1
  <2> QED
    BY <1>2, <2>1, <2>2
<1>5. m.op = "rrq" /\ (\A i \in 1..Len(toServer) : ~Acks(i)) => \A i \in 1..Len(toServer') : ~Acks(i)'
  BY <1>1, <1>2
<1>6. CASE ~rescue
  <2>1. /\ \A i \in 1..Len(toServer) : Acks(i)' =>
             /\ toServer'[i].what.n \in {block - 1, block}
             /\ expected = block => toServer'[i].what.n = block - 1
        /\ \A i, j \in 1..Len(toServer) : i < j /\ Acks(i)' /\ Acks(j)' =>
             toServer'[i].what.n <= toServer'[j].what.n
    BY <1>1, <1>6 DEF AckOrder
  <2>2. m.op = "ack" => expected = block \/ expected = block + 1
    BY <1>6, Types DEF Abreast, Acknowledgements
  <2>3. \A i \in Len(toServer) + 1..Len(toServer') : Acks(i)' =>
          /\ toServer'[i].what.n \in {block - 1, block}
          /\ expected = block => toServer'[i].what.n = block - 1
          /\ toServer'[i].what.n = expected - 1
    BY <1>1, <1>6, <2>2, Types
  <2>4. \A i \in 1..Len(toServer) : Acks(i)' => toServer'[i].what.n <= expected - 1
    BY <1>1, Types DEF Acknowledgements
  <2>5. \A i \in 1..Len(toServer') : Acks(i)' =>
          /\ toServer'[i].what.n \in {block - 1, block}
          /\ expected = block => toServer'[i].what.n = block - 1
    BY <1>2, <2>1, <2>3
  <2>6. \A i, j \in 1..Len(toServer') : i < j /\ Acks(i)' /\ Acks(j)' =>
          toServer'[i].what.n <= toServer'[j].what.n
    <3> SUFFICES ASSUME NEW i \in 1..Len(toServer'), NEW j \in 1..Len(toServer'),
                        i < j, Acks(i)', Acks(j)'
                 PROVE  toServer'[i].what.n <= toServer'[j].what.n
      OBVIOUS
    <3>1. CASE j \in 1..Len(toServer)
      <4>1. i \in 1..Len(toServer)
        BY <1>1, <3>1
      <4> QED
        BY <2>1, <3>1, <4>1
    <3>2. CASE j \in Len(toServer) + 1..Len(toServer')
      <4>1. toServer'[j].what.n = expected - 1
        BY <2>3, <3>2
      <4>2. toServer'[i].what.n = expected - 1 \/ toServer'[i].what.n <= expected - 1
        BY <1>2, <2>3, <2>4
      <4> QED
        BY <4>1, <4>2, Types
    <3> QED
      BY <1>2, <3>1, <3>2
  <2> QED
    BY <1>0, <1>1, <1>3, <1>4, <1>5, <1>6, <2>5, <2>6 DEF AckOrder
<1>7. CASE rescue
  BY <1>0, <1>1, <1>3, <1>4, <1>5, <1>7 DEF AckOrder
<1> QED
  BY <1>6, <1>7

\* A board that listens has started, and has not written the last block.
LEMMA Listens == ASSUME IInv, Listening
                 PROVE  port \in 1..Starts /\ board # "done" /\ expected <= Blocks
<1>1. board \in {"asking", "receiving"} /\ port \in 0..Starts /\ expected \in 1..Blocks + 1
  BY DEF Listening, IInv, TypeOK
<1>2. port # 0 /\ expected # Blocks + 1
  BY <1>1 DEF IInv, Control, Prefix
<1> QED
  BY <1>1, <1>2, Sizes

LEMMA HearOackKeeps == IInv /\ HearOack => IInv'
<1> SUFFICES ASSUME IInv, HearOack PROVE IInv'
  OBVIOUS
<1> USE Sizes DEF IInv, InOrder
<1> DEFINE reply == Packet("ack", 0)
<1>0. /\ Listening /\ toBoard # <<>> /\ Head(toBoard).op = "oack" /\ toBoard' = Tail(toBoard)
      /\ board' = "receiving" /\ last' = reply /\ waits' = 0 /\ Post(reply)
      /\ UNCHANGED <<rescue, call, peer, block, tries, port, expected, got>>
  BY DEF HearOack, server
<1>1. reply \in Packets /\ reply.op = "ack" /\ reply.n = 0
  BY DEF Packet, Packets, Ops
<1> HIDE DEF reply
<1>2. port \in 1..Starts /\ board # "done" /\ expected <= Blocks
  BY <1>0, Listens
<1>3. FromServer' /\ BoardOrder'
  BY <1>0, BoardOrderHears
<1>4. ~rescue => peer = port /\ expected = 1
  <2> SUFFICES ASSUME ~rescue PROVE peer = port /\ expected = 1
    OBVIOUS
  <2>1. peer = port
    BY <1>0 DEF Unserved
  <2>2. Head(toBoard) = toBoard[1] /\ 1 \in 1..Len(toBoard) /\ Place(toBoard[1]) = 0
    BY <1>0, Types, TailSeq DEF Place
  <2>3. 0 \in {block - 1, block} /\ (expected = block + 1 => block = 0)
    BY <2>2 DEF BoardOrder
  <2>4. expected <= block + 1 /\ block \in Nat /\ expected \in Nat /\ expected > 0
    BY <2>1, Types DEF Abreast
  <2> QED
    BY <2>1, <2>3, <2>4
<1>5. /\ AckOrder' /\ toServer' \in Seq(Mail) /\ Len(toServer') <= Room
      /\ \A i \in 1..Len(toServer') : /\ toServer'[i].from <= port
                                      /\ Acks(i)' => toServer'[i].what.n < expected
  BY <1>0, <1>1, <1>2, <1>4, Types, AckOrderPosts
<1>6. toBoard' \in Seq(Packets) /\ Len(toBoard') <= Room
  BY <1>0, Types, BoardHears DEF TypeOK
<1>7. TypeOK'
  BY <1>0, <1>1, <1>2, <1>5, <1>6 DEF TypeOK
<1>8. Control' /\ Prefix'
  BY <1>0, <1>1, <1>2, <1>5, Types DEF Control, Prefix
<1>9. Acknowledgements'
  BY <1>0, <1>1, <1>2, <1>5, Types DEF Acknowledgements
<1>10. Unserved' /\ Abreast'
  BY <1>0, <1>1, <1>4 DEF Unserved, Abreast
<1> QED
  BY <1>3, <1>5, <1>7, <1>8, <1>9, <1>10

\* What the client writes is the block the server sends, the one it waits for.
LEMMA WritesExpected ==
    ASSUME IInv, Listening, toBoard # <<>>, Head(toBoard).op = "data",
           Wire(Head(toBoard).n) = Wire(expected)
    PROVE  /\ Head(toBoard) = toBoard[1] /\ 1 \in 1..Len(toBoard)
           /\ Head(toBoard).n = expected
           /\ ~rescue => peer = port /\ block = expected
<1> USE DEF IInv, InOrder
<1>1. /\ Head(toBoard) = toBoard[1] /\ 1 \in 1..Len(toBoard)
      /\ Place(toBoard[1]) = toBoard[1].n /\ toBoard[1].n \in Nat
  BY Types, TailSeq DEF Place
<1>2. block \in Nat /\ expected \in Nat /\ expected > 0
  BY Types
<1>3. CASE rescue
  BY <1>1, <1>3 DEF Wire
<1>4. CASE ~rescue
  <2>1. peer = port
    BY <1>4 DEF Unserved
  <2>2. expected <= block + 1 /\ block <= expected
    BY <1>4, <2>1 DEF Abreast, Acknowledgements
  <2>3. /\ toBoard[1].n \in {block - 1, block}
        /\ expected = block + 1 => toBoard[1].n = block
    BY <1>1, <1>4 DEF BoardOrder
  <2>4. expected # block + 1
    BY <1>1, <1>2, <2>3, Neighbours
  <2>5. expected = block
    BY <1>2, <2>2, <2>4
  <2>6. toBoard[1].n # block - 1
    BY <1>1, <1>2, <2>5, OtherBlock
  <2> QED
    BY <1>1, <2>1, <2>3, <2>5, <2>6
<1> QED
  BY <1>3, <1>4

LEMMA HearDataKeeps == IInv /\ HearData => IInv'
<1> SUFFICES ASSUME IInv, HearData PROVE IInv'
  OBVIOUS
<1> USE Sizes DEF IInv, InOrder
<1> DEFINE reply == Packet("ack", Head(toBoard).n)
<1>0. /\ Listening /\ toBoard # <<>> /\ Head(toBoard).op = "data" /\ toBoard' = Tail(toBoard)
      /\ Wire(Head(toBoard).n) = Wire(expected)
      /\ got' = Append(got, Head(toBoard).n) /\ expected' = expected + 1
      /\ board' = IF Head(toBoard).n = Blocks THEN "done" ELSE "receiving"
      /\ last' = reply /\ waits' = 0 /\ Post(reply)
      /\ UNCHANGED <<rescue, call, peer, block, tries, port>>
  BY DEF HearData, server
<1>1. port \in 1..Starts /\ board # "done" /\ expected <= Blocks /\ expected \in 1..Blocks
  BY <1>0, Listens, Types
<1>2. /\ 1 \in 1..Len(toBoard) /\ Head(toBoard) = toBoard[1] /\ Head(toBoard).n = expected
      /\ ~rescue => peer = port /\ block = expected
  BY <1>0, WritesExpected
<1>3. reply \in Packets /\ reply.op = "ack" /\ reply.n = expected
  BY <1>1, <1>2 DEF Packet, Packets, Ops
<1> HIDE DEF reply
<1>4. /\ toServer' \in Seq(Mail) /\ Len(toServer') <= Room
      /\ Len(toServer) <= Len(toServer') /\ Len(toServer) \in Nat /\ Len(toServer') \in Nat
      /\ \A i \in 1..Len(toServer) : toServer'[i] = toServer[i] /\ (Acks(i)' <=> Acks(i))
      /\ \A i \in Len(toServer) + 1..Len(toServer') :
            /\ toServer'[i].from = port /\ toServer'[i].what = reply
            /\ Acks(i)' <=> reply.op = "ack"
  BY <1>0, <1>1, <1>3, ClientPosts
<1>5. \A i \in 1..Len(toServer') : i \in 1..Len(toServer) \/ i \in Len(toServer) + 1..Len(toServer')
  BY <1>4
<1>6. /\ toBoard' \in Seq(Packets) /\ Len(toBoard') = Len(toBoard) - 1 /\ Len(toBoard') \in Nat
      /\ \A i \in 1..Len(toBoard') : /\ i + 1 \in 1..Len(toBoard)
                                     /\ toBoard'[i] = toBoard[i + 1]
  BY <1>0, BoardHears
<1>7. TypeOK'
  <2>1. got' \in Seq(1..Blocks)
    BY <1>0, <1>1, <1>2, Types
  <2> QED
    BY <1>0, <1>1, <1>3, <1>4, <1>6, <2>1 DEF TypeOK
<1>8. Control'
  <2>1. \A i \in 1..Len(toServer') : toServer'[i].from <= port
    BY <1>1, <1>4, <1>5, Types DEF Control
  <2> QED
    BY <1>0, <1>1, <2>1 DEF Control
<1>9. Prefix'
  <2>1. Len(got') = Len(got) + 1 /\ got'[Len(got) + 1] = expected
        /\ \A i \in 1..Len(got) : got'[i] = got[i]
    BY <1>0, <1>2, Types
  <2>2. \A i \in 1..Len(got') : got'[i] = i
    <3>1. Len(got) \in Nat /\ Len(got) = expected - 1 /\ expected \in Nat
      BY <1>1, Types DEF Prefix
    <3>2. \A i \in 1..Len(got) : got[i] = i
      BY DEF Prefix
    <3>3. \A i \in 1..Len(got') : i \in 1..Len(got) \/ i = Len(got) + 1
      BY <2>1, <3>1
    <3>4. got'[Len(got) + 1] = Len(got) + 1
      BY <2>1, <3>1
    <3> QED BY <2>1, <3>2, <3>3, <3>4
  <2>3. board' = "done" <=> expected' = Blocks + 1
    BY <1>0, <1>1, <1>2
  <2>4. Len(got') = expected' - 1
    BY <1>0, <2>1, Types DEF Prefix
  <2> QED
    BY <1>0, <1>3, <2>2, <2>3, <2>4 DEF Prefix
<1>10. FromServer'
  BY <1>6 DEF FromServer
<1>11. Acknowledgements'
  <2>1. \A i \in 1..Len(toServer) : Acks(i)' => toServer'[i].what.n < expected + 1
    BY <1>1, <1>4, Types DEF Acknowledgements
  <2>2. \A i \in Len(toServer) + 1..Len(toServer') : toServer'[i].what.n < expected + 1
    BY <1>1, <1>3, <1>4
  <2>3. \A i \in 1..Len(toServer') : Acks(i)' => toServer'[i].what.n < expected + 1
    BY <1>5, <2>1, <2>2
  <2>4. peer = port => block <= expected + 1
    BY Types DEF Acknowledgements
  <2>5. ~(peer = port /\ call = "done")
    BY <1>1 DEF Acknowledgements
  <2>6. last'.n < expected'
    BY <1>0, <1>1, <1>3
  <2> QED
    BY <1>0, <2>3, <2>4, <2>5, <2>6 DEF Acknowledgements
<1>12. CASE rescue
  BY <1>0, <1>7, <1>8, <1>9, <1>10, <1>11, <1>12 DEF Unserved, Abreast, BoardOrder, AckOrder
<1>13. CASE ~rescue
  <2>1. peer = port /\ block = expected /\ expected' = block' + 1 /\ block \in Nat
    BY <1>0, <1>2, <1>13, Types
  <2>2. Unserved' /\ Abreast'
    BY <1>0, <1>3, <2>1 DEF Unserved, Abreast
  <2>3. Place(toBoard[1]) = block
    BY <1>0, <1>2, <2>1 DEF Place
  <2>4. \A i \in 1..Len(toBoard') : Place(toBoard'[i]) = block
    <3>1. \A i \in 1..Len(toBoard) : i > 1 => block <= Place(toBoard[i]) /\ Place(toBoard[i]) \in {block - 1, block}
      BY <1>2, <1>13, <2>3 DEF BoardOrder
    <3> QED
      BY <1>6, <2>1, <3>1
  <2>5. BoardOrder'
    BY <1>0, <2>1, <2>4 DEF BoardOrder
  <2>6. \A i \in 1..Len(toServer) : Acks(i)' => toServer'[i].what.n = block - 1
    BY <1>4, <1>13, <2>1 DEF AckOrder
  <2>7. \A i \in Len(toServer) + 1..Len(toServer') : toServer'[i].what.n = block
    BY <1>3, <1>4, <2>1
  <2>8. \A i \in 1..Len(toServer') : Acks(i)' => toServer'[i].what.n \in {block - 1, block}
    BY <1>5, <2>6, <2>7
  <2>9. \A i, j \in 1..Len(toServer') : i < j /\ Acks(i)' /\ Acks(j)' =>
          toServer'[i].what.n <= toServer'[j].what.n
    BY <1>4, <1>5, <2>1, <2>6, <2>7
  <2>10. AckOrder'
    BY <1>0, <2>1, <2>8, <2>9 DEF AckOrder
  <2> QED
    BY <1>7, <1>8, <1>9, <1>10, <1>11, <2>2, <2>5, <2>10
<1> QED
  BY <1>12, <1>13

\* Repeating the last datagram.
LEMMA LastPosts ==
    ASSUME IInv, port \in 1..Starts, Post(last), UNCHANGED <<rescue, block, port, expected>>
    PROVE  /\ AckOrder'
           /\ \A i \in 1..Len(toServer') : /\ toServer'[i].from <= port
                                           /\ Acks(i)' => toServer'[i].what.n < expected
           /\ ~rescue /\ peer # port => \A i \in 1..Len(toServer') : ~Acks(i)'
           /\ toServer' \in Seq(Mail) /\ Len(toServer') <= Room
<1> USE DEF IInv, InOrder
<1>1. last \in Packets /\ last.op \in {"rrq", "ack"}
  BY DEF TypeOK, Prefix
<1>2. ~rescue /\ last.op = "ack" => peer = port /\ last.n = expected - 1
  <2>1. CASE peer # port
    BY <2>1 DEF Unserved
  <2>2. CASE peer = port
    BY <2>2 DEF Abreast
  <2> QED
    BY <2>1, <2>2
<1>3. last.op = "ack" => last.n < expected
  BY DEF Acknowledgements
<1>4. ~rescue /\ peer # port => last.op = "rrq" /\ \A i \in 1..Len(toServer) : ~Acks(i)
  BY DEF Unserved
<1> QED
  BY <1>1, <1>2, <1>3, <1>4, AckOrderPosts

LEMMA HearOldDataKeeps == IInv /\ HearOldData => IInv'
<1> SUFFICES ASSUME IInv, HearOldData PROVE IInv'
  OBVIOUS
<1> USE Sizes DEF IInv, InOrder
<1>0. /\ Listening /\ toBoard # <<>> /\ toBoard' = Tail(toBoard) /\ board' = "receiving"
      /\ Post(last) \/ toServer' = toServer
      /\ UNCHANGED <<rescue, call, peer, block, tries, port, expected, got, last, waits>>
  BY DEF HearOldData, server
<1>1. port \in 1..Starts /\ board # "done" /\ expected <= Blocks
  BY <1>0, Listens
<1>2. FromServer' /\ BoardOrder'
  BY <1>0, BoardOrderHears
<1>3. toBoard' \in Seq(Packets) /\ Len(toBoard') <= Room
  BY <1>0, Types, BoardHears DEF TypeOK
<1>4. ~rescue => peer = port
  BY <1>0 DEF Unserved
<1>5. /\ AckOrder' /\ toServer' \in Seq(Mail) /\ Len(toServer') <= Room
      /\ \A i \in 1..Len(toServer') : /\ toServer'[i].from <= port
                                      /\ Acks(i)' => toServer'[i].what.n < expected
  <2>1. CASE Post(last)
    BY <1>0, <1>1, <2>1, LastPosts
  <2>2. CASE toServer' = toServer
    BY <1>0, <2>2 DEF AckOrder, Acks, TypeOK, Control, Acknowledgements
  <2> QED
    BY <1>0, <2>1, <2>2
<1>6. TypeOK'
  BY <1>0, <1>3, <1>5 DEF TypeOK
<1>7. Control' /\ Prefix'
  BY <1>0, <1>1, <1>5, Types DEF Control, Prefix
<1>8. Acknowledgements'
  BY <1>0, <1>1, <1>5 DEF Acknowledgements
<1>9. Unserved' /\ Abreast'
  BY <1>0, <1>4 DEF Unserved, Abreast
<1> QED
  BY <1>2, <1>5, <1>6, <1>7, <1>8, <1>9

LEMMA ClientTimeoutKeeps == IInv /\ ClientTimeout => IInv'
<1> SUFFICES ASSUME IInv, ClientTimeout PROVE IInv'
  OBVIOUS
<1> USE Sizes DEF IInv, InOrder
<1>0. /\ Listening
      /\ UNCHANGED <<rescue, call, peer, block, tries, toBoard, port, expected, got, last>>
      /\ \/ /\ waits' = IF waits < ClientTries THEN waits + 1 ELSE waits
            /\ board' = board /\ Post(last)
         \/ board' = "failed" /\ UNCHANGED <<waits, toServer>>
  BY DEF ClientTimeout, server
<1>1. port \in 1..Starts /\ board # "done" /\ expected <= Blocks
  BY <1>0, Listens
<1>2. FromServer' /\ BoardOrder'
  BY <1>0 DEF FromServer, BoardOrder
<1>3. /\ AckOrder' /\ toServer' \in Seq(Mail) /\ Len(toServer') <= Room
      /\ \A i \in 1..Len(toServer') : /\ toServer'[i].from <= port
                                      /\ Acks(i)' => toServer'[i].what.n < expected
      /\ ~rescue /\ peer # port => \A i \in 1..Len(toServer') : ~Acks(i)'
  <2>1. CASE Post(last)
    BY <1>0, <1>1, <2>1, LastPosts
  <2>2. CASE toServer' = toServer
    BY <1>0, <2>2 DEF AckOrder, Acks, TypeOK, Control, Acknowledgements, Unserved
  <2> QED
    BY <1>0, <2>1, <2>2
<1>4. TypeOK'
  <2>1. waits' \in 0..ClientTries
    BY <1>0 DEF TypeOK
  <2>2. board' = board \/ board' = "failed"
    BY <1>0
  <2> QED
    BY <1>0, <1>3, <2>1, <2>2 DEF TypeOK
<1>5. board' # "done" /\ board' # "idle"
  BY <1>0, <1>1 DEF Listening
<1>6. Control' /\ Prefix'
  BY <1>0, <1>1, <1>3, <1>5, Types DEF Control, Prefix
<1>7. Acknowledgements'
  BY <1>0, <1>1, <1>3 DEF Acknowledgements
<1>8. Unserved' /\ Abreast'
  BY <1>0, <1>3 DEF Unserved, Abreast
<1> QED
  BY <1>2, <1>3, <1>4, <1>6, <1>7, <1>8

LEMMA UnheardKeeps == IInv /\ Unheard => IInv'
<1> SUFFICES ASSUME IInv, Unheard PROVE IInv'
  OBVIOUS
<1> USE Sizes DEF IInv, InOrder
<1>0. /\ toBoard # <<>> /\ toBoard' = Tail(toBoard)
      /\ UNCHANGED <<rescue, call, peer, block, tries, toServer, board, port, expected, got, last, waits>>
  BY DEF Unheard, server, client
<1>1. FromServer' /\ BoardOrder'
  BY <1>0, BoardOrderHears
<1>2. toBoard' \in Seq(Packets) /\ Len(toBoard') <= Room
  BY <1>0, Types, BoardHears DEF TypeOK
<1>3. TypeOK'
  BY <1>0, <1>2 DEF TypeOK
<1>4. port # 0
  BY <1>0 DEF Control
<1>5. Control' /\ Prefix'
  BY <1>0, <1>4 DEF Control, Prefix
<1>6. Acknowledgements' /\ Unserved' /\ Abreast' /\ AckOrder'
  BY <1>0 DEF Acknowledgements, Unserved, Abreast, AckOrder, Acks
<1> QED
  BY <1>1, <1>3, <1>5, <1>6

(***************************************************************************)
(* The theorems.                                                           *)
(***************************************************************************)
LEMMA Stutters == IInv /\ UNCHANGED vars => IInv'
<1> SUFFICES ASSUME IInv, UNCHANGED vars PROVE IInv'
  OBVIOUS
<1>1. UNCHANGED <<rescue, call, peer, block, tries, toServer, toBoard,
                  board, port, expected, got, last, waits>>
  BY DEF vars, server, client
<1>2. TypeOK' /\ Control' /\ Prefix' /\ FromServer'
  BY <1>1 DEF IInv, TypeOK, Control, Prefix, FromServer
<1>3. Acknowledgements' /\ Unserved' /\ Abreast' /\ BoardOrder' /\ AckOrder'
  BY <1>1 DEF IInv, InOrder, Acknowledgements, Unserved, Abreast, BoardOrder, AckOrder, Acks
<1> QED
  BY <1>2, <1>3 DEF IInv, InOrder

\* Every turn of the loops keeps the invariant.
LEMMA StepKeeps == IInv /\ [Next]_vars => IInv'
<1>1. IInv /\ Server => IInv'
  BY HearRequestKeeps, HearAckKeeps, HearOtherKeeps, ServerTimeoutKeeps,
     RequestTimeoutKeeps, ServeAgainKeeps DEF Server
<1>2. IInv /\ Client => IInv'
  BY HearOackKeeps, HearDataKeeps, HearOldDataKeeps, ClientTimeoutKeeps, UnheardKeeps DEF Client
<1> QED
  BY <1>1, <1>2, StartKeeps, Stutters DEF Next

LEMMA Inductive == Spec => []IInv
  BY InitHolds, StepKeeps, PTL DEF Spec

\* Every variable of the two loops and of the cable keeps its type: no block
\* number beyond the file, no counter beyond its limit, no buffer beyond Room.
THEOREM TypeCorrect == Spec => []TypeOK
<1>1. IInv => TypeOK
  BY DEF IInv
<1> QED
  BY <1>1, Inductive, PTL

\* nokia-tftp writes the blocks of the file, each once and in order, and exits 0
\* only after the last one, although only the low bits of a block number are on
\* the wire.
THEOREM BlocksInOrder == Spec => []WrittenInOrder
<1>1. IInv => WrittenInOrder
  <2> SUFFICES ASSUME IInv PROVE WrittenInOrder
    OBVIOUS
  <2>1. \A i \in 1..Len(got) : got[i] = i
    BY DEF IInv, Prefix
  <2>2. board = "done" => Len(got) = Blocks
    BY Sizes DEF IInv, Prefix
  <2> QED
    BY <2>1, <2>2 DEF WrittenInOrder
<1> QED
  BY <1>1, Inductive, PTL

\* When serve_tftp_get returns without an error the board it served has written
\* the whole file, or has restarted since.
THEOREM SuccessMeansDelivery == Spec => []SuccessIsDelivery
<1>1. IInv => SuccessIsDelivery
  BY DEF IInv, Acknowledgements, SuccessIsDelivery
<1> QED
  BY <1>1, Inductive, PTL

===============================================================================
