---------------------------- MODULE MCXmodemSend ----------------------------
(* Five blocks wrap modulo 4; two timeouts overtake their answers, which is *)
(* as many as that modulus bears.                                           *)
EXTENDS XmodemSend
=============================================================================
