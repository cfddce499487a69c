----------------------------- MODULE MCTftpGet -----------------------------
(* Four blocks wrap twice modulo 2, the hardest modulus; two starts are one *)
(* power cut in the middle of a transfer; three datagrams fit in a buffer.  *)
EXTENDS TftpGet
============================================================================
