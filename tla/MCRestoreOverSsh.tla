-------------------------- MODULE MCRestoreOverSsh --------------------------
(* Two attempts are one retry; three runs are a restore, a restart of the   *)
(* program or a recovery over the UART, and another restore.                *)
EXTENDS RestoreOverSsh
=============================================================================
