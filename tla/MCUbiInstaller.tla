--------------------------- MODULE MCUbiInstaller ---------------------------
(* One operator shell beside autoflash: it can run every command in every   *)
(* state autoflash, a failure or a power cut left, as often as it likes.    *)
EXTENDS UbiInstaller
=============================================================================
