--------------------------- MODULE MC_AWSInstance ---------------------------
(* Small instance of AWSInstance for TLC: the default signal tuple         *)
(* (SIGINT, SIGTERM), whose default dispositions raise KeyboardInterrupt   *)
(* and end the process.                                                    *)
EXTENDS AWSInstance, TLC

CONSTANTS SIGINT, SIGTERM

MCSigOrder == <<SIGINT, SIGTERM>>

MCOrigAction == (SIGINT :> "raise") @@ (SIGTERM :> "kill")
=============================================================================
