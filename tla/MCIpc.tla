--------------------------------- MODULE MCIpc ---------------------------------
(***************************************************************************)
(* The instance of Ipc that TLC checks.                                    *)
(***************************************************************************)
EXTENDS Ipc
=============================================================================
