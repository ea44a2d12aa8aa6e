---------------------------- MODULE MCUsbTransfer ----------------------------
(* Small instances of UsbTransfer for TLC.                                 *)
EXTENDS UsbTransfer

CONSTANTS status, command, late

(* A read of the status, a command of a client, and one left over.         *)
ThreeRequests == {status, command, late}

=============================================================================
