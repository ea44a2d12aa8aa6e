----------------------------- MODULE MCSonoffCloud -----------------------------
(* A small instance of SonoffCloud for TLC: an entry that is loaded up to  *)
(* three times.                                                            *)
EXTENDS SonoffCloud

CONSTANTS t1, t2, t3

ThreeTasks == {t1, t2, t3}
BothModes == {"auto", "cloud"}

=============================================================================
