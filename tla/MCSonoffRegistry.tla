--------------------------- MODULE MCSonoffRegistry ---------------------------
(* A small instance of SonoffRegistry for TLC: every kind of main device,  *)
(* one command.                                                            *)
EXTENDS SonoffRegistry

CONSTANT c1

OneCommand == {c1}
AllKinds == {"bridge", "meter", "polled"}

=============================================================================
