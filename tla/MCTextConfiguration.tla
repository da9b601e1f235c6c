------------------------ MODULE MCTextConfiguration ------------------------
(* Instances of TextConfiguration for TLC: packets of 8 bytes. *)
EXTENDS TextConfiguration

MCSizes == {0, 3, 7}
=============================================================================
