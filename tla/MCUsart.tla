------------------------------ MODULE MCUsart ------------------------------
(* Instances of Usart for TLC: a ring of two or three bytes, one ordinary  *)
(* character, one newline.  The mutated operators are small bugs the       *)
(* properties have to notice.                                              *)
EXTENDS Usart
=============================================================================
