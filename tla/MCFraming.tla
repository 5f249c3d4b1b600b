------------------------------ MODULE MCFraming ------------------------------
(* Bodies of one and two bytes fit, one of three does not.  The noise can    *)
(* declare a body of no byte, of two bytes, and of more than is allowed.     *)
EXTENDS Framing

MCMessages == {<<2>>, <<2, 2>>, <<2, 2, 2>>}
MCNoise    == {0, 2}

=============================================================================
