---------------------------- MODULE MCVectorSum ----------------------------
(* An instance of the vector sum for TLC: all sizes up to 70, with parts   *)
(* of up to 64, and two more: the sums of seven parts are cut three times. *)
EXTENDS VectorSum

MCSizes == 1..70 \cup {127, 128}
=============================================================================
