----------------------------- MODULE MCMessages -----------------------------
(***************************************************************************)
(* The codec for TLC: strings around the 256 characters a short one cannot *)
(* count, one change of an object, two messages on their way.              *)
(***************************************************************************)
EXTENDS Messages

MCSizes == {0, 255, 256, 259}
=============================================================================
