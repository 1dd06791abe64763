------------------------------ MODULE MCAiding ------------------------------
(* Instance of Aiding for TLC: a ceiling above what one of the links carries,  *)
(* chunks of two or four bytes, transfers of one, two and too many chunks, and *)
(* a token space that the third transfer wraps.                                *)
EXTENDS Aiding
=============================================================================
