------------------------------- MODULE MCMagick -------------------------------
(* An instance of Magick for TLC: one decode and one encode share one permit. *)
EXTENDS Magick
=============================================================================
