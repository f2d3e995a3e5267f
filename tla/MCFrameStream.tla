--------------------------- MODULE MCFrameStream ---------------------------
(* Instances of FrameStream for TLC: two browsers, two slots. *)
EXTENDS FrameStream
=============================================================================
