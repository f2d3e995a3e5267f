---------------------------- MODULE MCRawCapture ----------------------------
(* Instances of RawCapture for TLC. *)
EXTENDS RawCapture
=============================================================================
