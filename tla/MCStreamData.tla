---------------------------- MODULE MCStreamData ----------------------------
(***************************************************************************)
(* Texts of up to three bytes over mailstreams with buffers of two bytes,  *)
(* so that some writes bypass the buffer and some lines need several       *)
(* reads.                                                                  *)
(***************************************************************************)
EXTENDS StreamData
=============================================================================
