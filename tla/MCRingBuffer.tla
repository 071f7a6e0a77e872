---------------------------- MODULE MCRingBuffer ----------------------------
(***************************************************************************)
(* RingBuffer with a 3-bit size_t, so that the indices wrap within a run.  *)
(***************************************************************************)
EXTENDS RingBufferProps
=============================================================================
