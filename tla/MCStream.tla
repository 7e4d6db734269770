------------------------------ MODULE MCStream ------------------------------
(***************************************************************************)
(* A playback with two slots for two cards.  The period of k1     *)
(* is half the stream buffer; that of k2 is all of it or, in the run that  *)
(* grows the buffer, more.                                                 *)
(***************************************************************************)
EXTENDS PlaybackStream, TLC

CONSTANTS k1, k2

MCPeriod    == [c \in Card |-> IF c = k2 THEN 2 ELSE 1]
MCBigPeriod == [c \in Card |-> IF c = k2 THEN 3 ELSE 1]

=============================================================================
