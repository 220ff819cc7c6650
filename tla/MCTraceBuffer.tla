--------------------------- MODULE MCTraceBuffer ---------------------------
(***************************************************************************)
(* Instance of TraceBuffer for TLC: values that overlap themselves, that   *)
(* begin alike, and one that begins another.                               *)
(***************************************************************************)
EXTENDS TraceBuffer

CONSTANTS charA, charB

MCValueSets ==
  LET A == charA  B == charB
  IN  {{}, {<<A, B>>}, {<<A, A, B>>}, {<<A, B>>, <<A, B, B, A>>}, {<<B, A>>, <<B, B>>}}
=============================================================================
