---------------------------- MODULE MCConnection ----------------------------
(***************************************************************************)
(* Connection for TLC: a high-water mark that two messages reach, a kernel *)
(* buffer smaller than it, so that sends are partial.                      *)
(***************************************************************************)
EXTENDS Connection

\* The memory a connection is said to be bounded by (connection.cpp, the
\* comment on kWriteHighWaterMark): the mark, and the message that reaches it.
MemoryBounded == Len(write_buffer) < kWriteHighWaterMark + MaxMessage
=============================================================================
