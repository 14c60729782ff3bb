---------------------------- MODULE FrameParser ----------------------------
(***************************************************************************)
(* proto::frame_parser: push_byte() and its state machine.  What           *)
(* finish_frame() makes of the buffered bytes is a parameter (module Codec *)
(* defines it), so that the machine can be reasoned about for any codec.   *)
(***************************************************************************)
EXTENDS Integers, Sequences

CONSTANTS
  MaxByte,    \* the largest byte, 255 in the code
  BufferSize, \* kBufferSize
  Finish(_)   \* finish_frame(): a record with an error and a frame

ASSUME ParserConstants == MaxByte \in Nat \ {0} /\ BufferSize \in Nat \ {0}

VARIABLES
  state,          \* state_
  buffer,         \* buffer_[0 .. buffered_)
  last_error,     \* last_error_
  frames_ok,      \* frames_ok_
  frames_dropped, \* frames_dropped_
  completed       \* what push_byte() returned: <<frame>>, or <<>> for nullptr

parser == <<state, buffer, last_error, frames_ok, frames_dropped, completed>>

ParserInit ==
  /\ state = "kHunting"
  /\ buffer = <<>>
  /\ last_error = "kNone"
  /\ frames_ok = 0
  /\ frames_dropped = 0
  /\ completed = <<>>

\* The byte neither completes a frame nor drops one.
Quiet ==
  /\ last_error' = "kNone"
  /\ completed' = <<>>
  /\ UNCHANGED <<frames_ok, frames_dropped>>

\* fail(): a frame is dropped.
Fail(error) ==
  /\ last_error' = error
  /\ frames_dropped' = frames_dropped + 1
  /\ completed' = <<>>
  /\ UNCHANGED frames_ok

\* Action::kIgnore: between frames, or skipping to a delimiter.
Ignore(byte) ==
  /\ state = "kSkipToDelimiter" \/ (state = "kHunting" /\ byte = 0)
  /\ state' = IF byte = 0 THEN "kHunting" ELSE state
  /\ Quiet
  /\ UNCHANGED buffer

\* Action::kStart.
Start(byte) ==
  /\ state = "kHunting" /\ byte # 0
  /\ state' = "kInFrame"
  /\ buffer' = <<byte>>
  /\ Quiet

\* Action::kAppend with room in the buffer.
Keep(byte) ==
  /\ state = "kInFrame" /\ byte # 0
  /\ Len(buffer) # BufferSize
  /\ buffer' = Append(buffer, byte)
  /\ Quiet
  /\ UNCHANGED state

\* Mutant: an overlong frame is dropped, and what follows starts another.
TooLongRestart(byte) ==
  /\ state = "kInFrame" /\ byte # 0
  /\ Len(buffer) = BufferSize
  /\ Fail("kFrameTooLong")
  /\ buffer' = <<>>
  /\ state' = "kHunting"

\* Action::kAppend without: the frame is given up.
TooLong(byte) ==
  /\ state = "kInFrame" /\ byte # 0
  /\ Len(buffer) = BufferSize
  /\ Fail("kFrameTooLong")
  /\ buffer' = <<>>
  /\ state' = "kSkipToDelimiter"

\* Mutant: a rejected frame is left in the buffer.
CompleteKeeps(byte) ==
  /\ state = "kInFrame" /\ byte = 0
  /\ LET result == Finish(buffer)
     IN  IF result.error = "kNone"
         THEN /\ last_error' = "kNone"
              /\ frames_ok' = frames_ok + 1
              /\ completed' = <<result.frame>>
              /\ UNCHANGED frames_dropped
              /\ buffer' = <<>>
              /\ state' = "kHunting"
         ELSE Fail(result.error) /\ UNCHANGED <<buffer, state>>

\* Action::kComplete.
Complete(byte) ==
  /\ state = "kInFrame" /\ byte = 0
  /\ LET result == Finish(buffer)
     IN  IF result.error = "kNone"
         THEN /\ last_error' = "kNone"
              /\ frames_ok' = frames_ok + 1
              /\ completed' = <<result.frame>>
              /\ UNCHANGED frames_dropped
         ELSE Fail(result.error)
  /\ buffer' = <<>>
  /\ state' = "kHunting"

push_byte(byte) ==
  \/ Ignore(byte)
  \/ Start(byte)
  \/ Keep(byte)
  \/ TooLong(byte)
  \/ Complete(byte)
=============================================================================
