-------------------------------- MODULE Link --------------------------------
(***************************************************************************)
(* A frame encoder and a frame_parser with a serial line between them that *)
(* may lose, alter or make up bytes.  Frames follow each other without a   *)
(* pause, each ended by its delimiter (frame_encoder.hpp).                 *)
(***************************************************************************)
EXTENDS FrameParser

CONSTANTS
  Frames,     \* the frames that are sent
  Encoded(_), \* encode_frame() without the delimiter
  MaxFrames,  \* bound on the frames sent
  MaxFaults   \* bound on the bytes the line damages

\* What the codec promises (CodecMeetsLink of CodecProofs).
ASSUME LinkConstants ==
  /\ \A f \in Frames :
       /\ Encoded(f) \in Seq(1..MaxByte)
       /\ 0 < Len(Encoded(f)) /\ Len(Encoded(f)) <= BufferSize
       /\ Finish(Encoded(f)).error = "kNone"
       /\ Finish(Encoded(f)).frame = f
  /\ MaxFrames \in Nat
  /\ MaxFaults \in Nat

VARIABLES
  frame,  \* the frame on the line
  at,     \* how many of its bytes have passed
  got,    \* the parser has returned it
  passed, \* frames that have passed
  lost,   \* of those, the ones the parser has not returned
  faults, \* bytes damaged so far
  last,   \* the byte last pushed into the parser
  runs    \* maximal runs of non-zero bytes that have begun

line == <<frame, at, got, passed, lost>>
linkvars == <<parser, line, faults, last, runs>>

LinkInit ==
  /\ ParserInit
  /\ frame \in Frames
  /\ at = 0
  /\ got = FALSE
  /\ passed = 0
  /\ lost = 0
  /\ faults = 0
  /\ last = 0
  /\ runs = 0

\* The byte that comes next.
NextByte == IF at < Len(Encoded(frame)) THEN Encoded(frame)[at + 1] ELSE 0

\* The parser takes a byte.
Push(byte) ==
  /\ push_byte(byte)
  /\ last' = byte
  /\ runs' = IF byte # 0 /\ last = 0 THEN runs + 1 ELSE runs

Received == got \/ completed' = <<frame>>

\* The line is done with a byte of the frame; after the delimiter the sender
\* goes on to another frame.
Advance ==
  IF at < Len(Encoded(frame))
  THEN /\ at' = at + 1
       /\ got' = Received
       /\ UNCHANGED <<frame, passed, lost>>
  ELSE /\ at' = 0
       /\ frame' \in Frames
       /\ got' = FALSE
       /\ passed' = passed + 1
       /\ lost' = IF Received THEN lost ELSE lost + 1

Carry ==
  /\ passed < MaxFrames
  /\ Push(NextByte)
  /\ Advance
  /\ UNCHANGED faults

Alter(byte) ==
  /\ passed < MaxFrames /\ faults < MaxFaults
  /\ byte # NextByte
  /\ Push(byte)
  /\ Advance
  /\ faults' = faults + 1

Lose ==
  /\ passed < MaxFrames /\ faults < MaxFaults
  /\ completed' = <<>>
  /\ UNCHANGED <<state, buffer, last_error, frames_ok, frames_dropped, last, runs>>
  /\ Advance
  /\ faults' = faults + 1

MakeUp(byte) ==
  /\ passed < MaxFrames /\ faults < MaxFaults
  /\ Push(byte)
  /\ got' = Received
  /\ faults' = faults + 1
  /\ UNCHANGED <<frame, at, passed, lost>>

LinkNext ==
  \/ Carry
  \/ \E byte \in 0..MaxByte : Alter(byte)
  \/ Lose
  \/ \E byte \in 0..MaxByte : MakeUp(byte)

LinkSpec == LinkInit /\ [][LinkNext]_linkvars

---------------------------------------------------------------------------
\* Properties.

\* The parser's buffer never overflows, is empty outside a frame and holds no
\* zero: of COBS input only a wrong block length can reach cobs_decode().
BufferSound ==
  /\ state \in {"kHunting", "kInFrame", "kSkipToDelimiter"}
  /\ buffer \in Seq(1..MaxByte) /\ Len(buffer) <= BufferSize
  /\ state = "kInFrame" <=> buffer # <<>>

\* Every run of bytes between delimiters is counted once, as a frame or as a
\* drop, an overlong one too.
CountedOnce ==
  frames_ok + frames_dropped = IF state = "kInFrame" THEN runs - 1 ELSE runs

\* However the damage falls, a byte lost, altered or made up costs at most two
\* frames: the parser is back in step after the next delimiter.  Without
\* damage every frame arrives.
LossBounded == lost <= 2 * faults

\* frame_parser.hpp: "One lost or corrupted byte costs at most one frame."
OneFramePerByte == lost <= faults
=============================================================================
