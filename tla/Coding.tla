------------------------------- MODULE Coding -------------------------------
(***************************************************************************)
(* The codec over every sequence of bytes, a byte longer at each step,     *)
(* taken as raw data, as a payload and as bytes from the wire.             *)
(***************************************************************************)
EXTENDS Codec

CONSTANTS
  MaxInput, \* longest input
  NoInput   \* there is none: the behaviour is about something else

VARIABLE input

CodingInit == input \in {<<>>, NoInput}

\* The input grows by a byte.
Grow ==
  /\ input # NoInput /\ Len(input) < MaxInput
  /\ \E byte \in Byte : input' = Append(input, byte)

CodingSpec == CodingInit /\ [][Grow]_input

---------------------------------------------------------------------------
\* Properties.

\* cobs_encode() always fits the size cobs_encoded_max_size() promises, leaves
\* no zero, and cobs_decode() gives the data back in a buffer just its size.
CobsRoundTrip == input # NoInput =>
  LET encoded == cobs_encode(input, cobs_encoded_max_size(Len(input)))
  IN  /\ encoded.status = "kOk"
      /\ encoded.bytes \in Seq(Byte \ {0})
      /\ cobs_decode(encoded.bytes, Len(input)) = [status |-> "kOk", bytes |-> input]

\* Both report kOutputOverflow exactly when the result does not fit: no
\* capacity is refused that would do, and none is overrun.
OverflowExact == input # NoInput =>
  LET encoded == cobs_encode(input, cobs_encoded_max_size(Len(input)))
      decoded == cobs_decode(input, Len(input))
  IN  /\ \A cap \in 0..Len(encoded.bytes) :
           cobs_encode(input, cap).status = "kOk" <=> cap = Len(encoded.bytes)
      /\ decoded.status = "kOk" =>
           \A cap \in 0..Len(input) :
             cobs_decode(input, cap) =
               IF cap < Len(decoded.bytes) THEN Fails("kOutputOverflow") ELSE decoded

\* Every message that may be sent is encoded into the buffer the senders size
\* with max_encoded_frame_size(), fits the parser's buffer and is understood;
\* a longer payload is refused.
FrameRoundTrip == input # NoInput =>
  \A type \in Byte :
    LET coded == encode_frame(type, input, max_encoded_frame_size(Len(input)))
    IN  IF Len(input) > kMaxPayloadSize
        THEN coded.status = "kPayloadTooLarge"
        ELSE /\ coded.status = "kOk"
             /\ coded.bytes[Len(coded.bytes)] = 0
             /\ Len(coded.bytes) - 1 <= kBufferSize
             /\ finish_frame(Undelimited(Frame(type, input))) =
                  [error |-> "kNone", frame |-> Frame(type, input)]

\* Damage within two neighbouring bytes of a frame is never taken for a frame,
\* even when the length field is hit.
BurstCaught ==
  input # NoInput /\ Len(input) <= kMaxPayloadSize =>
    \A type \in Byte :
      LET blob == Blob(type, input)
      IN  \A i \in 1..(Len(blob) - 1), x, y \in Byte :
            LET hit == [blob EXCEPT ![i] = x, ![i + 1] = y]
            IN  hit # blob =>
                  finish_frame(cobs_encode(hit, kBufferSize).bytes).error # "kNone"
=============================================================================
