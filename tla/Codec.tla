------------------------------- MODULE Codec -------------------------------
(***************************************************************************)
(* proto/: CRC-16, COBS and the frame layout, as operators on sequences of *)
(* bytes.  The byte width is a parameter: ByteBits = 8 and kCrc16Poly =    *)
(* 4129 (0x1021) give the code's functions, a smaller width gives the same *)
(* functions with shorter blocks, frames and checksums.  The loops are     *)
(* recursive functions of the number of rounds done.                       *)
(***************************************************************************)
EXTENDS Integers, Sequences

CONSTANTS ByteBits, kCrc16Poly

\* 2^n, by its recursion: what the proofs know of powers.
TwoTo[n \in 0..ByteBits] == IF n = 0 THEN 1 ELSE 2 * TwoTo[n - 1]

Radix == TwoTo[ByteBits]
Byte == 0..(Radix - 1)
Word == 0..(Radix * Radix - 1)
Full == Radix - 1 \* 0xFF: the largest byte, and the code of a full block

\* The polynomial ends in 1, as every generator of a CRC does.
ASSUME CodecConstants ==
  /\ ByteBits \in Nat \ {0, 1}
  /\ kCrc16Poly \in Word /\ kCrc16Poly % 2 = 1

---------------------------------------------------------------------------
\* crc16.hpp

\* Exclusive or, by its lowest bit and the bits above it.
Xor[a \in Word] ==
  [b \in Word |-> IF a = 0 THEN b ELSE 2 * Xor[a \div 2][b \div 2] + ((a + b) % 2)]

kCrc16Init == Radix * Radix - 1

\* One round of the loop: the bit shifted out folds the polynomial in.
Shift(crc) ==
  IF 2 * crc >= Radix * Radix
  THEN Xor[2 * crc - Radix * Radix][kCrc16Poly]
  ELSE 2 * crc

\* The loop over the bits of a byte.
Rounds(crc) ==
  LET round[i \in 0..ByteBits] == IF i = 0 THEN crc ELSE Shift(round[i - 1])
  IN  round[ByteBits]

crc16_update(crc, byte) == Rounds(Xor[crc][byte * Radix])

crc16(data) ==
  LET crc[i \in 0..Len(data)] ==
        IF i = 0 THEN kCrc16Init ELSE crc16_update(crc[i - 1], data[i])
  IN  crc[Len(data)]

---------------------------------------------------------------------------
\* cobs.hpp.  A result has a status and, when that is kOk, the bytes.

Fails(why) == [status |-> why, bytes |-> <<>>]

\* Mutant: a full block is taken to be one byte longer.
cobs_encoded_max_sizeLong(raw_size) == raw_size + raw_size \div Full + 1

cobs_encoded_max_size(raw_size) == raw_size + raw_size \div (Full - 1) + 1

\* The encoder: dst is what has been written, at where the code byte of the
\* current block goes, code one more than the bytes in the block.
Encoder(dst, at, code) == [status |-> "kOk", dst |-> dst, at |-> at, code |-> code]

EncodeStart == Encoder(<<0>>, 1, 1)

\* Mutant: one byte too many fits.
NextBlockOver(s, dst_capacity) ==
  IF Len(s.dst) > dst_capacity
  THEN Fails("kOutputOverflow")
  ELSE Encoder(Append([s.dst EXCEPT ![s.at] = s.code], 0), Len(s.dst) + 1, 1)

\* Close the current block and reserve the code byte of the next.
NextBlock(s, dst_capacity) ==
  IF Len(s.dst) >= dst_capacity
  THEN Fails("kOutputOverflow")
  ELSE Encoder(Append([s.dst EXCEPT ![s.at] = s.code], 0), Len(s.dst) + 1, 1)

EncodeByte(s, byte, dst_capacity) ==
  LET put == Encoder(Append(s.dst, byte), s.at, s.code + 1)
  IN  CASE s.status # "kOk" -> s
        [] s.status = "kOk" /\ byte = 0 -> NextBlock(s, dst_capacity)
        [] OTHER -> IF Len(s.dst) >= dst_capacity
                    THEN Fails("kOutputOverflow")
                    ELSE IF put.code = Full THEN NextBlock(put, dst_capacity) ELSE put

\* The encoder after the whole of src.
Encode(src, dst_capacity) ==
  LET run[i \in 0..Len(src)] ==
        IF i = 0 THEN EncodeStart ELSE EncodeByte(run[i - 1], src[i], dst_capacity)
  IN  run[Len(src)]

cobs_encode(src, dst_capacity) ==
  LET end == Encode(src, dst_capacity)
  IN  IF dst_capacity = 0 \/ end.status # "kOk"
      THEN Fails("kOutputOverflow")
      ELSE [status |-> "kOk", bytes |-> [end.dst EXCEPT ![end.at] = end.code]]

\* The decoder: left is what is to come of the current block, code its code
\* byte; the first block is preceded by no zero, like one after a full block.
Decoder(dst, left, code) == [status |-> "kOk", dst |-> dst, left |-> left, code |-> code]

DecodeStart == Decoder(<<>>, 0, Full)

DecodeData(s, byte, dst_capacity) ==
  CASE byte = 0 -> Fails("kInvalidInput")
    [] byte # 0 /\ Len(s.dst) >= dst_capacity -> Fails("kOutputOverflow")
    [] OTHER -> Decoder(Append(s.dst, byte), s.left - 1, s.code)

\* There is a next block, so the previous one ends in a zero unless full.
DecodeCode(s, byte, dst_capacity) ==
  LET zero == s.code # Full
  IN  CASE zero /\ Len(s.dst) >= dst_capacity -> Fails("kOutputOverflow")
        [] ~(zero /\ Len(s.dst) >= dst_capacity) /\ byte = 0 -> Fails("kInvalidInput")
        [] OTHER -> Decoder(IF zero THEN Append(s.dst, 0) ELSE s.dst, byte - 1, byte)

DecodeByte(s, byte, dst_capacity) ==
  CASE s.status # "kOk" -> s
    [] s.status = "kOk" /\ s.left > 0 -> DecodeData(s, byte, dst_capacity)
    [] OTHER -> DecodeCode(s, byte, dst_capacity)

\* The decoder after the whole of src.
Decode(src, dst_capacity) ==
  LET run[i \in 0..Len(src)] ==
        IF i = 0 THEN DecodeStart ELSE DecodeByte(run[i - 1], src[i], dst_capacity)
  IN  run[Len(src)]

cobs_decode(src, dst_capacity) ==
  LET end == Decode(src, dst_capacity)
  IN  CASE end.status # "kOk" -> end
        [] end.status = "kOk" /\ end.left > 0 -> Fails("kInvalidInput")
        [] OTHER -> [status |-> "kOk", bytes |-> end.dst]

---------------------------------------------------------------------------
\* messages.hpp, frame_encoder.hpp and the decoding half of frame_parser.hpp

kFrameHeaderSize == 2
kFrameCrcSize == 2
kMaxPayloadSize == Full

\* Mutant: no room for the checksum.
kMaxBlobNoCrc == kFrameHeaderSize + kMaxPayloadSize

kMaxBlob == kFrameHeaderSize + kMaxPayloadSize + kFrameCrcSize
kBufferSize == cobs_encoded_max_size(kMaxBlob)

max_encoded_frame_size(payload_size) ==
  cobs_encoded_max_size(kFrameHeaderSize + payload_size + kFrameCrcSize) + 1

\* type | length | payload | crc16, most significant byte first.
Blob(type, payload) ==
  LET data == <<type, Len(payload)>> \o payload
      crc  == crc16(data)
  IN  data \o <<crc \div Radix, crc % Radix>>

encode_frame(type, payload, out_capacity) ==
  LET cobs == cobs_encode(Blob(type, payload), out_capacity - 1)
  IN  CASE Len(payload) > kMaxPayloadSize -> Fails("kPayloadTooLarge")
        [] Len(payload) <= kMaxPayloadSize /\ (out_capacity = 0 \/ cobs.status # "kOk") ->
             Fails("kOutputOverflow")
        [] OTHER -> [status |-> "kOk", bytes |-> Append(cobs.bytes, 0)]

Frame(type, payload) == [type |-> type, payload |-> payload]
Rejected(why) == [error |-> why, frame |-> Frame(0, <<>>)]

\* What the senders put on the line for a frame, up to its delimiter.
Undelimited(f) ==
  LET coded == encode_frame(f.type, f.payload, max_encoded_frame_size(Len(f.payload))).bytes
  IN  SubSeq(coded, 1, Len(coded) - 1)

\* Mutant: the checksum is not looked at.
finish_frameUnchecked(buffer) ==
  LET decoded == cobs_decode(buffer, kMaxBlob)
      blob    == decoded.bytes
  IN  CASE decoded.status # "kOk" -> Rejected("kCobsError")
        [] decoded.status = "kOk" /\ Len(blob) < kFrameHeaderSize + kFrameCrcSize ->
             Rejected("kBadLength")
        [] OTHER -> [error |-> "kNone",
                     frame |-> Frame(blob[1], SubSeq(blob, kFrameHeaderSize + 1,
                                                     Len(blob) - kFrameCrcSize))]

\* finish_frame() of the bytes between two delimiters.
finish_frame(buffer) ==
  LET decoded == cobs_decode(buffer, kMaxBlob)
      blob    == decoded.bytes
      least   == kFrameHeaderSize + kFrameCrcSize
  IN  CASE decoded.status # "kOk" -> Rejected("kCobsError")
        [] decoded.status = "kOk" /\ (Len(blob) < least \/ Len(blob) # least + blob[2]) ->
             Rejected("kBadLength")
        [] OTHER -> IF crc16(blob) # 0
                    THEN Rejected("kBadCrc")
                    ELSE [error |-> "kNone",
                          frame |-> Frame(blob[1], SubSeq(blob, kFrameHeaderSize + 1,
                                                          kFrameHeaderSize + blob[2]))]
=============================================================================
