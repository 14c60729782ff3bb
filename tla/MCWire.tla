------------------------------- MODULE MCWire -------------------------------
(***************************************************************************)
(* The library under proto/, one subject to a behaviour: the codec, over   *)
(* every input up to a length; the line of module Link; or the ring buffer.*)
(***************************************************************************)
EXTENDS Coding, MCLink, RingBuffer

VARIABLE subject

WireInit ==
  /\ subject \in {"codec", "line", "ring"}
  /\ input = IF subject = "codec" THEN <<>> ELSE NoInput
  /\ LinkInit /\ RingInit

WireNext ==
  /\ \/ Grow /\ UNCHANGED <<linkvars, ringvars>>
     \/ subject = "line" /\ LinkNext /\ UNCHANGED <<input, ringvars>>
     \/ subject = "ring" /\ RingNext /\ UNCHANGED <<input, linkvars>>
  /\ UNCHANGED subject

WireSpec == WireInit /\ [][WireNext]_<<subject, input, linkvars, ringvars>>
=============================================================================
