------------------------------- MODULE MCLink -------------------------------
(***************************************************************************)
(* The line with the codec of module Codec.                                *)
(***************************************************************************)
EXTENDS Codec, Link

\* A payload with a zero in it, and none.
MCFrames == {Frame(1, <<0>>), Frame(2, <<>>)}
=============================================================================
