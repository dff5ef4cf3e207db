------------------------------- MODULE MCCodec -------------------------------
(***************************************************************************)
(* Codec for TLC: every entry up to the first that does not fit, and sizes *)
(* around the powers of ten.                                               *)
(***************************************************************************)
EXTENDS Codec

Entries == [address : 0..AddressLimit, weight : 0..WeightLimit,
            size : {0, 9, 10, 99, 100, 101, 310, IntLimit - 1}]

\* Of one, two and three bytes.
Children == {0, 1, 3, 4, 5, 12, 16, 20, 31}

=============================================================================
