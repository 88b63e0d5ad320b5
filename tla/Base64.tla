-------------------------------- MODULE Base64 --------------------------------
(***************************************************************************)
(* base64.cxx: OpenHome track ids and MD5 sums go through it.  A byte is a *)
(* number below 256.  A character of the encoded text is the value that    *)
(* the table b64values gives it: 0 to 63 for the code characters, and      *)
(* Pad64, Space or Invalid.                                                *)
(***************************************************************************)
EXTENDS Integers, SequencesExt

Pad64 == 254
Space == 255
Invalid == 256
B64Values == 0..63 \cup {Pad64, Space, Invalid}
Byte == 0..255

-----------------------------------------------------------------------------

\* Three bytes become four values of six bits.
Output(i0, i1, i2) ==
  <<i0 \div 4, (i0 % 4) * 16 + i1 \div 16, (i1 % 16) * 4 + i2 \div 64, i2 % 64>>

\* base64_encode(): the groups of three, then what is left, padded.
Base64Encode(in) ==
  LET n == Len(in) \div 3
      groups == [g \in 1..n |-> Output(in[3 * g - 2], in[3 * g - 1], in[3 * g])]
      left == SubSeq(in, 3 * n + 1, Len(in))
      last == Output(left[1], IF Len(left) = 2 THEN left[2] ELSE 0, 0)
  IN  FlattenSeq(groups)
        \o (IF left = <<>> THEN <<>>
            ELSE <<last[1], last[2], IF Len(left) = 1 THEN Pad64 ELSE last[3], Pad64>>)

\* Where base64_decode() is: the bytes, the last of which may be partial, the
\* position in the group, and how the loop has ended.
DecodeStart == [out |-> <<>>, state |-> 0, ended |-> "no"]
OrLast(out, bits) == [out EXCEPT ![Len(out)] = @ + bits]
DecodeStep(d, value) ==
  CASE d.ended # "no" \/ value = Space -> d
    [] d.ended = "no" /\ value = Pad64 -> [d EXCEPT !.ended = "pad"]
    [] d.ended = "no" /\ value = Invalid -> [d EXCEPT !.ended = "invalid"]
    [] OTHER ->
         [d EXCEPT !.state = (@ + 1) % 4,
                   !.out = CASE d.state = 0 -> Append(@, value * 4)
                             [] d.state = 1 -> Append(OrLast(@, value \div 16), (value % 16) * 16)
                             [] d.state = 2 -> Append(OrLast(@, value \div 4), (value % 4) * 64)
                             [] d.state = 3 -> OrLast(@, value)]

\* base64_decode(): what follows the first pad character is of no importance,
\* and the partial byte before it goes.
Base64Decode_Strict(in) ==
  LET d == FoldLeft(DecodeStep, DecodeStart, in)
  IN  [ok |-> d.ended = "no" /\ d.state = 0, out |-> d.out]
Base64Decode(in) ==
  LET d == FoldLeft(DecodeStep, DecodeStart, in)
      padded == d.ended = "pad" /\ d.state \in {2, 3}
  IN  [ok |-> padded \/ (d.ended = "no" /\ d.state = 0),
       out |-> IF padded THEN Front(d.out) ELSE d.out]
===============================================================================
