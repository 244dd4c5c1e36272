---------------------------- MODULE MCSirFraming ----------------------------
(* Payloads with every byte the framing gives a meaning to, and noise.     *)
EXTENDS SirFraming

A == {0, 6}                     \* 0x41, an ordinary byte
MCPayloads == {<<>>, <<A>>, <<CE>>, <<EOF, A>>, <<BOF, XBOF, CE>>}
MCNoise    == {BOF, EOF, CE, XBOF, A, Xor(EOF, IRDA_TRANS)}
=============================================================================
