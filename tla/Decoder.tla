------------------------------- MODULE Decoder -------------------------------
(* What a caller of a decoder sees: text grows at its end only, within the    *)
(* budget when there is one, until the decoder stops for good.                *)
EXTENDS Naturals, Sequences

CONSTANT Budget
VARIABLES text, stopped, bounded

decoderVars == <<text, stopped, bounded>>

Fits(t) == bounded => Len(t) <= Budget

DecoderInit == text = <<>> /\ ~stopped

Extend ==
    /\ ~stopped
    /\ Len(text') > Len(text)
    /\ SubSeq(text', 1, Len(text)) = text
    /\ Fits(text')
    /\ stopped' \in BOOLEAN
    /\ UNCHANGED bounded

Stop == ~stopped /\ stopped' /\ UNCHANGED <<text, bounded>>

DecoderNext == Extend \/ Stop

DecoderSpec == DecoderInit /\ [][DecoderNext]_decoderVars
=============================================================================
