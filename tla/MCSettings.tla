----------------------------- MODULE MCSettings -----------------------------
(* Line buffers of three bytes. What follows the zero is left over from    *)
(* the line before, or from a record that was read from an erased chip.    *)
EXTENDS Settings

MCTexts == {<<1, 1, 0>>, <<2, 0, 255>>, <<0, 1, 0>>}
=============================================================================
