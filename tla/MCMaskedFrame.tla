---------------------------- MODULE MCMaskedFrame ----------------------------
(***************************************************************************)
(* No modules, or three: more pulses than a word has bits, equal pulses, a  *)
(* module without pulses.                                                *)
(***************************************************************************)
EXTENDS MaskedFrame

Entry(om, pulses_) == [om |-> om, pulses |-> pulses_]

Longer == <<Entry("om1", <<"x", "y", "x">>), Entry("om3", <<"x">>)>>
WithEmpty == <<Entry("om1", <<"x">>), Entry("om2", <<>>), Entry("om3", <<"y">>)>>

MCSources == {<<>>, Longer, WithEmpty}
MasksOnly == <<pulses, mask, parent>>
Swapped == Permutations(Masks)
==============================================================================
