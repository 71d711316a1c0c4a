------------------------------ MODULE MCDevice ------------------------------
(* Three subchannels on two channels: a call, its transfer or the call that *)
(* waits, and one more, each with its channel or still being dialled.       *)
EXTENDS Device

Symmetry == Permutations(Subchans) \cup Permutations(Chans)

Calls     == {"incoming", "hold", "transfer", "dialing"}
OtherUses == {"incoming", "autoanswer", "speeddial", "enbloc", "earlymedia", "cfwd"}
Reuse     == {"incoming", "speeddial"}
Ringout   == {"speeddial", "hold"}
Auto      == {"incoming", "autoanswer", "speeddial"}
=============================================================================
