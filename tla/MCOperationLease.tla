-------------------------- MODULE MCOperationLease --------------------------
(***************************************************************************)
(* OperationLease with one label and three attempts, so that a release, a  *)
(* rotation and a fresh attempt can follow each other.  Attempts of other  *)
(* labels share no row with these.                                         *)
(***************************************************************************)
EXTENDS OperationLease, TLC

CONSTANTS l1, l2, l3, labelA, i1, i2

MCLeases    == {l1, l2, l3}
MCLabels    == {labelA}
MCLabelOf   == [l \in MCLeases |-> labelA]
MCIntents   == {i1, i2}
MCExchanged == {l1}

(* Only l1's tray is exchanged; nothing tells the others, or the intents,  *)
(* apart.                                                                  *)
MCSymmetry == Permutations({l2, l3}) \cup Permutations(MCIntents)
=============================================================================
