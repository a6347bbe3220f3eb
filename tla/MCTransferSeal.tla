--------------------------- MODULE MCTransferSeal ---------------------------
(***************************************************************************)
(* TransferSeal with an intent under a lease and one without, whose        *)
(* command depends on what the server resolves.                            *)
(***************************************************************************)
EXTENDS TransferSeal

CONSTANTS l1, labelA, i1, i2, p1, p2

TwoIntents  == {i1, i2}
OneLabel    == {labelA}
OneLease    == {l1}
NoExchange  == {}
TwoPayloads == {p1, p2}

OneLabelOf   == [l \in OneLease |-> labelA]
MixedLeaseOf == [i \in TwoIntents |-> IF i = i1 THEN l1 ELSE NoLease]
=============================================================================
