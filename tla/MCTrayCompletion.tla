-------------------------- MODULE MCTrayCompletion --------------------------
(***************************************************************************)
(* Instances of TrayCompletion: one intent under one lease (Single) and    *)
(* two intents over one lease (Shared: the same members scanned in another *)
(* order).                                                                 *)
(***************************************************************************)
EXTENDS TrayCompletion

CONSTANTS l1, labelA, i1, i2, p1

OneIntent  == {i1}
TwoIntents == {i1, i2}
OneLabel   == {labelA}
OneLease   == {l1}
OnePayload == {p1}
NoExchange == {}

OneLabelOf == [l \in OneLease |-> labelA]

SingleLeaseOf == [i \in OneIntent |-> l1]
SharedLeaseOf == [i \in TwoIntents |-> l1]
=============================================================================
