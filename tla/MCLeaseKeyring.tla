---------------------------- MODULE MCLeaseKeyring ----------------------------
(* Small instances of LeaseKeyring for TLC.                                *)
EXTENDS LeaseKeyring, TLC

KeyringSymmetry == Permutations(Leases) \cup Permutations(Kids) \cup Permutations(Materials)
===============================================================================
