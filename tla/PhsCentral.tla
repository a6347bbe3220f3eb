----------------------------- MODULE PhsCentral -----------------------------
(***************************************************************************)
(* The central ledger's side of a label exchange, as the client methods of *)
(* transfer_client.py use it.  An exchange prints every target label, each *)
(* by numbered attempts, becomes READY with the last success and is        *)
(* committed by its activation; a repeated call changes nothing.           *)
(***************************************************************************)
EXTENDS Naturals

AttemptStates == {"NONE", "REQUESTED", "SUCCEEDED", "FAILED"}
NewAttempt == [no |-> 0, st |-> "NONE"]
NoExchange(L) == [st |-> "none", att |-> [l \in L |-> NewAttempt]]
Exchanges(L, n) == [st : {"none", "open", "committed"}, att : [L -> [no : 0..n, st : AttemptStates]]]

prepare_phs_label_exchange(e) == IF e.st = "none" THEN [e EXCEPT !.st = "open"] ELSE e

(* The number is part of the idempotency key: the same one gets the same   *)
(* attempt, a new one only once the last has failed.                       *)
request_phs_label_print(e, l, no) ==
  IF e.att[l].no < no /\ e.att[l].st \in {"NONE", "FAILED"}
  THEN [e EXCEPT !.att[l] = [no |-> no, st |-> "REQUESTED"]] ELSE e
complete_phs_label_print(e, l, no, ok) ==
  IF e.att[l] = [no |-> no, st |-> "REQUESTED"]
  THEN [e EXCEPT !.att[l].st = IF ok THEN "SUCCEEDED" ELSE "FAILED"] ELSE e

Ready(e) == e.st = "open" /\ \A l \in DOMAIN e.att : e.att[l].st = "SUCCEEDED"
activate_phs_label_exchange(e) == IF Ready(e) THEN [e EXCEPT !.st = "committed"] ELSE e
=============================================================================
