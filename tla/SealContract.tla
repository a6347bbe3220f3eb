---------------------------- MODULE SealContract ----------------------------
(***************************************************************************)
(* What the transfer seal promises, whatever is lost, repeated or          *)
(* restarted: an intent is accepted, the server seals it at most once, and *)
(* the terminal reports it ACKED only after the server sealed it.  A       *)
(* terminal that cannot tell asks for a review, which only a receipt ends. *)
(***************************************************************************)
CONSTANT Intents

VARIABLES accepted,   \* intents the terminal has committed to
          ledger,     \* intents the server has sealed
          outcome     \* what the terminal reports: "open", "review", "acked"

contractVars == <<accepted, ledger, outcome>>

ContractInit ==
  /\ accepted = {}
  /\ ledger = {}
  /\ outcome = [i \in Intents |-> "open"]

Accept(i) ==
  /\ i \notin accepted
  /\ accepted' = accepted \cup {i}
  /\ UNCHANGED <<ledger, outcome>>

Seal(i) ==
  /\ i \in accepted \ ledger
  /\ ledger' = ledger \cup {i}
  /\ UNCHANGED <<accepted, outcome>>

Review(i) ==
  /\ i \in accepted /\ outcome[i] = "open"
  /\ outcome' = [outcome EXCEPT ![i] = "review"]
  /\ UNCHANGED <<accepted, ledger>>

Ack(i) ==
  /\ i \in ledger /\ outcome[i] # "acked"
  /\ outcome' = [outcome EXCEPT ![i] = "acked"]
  /\ UNCHANGED <<accepted, ledger>>

ContractNext == \E i \in Intents : Accept(i) \/ Seal(i) \/ Review(i) \/ Ack(i)

ContractSpec == ContractInit /\ [][ContractNext]_contractVars

=============================================================================
