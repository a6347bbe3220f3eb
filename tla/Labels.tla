------------------------------- MODULE Labels -------------------------------
(***************************************************************************)
(* What changes a tray or its labels together with the server: the member  *)
(* exchange, the exchange and the reconciliation of PHS labels, and the    *)
(* sealing of work groups.  They share no variable, so one run checks      *)
(* them: `part` is picked at the start, and only that component moves.     *)
(* The reconciliation keeps its own names, the others' variables are named *)
(* after their component.                                                  *)
(* The member exchange is there also for a tray without a lease with a row *)
(* an earlier version of the program left.                                 *)
(***************************************************************************)
EXTENDS PhsReconciliation, TLC

CONSTANTS u1, u2, i1, i2, x1, x2, x3, ua, ub, uc, ud, none   \* model values
CONSTANTS Stations, Units, Groups, Source, GroupLabels, GroupBounds   \* the work groups

VARIABLES
  part,
  row, created, rotated, tray, trayFile, logged, snapshot, dialog, lane, pending, net,
  swapCentral, bound, expired, swapFaults,
  cur, local, phsJournal, phsRun, phsTick, active, phsCentral, phsPaper, phsFaults,
  held, label, ver, roots, ledger, client, moves, groupFaults

(* Four units packed into two source bundles.  A label lists one source,   *)
(* one unit of each, the middle two, or a part of one source.              *)
TwoByTwo == [u \in 1 .. 4 |-> IF u <= 2 THEN 1 ELSE 2]
FourLabels == {<<1, 1, 2, 2>>, <<1, 2, 1, 2>>, <<1, 2, 2, 3>>, <<1, 2, 3, 3>>}

(* A change of labels, papers or bundles, or a damaged answer or receipt.  *)
OneOfEach == {<<1, 0>>, <<0, 1>>}

Swap == INSTANCE MemberExchange WITH
  Intents <- {x1, x2, x3}, NoIntent <- none,
  OldOf <- (x1 :> {ua} @@ x2 :> {ua} @@ x3 :> {ub}),
  NewOf <- (x1 :> {ub} @@ x2 :> {uc} @@ x3 :> {ua}),
  PredOf <- (x1 :> 1 @@ x2 :> 1 @@ x3 :> 2),
  FirstTray <- [members |-> {ua, ud}, lease |-> 1], LeftBehind <- {}, MaxFaults <- 2,
  central <- swapCentral, faults <- swapFaults
Legacy == INSTANCE MemberExchange WITH
  Intents <- {x1}, NoIntent <- none, OldOf <- (x1 :> {ua}), NewOf <- (x1 :> {ub}),
  PredOf <- (x1 :> 0), FirstTray <- [members |-> {ua, ud}, lease |-> 0],
  LeftBehind <- {x1}, MaxFaults <- 2, central <- swapCentral, faults <- swapFaults
Phs == INSTANCE PhsLabel WITH
  Trays <- {u1, u2}, Instructions <- {i1, i2}, MaxAttempts <- 4, FaultKinds <- {"net",
  "lost", "crash", "printer", "disk", "hold", "elsewhere"}, MaxFaults <- 3,
  journal <- phsJournal, run <- phsRun, tick <- phsTick, central <- phsCentral,
  paper <- phsPaper, faults <- phsFaults
Group == INSTANCE WorkGroupSeal WITH
  Labels <- GroupLabels, Bounds <- GroupBounds, faults <- groupFaults

swapVars == <<row, created, rotated, tray, trayFile, logged, snapshot, dialog, lane,
              pending, net, swapCentral, bound, expired, swapFaults>>
phsVars == <<cur, local, phsJournal, phsRun, phsTick, active, phsCentral, phsPaper,
             phsFaults>>
groupVars == <<held, label, ver, roots, ledger, client, moves, groupFaults>>
labelsVars == <<part, swapVars, phsVars, vars, groupVars>>

ASSUME LabelsAssumption ==
       Swap!ExchangeAssumption /\ Legacy!ExchangeAssumption /\ Phs!PhsAssumption /\
       ReconAssumption /\ Group!WorkGroupAssumption

LabelsInit ==
  /\ part \in {"exchange", "legacy", "phs", "recon", "group"}
  /\ \/ part \notin {"legacy"} /\ Swap!Init
     \/ part = "legacy" /\ Legacy!Init
  /\ Phs!Init
  /\ Init
  /\ Group!Init
  /\ part # "group" => /\ label = CHOOSE l \in GroupLabels : TRUE
                       /\ <<moves, groupFaults>> = CHOOSE b \in GroupBounds : TRUE
  /\ part # "recon" => journal.kind = "RECONCILIATION"

(* A step of the part that was picked; the others stay as they begin.      *)
SwapStep == part = "exchange" /\ Swap!Next /\ UNCHANGED <<part, phsVars, vars,
            groupVars>>
LegacyStep == part = "legacy" /\ Legacy!Next /\ UNCHANGED <<part, phsVars, vars,
              groupVars>>
PhsStep == part = "phs" /\ Phs!Next /\ UNCHANGED <<part, swapVars, vars,
           groupVars>>
ReconStep == part = "recon" /\ Next /\ UNCHANGED <<part, swapVars, phsVars,
             groupVars>>
GroupStep == part = "group" /\ Group!Next /\ UNCHANGED <<part, swapVars, phsVars,
             vars>>

LabelsNext == SwapStep \/ LegacyStep \/ PhsStep \/ ReconStep \/ GroupStep
LabelsSpec == LabelsInit /\ [][LabelsNext]_labelsVars

------------------------------------------------------------------------------
(* The saved tray holds the members the server bound to the tray's lease,  *)
(* or an exchange that brings it there is still open; what was dismissed   *)
(* is never sent, one command is built for a lease, APPLIED is saved, and  *)
(* what waits for a person is not sent again                               *)
(* (transfer_member_exchange.py, _apply_member_exchange in the window).    *)
ExchangeAgrees ==
  /\ [](part = "exchange" =>
          /\ Swap!ExchangeTypeOK /\ Swap!SavedTrayMatchesLease /\ Swap!DismissedNeverHappens
          /\ Swap!OneCommandPerLease /\ Swap!AppliedIsSaved)
  /\ Swap!ReviewedNeverPosted

(* A label made current is on paper, printed once unless a person asked,   *)
(* the tray on disk follows it, no exchange the server knows is orphaned,  *)
(* and the tray is not worked on in between (phs_label_workflow.py).       *)
PhsSound ==
  /\ [](part = "phs" => Phs!PhsTypeOK /\ Phs!NoOrphan /\ Phs!PaperBeforeActive /\ Phs!OneCopy
                         /\ Phs!TrayFollows)
  /\ Phs!TrayStays

(* A tray is sealed with the units that were scanned, from the sources     *)
(* that hold them now, each unit once, and the contract says so, whatever  *)
(* the server and the file lose in between (transfer_seal.py) .           *)
GroupSound ==
  part = "group" => /\ Group!WorkGroupTypeOK /\ Group!UnitsOnce /\ Group!RootsRight
                    /\ Group!SealedAsScanned /\ Group!ContractTrue /\ Group!ClosedAccepted

Symmetric == Permutations({u1, u2})
==============================================================================
