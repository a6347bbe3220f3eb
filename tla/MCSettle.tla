------------------------------ MODULE MCSettle ------------------------------
(***************************************************************************)
(* What is begun with the server ends: the sealing of a tray, the member   *)
(* exchange, and the exchange and the reconciliation of PHS labels.  The   *)
(* components share no variable, so one run checks them: `part` is picked  *)
(* at the start, only that component moves, and each property assumes the  *)
(* fairness of its own component.  The sealing is there with two intents   *)
(* without a lease and with one under a lease.                             *)
(***************************************************************************)
EXTENDS Naturals, FiniteSets, TLC

CONSTANTS u1, u2, i1, i2, p1, x1, ua, ub, ud, none   \* model values

VARIABLES
  part,
  sealIssue, sealArtifacts, sealCompletion, sealLeaseReceipts, sealLeaseReviews,
  sealRotations, sealExchange, sealCentral, sealConsumedBy, sealExpired, sealPreflight,
  sealStatus, sealOlder, sealCheckpoint, sealCommand, sealReviewCases, sealSealed,
  sealLate, sealLane, sealStartup, sealAudits, sealReviewPosts, sealFaults,
  ownIssue, ownArtifacts, ownCompletion, ownLeaseReceipts, ownLeaseReviews, ownRotations,
  ownExchange, ownCentral, ownConsumedBy, ownExpired, ownPreflight, ownStatus, ownOlder,
  ownCheckpoint, ownCommand, ownReviewCases, ownSealed, ownLate, ownLane, ownStartup,
  ownAudits, ownReviewPosts, ownFaults,
  row, created, rotated, tray, trayFile, logged, snapshot, dialog, swapLane, pending, net,
  swapCentral, bound, swapExpired, swapFaults,
  cur, local, phsJournal, phsRun, phsTick, active, phsCentral, phsPaper, phsFaults,
  ctx, reconTick, reconJournal, reconRun, reconCentral, foreign, damaged, reconPaper,
  reconFaults

Seal == INSTANCE TransferSeal WITH
  Leases <- {}, Labels <- {}, LabelOf <- [l \in {} |-> none], Intents <- {i1, i2},
  Exchanged <- {}, NoLease <- none, NoIntent <- none,
  LeaseOf <- [i \in {i1, i2} |-> none], Payloads <- {p1}, NoPayload <- none,
  MaxFaults <- 0, MaxAudits <- 0, issue <- sealIssue, artifacts <- sealArtifacts,
  completion <- sealCompletion, leaseReceipts <- sealLeaseReceipts,
  leaseReviews <- sealLeaseReviews, rotations <- sealRotations,
  exchange <- sealExchange, central <- sealCentral, consumedBy <- sealConsumedBy,
  expired <- sealExpired, preflight <- sealPreflight, status <- sealStatus,
  older <- sealOlder, checkpoint <- sealCheckpoint, command <- sealCommand,
  reviewCases <- sealReviewCases, sealed <- sealSealed, late <- sealLate,
  lane <- sealLane, startup <- sealStartup, audits <- sealAudits,
  reviewPosts <- sealReviewPosts, faults <- sealFaults
Leased == INSTANCE TransferSeal WITH
  Leases <- {x1}, Labels <- {ua}, LabelOf <- (x1 :> ua), Intents <- {i1}, Exchanged <- {},
  NoLease <- none, NoIntent <- none, LeaseOf <- (i1 :> x1), Payloads <- {p1},
  NoPayload <- none, MaxFaults <- 1, MaxAudits <- 0, issue <- ownIssue,
  artifacts <- ownArtifacts, completion <- ownCompletion,
  leaseReceipts <- ownLeaseReceipts, leaseReviews <- ownLeaseReviews,
  rotations <- ownRotations, exchange <- ownExchange, central <- ownCentral,
  consumedBy <- ownConsumedBy, expired <- ownExpired, preflight <- ownPreflight,
  status <- ownStatus, older <- ownOlder, checkpoint <- ownCheckpoint,
  command <- ownCommand, reviewCases <- ownReviewCases, sealed <- ownSealed,
  late <- ownLate, lane <- ownLane, startup <- ownStartup, audits <- ownAudits,
  reviewPosts <- ownReviewPosts, faults <- ownFaults
Swap == INSTANCE MemberExchange WITH
  Intents <- {x1}, NoIntent <- none, OldOf <- (x1 :> {ua}), NewOf <- (x1 :> {ub}),
  PredOf <- (x1 :> 1), FirstTray <- [members |-> {ua, ud}, lease |-> 1], LeftBehind <- {},
  MaxFaults <- 2, lane <- swapLane, central <- swapCentral, expired <- swapExpired,
  faults <- swapFaults
Phs == INSTANCE PhsLabel WITH
  Trays <- {u1, u2}, Instructions <- {i1}, MaxAttempts <- 3,
  FaultKinds <- {"net", "lost", "crash", "printer", "disk", "hold"}, MaxFaults <- 2,
  journal <- phsJournal, run <- phsRun, tick <- phsTick, central <- phsCentral,
  paper <- phsPaper, faults <- phsFaults
Recon == INSTANCE PhsReconciliation WITH
  Contexts <- {u1}, N <- 2, MaxAttempts <- 3,
  FaultKinds <- {"net", "lost", "crash", "printer", "disk", "hold"}, MaxFaults <- 2,
  tick <- reconTick, journal <- reconJournal, run <- reconRun, central <- reconCentral,
  paper <- reconPaper, faults <- reconFaults

sealVars == <<sealIssue, sealArtifacts, sealCompletion, sealLeaseReceipts,
              sealLeaseReviews, sealRotations, sealExchange, sealCentral,
              sealConsumedBy, sealExpired, sealPreflight, sealStatus, sealOlder,
              sealCheckpoint, sealCommand, sealReviewCases, sealSealed, sealLate,
              sealLane, sealStartup, sealAudits, sealReviewPosts, sealFaults>>
ownVars == <<ownIssue, ownArtifacts, ownCompletion, ownLeaseReceipts, ownLeaseReviews,
             ownRotations, ownExchange, ownCentral, ownConsumedBy, ownExpired,
             ownPreflight, ownStatus, ownOlder, ownCheckpoint, ownCommand,
             ownReviewCases, ownSealed, ownLate, ownLane, ownStartup, ownAudits,
             ownReviewPosts, ownFaults>>
swapVars == <<row, created, rotated, tray, trayFile, logged, snapshot, dialog, swapLane,
              pending, net, swapCentral, bound, swapExpired, swapFaults>>
phsVars == <<cur, local, phsJournal, phsRun, phsTick, active, phsCentral, phsPaper,
             phsFaults>>
reconVars == <<ctx, reconTick, reconJournal, reconRun, reconCentral, foreign, damaged,
               reconPaper, reconFaults>>
vars == <<part, sealVars, ownVars, swapVars, phsVars, reconVars>>

ASSUME Swap!ExchangeAssumption /\ Phs!PhsAssumption /\ Recon!ReconAssumption

Init ==
  /\ part \in {"seal", "leased", "exchange", "phs", "recon"}
  /\ Seal!SealInit
  /\ Leased!SealInit
  /\ Swap!Init
  /\ Phs!Init
  /\ Recon!Init
  /\ part # "recon" => reconJournal.kind = "RECONCILIATION"

(* A step of the part that was picked; the others stay as they begin.      *)
SealStep == part = "seal" /\ Seal!SealNext /\ UNCHANGED <<part, ownVars, swapVars,
            phsVars, reconVars>>
LeasedStep == part = "leased" /\ Leased!SealNext /\ UNCHANGED <<part, sealVars,
              swapVars, phsVars, reconVars>>
SwapStep == part = "exchange" /\ Swap!Next /\ UNCHANGED <<part, sealVars, ownVars,
            phsVars, reconVars>>
PhsStep == part = "phs" /\ Phs!Next /\ UNCHANGED <<part, sealVars, ownVars, swapVars,
           reconVars>>
ReconStep == part = "recon" /\ Recon!Next /\ UNCHANGED <<part, sealVars, ownVars,
             swapVars, phsVars>>

Next == SealStep \/ LeasedStep \/ SwapStep \/ PhsStep \/ ReconStep
Spec == Init /\ [][Next]_vars

------------------------------------------------------------------------------
(* A confirmed intent is not forgotten: lost answers, older intents that   *)
(* keep failing and, for an intent under a lease, a crash or a failed      *)
(* write do not stop it from being settled (transfer_seal.py drain_pending *)
(* and the recovery at startup).                                           *)
ConfirmedSettles ==
  /\ Seal!SealFairness => Seal!ConfirmedSettles
  /\ Leased!SealFairness => Leased!ConfirmedSettles

(* An exchange the server has committed ends: it is in the tray, a person  *)
(* has it, or the tray is gone (transfer_member_exchange.py drain_pending  *)
(* and the window's reconcile).                                            *)
CommittedSettles == Swap!Fairness => Swap!CommittedSettles

(* Every exchange and every reconciliation of PHS labels that was begun is *)
(* settled (_schedule_phs_label_exchange_recovery and the F8 shortcut).    *)
LabelsSettle ==
  /\ Phs!Fairness => Phs!ExchangeSettles
  /\ Recon!Fairness => Recon!ReconciliationSettles
==============================================================================
