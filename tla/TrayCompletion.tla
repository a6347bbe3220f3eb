--------------------------- MODULE TrayCompletion ---------------------------
(***************************************************************************)
(* The tray on the screen, its state file and the TRAY_COMPLETE record     *)
(* around the transfer seal (tray_completion.py, the tray-state and        *)
(* startup parts of Container_Audit.py, event_log_store.py).               *)
(*                                                                         *)
(* A completion passes four places that no transaction spans: the transfer *)
(* store, the lease store, the tray's JSON state file and the CSV event    *)
(* log.  The completion contract saved with the tray is what lets a        *)
(* restarted program finish the same completion instead of a second one.   *)
(***************************************************************************)
EXTENDS TransferSeal

VARIABLES
  tray,       \* current_tray and _pending_completion_event_contract (volatile)
  trayFile,   \* the saved tray state
  log,        \* TRAY_COMPLETE rows an intent's tray has in its log file
  logged,     \* intents some log file has such a row for
  remembered, \* completed intents whose label is refused (volatile)
  recording   \* progress of complete_tray_steps within the lane's last step

trayOnly == <<tray, trayFile, log, logged, remembered, recording>>
trayVars == <<sealVars, trayOnly>>

(* The contract's flag log_may_have_been_attempted: "prepared" is FALSE.   *)
Contracts == {"none", "prepared", "attempted"}
Trays     == [intent : Intents \cup {NoIntent}, contract : Contracts]
NoTray    == [intent |-> NoIntent, contract |-> "none"]

Recordings == {"none", "append", "appendOnce", "apply"}

TrayTypeOK ==
  /\ SealTypeOK
  /\ tray \in Trays
  /\ trayFile \in Trays
  /\ log \in [Intents -> Nat]
  /\ logged \subseteq Intents
  /\ remembered \subseteq Intents
  /\ recording \in Recordings
  /\ recording # "none" => lane.step = "finish" /\ tray.intent = lane.target

TrayInit ==
  /\ SealInit
  /\ tray = NoTray
  /\ trayFile = NoTray
  /\ log = [i \in Intents |-> 0]
  /\ logged = {}
  /\ remembered = {}
  /\ recording = "none"

-----------------------------------------------------------------------------
(* Opening and dropping a tray.                                            *)

(* A master label is scanned for a preflight only without a tray, and not  *)
(* when the log read at login shows it completed.                          *)
ScanLabel(lb) ==
  /\ lane.step = "idle" /\ tray = NoTray
  /\ \A i \in remembered : Leased(i) => LabelOf[LeaseOf[i]] # lb
  /\ StartPreflight(lb)
  /\ UNCHANGED <<sealOnly, trayOnly>>

(* The tray is opened under the lease just prefetched (or with a label     *)
(* that needs none), filled, and saved; its scans fix the intent.  A label *)
(* that is no longer remembered was completed on another day or by another *)
(* worker, and this tray's record goes to another log file.                *)
OpenTray(i) ==
  /\ LaneIdle /\ tray = NoTray
  /\ i \notin remembered
  /\ Leased(i) => preflight.step = "ready" /\ preflight.lease = LeaseOf[i]
  /\ tray' = [intent |-> i, contract |-> "none"]
  /\ trayFile' = tray'
  /\ log' = [log EXCEPT ![i] = 0]
  /\ preflight' = NoPreflight
  /\ UNCHANGED <<leaseDb, exchange, leaseCentral, expired, sealOnly,
                 logged, remembered, recording>>

(* Mutant: a locked tray can be reset too.                                 *)
DiscardTray_Locked ==
  /\ LaneIdle /\ tray.intent # NoIntent
  /\ tray' = NoTray
  /\ trayFile' = NoTray
  /\ UNCHANGED <<sealVars, log, logged, remembered, recording>>

(* A tray with no completion contract can be reset; one with a contract is *)
(* locked.                                                                 *)
DiscardTray ==
  /\ LaneIdle /\ tray.intent # NoIntent /\ tray.contract = "none"
  /\ tray' = NoTray
  /\ trayFile' = NoTray
  /\ UNCHANGED <<sealVars, log, logged, remembered, recording>>

-----------------------------------------------------------------------------
(* Completing it.                                                          *)

RequestCompleteTray ==
  /\ tray.intent # NoIntent
  /\ Prepare(tray.intent)
  /\ UNCHANGED trayOnly

WithContract(t) == [t EXCEPT !.contract = IF @ = "none" THEN "prepared" ELSE @]

(* prepared_completion_contract_steps: the contract is kept in memory      *)
(* whether or not the save succeeds; the checkpoint needs the save.        *)
SavePreparedContract ==
  /\ tray.intent = lane.target
  /\ tray' = WithContract(tray)
  /\ trayFile' = tray'
  /\ PersistContract
  /\ UNCHANGED <<log, logged, remembered, recording>>

SavePreparedContractFails ==
  /\ lane.step = "contract" /\ tray.intent = lane.target /\ Fault
  /\ tray' = WithContract(tray)
  /\ lane' = NoLane
  /\ UNCHANGED <<leaseVars, storeVars, netVars, startup, audits, reviewPosts,
                 trayFile, log, logged, remembered, recording>>

(* Mutant: the earlier attempt is not remembered.                          *)
SaveAttemptedContract_Forgets ==
  /\ lane.step = "finish" /\ recording = "none"
  /\ tray' = [tray EXCEPT !.contract = "attempted"]
  /\ trayFile' = tray'
  /\ recording' = "append"
  /\ UNCHANGED <<leaseVars, sealOnly, log, logged, remembered>>

(* complete_tray_steps: the contract says that the record may have been    *)
(* attempted before it is; a completion that had said so before dedupes.   *)
SaveAttemptedContract ==
  /\ lane.step = "finish" /\ recording = "none"
  /\ tray' = [tray EXCEPT !.contract = "attempted"]
  /\ \/ /\ trayFile' = tray'
        /\ recording' = IF tray.contract = "attempted" THEN "appendOnce" ELSE "append"
        /\ UNCHANGED <<lane, faults>>
     \/ /\ Fault /\ lane' = NoLane
        /\ UNCHANGED <<trayFile, recording>>
  /\ UNCHANGED <<leaseVars, storeVars, netVars, startup, audits, reviewPosts,
                 log, logged, remembered>>

(* The append: a deduplicated one first looks for the same key.            *)
AppendRow(i) ==
  /\ log' = IF recording = "appendOnce" /\ log[i] > 0 THEN log
            ELSE [log EXCEPT ![i] = @ + 1]
  /\ logged' = logged \cup {i}

(* TRAY_COMPLETE is appended; that can fail after the row reached the file.*)
AppendTrayComplete ==
  /\ recording \in {"append", "appendOnce"}
  /\ \/ /\ AppendRow(lane.target)
        /\ recording' = "apply"
        /\ UNCHANGED <<lane, faults>>
     \/ /\ Fault
        /\ AppendRow(lane.target) \/ UNCHANGED <<log, logged>>
        /\ recording' = "none"
        /\ lane' = NoLane
  /\ UNCHANGED <<leaseVars, storeVars, netVars, startup, audits, reviewPosts,
                 tray, trayFile, remembered>>

(* The completed tray is applied: its label remembered, the tray cleared,  *)
(* the state file deleted or, when that fails, left behind.                *)
ApplyCompletedTray ==
  /\ recording = "apply"
  /\ remembered' = remembered \cup {tray.intent}
  /\ tray' = NoTray
  /\ \/ trayFile' = NoTray /\ UNCHANGED faults
     \/ Fault /\ UNCHANGED trayFile
  /\ recording' = "none"
  /\ lane' = NoLane
  /\ UNCHANGED <<leaseVars, storeVars, netVars, startup, audits, reviewPosts, log, logged>>

-----------------------------------------------------------------------------
(* A new process: the completed labels are read from the log of this       *)
(* worker and day, the saved tray is discarded if its label is among them  *)
(* and restored with its contract otherwise.                               *)
LoadTrayState ==
  /\ remembered' \in SUBSET logged
  /\ tray' = IF trayFile.intent \in remembered' THEN NoTray ELSE trayFile
  /\ trayFile' = tray'
  /\ recording' = "none"
  /\ UNCHANGED <<log, logged>>

CrashAndLoad   == Crash /\ LoadTrayState
RestartAndLoad == Restart /\ LoadTrayState

-----------------------------------------------------------------------------
CompleteNext ==
  \/ RequestCompleteTray
  \/ (LinkCompletion \/ LinkRefused \/ ConfirmCheckpoint) /\ UNCHANGED trayOnly
  \/ SavePreparedContract \/ SavePreparedContractFails
  \/ SaveAttemptedContract \/ AppendTrayComplete \/ ApplyCompletedTray

(* The rest of the seal and of the leases runs as before.                  *)
SealSide ==
  /\ \/ AttemptNext \/ ServerSide \/ StartDrain
     \/ \E i \in Intents : StartRetry(i) \/ StartRecheck(i)
     \/ lane.step # "finish" /\ LaneFails
  /\ UNCHANGED trayOnly

LeaseTraySide ==
  /\ \/ RetryReleased \/ IssueReply \/ PreflightFails
     \/ SavePrefetched \/ RecordAuthenticatedNonactive
     \/ CentralNext
     \/ lane.step = "idle" /\ RotationNext
  /\ UNCHANGED <<sealOnly, trayOnly>>

TrayNext ==
  \/ \E lb \in Labels : ScanLabel(lb)
  \/ \E i \in Intents : OpenTray(i)
  \/ DiscardTray \/ CompleteNext \/ SealSide \/ LeaseTraySide
  \/ CrashAndLoad \/ RestartAndLoad

TraySpec == TrayInit /\ [][TrayNext]_trayVars

-----------------------------------------------------------------------------
(* Properties.                                                             *)

(* TRAY_COMPLETE is recorded at most once for a tray, although its append  *)
(* can fail after the row was written, the program can die at any step     *)
(* before the tray is cleared and the tray's file can outlive it.          *)
TrayCompleteOnce == \A i \in Intents : log[i] <= 1

(* The log never runs ahead of the transfer store: a recorded completion   *)
(* belongs to a confirmed intent and, under a lease, to the intent the     *)
(* lease was completed for.                                                *)
LogAfterEvidence ==
  \A i \in logged :
    i \in checkpoint /\ (Leased(i) => completion[LeaseOf[i]] = i)

(* A central command never outlives its tray: once a command is bound the  *)
(* tray is on disk with its completion contract until the completion is in *)
(* the log, and the log in turn has its evidence (complete_tray_steps).    *)
CommandKeepsTray ==
  /\ TrayTypeOK /\ LogAfterEvidence
  /\ \A i \in Intents : command[i] # NoPayload =>
       i \in logged \/ (trayFile.intent = i /\ trayFile.contract # "none")

(* An exact receipt of the intent's own key can be recorded, so that the   *)
(* intent becomes ACKED: a lost answer is recovered by its receipt.        *)
ExactReceiptRecorded ==
  lane.step = "receipt" => CanRecordLeaseReceipt(LeaseOf[lane.cur], lane.cur)
=============================================================================
