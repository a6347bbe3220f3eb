------------------------ MODULE TrayCompletion_proofs ------------------------
(***************************************************************************)
(* Proofs about the tray around the transfer seal: that every step of the  *)
(* tray's program is a step of the seal's, or drops a used preflight, so   *)
(* that the seal's invariant and contract hold here too; that a bound      *)
(* command never outlives its tray; and that TRAY_COMPLETE is recorded     *)
(* once.  For any number of intents, leases, payloads, faults and audits.  *)
(***************************************************************************)
EXTENDS TrayCompletion, TransferSeal_proofs

(* The steps of a completion before its checkpoint.                        *)
Unconfirmed == {"prepared", "contract", "confirm"}

(* The saved tray lags behind the one on the screen by a failed save of    *)
(* its contract at most, and outlives it only once it is logged.           *)
FileSound ==
  /\ tray.intent = NoIntent => tray = NoTray
  /\ trayFile.intent = NoIntent => trayFile = NoTray
  /\ tray = NoTray /\ trayFile # NoTray => trayFile.intent \in logged
  /\ tray # NoTray =>
       /\ trayFile.intent = tray.intent
       /\ trayFile.contract # "none" => tray.contract # "none"
       /\ trayFile.contract = "attempted" => tray.contract = "attempted"

(* A completion runs for the tray on the screen; its contract is on disk   *)
(* when the checkpoint is confirmed, and all that follows has it confirmed.*)
LaneTraySound ==
  lane.task = "complete" =>
    /\ lane.step # "idle" /\ tray.intent = lane.target
    /\ lane.step = "confirm" => trayFile.contract # "none"
    /\ lane.step \notin Unconfirmed => lane.target \in checkpoint

(* The lane and a preflight are never under way at once.                   *)
OneTask == lane.step = "idle" \/ PreflightIdle

(* A confirmed intent is logged, or its tray is on disk with its contract. *)
CheckpointKeepsTray ==
  \A i \in checkpoint : i \in logged \/ (trayFile.intent = i /\ trayFile.contract # "none")

(* A row that may be in the log is known from the saved contract; one that *)
(* is appended without looking is the first.                               *)
LogSound ==
  /\ TrayCompleteOnce
  /\ logged \subseteq checkpoint
  /\ \A i \in Intents : trayFile.intent = i /\ log[i] > 0 => trayFile.contract = "attempted"
  /\ recording # "none" => trayFile.contract = "attempted"
  /\ recording = "append" => log[lane.target] = 0
  /\ recording = "apply" => lane.target \in logged

TrayInv ==
  /\ SealInv
  /\ TrayTypeOK
  /\ FileSound
  /\ OneTask
  /\ LaneTraySound
  /\ CheckpointKeepsTray
  /\ LogSound

-----------------------------------------------------------------------------
(* Every step of the tray's program is a step of the seal, or leaves it    *)
(* alone, or uses up the preflight that opened the tray.                   *)

PreflightUsed ==
  /\ preflight' = NoPreflight
  /\ UNCHANGED <<leaseDb, exchange, leaseCentral, expired, sealOnly>>

LEMMA TrayStepIsSealStep ==
  ASSUME TrayInv, [TrayNext]_trayVars
  PROVE  [SealNext]_sealVars \/ PreflightUsed
<1>1. CASE UNCHANGED trayVars
  BY <1>1 DEF trayVars
<1>2. ASSUME NEW lb \in Labels, ScanLabel(lb) PROVE SealNext
  BY <1>2 DEF ScanLabel, SealNext, LeaseSide, PreflightNext
<1>3. ASSUME NEW i \in Intents, OpenTray(i) PROVE PreflightUsed
  BY <1>3 DEF OpenTray, PreflightUsed
<1>4. CASE DiscardTray
  BY <1>4 DEF DiscardTray
<1>5. CASE CompleteNext
  <2>1. CASE RequestCompleteTray
    <3>1. tray.intent \in Intents
      BY <2>1 DEF RequestCompleteTray, TrayInv, TrayTypeOK, Trays
    <3>2. QED
      BY <2>1, <3>1 DEF RequestCompleteTray, SealNext, CompletionNext
  <2>2. CASE SavePreparedContract
    BY <2>2 DEF SavePreparedContract, SealNext, CompletionNext
  <2>3. ASSUME Fault, lane.step \in {"contract", "finish"}, lane' = NoLane,
               UNCHANGED <<leaseVars, storeVars, netVars, startup, audits, reviewPosts>>
        PROVE  SealNext
    BY <2>3 DEF LaneFails, SealNext, TaskNext
  <2>4. CASE SavePreparedContractFails
    BY <2>3, <2>4 DEF SavePreparedContractFails
  <2>5. CASE SaveAttemptedContract
    BY <2>3, <2>5 DEF SaveAttemptedContract, sealVars, sealOnly
  <2>6. CASE AppendTrayComplete
    <3>1. lane.step = "finish"
      BY <2>6 DEF AppendTrayComplete, TrayInv, TrayTypeOK
    <3>2. QED
      BY <2>3, <2>6, <3>1 DEF AppendTrayComplete, sealVars, sealOnly
  <2>7. CASE ApplyCompletedTray
    <3>1. lane.step = "finish"
      BY <2>7 DEF ApplyCompletedTray, TrayInv, TrayTypeOK
    <3>2. CASE UNCHANGED faults
      BY <2>7, <3>1, <3>2 DEF ApplyCompletedTray, FinishCompletion, SealNext, CompletionNext
    <3>3. CASE Fault
      BY <2>3, <2>7, <3>1, <3>3 DEF ApplyCompletedTray
    <3>4. QED
      BY <2>7, <3>2, <3>3 DEF ApplyCompletedTray
  <2>8. QED
    BY <1>5, <2>1, <2>2, <2>4, <2>5, <2>6, <2>7 DEF CompleteNext, SealNext, CompletionNext
<1>6. CASE SealSide
  BY <1>6 DEF SealSide, SealNext, TaskNext
<1>7. CASE LeaseTraySide
  <2>1. lane.step = "idle" \/ CentralNext
    BY <1>7 DEF LeaseTraySide, TrayInv, OneTask, PreflightIdle, RetryReleased, IssueReply,
       PreflightFails, SavePrefetched, RecordAuthenticatedNonactive
  <2>2. QED
    BY <1>7, <2>1 DEF LeaseTraySide, SealNext, LeaseSide, PreflightNext
<1>8. CASE CrashAndLoad \/ RestartAndLoad
  BY <1>8 DEF CrashAndLoad, RestartAndLoad, SealNext, TaskNext
<1>9. QED
  BY <1>1, <1>2, <1>3, <1>4, <1>5, <1>6, <1>7, <1>8 DEF TrayNext

(* Opening a tray uses up its preflight, of which the seal knows nothing.  *)
LEMMA PreflightUsedKeeps ==
  ASSUME SealInv, PreflightUsed
  PROVE  SealInv' /\ UNCHANGED <<status, command, checkpoint, sealed, lane>>
<1>1. [LeaseNext]_leaseVars
  BY DEF PreflightUsed, LeaseNext, LeaseCrash, leaseVars
<1>2. LeaseInv'
  BY <1>1, LeaseInvStep DEF SealInv
<1>3. UNCHANGED <<status, older, checkpoint, command, reviewCases, sealed, late, lane, startup,
                  audits, reviewPosts, faults, leaseDb, exchange, leaseCentral>>
  BY DEF PreflightUsed, sealOnly, storeVars, netVars
<1>4. LaneSound' /\ StoreSound' /\ ResendIsAudited'
  BY <1>3 DEF SealInv, SealTypeOK, LaneSound, LaneTypeOK, CompletionSound, QueueSound,
     AttemptSound, StoreSound, CheckpointSound, Linked, CommandAfterEvidence,
     OnePayloadPerKey, AckedIsProved, ResendIsAudited, leaseDb
<1>5. SealTypeOK'
  BY <1>2, <1>3 DEF SealInv, SealTypeOK, LeaseInv
<1>6. QED
  BY <1>2, <1>3, <1>4, <1>5 DEF SealInv, LaneSound, StoreSound

(* So the seal's invariant and its contract survive the tray's steps.      *)
LEMMA TrayStepKeepsSeal ==
  ASSUME TrayInv, [TrayNext]_trayVars
  PROVE  SealInv' /\ ContractStep
<1>1. SealInv
  BY DEF TrayInv
<1>2. CASE PreflightUsed
  <2>1. SealInv' /\ UNCHANGED <<status, checkpoint, sealed>>
    BY <1>1, <1>2, PreflightUsedKeeps
  <2>2. QED
    BY <2>1, QuietStep
<1>3. CASE [SealNext]_sealVars
  BY <1>1, <1>3, SealInvStep, SealStepOutcome
<1>4. QED
  BY <1>2, <1>3, TrayStepIsSealStep

-----------------------------------------------------------------------------
(* What the seal's steps do to the lane, as far as the tray can tell.      *)

SameTask ==
  \/ lane' = NoLane
  \/ lane'.task = lane.task /\ lane'.target = lane.target /\ lane'.step \notin Unconfirmed \cup {"idle"}

LEMMA ProceedTask ==
  ASSUME LaneTypeOK, NEW q, Proceed(q) \/ lane' = Finished
  PROVE  SameTask
  BY DEF LaneTypeOK, Proceed, Finished, SameTask, Unconfirmed

LEMMA RecordErrorTask ==
  ASSUME LaneTypeOK, NEW class, RecordError(class)
  PROVE  SameTask /\ UNCHANGED checkpoint
<1>1. CASE Proceed(lane.queue)
  BY <1>1, ProceedTask DEF RecordError
<1>2. CASE lane' = [lane EXCEPT !.step = "review"]
  BY <1>2 DEF RecordError, LaneTypeOK, SameTask, Unconfirmed
<1>3. QED
  BY <1>1, <1>2 DEF RecordError

LEMMA AttemptTask ==
  ASSUME SealInv, AttemptNext
  PROVE  lane.step \in Attempting /\ SameTask /\ UNCHANGED <<checkpoint, preflight>>
<1>1. LaneTypeOK
  BY DEF SealInv, SealTypeOK, LaneTypeOK
<1>2. ASSUME NEW p \in Payloads, BindCommand(p)
      PROVE  lane.step \in Attempting /\ SameTask /\ UNCHANGED <<checkpoint, preflight>>
  BY <1>1, <1>2 DEF BindCommand, LaneTypeOK, SameTask, Unconfirmed, Attempting, leaseVars
<1>3. ASSUME NEW c \in Classes, BuildFails(c) \/ AnswerError(c) \/ ReceiptMissing(c)
      PROVE  lane.step \in Attempting /\ SameTask /\ UNCHANGED <<checkpoint, preflight>>
  <2>1. lane.step \in Attempting /\ UNCHANGED preflight
    BY <1>3 DEF BuildFails, AnswerError, ReceiptMissing, Attempting, Commanded, leaseVars
  <2>2. RecordError(c) \/ (lane' = NoLane /\ UNCHANGED storeVars)
    BY <1>3 DEF BuildFails, AnswerError, ReceiptMissing
  <2>3. QED
    BY <1>1, <2>1, <2>2, RecordErrorTask DEF SameTask, storeVars
<1>4. CASE PostSeal \/ AnswerCommitted \/ PostTimeout \/ AnswerReceipt \/ ReceiptFound
  BY <1>1, <1>4 DEF PostSeal, AnswerCommitted, PostTimeout, AnswerReceipt, ReceiptFound,
     GotReceipt, LaneTypeOK, SameTask, Unconfirmed, Attempting, Commanded, leaseVars, storeVars
<1>5. CASE AckLease
  BY <1>1, <1>5 DEF AckLease, RecordLeaseReceipt, LaneTypeOK, SameTask, Unconfirmed,
     Attempting, Commanded, leaseVars, storeVars
<1>6. CASE AckLeaseFails
  <2>1. RecordError("review") \/ (lane' = NoLane /\ UNCHANGED storeVars)
    BY <1>6 DEF AckLeaseFails
  <2>2. QED
    BY <1>1, <1>6, <2>1, RecordErrorTask
       DEF AckLeaseFails, SameTask, Attempting, Commanded, leaseVars, storeVars
<1>7. CASE RecordReceipt \/ AttemptFails
  <2>1. SameTask
    BY <1>1, <1>7, ProceedTask DEF RecordReceipt, AttemptFails
  <2>2. QED
    BY <1>7, <2>1 DEF RecordReceipt, AttemptFails, Attempting, Commanded, leaseVars
<1>8. CASE ReviewLease
  <2>1. SameTask
    BY <1>1, <1>8, ProceedTask DEF ReviewLease
  <2>2. QED
    BY <1>8, <2>1 DEF ReviewLease, RecordLeaseReview, Attempting, leaseVars, storeVars
<1>9. QED
  BY <1>2, <1>3, <1>4, <1>5, <1>6, <1>7, <1>8 DEF AttemptNext

-----------------------------------------------------------------------------
(* The inductive step.                                                     *)

(* A step that leaves the tray, its file and the log alone.                *)
LEMMA SealOnlyStep ==
  ASSUME TrayInv, SealInv', UNCHANGED trayOnly, OneTask', LaneTraySound',
         checkpoint' = checkpoint \/ (CheckpointKeepsTray' /\ checkpoint \subseteq checkpoint'),
         recording # "none" => UNCHANGED lane
  PROVE  TrayInv'
<1>1. UNCHANGED <<tray, trayFile, log, logged, remembered, recording>>
  BY DEF trayOnly
<1>2. TrayTypeOK'
  BY <1>1 DEF TrayInv, TrayTypeOK, SealInv
<1>3. FileSound'
  BY <1>1 DEF TrayInv, FileSound
<1>4. CheckpointKeepsTray' /\ LogSound'
  BY <1>1 DEF TrayInv, CheckpointKeepsTray, LogSound, TrayCompleteOnce
<1>5. QED
  BY <1>2, <1>3, <1>4 DEF TrayInv

LEMMA TrayInvStep == TrayInv /\ [TrayNext]_trayVars => TrayInv'
<1> SUFFICES ASSUME TrayInv, [TrayNext]_trayVars PROVE TrayInv'
  OBVIOUS
<1> USE LeaseConstants, SealConstants
<1>1. /\ SealInv' /\ SealTypeOK'
      /\ tray \in Trays /\ trayFile \in Trays
      /\ log \in [Intents -> Nat] /\ logged \subseteq Intents /\ remembered \subseteq Intents
      /\ recording \in Recordings
      /\ recording # "none" => lane.step = "finish" /\ tray.intent = lane.target
  BY TrayStepKeepsSeal DEF SealInv, TrayInv, TrayTypeOK
<1>2. LaneTypeOK /\ SealInv
  BY DEF TrayInv, SealInv, SealTypeOK, LaneTypeOK
<1>3. /\ lane.task = "complete" => lane.target \in Intents
      /\ lane.step \in {"contract", "confirm", "finish"} =>
           lane.task = "complete" /\ lane.cur = lane.target
      /\ checkpoint \subseteq Intents
  BY <1>2 DEF SealInv, CompletionSound, SealTypeOK
<1>4. CASE UNCHANGED trayVars
  <2>1. UNCHANGED <<trayOnly, lane, preflight, checkpoint>>
    BY <1>4 DEF trayVars, sealVars, sealOnly, storeVars, leaseVars
  <2>2. UNCHANGED <<tray, trayFile>>
    BY <2>1 DEF trayOnly
  <2>3. OneTask' /\ LaneTraySound'
    BY <2>1, <2>2 DEF TrayInv, OneTask, PreflightIdle, LaneTraySound
  <2>4. QED
    BY <1>1, <2>1, <2>3, SealOnlyStep
<1>5. ASSUME lane.step = "idle" PROVE recording = "none" /\ lane.task # "complete"
  BY <1>1, <1>5 DEF TrayInv, LaneTraySound
<1>6. ASSUME NEW lb \in Labels, ScanLabel(lb) PROVE TrayInv'
  <2>1. UNCHANGED <<trayOnly, lane, checkpoint>> /\ lane.step = "idle"
    BY <1>6 DEF ScanLabel, sealOnly, storeVars
  <2>2. OneTask' /\ LaneTraySound'
    BY <1>5, <2>1 DEF OneTask, LaneTraySound
  <2>3. QED
    BY <1>1, <2>1, <2>2, SealOnlyStep
<1>7. ASSUME NEW i \in Intents, OpenTray(i) PROVE TrayInv'
  <2>1. /\ lane.step = "idle" /\ tray = NoTray /\ recording' = recording
        /\ UNCHANGED <<lane, checkpoint, logged, remembered>>
        /\ tray' = [intent |-> i, contract |-> "none"] /\ trayFile' = tray'
        /\ log' = [log EXCEPT ![i] = 0]
    BY <1>7 DEF OpenTray, LaneIdle, sealOnly, storeVars
  <2>2. TrayTypeOK'
    BY <1>1, <1>5, <2>1 DEF TrayTypeOK, Trays, Contracts
  <2>3. FileSound' /\ OneTask' /\ LaneTraySound'
    BY <1>5, <2>1 DEF FileSound, OneTask, LaneTraySound, NoTray
  <2>4. CheckpointKeepsTray'
    BY <1>3, <2>1 DEF TrayInv, FileSound, CheckpointKeepsTray, NoTray
  <2>5. LogSound'
    BY <1>1, <1>5, <2>1 DEF TrayInv, LogSound, TrayCompleteOnce
  <2>6. QED
    BY <1>1, <2>2, <2>3, <2>4, <2>5 DEF TrayInv
<1>8. CASE DiscardTray
  <2>1. /\ lane.step = "idle" /\ tray # NoTray /\ tray.contract = "none"
        /\ tray' = NoTray /\ trayFile' = NoTray
        /\ UNCHANGED <<lane, checkpoint, preflight, log, logged, remembered, recording>>
    BY <1>8 DEF DiscardTray, LaneIdle, NoTray, sealVars, sealOnly, storeVars, leaseVars
  <2>2. TrayTypeOK'
    BY <1>1, <1>5, <2>1 DEF TrayTypeOK, Trays, Contracts, NoTray
  <2>3. FileSound' /\ OneTask' /\ LaneTraySound'
    BY <1>5, <2>1 DEF FileSound, OneTask, LaneTraySound, NoTray
  <2>4. CheckpointKeepsTray'
    BY <1>3, <2>1 DEF TrayInv, FileSound, CheckpointKeepsTray, NoTray
  <2>5. LogSound'
    BY <1>1, <1>5, <2>1 DEF TrayInv, LogSound, TrayCompleteOnce, NoTray
  <2>6. QED
    BY <1>1, <2>2, <2>3, <2>4, <2>5 DEF TrayInv
<1>9. CASE RequestCompleteTray
  <2>1. /\ tray.intent \in Intents /\ LaneIdle
        /\ lane' = [task |-> "complete", cur |-> tray.intent, target |-> tray.intent,
                    queue |-> {}, step |-> IF Leased(tray.intent) THEN "prepared" ELSE "contract"]
        /\ UNCHANGED <<trayOnly, tray, checkpoint, preflight>>
    BY <1>1, <1>9 DEF RequestCompleteTray, Prepare, Trays, leaseVars, trayOnly
  <2>2. OneTask' /\ LaneTraySound'
    BY <2>1 DEF OneTask, LaneIdle, PreflightIdle, LaneTraySound, Unconfirmed
  <2>3. QED
    BY <1>1, <1>5, <2>1, <2>2, SealOnlyStep DEF LaneIdle
<1>10. CASE (LinkCompletion \/ LinkRefused) /\ UNCHANGED trayOnly
  <2>1. /\ lane.step = "prepared" /\ UNCHANGED <<checkpoint, preflight, tray, trayFile>>
        /\ lane' = NoLane \/ lane' = [lane EXCEPT !.step = "contract"]
    BY <1>10 DEF LinkCompletion, LinkRefused, RecordLocalCompletion, storeVars, leaseVars, trayOnly
  <2>2. OneTask' /\ LaneTraySound'
    BY <1>2, <2>1
       DEF TrayInv, OneTask, PreflightIdle, LaneTraySound, Unconfirmed, NoLane, LaneTypeOK
  <2>3. QED
    BY <1>1, <1>10, <2>1, <2>2, SealOnlyStep
<1>11. CASE ConfirmCheckpoint /\ UNCHANGED trayOnly
  <2>1. /\ lane.step = "confirm" /\ UNCHANGED <<preflight, tray, trayFile, logged>>
        /\ checkpoint' = checkpoint \cup {lane.target}
    BY <1>11 DEF ConfirmCheckpoint, leaseVars, trayOnly
  <2>2. SameTask
    BY <1>2, <1>11, ProceedTask DEF ConfirmCheckpoint
  <2>3. OneTask' /\ LaneTraySound'
    BY <2>1, <2>2
       DEF TrayInv, OneTask, PreflightIdle, LaneTraySound, SameTask, Unconfirmed, NoLane
  <2>4. lane.target \in Intents /\ tray.intent = lane.target /\ trayFile.contract # "none"
    BY <1>3, <2>1 DEF TrayInv, LaneTraySound
  <2>5. trayFile.intent = lane.target
    BY <2>4 DEF TrayInv, FileSound, NoTray
  <2>6. CheckpointKeepsTray'
    BY <2>1, <2>4, <2>5 DEF TrayInv, CheckpointKeepsTray
  <2>7. QED
    BY <1>1, <1>11, <2>1, <2>3, <2>6, SealOnlyStep
<1>12. CASE SavePreparedContract \/ SavePreparedContractFails
  <2>1. /\ lane.step = "contract" /\ tray.intent = lane.target /\ tray' = WithContract(tray)
        /\ UNCHANGED <<checkpoint, preflight, log, logged, remembered, recording>>
        /\ \/ trayFile' = tray' /\ lane' = [lane EXCEPT !.step = "confirm"]
           \/ trayFile' = trayFile /\ lane' = NoLane
    BY <1>12 DEF SavePreparedContract, SavePreparedContractFails, PersistContract, leaseVars,
       storeVars
  <2>2. /\ lane.target \in Intents /\ recording = "none" /\ tray # NoTray
        /\ lane.task = "complete"
    BY <1>1, <1>3, <2>1 DEF NoTray
  <2>3. /\ tray' \in Trays /\ tray'.intent = tray.intent /\ tray'.contract # "none"
        /\ tray.contract # "none" => tray' = tray
        /\ tray'.contract = "attempted" <=> tray.contract = "attempted"
    BY <1>1, <2>1 DEF WithContract, Trays, Contracts
  <2>4. TrayTypeOK'
    BY <1>1, <2>1, <2>2, <2>3 DEF TrayTypeOK
  <2>5. FileSound'
    BY <2>1, <2>2, <2>3 DEF TrayInv, FileSound, NoTray
  <2>6. OneTask' /\ LaneTraySound'
    BY <1>2, <2>1, <2>2, <2>3 DEF TrayInv, OneTask, PreflightIdle, LaneTraySound, Unconfirmed,
       NoLane, LaneTypeOK
  <2>7. CheckpointKeepsTray'
    BY <2>1, <2>2, <2>3 DEF TrayInv, FileSound, CheckpointKeepsTray
  <2>8. LogSound'
    BY <1>1, <2>1, <2>2, <2>3 DEF TrayInv, FileSound, LogSound, TrayCompleteOnce
  <2>9. QED
    BY <1>1, <2>4, <2>5, <2>6, <2>7, <2>8 DEF TrayInv
<1>13. CASE SaveAttemptedContract
  <2>1. /\ lane.step = "finish" /\ recording = "none"
        /\ tray' = [tray EXCEPT !.contract = "attempted"]
        /\ UNCHANGED <<checkpoint, preflight, log, logged, remembered>>
        /\ \/ /\ trayFile' = tray' /\ lane' = lane
              /\ recording' = IF tray.contract = "attempted" THEN "appendOnce" ELSE "append"
           \/ trayFile' = trayFile /\ lane' = NoLane /\ recording' = recording
    BY <1>13 DEF SaveAttemptedContract, leaseVars, storeVars
  <2>2. /\ lane.target \in Intents /\ lane.task = "complete" /\ tray.intent = lane.target
        /\ lane.target \in checkpoint /\ tray # NoTray
    BY <1>3, <2>1 DEF TrayInv, LaneTraySound, Unconfirmed, NoTray
  <2>3. tray' \in Trays /\ tray'.intent = tray.intent /\ tray'.contract = "attempted"
    BY <1>1, <2>1 DEF Trays, Contracts
  <2>4. recording' \in Recordings /\ (recording' # "none" => lane' = lane)
    BY <2>1 DEF Recordings
  <2>5. TrayTypeOK'
    BY <1>1, <2>1, <2>2, <2>3, <2>4 DEF TrayTypeOK
  <2>6. FileSound'
    BY <2>1, <2>2, <2>3 DEF TrayInv, FileSound, NoTray
  <2>7. OneTask' /\ LaneTraySound'
    BY <2>1, <2>2, <2>3 DEF TrayInv, OneTask, PreflightIdle, LaneTraySound, NoLane
  <2>8. CheckpointKeepsTray'
    BY <2>1, <2>2, <2>3 DEF TrayInv, FileSound, CheckpointKeepsTray
  <2>9. recording' = "append" => log[lane.target] = 0
    BY <1>1, <2>1, <2>2 DEF TrayInv, FileSound, LogSound
  <2>10. LogSound'
    BY <1>1, <2>1, <2>2, <2>3, <2>9 DEF TrayInv, LogSound, TrayCompleteOnce
  <2>11. QED
    BY <1>1, <2>5, <2>6, <2>7, <2>8, <2>10 DEF TrayInv
<1>14. CASE AppendTrayComplete
  <2>1. /\ recording \in {"append", "appendOnce"}
        /\ AppendRow(lane.target) \/ UNCHANGED <<log, logged>>
        /\ UNCHANGED <<checkpoint, preflight, tray, trayFile, remembered>>
        /\ \/ recording' = "apply" /\ lane' = lane /\ AppendRow(lane.target)
           \/ recording' = "none" /\ lane' = NoLane
    BY <1>14 DEF AppendTrayComplete, leaseVars, storeVars
  <2>2. /\ lane.step = "finish" /\ tray.intent = lane.target /\ trayFile.contract = "attempted"
        /\ recording = "append" => log[lane.target] = 0
        /\ TrayCompleteOnce
    BY <1>1, <2>1 DEF TrayInv, LogSound
  <2>3. lane.target \in Intents /\ lane.target \in checkpoint
    BY <1>3, <2>2 DEF TrayInv, LaneTraySound, Unconfirmed
  <2>4. log' \in [Intents -> Nat] /\ logged' \in {logged, logged \cup {lane.target}}
    BY <1>1, <2>1, <2>3 DEF AppendRow
  <2>5. TrayCompleteOnce' /\ \A i \in Intents : i # lane.target => log'[i] = log[i]
    <3>1. CASE UNCHANGED log
      BY <2>2, <3>1 DEF TrayCompleteOnce
    <3>2. CASE log[lane.target] = 0 /\ log' = [log EXCEPT ![lane.target] = @ + 1]
      BY <1>1, <2>2, <2>3, <3>2 DEF TrayCompleteOnce
    <3>3. log[lane.target] > 0 \/ log[lane.target] = 0
      BY <1>1, <2>3
    <3>4. QED
      BY <2>1, <2>2, <3>1, <3>2, <3>3 DEF AppendRow
  <2>6. recording' = "apply" => lane.target \in logged'
    BY <2>1 DEF AppendRow
  <2>7. TrayTypeOK'
    BY <1>1, <2>1, <2>2, <2>3, <2>4 DEF TrayTypeOK, Recordings
  <2>8. FileSound'
    BY <2>1, <2>4 DEF TrayInv, FileSound
  <2>9. OneTask' /\ LaneTraySound'
    BY <2>1, <2>2 DEF TrayInv, OneTask, PreflightIdle, LaneTraySound, NoLane
  <2>10. trayFile.intent = lane.target
    BY <2>2, <2>3 DEF TrayInv, FileSound, NoTray
  <2>11. CheckpointKeepsTray'
    BY <2>1, <2>4 DEF TrayInv, CheckpointKeepsTray
  <2>12. LogSound'
    BY <1>1, <2>1, <2>2, <2>3, <2>4, <2>5, <2>6, <2>10 DEF TrayInv, LogSound
  <2>13. QED
    BY <1>1, <2>7, <2>8, <2>9, <2>11, <2>12 DEF TrayInv
<1>15. CASE ApplyCompletedTray
  <2>1. /\ recording = "apply" /\ recording' = "none" /\ lane' = NoLane /\ tray' = NoTray
        /\ remembered' = remembered \cup {tray.intent}
        /\ trayFile' = NoTray \/ trayFile' = trayFile
        /\ UNCHANGED <<checkpoint, preflight, log, logged>>
    BY <1>15 DEF ApplyCompletedTray, leaseVars, storeVars
  <2>2. /\ lane.step = "finish" /\ tray.intent = lane.target /\ lane.target \in logged
        /\ lane.target \in Intents
    BY <1>1, <1>3, <2>1 DEF TrayInv, LogSound
  <2>3. trayFile.intent = lane.target
    BY <2>2 DEF TrayInv, FileSound, NoTray
  <2>4. TrayTypeOK'
    BY <1>1, <2>1, <2>2 DEF TrayTypeOK, Trays, Contracts, NoTray, Recordings
  <2>5. FileSound'
    BY <2>1, <2>2, <2>3 DEF FileSound, NoTray
  <2>6. OneTask' /\ LaneTraySound'
    BY <2>1 DEF OneTask, LaneTraySound, NoLane
  <2>7. CheckpointKeepsTray'
    BY <2>1, <2>2, <2>3 DEF TrayInv, CheckpointKeepsTray
  <2>8. LogSound'
    BY <1>1, <2>1 DEF TrayInv, LogSound, TrayCompleteOnce, NoTray
  <2>9. QED
    BY <1>1, <2>4, <2>5, <2>6, <2>7, <2>8 DEF TrayInv
<1>16. CASE SealSide
  <2>1. UNCHANGED <<tray, trayFile>> /\ UNCHANGED trayOnly
    BY <1>16 DEF SealSide, trayOnly
  <2>2. CASE AttemptNext
    <3>1. lane.step \in Attempting /\ SameTask /\ UNCHANGED <<checkpoint, preflight>>
      BY <1>2, <2>2, AttemptTask
    <3>2. OneTask' /\ LaneTraySound'
      BY <2>1, <3>1 DEF TrayInv, OneTask, PreflightIdle, LaneTraySound, SameTask, Unconfirmed,
         Attempting, Commanded, NoLane
    <3>3. recording = "none"
      BY <1>1, <3>1 DEF Attempting, Commanded
    <3>4. QED
      BY <1>1, <2>1, <3>1, <3>2, <3>3, SealOnlyStep
  <2>3. CASE ServerSide
    <3>1. UNCHANGED <<lane, checkpoint, preflight>>
      BY <2>3 DEF ServerSide, ServerSeal, storeVars
    <3>2. OneTask' /\ LaneTraySound'
      BY <2>1, <3>1 DEF TrayInv, OneTask, PreflightIdle, LaneTraySound
    <3>3. QED
      BY <1>1, <2>1, <3>1, <3>2, SealOnlyStep
  <2>4. CASE StartDrain \/ \E i \in Intents : StartRetry(i) \/ StartRecheck(i)
    <3>1. LaneIdle /\ UNCHANGED <<checkpoint, preflight>> /\ (lane' = lane \/ lane'.task # "complete")
      BY <2>4 DEF StartDrain, StartRetry, StartRecheck, leaseVars, storeVars
    <3>2. OneTask' /\ LaneTraySound'
      BY <1>5, <3>1 DEF OneTask, LaneIdle, PreflightIdle, LaneTraySound
    <3>3. QED
      BY <1>1, <1>5, <2>1, <3>1, <3>2, SealOnlyStep DEF LaneIdle
  <2>5. CASE lane.step # "finish" /\ LaneFails
    <3>1. lane' = NoLane /\ UNCHANGED <<checkpoint, preflight>> /\ recording = "none"
      BY <1>1, <2>5 DEF LaneFails, leaseVars, storeVars
    <3>2. OneTask' /\ LaneTraySound'
      BY <3>1 DEF OneTask, LaneTraySound, NoLane
    <3>3. QED
      BY <1>1, <2>1, <3>1, <3>2, SealOnlyStep
  <2>6. QED
    BY <1>16, <2>2, <2>3, <2>4, <2>5 DEF SealSide
<1>17. CASE LeaseTraySide
  <2>1. UNCHANGED <<trayOnly, tray, trayFile, lane, checkpoint>>
    BY <1>17 DEF LeaseTraySide, sealOnly, storeVars, trayOnly
  <2>2. LaneTraySound'
    BY <2>1 DEF TrayInv, LaneTraySound
  <2>3. OneTask'
    <3>1. CASE lane.step = "idle"
      BY <2>1, <3>1 DEF OneTask
    <3>2. CASE CentralNext
      <4>1. UNCHANGED preflight
        BY <3>2 DEF CentralNext, CentralIssue, Expire, CentralReview
      <4>2. QED
        BY <2>1, <4>1 DEF TrayInv, OneTask, PreflightIdle
    <3>3. QED
      BY <1>17, <3>1, <3>2 DEF LeaseTraySide, TrayInv, OneTask, PreflightIdle, RetryReleased,
         IssueReply, PreflightFails, SavePrefetched, RecordAuthenticatedNonactive
  <2>4. QED
    BY <1>1, <2>1, <2>2, <2>3, SealOnlyStep
<1>18. CASE CrashAndLoad \/ RestartAndLoad
  <2>1. /\ LoadTrayState /\ checkpoint' = checkpoint /\ preflight' = NoPreflight
        /\ lane' = NoLane \/ (lane.step = "idle" /\ lane' = lane)
    <3>1. CASE Crash /\ LoadTrayState
      BY <3>1 DEF Crash, storeVars
    <3>2. CASE Restart /\ LoadTrayState
      BY <3>2 DEF Restart, LaneIdle, storeVars
    <3>3. QED
      BY <1>18, <3>1, <3>2 DEF CrashAndLoad, RestartAndLoad
  <2>2. /\ remembered' \subseteq logged /\ trayFile' = tray' /\ recording' = "none"
        /\ tray' = IF trayFile.intent \in remembered' THEN NoTray ELSE trayFile
        /\ UNCHANGED <<log, logged>>
    BY <2>1 DEF LoadTrayState
  <2>3. TrayTypeOK'
    BY <1>1, <2>2 DEF TrayTypeOK, Trays, Contracts, NoTray, Recordings
  <2>4. FileSound'
    BY <1>1, <2>2 DEF TrayInv, FileSound, NoTray
  <2>5. OneTask' /\ LaneTraySound'
    BY <1>5, <2>1 DEF OneTask, PreflightIdle, NoPreflight, LaneTraySound, NoLane
  <2>6. CheckpointKeepsTray'
    BY <1>3, <2>1, <2>2 DEF TrayInv, CheckpointKeepsTray, NoTray
  <2>7. LogSound'
    BY <1>1, <2>1, <2>2 DEF TrayInv, LogSound, TrayCompleteOnce, NoTray
  <2>8. QED
    BY <1>1, <2>3, <2>4, <2>5, <2>6, <2>7 DEF TrayInv
<1>19. QED
  BY <1>4, <1>6, <1>7, <1>8, <1>9, <1>10, <1>11, <1>12, <1>13, <1>14, <1>15, <1>16, <1>17,
     <1>18 DEF TrayNext, CompleteNext

LEMMA TrayInvInit == TrayInit => TrayInv
<1> SUFFICES ASSUME TrayInit PROVE TrayInv
  OBVIOUS
<1> USE LeaseConstants, SealConstants
<1>1. SealInv
  BY SealInvInit DEF TrayInit
<1>2. TrayTypeOK
  BY <1>1 DEF TrayInit, SealInv, TrayTypeOK, Trays, Contracts, NoTray, Recordings
<1>3. QED
  BY <1>1, <1>2 DEF TrayInit, SealInit, LeaseInit, TrayInv, FileSound, OneTask, LaneTraySound,
     CheckpointKeepsTray, LogSound, TrayCompleteOnce, NoTray, NoLane, PreflightIdle, NoPreflight

-----------------------------------------------------------------------------
(* The theorems.                                                           *)

(* The inductive invariant of the tray's program, the seal's included.     *)
THEOREM TrayInvariant == TraySpec => []TrayInv
  BY TrayInvInit, TrayInvStep, PTL DEF TraySpec

(* The seal's guarantees hold of the whole program: evidence before the    *)
(* command, no ACK without its proofs, no unaudited resend.                *)
THEOREM TrayKeepsSeal ==
  TraySpec => [](CommandAfterEvidence /\ AckedIsProved /\ ResendIsAudited)
<1>1. TrayInv => CommandAfterEvidence /\ AckedIsProved /\ ResendIsAudited
  BY DEF TrayInv, SealInv
<1>2. QED
  BY <1>1, TrayInvariant, PTL

(* A bound command's tray is on disk with its contract until the log, and  *)
(* the log in turn has its evidence (complete_tray_steps).                 *)
THEOREM CommandHasTray == TraySpec => []CommandKeepsTray
<1>1. TrayInv => CommandKeepsTray
  BY DEF TrayInv, SealInv, CommandKeepsTray, LogSound, LogAfterEvidence, CheckpointSound, Linked,
     CommandAfterEvidence, CheckpointKeepsTray
<1>2. QED
  BY <1>1, TrayInvariant, PTL

(* TRAY_COMPLETE is recorded at most once for a tray, whatever append      *)
(* fails after its row was written and wherever the program dies.          *)
THEOREM RecordedOnce == TraySpec => []TrayCompleteOnce
<1>1. TrayInv => TrayCompleteOnce
  BY DEF TrayInv, LogSound
<1>2. QED
  BY <1>1, TrayInvariant, PTL

(* The whole program implements the contract of the seal.                  *)
THEOREM TrayImplementsContract == TraySpec => ImplementsContract
<1>1. TrayInit => Contract!ContractInit
  BY DEF TrayInit, SealInit, Contract!ContractInit
<1>2. TrayInv /\ [TrayNext]_trayVars => ContractStep
  BY TrayStepKeepsSeal
<1>3. QED
  BY <1>1, <1>2, TrayInvariant, PTL
     DEF TraySpec, ImplementsContract, Contract!ContractSpec, ContractStep
=============================================================================
