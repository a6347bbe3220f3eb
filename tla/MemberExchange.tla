--------------------------- MODULE MemberExchange ---------------------------
(***************************************************************************)
(* The central exchange of tray members (transfer_member_exchange.py, the  *)
(* exchange parts of Container_Audit.py and member_exchange_view.py).      *)
(*                                                                         *)
(* An exchange replaces one or two products of the open tray by others.    *)
(* The server does it atomically, consumes the tray's operation lease and  *)
(* issues its successor; the program then has to record the receipt, the   *)
(* rotation of the lease, the new tray and an event, in four places, and   *)
(* survive a stop between any two of them.  Until that is done the tray    *)
(* may not be completed, reset or parked.                                  *)
(***************************************************************************)
EXTENDS Naturals, FiniteSets, Sequences, SequencesExt

CONSTANTS
  Intents,      \* exchanges: label, pairs and predecessor lease fix an id
  NoIntent,
  OldOf, NewOf, \* the products an intent takes out of the tray and puts in
  PredOf,       \* fence of its predecessor lease; 0: a row without a lease
  FirstTray,    \* [members, lease] of the tray at the start
  LeftBehind,   \* intents whose row an earlier version left in the store
  MaxFaults     \* failed writes, lost answers, crashes (bound)

ExchangeAssumption ==
  /\ NoIntent \notin Intents
  /\ PredOf \in [Intents -> Nat]
  /\ \A i \in Intents : OldOf[i] \cap NewOf[i] = {}
  /\ \A i \in LeftBehind : i \in Intents /\ PredOf[i] = 0
  /\ MaxFaults \in Nat

VARIABLES
  row,       \* transfer_member_exchange_intents and its dismissals
  created,   \* the rows in the order of created_at
  rotated,   \* intents whose rotation the lease store has recorded
  tray,      \* current_tray (volatile)
  trayFile,  \* the saved tray state
  logged,    \* intents with a PRODUCT_EXCHANGE_* event in the log
  snapshot,  \* _transfer_member_exchange_attempt_snapshot (volatile)
  dialog,    \* the exchange dialog and its session (volatile)
  lane,      \* the task of the UI lane (volatile)
  pending,   \* recovery and reconcile requested (volatile)
  net,       \* POSTs left unanswered that the server may still act on
  central,   \* intents the server has committed
  bound,     \* members the server has bound to each lease fence
  expired,   \* fences whose lease has expired
  faults

vars == <<row, created, rotated, tray, trayFile, logged, snapshot, dialog, lane,
          pending, net, central, bound, expired, faults>>
storeVars  == <<row, created>>
localVars  == <<rotated, tray, trayFile, logged>>
uiVars     == <<snapshot, dialog, pending>>
serverVars == <<net, central, bound, expired>>

PendingStatuses == {"PREPARED", "COMMAND_READY", "RETRY_WAIT", "OPERATOR_REVIEW"}
Preflight       == {"PREPARED", "RETRY_WAIT", "OPERATOR_REVIEW"}
LocalStatuses   == {"PENDING", "APPLIED", "OPERATOR_REVIEW"}
Rows == [status : PendingStatuses \cup {"absent", "ACKED"}, applied : LocalStatuses,
         command : BOOLEAN, dismissed : BOOLEAN]

Tasks == {"none", "exchange", "cancel", "drain", "reconcile"}
Steps == {"idle", "prepare", "attempt", "build", "lookup", "post", "await", "got",
          "settle", "classify", "apply", "save", "log", "existing", "fixlease",
          "mark", "finish"}
Snapshots == {"unknown", "clear", "blocked", "unapplied"}

NoTray    == [members |-> {}, lease |-> 0]
NoDialog  == [open |-> FALSE, session |-> NoIntent, known |-> FALSE]
NoLane    == [task |-> "none", step |-> "idle", cur |-> NoIntent, todo |-> <<>>,
              was |-> NoTray, ok |-> FALSE, seen |-> "unknown"]
AbsentRow == [status |-> "absent", applied |-> "PENDING", command |-> FALSE,
              dismissed |-> FALSE]

Products == FirstTray.members \cup UNION {NewOf[i] : i \in Intents}
Trays    == [members : SUBSET Products, lease : Nat]

ExchangeTypeOK ==
  /\ row \in [Intents -> Rows]
  /\ created \in Seq(Intents)
  /\ rotated \subseteq central
  /\ tray \in Trays /\ trayFile \in Trays
  /\ logged \subseteq central
  /\ snapshot \in Snapshots
  /\ dialog \in [open : BOOLEAN, session : Intents \cup {NoIntent}, known : BOOLEAN]
  /\ lane \in [task : Tasks, step : Steps, cur : Intents \cup {NoIntent},
               todo : Seq(Intents), was : Trays, ok : BOOLEAN, seen : Snapshots]
  /\ pending \in [drain : BOOLEAN, reconcile : BOOLEAN]
  /\ net \subseteq Intents /\ central \subseteq Intents
  /\ faults \in 0..MaxFaults

Rotating(i)  == PredOf[i] > 0
SuccOf(i)    == IF Rotating(i) THEN PredOf[i] + 1 ELSE 0
Exchanged(m, i) == (m \ OldOf[i]) \cup NewOf[i]
CurrentFence == CHOOSE f \in DOMAIN bound : \A g \in DOMAIN bound : g <= f

(* An earlier version's row may have reached any status short of ACKED.    *)
LeftRows == {r \in Rows : /\ r.status \in PendingStatuses /\ r.applied = "PENDING"
                          /\ ~r.dismissed
                          /\ r.status = "PREPARED" => ~r.command
                          /\ r.status = "COMMAND_READY" => r.command}

Init ==
  /\ row \in {r \in [Intents -> LeftRows \cup {AbsentRow}] :
                \A i \in Intents : (i \in LeftBehind) <=> r[i] # AbsentRow}
  /\ created = SetToSeq(LeftBehind)
  /\ rotated = {} /\ logged = {}
  /\ tray = FirstTray /\ trayFile = FirstTray
  /\ snapshot = "unknown" /\ dialog = NoDialog /\ lane = NoLane
  /\ pending = [drain |-> TRUE, reconcile |-> TRUE]
  /\ net \in SUBSET {i \in LeftBehind : row[i].command}
  /\ central = {}
  /\ bound = [f \in {FirstTray.lease} |-> FirstTray.members]
  /\ expired = {}
  /\ faults = 0

(* The requests the server can act on: the one that waits for its answer   *)
(* and those nobody waits for any more.                                    *)
InFlight == net \cup {i \in Intents : lane.step = "await" /\ lane.cur = i}

Fault == faults < MaxFaults /\ faults' = faults + 1

-----------------------------------------------------------------------------
(* The store's queries.                                                    *)

(* dismiss_without_durable_command, and the fence it leaves behind.        *)
Dismissible(i) == row[i].status \in Preflight /\ ~row[i].command
Hidden(i)      == row[i].dismissed /\ Dismissible(i)

Blocking(i) ==
  /\ \/ row[i].status \in PendingStatuses
     \/ row[i].status = "ACKED" /\ row[i].applied # "APPLIED"
  /\ ~Hidden(i)

(* Mutant: a row waiting for another attempt is not drained.               *)
PendingIds_Fresh == LET P(i) == row[i].status \in PendingStatuses \ {"RETRY_WAIT"}
                    IN  SelectSeq(created, P)

PendingIds        == LET P(i) == row[i].status \in PendingStatuses /\ ~Hidden(i)
                     IN  SelectSeq(created, P)
Unapplied(i)      == row[i].status = "ACKED" /\ row[i].applied = "PENDING"
PendingLocalRows  == SelectSeq(created, Unapplied)
BlockingRows      == SelectSeq(created, Blocking)

(* The copy for the UI thread: what the newest blocking row says.          *)
UiSnapshot ==
  IF BlockingRows = <<>> THEN "clear"
  ELSE IF Unapplied(Last(BlockingRows)) THEN "unapplied" ELSE "blocked"

-----------------------------------------------------------------------------
(* The lane.                                                               *)

Go(step) == lane' = [lane EXCEPT !.step = step]

(* A task handles one intent after the other.                              *)
GoNext(step) ==
  lane' = IF lane.todo = <<>> THEN [lane EXCEPT !.step = "finish", !.ok = TRUE]
          ELSE [lane EXCEPT !.step = step, !.cur = Head(lane.todo), !.todo = Tail(@)]

(* Where a task goes when attempt returns.                                 *)
Attempted(status) ==
  CASE lane.task = "drain"                            -> GoNext("attempt")
    [] lane.task = "cancel"                           -> Go("settle")
    [] lane.task = "exchange" /\ status = "ACKED"     -> Go("apply")
    [] lane.task = "exchange" /\ status # "ACKED"     -> Go("finish")

(* ... and when _apply_acked_member_exchange returns ok.                   *)
Applied(ok) ==
  IF lane.task = "reconcile" /\ ok THEN GoNext("classify")
  ELSE lane' = [lane EXCEPT !.step = "finish", !.ok = ok]

(* record_error keeps the command; the error's code and HTTP status decide *)
(* between another attempt and a person.                                   *)
RecordError(i, status) ==
  /\ row' = [row EXCEPT ![i].status = status]
  /\ Attempted(status)

MarkLocalReview(i) ==
  row' = [row EXCEPT ![i].applied =
            IF Unapplied(i) THEN "OPERATOR_REVIEW" ELSE @]

-----------------------------------------------------------------------------
(* The dialog.                                                             *)

TrayOpen == tray # NoTray
LaneIdle == lane.step = "idle"

(* The exchange button: rows that never got a command are dismissed when   *)
(* all blocking rows are such, then the dialog opens unless one blocks.    *)
OpenDialog ==
  /\ LaneIdle /\ TrayOpen /\ ~dialog.open
  /\ row' = IF \A i \in Intents : Blocking(i) => Dismissible(i)
            THEN [i \in Intents |-> [row[i] EXCEPT !.dismissed = @ \/ Blocking(i)]]
            ELSE row
  /\ snapshot' = IF \A i \in Intents : Blocking(i) => Dismissible(i)
                 THEN "clear" ELSE UiSnapshot
  /\ dialog' = [dialog EXCEPT !.open = snapshot' = "clear"]
  /\ UNCHANGED <<created, localVars, lane, pending, serverVars, faults>>

(* A dismissal that fails leaves the later rows as they are.               *)
OpenDialogFails ==
  /\ LaneIdle /\ TrayOpen /\ ~dialog.open /\ Fault
  /\ \E done \in SUBSET {i \in Intents : Blocking(i) /\ Dismissible(i)} :
       row' = [i \in Intents |-> [row[i] EXCEPT !.dismissed = @ \/ i \in done]]
  /\ UNCHANGED <<created, localVars, uiVars, lane, serverVars>>

(* Old products are scanned from the tray, new ones from outside it.       *)
ScanPairs(i) ==
  /\ dialog.open /\ dialog.session = NoIntent /\ LaneIdle
  /\ OldOf[i] \subseteq tray.members /\ NewOf[i] \cap tray.members = {}
  /\ dialog' = [dialog EXCEPT !.session = i]
  /\ UNCHANGED <<storeVars, localVars, snapshot, lane, pending, serverVars, faults>>

(* _complete_exchange: the lease of the tray becomes the predecessor; a    *)
(* tray without one is refused.                                            *)
CompleteExchange ==
  /\ LaneIdle /\ dialog.open /\ dialog.session # NoIntent
  /\ tray.lease > 0 /\ PredOf[dialog.session] = tray.lease
  /\ lane' = [NoLane EXCEPT !.task = "exchange", !.step = "prepare",
                            !.cur = dialog.session]
  /\ UNCHANGED <<storeVars, localVars, uiVars, serverVars, faults>>

(* Closing the dialog: the lane decides when an intent is known, else only *)
(* the snapshot of the UI thread is asked.                                 *)
CancelExchange ==
  /\ LaneIdle /\ dialog.open
  /\ \/ /\ dialog.known
        /\ lane' = [NoLane EXCEPT !.task = "cancel", !.step = "attempt",
                                  !.cur = dialog.session]
        /\ UNCHANGED dialog
     \/ /\ ~dialog.known /\ snapshot = "clear"
        /\ dialog' = NoDialog
        /\ UNCHANGED lane
  /\ UNCHANGED <<storeVars, localVars, snapshot, pending, serverVars, faults>>

-----------------------------------------------------------------------------
(* prepare and attempt.                                                    *)

(* rotation_predecessor_context: the lease is still PREFETCHED, unexpired. *)
LeaseUsable(i) == PredOf[i] \notin expired /\ \A j \in rotated : PredOf[j] # PredOf[i]

(* A dismissed row starts again; one that exists otherwise is returned.    *)
Prepare ==
  /\ lane.step = "prepare"
  /\ LeaseUsable(lane.cur)
  /\ LET i == lane.cur
     IN  /\ row' = [row EXCEPT ![i] =
                      IF @.status = "absent" \/ @.dismissed
                      THEN [AbsentRow EXCEPT !.status = "PREPARED"] ELSE @]
         /\ created' = IF row[i].status = "absent" THEN Append(created, i) ELSE created
  /\ Go("attempt")
  /\ UNCHANGED <<localVars, uiVars, serverVars, faults>>

(* An error of prepare ends the task without a new snapshot.               *)
PrepareRefused ==
  /\ lane.step = "prepare" /\ ~LeaseUsable(lane.cur)
  /\ lane' = NoLane
  /\ UNCHANGED <<storeVars, localVars, uiVars, serverVars, faults>>

(* A dismissed, acknowledged or reviewed row is left alone, except that a  *)
(* reviewed row without a lease still asks for its receipt.                *)
Attempt ==
  /\ lane.step = "attempt"
  /\ LET r == row[lane.cur]
     IN  IF \/ Hidden(lane.cur) \/ r.status = "ACKED"
            \/ r.status = "OPERATOR_REVIEW" /\ (~r.command \/ Rotating(lane.cur))
         THEN Attempted(r.status)
         ELSE Go(IF ~r.command THEN "build"
                 ELSE IF Rotating(lane.cur) THEN "post" ELSE "lookup")
  /\ UNCHANGED <<storeVars, localVars, uiVars, serverVars, faults>>

(* Capability, target, sources and the command; it is durable before POST. *)
BuildCommand ==
  /\ lane.step = "build"
  /\ row' = [row EXCEPT ![lane.cur].command = TRUE, ![lane.cur].status = "COMMAND_READY"]
  /\ Go("post")
  /\ UNCHANGED <<created, localVars, uiVars, serverVars, faults>>

BuildFails ==
  /\ lane.step = "build"
  /\ \E s \in {"RETRY_WAIT", "OPERATOR_REVIEW"} : RecordError(lane.cur, s)
  /\ UNCHANGED <<created, localVars, uiVars, serverVars, faults>>

(* get_receipt for a command that needs no rotation: without a receipt it  *)
(* is posted, unless the row is reviewed; an error is recorded, unless ... *)
LookupReceipt ==
  /\ lane.step = "lookup"
  /\ LET reviewed == row[lane.cur].status = "OPERATOR_REVIEW"
     IN  \/ lane.cur \in central /\ Go("got") /\ UNCHANGED <<row, faults>>
         \/ /\ lane.cur \notin central
            /\ IF reviewed THEN Attempted("OPERATOR_REVIEW") ELSE Go("post")
            /\ UNCHANGED <<row, faults>>
         \/ /\ Fault
            /\ IF reviewed THEN Attempted("OPERATOR_REVIEW") /\ UNCHANGED row
               ELSE RecordError(lane.cur, "RETRY_WAIT")
  /\ UNCHANGED <<created, localVars, uiVars, serverVars>>

PostReplace ==
  /\ lane.step = "post"
  /\ Go("await")
  /\ UNCHANGED <<storeVars, localVars, uiVars, serverVars, faults>>

AnswerReceipt ==
  /\ lane.step = "await" /\ lane.cur \in central
  /\ Go("got")
  /\ UNCHANGED <<storeVars, localVars, uiVars, serverVars, faults>>

(* This request is rejected; an earlier one of the same command that was   *)
(* never answered may still be acted on.                                   *)
AnswerError ==
  /\ lane.step = "await" /\ lane.cur \notin central
  /\ \E s \in {"RETRY_WAIT", "OPERATOR_REVIEW"} : RecordError(lane.cur, s)
  /\ UNCHANGED <<created, localVars, uiVars, serverVars, faults>>

(* The answer is lost; the request may still be acted on.                  *)
PostTimeout ==
  /\ lane.step = "await" /\ Fault
  /\ net' = InFlight
  /\ RecordError(lane.cur, "RETRY_WAIT")
  /\ UNCHANGED <<created, localVars, uiVars, central, bound, expired>>

(* _verify_rotation_receipt: the successor must still be valid.            *)
Verified(i) == Rotating(i) => SuccOf(i) \notin expired

(* An invalid receipt is a lease error and ends in review; one that cannot *)
(* be stored leaves the row for another attempt.                           *)
RecordReceipt ==
  /\ lane.step = "got"
  /\ \/ /\ Verified(lane.cur)
        /\ row' = [row EXCEPT ![lane.cur].status = "ACKED"]
        /\ Attempted("ACKED")
        /\ UNCHANGED faults
     \/ ~Verified(lane.cur) /\ RecordError(lane.cur, "OPERATOR_REVIEW") /\ UNCHANGED faults
     \/ /\ Fault
        /\ IF row[lane.cur].status = "OPERATOR_REVIEW"
           THEN Attempted("OPERATOR_REVIEW") /\ UNCHANGED row
           ELSE RecordError(lane.cur, "RETRY_WAIT")
  /\ UNCHANGED <<created, localVars, uiVars, serverVars>>

(* A receipt that is not exactly the command's result, in its members, its *)
(* versions or its successor lease, is not recorded.                       *)
InexactReceipt ==
  /\ lane.step = "got"
  /\ IF row[lane.cur].status = "OPERATOR_REVIEW"
     THEN Attempted("OPERATOR_REVIEW") /\ UNCHANGED row
     ELSE RecordError(lane.cur, "OPERATOR_REVIEW")
  /\ UNCHANGED <<created, localVars, uiVars, serverVars, faults>>

(* The end of a cancellation: a committed exchange is applied instead, one *)
(* with a command cannot be cancelled.                                     *)
SettleCancel ==
  /\ lane.step = "settle"
  /\ LET i == lane.cur
     IN  IF Unapplied(i) THEN Go("apply") /\ UNCHANGED row
         ELSE /\ lane' = [lane EXCEPT !.step = "finish",
                                      !.ok = row[i].status = "ACKED" \/ ~row[i].command]
              /\ row' = [row EXCEPT ![i].dismissed = @ \/ Dismissible(i)]
  /\ UNCHANGED <<created, localVars, uiVars, serverVars, faults>>

-----------------------------------------------------------------------------
(* Applying an acknowledged exchange to the tray.                          *)

(* Mutant: the rotation is not recorded before the tray changes.           *)
EnsureLocalRotation_Later ==
  /\ lane.step = "apply"
  /\ Go("save")
  /\ UNCHANGED <<storeVars, localVars, uiVars, serverVars, faults>>

(* ensure_local_rotation: the successor lease is durable first.            *)
EnsureLocalRotation ==
  /\ lane.step \in {"apply", "existing"}
  /\ \/ /\ Verified(lane.cur)
        /\ rotated' = IF Rotating(lane.cur) THEN rotated \cup {lane.cur} ELSE rotated
        /\ Go(IF lane.step = "apply" THEN "save" ELSE "fixlease")
        /\ UNCHANGED <<row, faults>>
     \/ ~Verified(lane.cur) /\ MarkLocalReview(lane.cur) /\ Applied(FALSE)
          /\ UNCHANGED <<rotated, faults>>
     \/ Fault /\ Applied(FALSE) /\ UNCHANGED <<rotated, row>>
  /\ UNCHANGED <<created, tray, trayFile, logged, uiVars, serverVars>>

(* _member_exchange_apply_plan and the lease the tray must hold.           *)
PlanValid(i) ==
  /\ OldOf[i] \subseteq tray.members
  /\ (tray.members \ OldOf[i]) \cap NewOf[i] = {}
  /\ Rotating(i) => tray.lease \in {PredOf[i], SuccOf(i)}

AfterTray(i) == [members |-> Exchanged(tray.members, i),
                 lease |-> IF Rotating(i) THEN SuccOf(i) ELSE tray.lease]

SaveTray ==
  /\ lane.step = "save"
  /\ \/ /\ PlanValid(lane.cur)
        /\ tray' = AfterTray(lane.cur) /\ trayFile' = tray'
        /\ lane' = [lane EXCEPT !.step = "log", !.was = tray]
        /\ UNCHANGED <<row, faults>>
     \/ ~PlanValid(lane.cur) /\ MarkLocalReview(lane.cur) /\ Applied(FALSE)
          /\ UNCHANGED <<tray, trayFile, faults>>
     \/ Fault /\ Applied(FALSE) /\ UNCHANGED <<tray, trayFile, row>>
  /\ UNCHANGED <<created, rotated, logged, uiVars, serverVars>>

(* The event; a failed append takes the tray back, and is reviewed when    *)
(* that cannot be saved.                                                   *)
LogExchange ==
  /\ lane.step = "log"
  /\ \/ /\ logged' = logged \cup {lane.cur}
        /\ Go("mark")
        /\ UNCHANGED <<row, tray, trayFile, faults>>
     \/ /\ Fault
        /\ logged' \in {logged, logged \cup {lane.cur}}
        /\ tray' = lane.was
        /\ \/ trayFile' = lane.was /\ UNCHANGED row
           \/ MarkLocalReview(lane.cur) /\ UNCHANGED trayFile
        /\ Applied(FALSE)
  /\ UNCHANGED <<created, rotated, uiVars, serverVars>>

(* mark_local_applied; a failure leaves the row for the next reconcile.    *)
MarkApplied ==
  /\ lane.step = "mark"
  /\ \/ row' = [row EXCEPT ![lane.cur].applied = IF @ = "PENDING" THEN "APPLIED" ELSE @]
          /\ UNCHANGED faults
     \/ Fault /\ UNCHANGED row
  /\ Applied(TRUE)
  /\ UNCHANGED <<created, localVars, uiVars, serverVars>>

(* _work_member_exchange_reconcile: which side of the exchange the tray is *)
(* on decides; neither is a conflict.                                      *)
Classify ==
  /\ lane.step = "classify"
  /\ LET i == lane.cur
     IN  \/ TrayOpen /\ OldOf[i] \subseteq tray.members /\ NewOf[i] \cap tray.members = {}
              /\ Go("apply") /\ UNCHANGED row
         \/ TrayOpen /\ NewOf[i] \subseteq tray.members /\ OldOf[i] \cap tray.members = {}
              /\ Go("existing") /\ UNCHANGED row
         \/ /\ TrayOpen
            /\ ~(OldOf[i] \subseteq tray.members /\ NewOf[i] \cap tray.members = {})
            /\ ~(NewOf[i] \subseteq tray.members /\ OldOf[i] \cap tray.members = {})
            /\ MarkLocalReview(i) /\ Applied(FALSE)
         \/ ~TrayOpen /\ Applied(FALSE) /\ UNCHANGED row
  /\ UNCHANGED <<created, localVars, uiVars, serverVars, faults>>

(* A tray that already holds the new products gets the successor lease.    *)
FixLease ==
  /\ lane.step = "fixlease"
  /\ LET i == lane.cur
     IN  \/ /\ Rotating(i) /\ tray.lease \notin {PredOf[i], SuccOf(i)}
            /\ MarkLocalReview(i) /\ Applied(FALSE)
            /\ UNCHANGED <<tray, trayFile, faults>>
         \/ /\ Rotating(i) => tray.lease \in {PredOf[i], SuccOf(i)}
            /\ tray' = [tray EXCEPT !.lease = IF Rotating(i) THEN SuccOf(i) ELSE @]
            /\ trayFile' = IF tray' = tray THEN trayFile ELSE tray'
            /\ Go("mark")
            /\ UNCHANGED <<row, faults>>
         \/ Fault /\ Applied(FALSE) /\ UNCHANGED <<tray, trayFile, row>>
  /\ UNCHANGED <<created, rotated, logged, uiVars, serverVars>>

-----------------------------------------------------------------------------
(* Starting and ending tasks.                                              *)

StartDrain ==
  /\ LaneIdle /\ pending.drain
  /\ lane' = LET l == [NoLane EXCEPT !.task = "drain", !.todo = PendingIds, !.seen = UiSnapshot]
             IN  IF l.todo = <<>> THEN [l EXCEPT !.step = "finish"]
                 ELSE [l EXCEPT !.step = "attempt", !.cur = Head(l.todo), !.todo = Tail(@)]
  /\ UNCHANGED <<storeVars, localVars, uiVars, serverVars, faults>>

(* Asked for when a tray is loaded and when an unapplied row blocks.       *)
StartReconcile ==
  /\ LaneIdle /\ TrayOpen /\ ~pending.drain
  /\ pending.reconcile \/ snapshot = "unapplied"
  /\ pending' = [pending EXCEPT !.reconcile = FALSE]
  /\ lane' = LET l == [NoLane EXCEPT !.task = "reconcile", !.todo = PendingLocalRows]
             IN  IF l.todo = <<>> THEN [l EXCEPT !.step = "finish", !.ok = TRUE]
                 ELSE [l EXCEPT !.step = "classify", !.cur = Head(l.todo), !.todo = Tail(@)]
  /\ UNCHANGED <<storeVars, localVars, snapshot, dialog, serverVars, faults>>

(* The finish callback publishes the snapshot; a settled dialog closes.    *)
FinishTask ==
  /\ lane.step = "finish"
  /\ snapshot' = UiSnapshot
  /\ dialog' = CASE lane.task \in {"exchange", "cancel"} /\ lane.ok -> NoDialog
                 [] lane.task = "exchange" /\ ~lane.ok -> [dialog EXCEPT !.known = TRUE]
                 [] OTHER -> dialog
  /\ pending' = [pending EXCEPT !.drain = @ /\ lane.task # "drain"]
  /\ lane' = NoLane
  /\ UNCHANGED <<storeVars, localVars, serverVars, faults>>

(* An exception outside attempt's own handler (a store that cannot be read *)
(* or written) skips finish, so the snapshot stays as it was; the recovery *)
(* catches it, and publishes the snapshot it began with if the second fails.*)
TaskFails ==
  /\ lane.step \notin {"idle", "build", "lookup", "post", "await", "got", "log"} /\ Fault
  /\ IF lane.task = "drain" /\ lane.step # "finish"
     THEN Go("finish") /\ UNCHANGED <<snapshot, pending>>
     ELSE /\ snapshot' = IF lane.task = "drain" THEN lane.seen ELSE snapshot
          /\ pending' = [pending EXCEPT !.drain = @ /\ lane.task # "drain"]
          /\ lane' = NoLane
  /\ UNCHANGED <<storeVars, localVars, dialog, serverVars>>

(* Completion, reset, submission and parking take the tray away.           *)
LeaveTray ==
  /\ LaneIdle /\ TrayOpen /\ ~dialog.open /\ snapshot = "clear"
  /\ tray' = NoTray /\ trayFile' = NoTray
  /\ UNCHANGED <<storeVars, rotated, logged, uiVars, lane, serverVars, faults>>

NewProcess ==
  /\ lane' = NoLane /\ dialog' = NoDialog /\ snapshot' = "unknown"
  /\ tray' = trayFile
  /\ pending' = [drain |-> TRUE, reconcile |-> trayFile # NoTray]
  /\ net' = InFlight
  /\ UNCHANGED <<storeVars, rotated, trayFile, logged, central, bound, expired>>

Crash   == Fault /\ NewProcess
Restart == LaneIdle /\ ~pending.drain /\ NewProcess /\ UNCHANGED faults

-----------------------------------------------------------------------------
(* The server: a request under a lease needs the current fence.            *)
ServerCommit(i) ==
  /\ i \in InFlight \ central
  /\ LET f == CurrentFence
         g == IF Rotating(i) THEN f + 1 ELSE f
     IN  /\ Rotating(i) => PredOf[i] = f /\ f \notin expired
         /\ OldOf[i] \subseteq bound[f] /\ NewOf[i] \cap bound[f] = {}
         /\ bound' = [h \in DOMAIN bound \cup {g} |->
                        IF h = g THEN Exchanged(bound[f], i) ELSE bound[h]]
  /\ central' = central \cup {i}
  /\ UNCHANGED <<storeVars, localVars, uiVars, lane, net, expired, faults>>

Expire(f) ==
  /\ f > 0 /\ expired' = expired \cup {f} /\ expired' # expired
  /\ UNCHANGED <<storeVars, localVars, uiVars, lane, net, central, bound, faults>>

-----------------------------------------------------------------------------
DialogNext  == OpenDialog \/ OpenDialogFails \/ CompleteExchange \/ CancelExchange
                 \/ \E i \in Intents : ScanPairs(i)
AttemptNext == Prepare \/ PrepareRefused \/ Attempt \/ BuildCommand \/ BuildFails
                 \/ LookupReceipt \/ PostReplace \/ AnswerReceipt \/ AnswerError
                 \/ PostTimeout \/ RecordReceipt \/ InexactReceipt \/ SettleCancel
ApplyNext   == EnsureLocalRotation \/ SaveTray \/ LogExchange \/ MarkApplied
                 \/ Classify \/ FixLease
TaskNext    == StartDrain \/ StartReconcile \/ FinishTask \/ TaskFails
ServerNext  == (\E i \in Intents : ServerCommit(i)) \/ \E f \in DOMAIN bound : Expire(f)

Next == DialogNext \/ AttemptNext \/ ApplyNext \/ TaskNext \/ ServerNext
          \/ LeaveTray \/ Crash \/ Restart

(* The lane works through its task, the recovery and the reconcile of a    *)
(* started program run, a program is closed and started again in the end.  *)
Fairness ==
  WF_vars(AttemptNext) /\ WF_vars(ApplyNext) /\ WF_vars(FinishTask)
    /\ SF_vars(StartDrain) /\ SF_vars(StartReconcile) /\ SF_vars(Restart)

-----------------------------------------------------------------------------
(* Properties.                                                             *)

(* Whatever stops between the receipt, the rotation, the save and the      *)
(* event, the tray on disk holds the products the server has bound to the  *)
(* lease that the tray holds, and the lease store knows that lease.        *)
SavedTrayMatchesLease ==
  trayFile.lease > 0 =>
    /\ trayFile.lease \in DOMAIN bound
    /\ trayFile.members = bound[trayFile.lease]
    /\ trayFile.lease # FirstTray.lease =>
         \E i \in rotated : SuccOf(i) = trayFile.lease

(* A dismissed exchange has not happened and cannot happen any more: none  *)
(* of its requests is on its way and none was committed.                   *)
DismissedNeverHappens ==
  \A i \in Intents : row[i].dismissed => i \notin InFlight \cup central

(* One lease is the predecessor of at most one durable exchange command,   *)
(* although the operator can dismiss, cancel and choose other products.    *)
OneCommandPerLease ==
  \A i, j \in Intents :
    row[i].command /\ row[j].command /\ PredOf[i] = PredOf[j] /\ Rotating(i) => i = j

(* An exchange is marked APPLIED only if the server has committed it and   *)
(* the saved tray is past it; a tray on its lease holds its products.      *)
AppliedIsSaved ==
  \A i \in Intents : row[i].applied = "APPLIED" /\ trayFile # NoTray =>
    /\ i \in central
    /\ trayFile.lease >= SuccOf(i)
    /\ trayFile.lease = SuccOf(i) => NewOf[i] \subseteq trayFile.members

(* A reviewed command may already have changed the bundles: it is never    *)
(* sent again, not by a drain, a cancellation or another completion.       *)
ReviewedNeverPosted ==
  [][lane.step # "await" /\ lane'.step = "await"
       => row[lane'.cur].status # "OPERATOR_REVIEW"]_vars

(* A committed exchange ends: it is in the tray, or a person has it, or    *)
(* (below) the tray was given up before.                                   *)
CommittedSettles ==
  \A i \in Intents : i \in central /\ row[i].status # "absent"
    ~> row[i].status = "OPERATOR_REVIEW" \/ (row[i].status = "ACKED" /\ row[i].applied # "PENDING")
         \/ trayFile = NoTray
=============================================================================
