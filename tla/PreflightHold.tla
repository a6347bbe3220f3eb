---------------------------- MODULE PreflightHold ----------------------------
(***************************************************************************)
(* The preflight scan hold (preflight_scan_hold.py and its callers in      *)
(* Container_Audit.py).                                                    *)
(*                                                                         *)
(* While the server is asked about a label, the operator goes on scanning  *)
(* products.  They go to a hold file, one after the other, through a       *)
(* writer thread; when the answer opens the tray, the hold is drained into *)
(* it head first.  A server that cannot be reached leaves the hold open,   *)
(* and scanning another label sets it aside in a quarantine directory.     *)
(***************************************************************************)
EXTENDS Naturals, FiniteSets, Sequences, SequencesExt

CONSTANTS
  Labels, NoLabel,
  Codes, NoCode,  \* product barcodes
  BadCodes,       \* those the format or the catalog check refuses
  TraySize, HoldCapacity, WriterCapacity, WaitingLimit,
  MaxHolds,       \* preflight identities (bound)
  FaultKinds,     \* which of "write", "crash", "server" may fail
  MaxFaults       \* how often (bound)

HoldAssumption ==
  /\ NoLabel \notin Labels /\ NoCode \notin Codes /\ BadCodes \subseteq Codes
  /\ {TraySize, HoldCapacity, WriterCapacity, WaitingLimit, MaxHolds} \subseteq Nat \ {0}
  /\ MaxFaults \in Nat

VARIABLES
  hold,         \* the active hold file
  quarantined,  \* hold files in the quarantine directory
  tray,         \* current_tray (volatile)
  trayFile,     \* the saved tray state
  log,          \* the audit events of held scans, in order
  completed,    \* label -> products of its completed tray
  admitted,     \* every scan some hold has accepted, with the label meant
  mem,          \* the window's own fields (volatile)
  writer,       \* tasks and results of the writer thread (volatile)
  lane,         \* the lookup or the drain of one head (volatile)
  ids,          \* preflight identities given out
  faults

vars == <<hold, quarantined, tray, trayFile, log, completed, admitted, mem, writer,
          lane, ids, faults>>

States == {"LOOKUP", "LOOKUP_FAILED", "DRAINING"}
NoHold == [label |-> NoLabel, id |-> 0, state |-> "NONE", offline |-> FALSE, items |-> <<>>]
Items  == [seq : 1..HoldCapacity, code : Codes]
Holds  == [label : Labels, id : 1..MaxHolds, state : States, offline : BOOLEAN,
           items : Seq(Items)] \cup {NoHold}

ScanId(h, item) == [hold |-> h.id, seq |-> item.seq]
LiveScan == [hold |-> 0, seq |-> 0]           \* a product without a receipt
NoTray == [label |-> NoLabel, scanned |-> <<>>]
CodesOf(t) == {t.scanned[k].code : k \in DOMAIN t.scanned}

NoMem  == [snap |-> NoHold, label |-> NoLabel, pending |-> FALSE, draining |-> FALSE,
           locked |-> FALSE, offline |-> FALSE, notice |-> FALSE, append |-> FALSE,
           switching |-> FALSE, due |-> FALSE, out |-> FALSE, retry |-> NoLabel,
           replay |-> NoLabel]
NoLane == [task |-> "none", step |-> "idle", label |-> NoLabel, snap |-> NoHold,
           res |-> "none", fresh |-> FALSE]
Task(op, l, c, i) == [op |-> op, label |-> l, code |-> c, id |-> i, fresh |-> TRUE,
                      done |-> "no", snap |-> NoHold]

HoldTypeOK ==
  /\ hold \in Holds /\ quarantined \subseteq Holds \ {NoHold}
  /\ \A t \in {tray, trayFile} : t.label \in Labels \cup {NoLabel}
                                 /\ Len(t.scanned) <= TraySize
  /\ DOMAIN completed \subseteq Labels
  /\ mem.snap \in Holds /\ mem.label \in Labels \cup {NoLabel}
  /\ lane.step \in {"idle", "hold", "ask", "got", "save", "log", "ack"}
  /\ ids \in 0..MaxHolds /\ faults \in 0..MaxFaults

Init ==
  /\ hold = NoHold /\ quarantined = {} /\ tray = NoTray /\ trayFile = NoTray
  /\ log = <<>> /\ completed = <<>> /\ admitted = {}
  /\ mem = NoMem /\ writer = <<>> /\ lane = NoLane /\ ids = 0 /\ faults = 0

Fault(kind) == kind \in FaultKinds /\ faults < MaxFaults /\ faults' = faults + 1
LaneIdle == lane.task = "none"

(* What a person decides at a dialog, a notice or by scanning a new label  *)
(* takes longer than the local writes and callbacks queued before it.      *)
Quiet == writer = <<>> /\ lane.step \notin {"hold", "got"}

-----------------------------------------------------------------------------
(* The window's questions about the hold.                                  *)

Offline(h) == h.state = "LOOKUP" /\ h.offline
Waiting    == {q \in quarantined : Offline(q)}

(* _preflight_context_blocks_mutation                                      *)
Blocks(m) == m.pending \/ m.draining \/ m.snap # NoHold \/ hold # NoHold

(* A changed epoch makes every older answer, retry and callback stale.     *)
Stale(w) == [k \in DOMAIN w |-> [w[k] EXCEPT !.fresh = FALSE]]

Unworked == Cardinality({k \in DOMAIN writer : writer[k].done = "no"})
Accepts  == Unworked < WriterCapacity

(* _begin_compact_phs2_preflight: the same label, again while offline.     *)
Begin(m, l, off) ==
  /\ lane' = [NoLane EXCEPT !.task = "lookup", !.step = "hold", !.label = l, !.fresh = TRUE]
  /\ writer' = Stale(writer)
  /\ mem' = [m EXCEPT !.pending = TRUE, !.label = l, !.offline = off /\ @,
                      !.locked = FALSE, !.retry = NoLabel, !.replay = NoLabel]

(* _mark_preflight_hold_failed                                             *)
MarkFailed(m, w) ==
  LET q == [m EXCEPT !.offline = FALSE] IN
  IF hold = NoHold
  THEN mem' = [q EXCEPT !.pending = FALSE] /\ writer' = w
  ELSE \/ Accepts /\ mem' = q /\ writer' = Append(w, Task("fail", hold.label, NoCode, hold.id))
       \/ ~Accepts /\ mem' = [q EXCEPT !.locked = TRUE] /\ writer' = w

(* _settle_stale_preflight_result                                          *)
SettleStale ==
  LET m == [mem EXCEPT !.pending = FALSE] IN
  IF Blocks(m)
  THEN /\ mem' = [m EXCEPT !.locked = TRUE]
       /\ writer' = IF Accepts
                    THEN Append(writer, Task("settle", hold.label, NoCode, hold.id))
                    ELSE writer
  ELSE mem' = m /\ writer' = writer

(* _restore_preflight_scan_hold, at the start and after a failed switch.   *)
RestoreHold(m, t) ==
  LET s == [m EXCEPT !.snap = hold] IN
  CASE hold = NoHold           -> s
    [] hold.state = "DRAINING" -> [s EXCEPT !.locked = TRUE, !.draining = t.label = hold.label,
                                            !.due = t.label = hold.label]
    [] Offline(hold)           -> [s EXCEPT !.locked = FALSE, !.replay = hold.label]
    [] OTHER                   -> [s EXCEPT !.locked = TRUE, !.notice = TRUE]

-----------------------------------------------------------------------------
(* The lookup.                                                             *)

(* A label is scanned, or the program looks one up again by itself.        *)
ScanLabel(l) ==
  /\ ~mem.out /\ ~mem.notice /\ ~mem.switching /\ ~mem.pending /\ LaneIdle
  /\ tray = NoTray /\ l \notin DOMAIN completed
  /\ ~\E q \in quarantined : q.label = l
  /\ IF mem.replay = l THEN mem.snap.state = "LOOKUP_FAILED" => mem.snap.label = l
                       ELSE mem.replay = NoLabel /\ ~Blocks(mem) /\ Quiet
  /\ Begin(mem, l, FALSE)
  /\ UNCHANGED <<hold, quarantined, tray, trayFile, log, completed, admitted, ids, faults>>

(* What the program would look up again meets an open tray or a busy lane. *)
ReplayRefused ==
  /\ mem.replay # NoLabel /\ (tray # NoTray \/ ~LaneIdle)
  /\ mem' = [mem EXCEPT !.replay = NoLabel]
  /\ UNCHANGED <<hold, quarantined, tray, trayFile, log, completed, admitted, writer,
                 lane, ids, faults>>

(* prepare_hold, on the lane's thread.                                     *)
PrepareHold ==
  /\ lane.step = "hold"
  /\ LET refuse == lane' = [lane EXCEPT !.step = "got", !.res = "fail"]
         keep(h) == hold' = h /\ lane' = [lane EXCEPT !.step = "ask", !.snap = h]
     IN \/ /\ hold = NoHold /\ ids < MaxHolds
           /\ ids' = ids + 1
           /\ keep([label |-> lane.label, id |-> ids + 1, state |-> "LOOKUP",
                    offline |-> FALSE, items |-> <<>>])
           /\ UNCHANGED faults
        \/ /\ hold.label = lane.label /\ hold.state # "DRAINING"
           /\ keep(IF hold.state = "LOOKUP_FAILED"
                   THEN [hold EXCEPT !.state = "LOOKUP", !.offline = FALSE] ELSE hold)
           /\ UNCHANGED <<ids, faults>>
        \/ /\ hold # NoHold /\ (hold.label # lane.label \/ hold.state = "DRAINING")
           /\ refuse /\ UNCHANGED <<hold, ids, faults>>
        \/ Fault("write") /\ refuse /\ UNCHANGED <<hold, ids>>
  /\ UNCHANGED <<quarantined, tray, trayFile, log, completed, admitted, mem, writer>>

(* The server opens the tray, cannot be reached, or refuses the label.     *)
AskServer ==
  /\ lane.step = "ask" /\ mem.replay = NoLabel   \* that callback has run by then
  /\ \/ lane' = [lane EXCEPT !.step = "got", !.res = "ok"] /\ UNCHANGED faults
     \/ \E r \in {"offline", "fail"} :
          Fault("server") /\ lane' = [lane EXCEPT !.step = "got", !.res = r]
  /\ UNCHANGED <<hold, quarantined, tray, trayFile, log, completed, admitted, mem,
                 writer, ids>>

(* _mutation_finish_can_apply, for an answer that would open a tray.       *)
CanApply == lane.fresh /\ mem.pending /\ tray = NoTray /\ hold.id = lane.snap.id
Late     == IF lane.res = "ok" THEN ~CanApply ELSE ~lane.fresh \/ tray # NoTray

LookupStale ==
  /\ lane.step = "got" /\ Late
  /\ SettleStale
  /\ lane' = NoLane
  /\ UNCHANGED <<hold, quarantined, tray, trayFile, log, completed, admitted, ids, faults>>

(* What _poll_compact_phs2_preflight keeps of the answer it has taken.     *)
Answered == [mem EXCEPT !.snap = IF lane.snap = NoHold THEN @ ELSE lane.snap]

LookupFails ==
  /\ lane.step = "got" /\ lane.res = "fail" /\ ~Late
  /\ MarkFailed(Answered, writer)
  /\ lane' = NoLane
  /\ UNCHANGED <<hold, quarantined, tray, trayFile, log, completed, admitted, ids, faults>>

(* _keep_preflight_hold_for_offline_retry                                  *)
LookupOffline ==
  /\ lane.step = "got" /\ lane.res = "offline" /\ ~Late
  /\ LET m == [Answered EXCEPT !.offline = TRUE, !.locked = FALSE]
     IN  IF Accepts
         THEN /\ mem' = m
              /\ writer' = Append(writer, Task("offline", lane.label, NoCode, 0))
         ELSE MarkFailed(m, writer)
  /\ lane' = NoLane
  /\ UNCHANGED <<hold, quarantined, tray, trayFile, log, completed, admitted, ids, faults>>

Opened == [Answered EXCEPT !.pending = FALSE, !.offline = FALSE, !.locked = TRUE]
NewTray == [label |-> lane.label, scanned |-> <<>>]

(* Mutant: nothing asks for the drain.                                     *)
Activate_Undrained ==
  /\ lane.step = "got" /\ lane.res = "ok" /\ ~Late
  /\ tray' = NewTray /\ trayFile' = NewTray
  /\ mem' = Opened /\ lane' = NoLane
  /\ UNCHANGED <<hold, quarantined, log, completed, admitted, writer, ids, faults>>

(* The tray is saved, then the hold is asked to drain.                     *)
Activate ==
  /\ lane.step = "got" /\ lane.res = "ok" /\ ~Late
  /\ tray' = NewTray /\ trayFile' = NewTray
  /\ mem' = Opened
  /\ writer' = IF Accepts THEN Append(writer, Task("drain", lane.label, NoCode, 0))
                          ELSE writer
  /\ lane' = NoLane
  /\ UNCHANGED <<hold, quarantined, log, completed, admitted, ids, faults>>

(* The tray, or the event that it was opened, cannot be written.  In the   *)
(* second case the saved tray stays and the operator has to log in again.  *)
ActivationFails ==
  /\ lane.step = "got" /\ lane.res = "ok" /\ ~Late
  /\ Fault("write")
  /\ \/ trayFile' = trayFile /\ MarkFailed(Opened, writer)
     \/ trayFile' = NewTray /\ MarkFailed([Opened EXCEPT !.out = TRUE], writer)
  /\ lane' = NoLane
  /\ UNCHANGED <<hold, quarantined, tray, log, completed, admitted, ids>>

(* _retry_offline_preflight, every 30 seconds.                             *)
RetryOffline ==
  /\ mem.retry # NoLabel /\ mem.pending /\ tray = NoTray /\ LaneIdle
  /\ Begin(mem, mem.retry, TRUE)
  /\ UNCHANGED <<hold, quarantined, tray, trayFile, log, completed, admitted, ids, faults>>

(* _cancel_master_preflight: a job that closes the screen.                 *)
Cancelled(m) == [m EXCEPT !.pending = FALSE, !.offline = FALSE, !.retry = NoLabel]

-----------------------------------------------------------------------------
(* Scanning while the lookup runs.                                         *)

(* _hold_scan_during_preflight: a product.  The entry keeps it until the   *)
(* writer has answered.                                                    *)
ScanHeld(c) ==
  /\ mem.pending /\ ~mem.locked /\ ~mem.append
  /\ IF Accepts
     THEN /\ mem' = [mem EXCEPT !.append = TRUE]
          /\ writer' = Append(writer, Task("append", mem.label, c, 0))
     ELSE mem' = [mem EXCEPT !.locked = TRUE] /\ writer' = writer
  /\ UNCHANGED <<hold, quarantined, tray, trayFile, log, completed, admitted, lane,
                 ids, faults>>

(* Another label while the server is away: the hold is to be set aside.    *)
SwitchLabel(l) ==
  /\ mem.pending /\ Offline(mem.snap) /\ ~mem.locked /\ ~mem.append /\ ~mem.switching
  /\ tray = NoTray /\ LaneIdle /\ l # mem.snap.label /\ l \notin DOMAIN completed
  /\ Cardinality(Waiting) < WaitingLimit
  /\ ~\E q \in quarantined \ Waiting : q.label = l
  /\ IF Accepts
     THEN /\ mem' = [Cancelled(mem) EXCEPT !.switching = TRUE, !.locked = TRUE]
          /\ writer' = Append(Stale(writer), Task("switch", l, NoCode, mem.snap.id))
     ELSE mem' = RestoreHold([Cancelled(mem) EXCEPT !.snap = NoHold], tray)
          /\ writer' = Stale(writer)
  /\ UNCHANGED <<hold, quarantined, tray, trayFile, log, completed, admitted, lane,
                 ids, faults>>

-----------------------------------------------------------------------------
(* The writer thread: one task at a time, in the order of submission.      *)

First == CHOOSE k \in DOMAIN writer :
           writer[k].done = "no" /\ \A j \in 1..k-1 : writer[j].done # "no"
Work  == writer[First]
NextSeq(h) == IF h.items = <<>> THEN 1 ELSE Last(h.items).seq + 1
Wrote(h) == /\ hold' = h
            /\ writer' = [writer EXCEPT ![First].done = "ok", ![First].snap = h]
Refused  == /\ writer' = [writer EXCEPT ![First].done = "err"]
            /\ UNCHANGED <<hold, quarantined, admitted>>

(* append: only while the answer is awaited, and below the capacity.       *)
TakesScans == hold.state = "LOOKUP"
HasRoom    == Len(hold.items) < HoldCapacity

WriterAppend ==
  /\ Work.op = "append"
  /\ \/ /\ TakesScans /\ HasRoom
        /\ LET item == [seq |-> NextSeq(hold), code |-> Work.code]
           IN  /\ Wrote([hold EXCEPT !.items = Append(@, item)])
               /\ admitted' = admitted \cup
                    {[id |-> ScanId(hold, item), code |-> Work.code, meant |-> Work.label,
                      label |-> hold.label]}
        /\ UNCHANGED quarantined
     \/ ~(TakesScans /\ HasRoom) /\ Refused

(* mark_offline, mark_failed, the settling of a stale answer.              *)
WriterMark ==
  /\ Work.op \in {"offline", "fail", "settle"}
  /\ \/ /\ CASE Work.op = "offline" -> hold.state = "LOOKUP"
             [] OTHER               -> hold # NoHold
        /\ Wrote(CASE Work.op = "offline" -> [hold EXCEPT !.offline = TRUE]
                   [] Work.op = "settle" /\ hold.state = "DRAINING" -> hold
                   [] OTHER -> [hold EXCEPT !.state = "LOOKUP_FAILED", !.offline = TRUE])
        /\ UNCHANGED <<quarantined, admitted>>
     \/ /\ IF Work.op = "offline" THEN hold.state # "LOOKUP" ELSE hold = NoHold
        /\ Refused

(* Mutant: a hold with scans is removed instead of being drained.          *)
Drained_Removed == NoHold

(* mark_draining: an empty hold is removed at once.                        *)
Drained == IF hold.items = <<>> THEN NoHold ELSE [hold EXCEPT !.state = "DRAINING"]

WriterDrain ==
  /\ Work.op = "drain"
  /\ IF hold.state = "LOOKUP"
     THEN Wrote(Drained) /\ UNCHANGED <<quarantined, admitted>>
     ELSE Refused

(* The move of an offline hold, and its audit event.                       *)
WriterSwitch ==
  /\ Work.op = "switch"
  /\ IF hold.id = Work.id /\ Offline(hold)
     THEN Wrote(NoHold) /\ quarantined' = quarantined \cup {hold} /\ UNCHANGED admitted
     ELSE Refused

WriterStep ==
  /\ Unworked > 0
  /\ \/ (WriterAppend \/ WriterMark \/ WriterDrain \/ WriterSwitch) /\ UNCHANGED faults
     \/ Fault("write") /\ Refused
  /\ UNCHANGED <<tray, trayFile, log, completed, mem, lane, ids>>

(* The result pump: the callback of the oldest finished task.              *)
Pump ==
  /\ writer # <<>> /\ Head(writer).done # "no"
  /\ LET t == Head(writer)  rest == Tail(writer)  ok == t.done = "ok" IN
     \/ /\ t.op = "append"
        /\ mem' = IF ok THEN [mem EXCEPT !.append = FALSE, !.snap = t.snap]
                        ELSE [mem EXCEPT !.append = FALSE, !.locked = TRUE]
        /\ writer' = rest
     \/ /\ t.op = "offline"
        /\ IF ok THEN /\ mem' = IF t.fresh THEN [mem EXCEPT !.snap = t.snap, !.retry = t.label]
                                           ELSE mem
                      /\ writer' = rest
                 ELSE MarkFailed(mem, rest)
     \/ /\ t.op = "fail"
        /\ mem' = IF ok THEN [mem EXCEPT !.snap = t.snap, !.pending = FALSE,
                                         !.locked = TRUE, !.notice = TRUE]
                        ELSE mem
        /\ writer' = rest
     \/ /\ t.op = "drain"
        /\ mem' = IF ok THEN [mem EXCEPT !.snap = t.snap, !.draining = t.snap # NoHold,
                                         !.due = t.snap # NoHold, !.locked = t.snap # NoHold]
                        ELSE mem
        /\ writer' = rest
     \/ /\ t.op = "settle"
        /\ mem' = IF ok THEN [mem EXCEPT !.snap = t.snap,
                                         !.draining = t.snap.state = "DRAINING"]
                        ELSE mem
        /\ writer' = rest
     \/ /\ t.op = "switch"
        /\ LET m == [mem EXCEPT !.switching = FALSE, !.snap = NoHold, !.draining = FALSE,
                                !.pending = FALSE, !.locked = FALSE]
           IN  mem' = IF ~ok THEN RestoreHold(m, tray)
                      ELSE IF t.fresh THEN [m EXCEPT !.replay = t.label] ELSE m
        /\ writer' = rest
  /\ UNCHANGED <<hold, quarantined, tray, trayFile, log, completed, admitted, lane,
                 ids, faults>>

-----------------------------------------------------------------------------
(* The drain: the head is decided, saved, logged, and only then removed.   *)

HeadItem  == Head(mem.snap.items)
HeadId    == ScanId(mem.snap, HeadItem)
InTray(c, id) == \E k \in DOMAIN tray.scanned : tray.scanned[k] = [code |-> c, receipt |-> id]

Verdict ==
  IF InTray(HeadItem.code, HeadId) THEN "old"
  ELSE IF HeadItem.code \in CodesOf(tray) \cup BadCodes \/ Len(tray.scanned) >= TraySize
       THEN "reject" ELSE "new"

(* _drain_preflight_hold_head: a refusal shows a notice that stops the     *)
(* drain after this head until the operator confirms it.                   *)
DrainHead ==
  /\ mem.due /\ LaneIdle
  /\ IF mem.snap.state = "DRAINING" /\ ~mem.notice
     THEN /\ lane' = [NoLane EXCEPT !.task = "drain", !.res = Verdict,
                                    !.step = IF Verdict = "new" THEN "save" ELSE "log"]
          /\ mem' = [mem EXCEPT !.due = FALSE, !.notice = Verdict = "reject"]
     ELSE mem' = [mem EXCEPT !.due = FALSE] /\ lane' = lane
  /\ UNCHANGED <<hold, quarantined, tray, trayFile, log, completed, admitted, writer,
                 ids, faults>>

DrainSave ==
  /\ lane.task = "drain" /\ lane.step = "save"
  /\ LET t == [tray EXCEPT !.scanned = Append(@, [code |-> HeadItem.code, receipt |-> HeadId])]
     IN  tray' = t /\ trayFile' = t
  /\ lane' = [lane EXCEPT !.step = "log"]
  /\ UNCHANGED <<hold, quarantined, log, completed, admitted, mem, writer, ids, faults>>

HeadEvent == <<IF lane.res = "reject" THEN "SCAN_FAIL" ELSE "SCAN_OK", HeadId>>

(* The event carries the scan's own key; the log writes a key once.        *)
DrainLog ==
  /\ lane.task = "drain" /\ lane.step = "log"
  /\ log' = IF HeadEvent \in ToSet(log) THEN log ELSE Append(log, HeadEvent)
  /\ lane' = [lane EXCEPT !.step = "ack"]
  /\ UNCHANGED <<hold, quarantined, tray, trayFile, completed, admitted, mem, writer, ids,
                 faults>>

(* ack_head                                                                *)
DrainAck ==
  /\ lane.task = "drain" /\ lane.step = "ack"
  /\ hold.state = "DRAINING" /\ hold.items # <<>> /\ ScanId(hold, Head(hold.items)) = HeadId
  /\ hold' = IF Len(hold.items) = 1 THEN NoHold ELSE [hold EXCEPT !.items = Tail(@)]
  /\ mem' = [mem EXCEPT !.snap = hold', !.due = hold' # NoHold, !.draining = hold' # NoHold,
                        !.locked = hold' # NoHold]
  /\ lane' = NoLane
  /\ UNCHANGED <<quarantined, tray, trayFile, log, completed, admitted, writer, ids, faults>>

(* A write of the drain fails: the head stays for the next start.          *)
DrainFails ==
  /\ lane.task = "drain"
  /\ Fault("write")
  /\ lane' = NoLane
  /\ UNCHANGED <<hold, quarantined, tray, trayFile, log, completed, admitted, mem, writer,
                 ids>>

(* _acknowledge_active_notice                                              *)
AckNotice ==
  /\ mem.notice /\ ~mem.out /\ Quiet
  /\ LET m == [mem EXCEPT !.notice = FALSE] IN
     mem' = CASE m.snap.state = "DRAINING" /\ m.draining -> [m EXCEPT !.due = TRUE]
              [] m.snap.state \in {"LOOKUP", "LOOKUP_FAILED"} /\ tray = NoTray /\ ~m.pending ->
                   [m EXCEPT !.locked = FALSE, !.replay = m.snap.label]
              [] OTHER -> m
  /\ UNCHANGED <<hold, quarantined, tray, trayFile, log, completed, admitted, writer,
                 lane, ids, faults>>

-----------------------------------------------------------------------------
(* Setting holds aside and bringing them back; the tray; restarts.         *)

(* _quarantine_preflight_hold_for_supervisor; a failed audit puts the hold *)
(* back.                                                                   *)
SupervisorQuarantine ==
  /\ ~mem.out /\ hold.state \in {"LOOKUP", "LOOKUP_FAILED"} /\ tray = NoTray
  /\ Quiet
  /\ ~Offline(hold) /\ ~mem.offline /\ ~Offline(mem.snap) /\ ~mem.switching
  /\ quarantined' = quarantined \cup {hold}
  /\ hold' = NoHold
  /\ mem' = [mem EXCEPT !.snap = NoHold, !.draining = FALSE, !.pending = FALSE,
                        !.locked = FALSE]
  /\ UNCHANGED <<tray, trayFile, log, completed, admitted, writer, lane, ids, faults>>

(* restore_quarantined_preflight_hold: from the list, or by scanning the   *)
(* label of a waiting hold, which is looked up at once.                    *)
RestoreQuarantined(q) ==
  /\ ~mem.out /\ hold = NoHold /\ ~Blocks(mem) /\ tray = NoTray /\ ~mem.switching
  /\ Quiet
  /\ hold' = q /\ quarantined' = quarantined \ {q}
  /\ \/ /\ Offline(q) /\ LaneIdle /\ ~mem.notice /\ mem.replay \in {NoLabel, q.label}
        /\ mem' = [mem EXCEPT !.snap = q, !.locked = FALSE, !.replay = q.label]
     \/ /\ mem.replay = NoLabel
        /\ mem' = [mem EXCEPT !.snap = q, !.locked = TRUE, !.notice = TRUE]
  /\ UNCHANGED <<tray, trayFile, log, completed, admitted, writer, lane, ids, faults>>

(* A product scanned into the open tray (Container_Audit.py, no receipt).  *)
ScanLive(c) ==
  /\ tray # NoTray /\ ~Blocks(mem) /\ ~mem.notice /\ LaneIdle /\ ~mem.locked
  /\ c \notin CodesOf(tray) \cup BadCodes /\ Len(tray.scanned) < TraySize
  /\ LET t == [tray EXCEPT !.scanned = Append(@, [code |-> c, receipt |-> LiveScan])]
     IN  tray' = t /\ trayFile' = t
  /\ UNCHANGED <<hold, quarantined, log, completed, admitted, mem, writer, lane, ids, faults>>

(* The completion of the tray, which the gate keeps away from a hold.      *)
CompleteTray ==
  /\ tray # NoTray /\ ~Blocks(mem) /\ LaneIdle /\ Len(tray.scanned) > 0
  /\ completed' = [l \in DOMAIN completed \cup {tray.label} |->
                     IF l = tray.label THEN tray.scanned ELSE completed[l]]
  /\ tray' = NoTray /\ trayFile' = NoTray
  /\ UNCHANGED <<hold, quarantined, log, admitted, mem, writer, lane, ids, faults>>

(* Login after a failed activation, and the start of a new process.        *)
Login ==
  /\ mem.out /\ LaneIdle /\ writer = <<>>
  /\ tray' = trayFile /\ mem' = RestoreHold(NoMem, trayFile)
  /\ UNCHANGED <<hold, quarantined, trayFile, log, completed, admitted, writer, lane,
                 ids, faults>>

(* _preserve_preflight_hold_for_close, at the end of the day: a hold that  *)
(* waits beside an open tray keeps the program from being closed.          *)
Close ==
  /\ LaneIdle /\ Quiet /\ ~mem.due /\ mem.replay = NoLabel /\ ~mem.out
  /\ hold # NoHold => IF hold.state = "DRAINING" THEN TRUE ELSE tray = NoTray
  /\ tray' = trayFile /\ mem' = RestoreHold(NoMem, trayFile)
  /\ UNCHANGED <<hold, quarantined, trayFile, log, completed, admitted, writer, lane,
                 ids, faults>>

Crash ==
  /\ Fault("crash")
  /\ tray' = trayFile /\ mem' = RestoreHold(NoMem, trayFile)
  /\ writer' = <<>> /\ lane' = NoLane
  /\ UNCHANGED <<hold, quarantined, trayFile, log, completed, admitted, ids>>

Lookup == PrepareHold \/ AskServer \/ LookupStale \/ LookupFails \/ LookupOffline \/ Activate
          \/ ActivationFails \/ RetryOffline \/ ReplayRefused
Drain  == DrainHead \/ DrainSave \/ DrainLog \/ DrainAck \/ DrainFails

Next ==
  \/ \E l \in Labels : ScanLabel(l) \/ SwitchLabel(l)
  \/ \E c \in Codes : ScanHeld(c) \/ ScanLive(c)
  \/ \E q \in quarantined : RestoreQuarantined(q)
  \/ Lookup \/ WriterStep \/ Pump \/ Drain
  \/ AckNotice \/ SupervisorQuarantine \/ CompleteTray
  \/ Login \/ Close \/ Crash

(* The threads run, the operator confirms notices, and what the program    *)
(* looks up again by itself is looked up.  The program is closed every day.*)
Fairness ==
  /\ WF_vars(PrepareHold) /\ WF_vars(AskServer)
  /\ WF_vars(LookupStale \/ LookupFails \/ LookupOffline \/ Activate)
  /\ WF_vars(RetryOffline) /\ WF_vars(ReplayRefused) /\ WF_vars(WriterStep) /\ WF_vars(Pump)
  /\ WF_vars(DrainHead \/ DrainSave \/ DrainLog \/ DrainAck)
  /\ WF_vars(AckNotice) /\ WF_vars(Login) /\ WF_vars(Close)
  /\ \A l \in Labels : WF_vars(mem.replay = l /\ ScanLabel(l))

Spec == Init /\ [][Next]_vars

-----------------------------------------------------------------------------
(* Properties.                                                             *)

HeldIn(h, a) == \E k \in DOMAIN h.items : ScanId(h, h.items[k]) = a.id
Kept(a)    == HeldIn(hold, a) \/ \E q \in quarantined : HeldIn(q, a)
Settled(a) == \E e \in ToSet(log) : e[2] = a.id

(* A scan the hold has accepted is never lost: whatever fails, it is in    *)
(* the active hold, in a quarantined one, or the log says what became of   *)
(* it (append, ack_head, quarantine).                                      *)
AcceptedNeverLost == \A a \in admitted : Kept(a) \/ Settled(a)

Trays == {trayFile} \cup {[label |-> l, scanned |-> completed[l]] : l \in DOMAIN completed}
Receipts(t) == [k \in DOMAIN t.scanned |-> t.scanned[k].receipt]

(* One verdict for each held scan: its event is written once, SCAN_OK      *)
(* exactly when the product is in the saved tray of its label, never there *)
(* twice and never both taken and refused, although every step of the      *)
(* drain may be repeated after a stop.                                     *)
OneVerdict ==
  /\ \A j, k \in DOMAIN log : log[j][2] = log[k][2] => j = k
  /\ \A e \in ToSet(log) :
       (e[1] = "SCAN_OK") <=> \E t \in Trays : e[2] \in Range(Receipts(t))

(* Products reach the tray in the order in which they were scanned, those  *)
(* of the hold before anything scanned after it was drained.               *)
HeldInOrder ==
  \A t \in Trays : \A j, k \in DOMAIN t.scanned :
     j < k => /\ t.scanned[k].receipt # LiveScan => t.scanned[j].receipt # LiveScan
              /\ (t.scanned[j].receipt.hold = t.scanned[k].receipt.hold
                  /\ t.scanned[k].receipt # LiveScan)
                 => t.scanned[j].receipt.seq < t.scanned[k].receipt.seq

(* A product is counted for the label the operator was scanning for, and   *)
(* for no other, although the append carries no label of its own.          *)
HeldForItsLabel ==
  /\ \A a \in admitted : a.meant = a.label
  /\ \A t \in Trays : \A k \in DOMAIN t.scanned : \A a \in admitted :
       a.id = t.scanned[k].receipt => a.label = t.label

(* A hold is in one place only, and a label has one hold.                  *)
OneHoldPerLabel ==
  /\ \A p, q \in quarantined : p.label = q.label => p = q
  /\ \A q \in quarantined : q.label # hold.label

(* An accepted scan is eventually judged, or waits in the quarantine list. *)
AcceptedSettles ==
  \A i \in 1..MaxHolds : \A s \in 1..HoldCapacity :
    LET id == [hold |-> i, seq |-> s] IN
    (\E a \in admitted : a.id = id)
      ~> (\E a \in admitted : a.id = id /\ (Settled(a) \/ \E q \in quarantined : HeldIn(q, a)))
=============================================================================
