----------------------------- MODULE ParkedTray -----------------------------
(***************************************************************************)
(* The durable copies of a tray's work: the current state file, the parked *)
(* files (parked_tray_store.py) and the quarantined originals, and the     *)
(* operations of Container_Audit.py that move a tray between them: login   *)
(* and recovery, parking, restoring, deferring, the supervisor's handover, *)
(* reset and completion.  A tray is its label and the number of its scans. *)
(* The completion itself is TrayCompletion's.                              *)
(***************************************************************************)
EXTENDS Naturals, FiniteSets

CONSTANTS
  Workers, Labels,
  MaxScans,               \* scans of one tray (bound)
  PinOutcomes,            \* what a PIN request may end in
  FaultKinds, MaxFaults

ParkedAssumption ==
  IsFiniteSet(Workers) /\ IsFiniteSet(Labels) /\ MaxScans \in Nat \ {0} /\ MaxFaults \in Nat

VARIABLES
  lw,       \* worker_name, or none
  mem,      \* current_tray
  pend,     \* _pending_activation_event_contract, _pending_parked_restore_contract
  file,     \* the current tray state file
  parked,   \* files of the parked directory: kind and content
  quar,     \* labels with a quarantined current file (.bad-*)
  intent,   \* an open admin PIN intent CA.TRAY_HOLD: its state and the tray it moves
  op,       \* the operation that is under way
  done,     \* completions of each label
  given,    \* labels whose work the operator gave up
  begun, latest,  \* labels started, and the scans of each as last worked on
  faults

vars == <<lw, mem, pend, file, parked, quar, intent, op, done, given, begun, latest, faults>>

None == "none"
NoSha == [n |-> 0, act |-> None, rev |-> FALSE, again |-> FALSE]
NoRes == [k |-> None, w |-> None, l |-> None, sha |-> NoSha]
NoTray == [l |-> None, n |-> 0, rev |-> FALSE]
NoCopy == [w |-> None, l |-> None, n |-> 0, rev |-> FALSE, act |-> None, res |-> NoRes]
NoIntent == [st |-> None, c |-> NoCopy]
NoPend == [act |-> None, res |-> NoRes]
Idle == [pc |-> "idle", then |-> None, snap |-> NoCopy]

Sha == [n : 0..MaxScans, act : Labels \cup {None}, rev : BOOLEAN, again : BOOLEAN]
Res == {NoRes} \cup [k : {"qr", "rec"}, w : Workers, l : Labels, sha : Sha]
Copies == [w : Workers, l : Labels, n : 0..MaxScans, rev : BOOLEAN,
           act : Labels \cup {None}, res : Res]

Init ==
  /\ lw = None /\ mem = NoTray /\ pend = NoPend /\ file = NoCopy
  /\ parked = {} /\ quar = {} /\ intent = NoIntent /\ op = Idle
  /\ done = [l \in Labels |-> 0] /\ given = {} /\ begun = {}
  /\ latest = [l \in Labels |-> 0] /\ faults = 0

Mishap(kind) == kind \in FaultKinds /\ faults < MaxFaults /\ faults' = faults + 1
Smooth == faults' = faults

(* A saved state is refused when it carries another tray's contract.       *)
_validate_pending_activation_event(c) == c.act \in {None, c.l}
_validate_pending_parked_restore(c) == c.res = NoRes \/ c.res.l = c.l
validate_tray_state(c) == _validate_pending_activation_event(c) /\ _validate_pending_parked_restore(c)
_canonical_state_hash(c) == [n |-> c.n, act |-> c.act, rev |-> c.rev, again |-> c.res # NoRes]
(* The contracts still pending in memory are part of every snapshot.       *)
_current_tray_state_snapshot(m) ==
  [w |-> lw, l |-> m.l, n |-> m.n, rev |-> m.rev, act |-> pend.act, res |-> pend.res]
tray_session_from_state(c) == [l |-> c.l, n |-> c.n, rev |-> c.rev]
(* Evidence of a label that an operator has to look at bars the label.     *)
StaleCurrentEvidence(l) == l \in quar
PinIntentEvidence(l) == intent.c.l = l
_paired_preflight_blocks_label(l) == StaleCurrentEvidence(l) \/ PinIntentEvidence(l)
ParkedCopies(l) == {f \in parked : f.c.l = l}
_is_completed_master_label(l) == done[l] > 0

AtIdle == lw # None /\ op = Idle
At(pc) == op.pc = pc
Go(pc) == op' = [op EXCEPT !.pc = pc]
End == op' = Idle
Logout == lw' = None /\ op' = Idle

-----------------------------------------------------------------------------
(* Login: start_work and _load_current_tray_state.                         *)

start_work(w) ==
  /\ lw = None /\ op = Idle
  /\ lw' = w
  /\ op' = [Idle EXCEPT !.pc = IF intent.st = "UNVERIFIED_DETACHING" THEN "pin" ELSE "load",
                       !.then = "load"]
  /\ UNCHANGED <<mem, pend, file, parked, quar, intent, done, given, begun, latest, faults>>

(* The bytes the intent was written for: still current, or already moved.  *)
IntentSource == file = intent.c \/ (file = NoCopy /\ intent.c.l \in quar)
(* A handover whose PIN could not be verified parks the original and frees *)
(* the current file; an interrupted one is taken up at the next login.     *)
_admin_pin_finish_unverified_detachment ==
  /\ At("pin") /\ op' = [Idle EXCEPT !.pc = op.then]
  /\ \/ /\ Smooth /\ IntentSource
        /\ parked' = parked \cup {[k |-> "rec", c |-> intent.c]}
        /\ file' = NoCopy /\ quar' = quar \cup {intent.c.l} /\ intent' = NoIntent
        /\ mem' = NoTray
     \/ (Mishap("save") \/ (~IntentSource /\ Smooth)) /\ UNCHANGED <<mem, parked, file, quar, intent>>
  /\ UNCHANGED <<lw, pend, done, given, begun, latest>>

_quarantine_current_tray_state == file' = NoCopy /\ quar' = quar \cup {file.l}

LoadCurrent ==
  /\ At("load")
  /\ \/ file = NoCopy /\ End /\ Smooth /\ UNCHANGED <<lw, file, quar>>
     \/ /\ file # NoCopy /\ _paired_preflight_blocks_label(file.l)
        /\ \/ _quarantine_current_tray_state /\ End /\ Smooth /\ UNCHANGED lw
           \/ Mishap("delete") /\ Logout /\ UNCHANGED <<file, quar>>
     \/ /\ file # NoCopy /\ ~_paired_preflight_blocks_label(file.l) /\ ~validate_tray_state(file)
        /\ End /\ UNCHANGED lw
        /\ \/ _quarantine_current_tray_state /\ Smooth
           \/ Mishap("delete") /\ UNCHANGED <<file, quar>>
     \/ /\ file # NoCopy /\ ~_paired_preflight_blocks_label(file.l) /\ validate_tray_state(file)
        /\ op' = [Idle EXCEPT !.pc = "activation", !.then = "choose"]
        /\ Smooth /\ UNCHANGED <<lw, file, quar>>
  /\ UNCHANGED <<mem, pend, parked, intent, done, given, begun, latest>>

(* The activation's event is logged and then taken out of the file.        *)
_reconcile_activation_event_from_state ==
  /\ At("activation")
  /\ \/ file.act = None /\ Smooth /\ Go("restore") /\ pend' = [pend EXCEPT !.act = None] /\ UNCHANGED <<lw, file>>
     \/ /\ file.act # None /\ Go("restore") /\ UNCHANGED lw
        /\ \/ Smooth /\ file' = [file EXCEPT !.act = None] /\ pend' = [pend EXCEPT !.act = None]
           \/ Mishap("clear") /\ UNCHANGED file /\ pend' = [pend EXCEPT !.act = file.act]
     \/ /\ file.act # None /\ Mishap("log") /\ Logout
        /\ pend' = [pend EXCEPT !.act = file.act] /\ UNCHANGED file
  /\ UNCHANGED <<mem, parked, quar, intent, done, given, begun, latest>>

(* The events of a restore are logged, its source is deleted and the       *)
(* contract is taken out of the file.                                      *)
_drain_pending_parked_restore ==
  /\ At("restore")
  /\ \/ file.res = NoRes /\ Smooth /\ Go("choose") /\ pend' = [pend EXCEPT !.res = NoRes] /\ UNCHANGED lw
     \/ file.res # NoRes /\ Smooth /\ Go("source") /\ pend' = [pend EXCEPT !.res = file.res] /\ UNCHANGED lw
     \/ /\ file.res # NoRes /\ Mishap("log") /\ Logout
        /\ pend' = [pend EXCEPT !.res = file.res]
  /\ mem' = IF op'.pc = "idle" THEN NoTray ELSE mem
  /\ UNCHANGED <<file, parked, quar, intent, done, given, begun, latest>>

Source == {f \in parked : /\ f.k = pend.res.k /\ f.c.l = pend.res.l /\ f.c.w = pend.res.w
                          /\ f.k = "rec" => _canonical_state_hash(f.c) = pend.res.sha}

_cleanup_parked_restore_source ==
  /\ At("source")
  /\ \/ /\ \A f \in Source : _canonical_state_hash(f.c) = pend.res.sha
        /\ Smooth /\ parked' = parked \ Source /\ Go("clear") /\ UNCHANGED <<lw, mem>>
     \/ /\ Source # {} /\ Mishap("delete") /\ Logout /\ mem' = NoTray /\ UNCHANGED parked
     \/ /\ \E f \in Source : _canonical_state_hash(f.c) # pend.res.sha
        /\ Smooth /\ Logout /\ mem' = NoTray /\ UNCHANGED parked
  /\ UNCHANGED <<pend, file, quar, intent, done, given, begun, latest>>

_clear_persisted_parked_restore ==
  /\ At("clear") /\ Go(op.then)
  /\ \/ Smooth /\ file' = [file EXCEPT !.res = NoRes] /\ pend' = [pend EXCEPT !.res = NoRes]
     \/ Mishap("clear") /\ UNCHANGED <<file, pend>>
  /\ UNCHANGED <<lw, mem, parked, quar, intent, done, given, begun, latest>>

Adopt(c) == mem' = tray_session_from_state(c) /\ latest' = [latest EXCEPT ![c.l] = c.n]

(* The state of a tray that is already completed is deleted.               *)
DiscardCompleted ==
  /\ At("choose") /\ _is_completed_master_label(file.l) /\ End
  /\ \/ Smooth /\ file' = NoCopy /\ UNCHANGED quar
     \/ Mishap("delete") /\ _quarantine_current_tray_state
     \/ Mishap("log") /\ UNCHANGED <<file, quar>>
  /\ UNCHANGED <<lw, mem, pend, parked, intent, done, given, begun, latest>>

Unfinished == At("choose") /\ ~_is_completed_master_label(file.l)

(* The same worker goes on; without the log entry the work screen opens    *)
(* with no tray.                                                           *)
ContinueOwn ==
  /\ Unfinished /\ file.w = lw /\ End
  /\ \/ Smooth /\ Adopt(file)
     \/ Mishap("log") /\ UNCHANGED <<mem, latest>>
  /\ UNCHANGED <<lw, pend, file, parked, quar, intent, done, given, begun>>

(* Another worker takes over.                                              *)
Takeover ==
  /\ Unfinished /\ file.w # lw /\ End
  /\ \/ Smooth /\ Adopt(file) /\ file' = [file EXCEPT !.w = lw]
     \/ (Mishap("save") \/ Mishap("log")) /\ UNCHANGED <<mem, latest, file>>
  /\ UNCHANGED <<lw, pend, parked, quar, intent, done, given, begun>>

(* Another worker has the work deleted, once the log says so.              *)
DeclineTakeover ==
  /\ Unfinished /\ file.w # lw /\ ~file.rev /\ End
  /\ given' = given \cup {file.l}
  /\ \/ Smooth /\ file' = NoCopy
     \/ (Mishap("log") \/ Mishap("delete")) /\ UNCHANGED file
  /\ UNCHANGED <<lw, mem, pend, parked, quar, intent, done, begun, latest>>

CancelRecovery ==
  /\ Unfinished /\ (file.w = lw => ~file.rev) /\ Logout
  /\ UNCHANGED <<mem, pend, file, parked, quar, intent, done, given, begun, latest, faults>>

(* The same worker parks the work instead: copy, log entry, deletion.      *)
defer_recovery_state ==
  /\ Unfinished /\ file.w = lw /\ ~file.rev
  /\ \/ Smooth /\ parked' = parked \cup {[k |-> "rec", c |-> file]} /\ Go("defer_log")
     \/ Mishap("save") /\ UNCHANGED parked /\ End
  /\ UNCHANGED <<lw, mem, pend, file, quar, intent, done, given, begun, latest>>
_defer_saved_recovery_state ==
  /\ At("defer_log") /\ End
  /\ \/ Smooth /\ file' = NoCopy
     \/ (Mishap("log") \/ Mishap("delete")) /\ UNCHANGED file
  /\ UNCHANGED <<lw, mem, pend, parked, quar, intent, done, given, begun, latest>>

-----------------------------------------------------------------------------
(* The work screen.                                                        *)

Admissible(l) ==
  ~_is_completed_master_label(l) /\ ~_paired_preflight_blocks_label(l) /\ ParkedCopies(l) = {}
(* A new label; the current file is written over.                          *)
_activate_master_label_tray(l) ==
  /\ AtIdle /\ mem = NoTray
  /\ Admissible(l)
  /\ mem' = [NoTray EXCEPT !.l = l]
  /\ pend' = [pend EXCEPT !.act = l]
  /\ file' = [_current_tray_state_snapshot(mem') EXCEPT !.act = l]
  /\ Go("drain_activation")
  /\ given' = given \ {l} /\ begun' = begun \cup {l} /\ latest' = [latest EXCEPT ![l] = 0]
  /\ UNCHANGED <<lw, parked, quar, intent, done, faults>>
_drain_pending_activation_event ==
  /\ At("drain_activation")
  /\ \/ /\ Smooth /\ pend' = [pend EXCEPT !.act = None] /\ file' = [file EXCEPT !.act = None]
        /\ End /\ UNCHANGED <<lw, mem>>
     \/ Mishap("clear") /\ End /\ UNCHANGED <<lw, mem, pend, file>>
     \/ Mishap("log") /\ Logout /\ mem' = NoTray /\ UNCHANGED <<pend, file>>
  /\ UNCHANGED <<parked, quar, intent, done, given, begun, latest>>

Working == AtIdle /\ mem # NoTray
Save(m) == mem' = m /\ file' = _current_tray_state_snapshot(m)

Scan ==
  /\ Working /\ ~mem.rev /\ mem.n < MaxScans
  /\ Save([mem EXCEPT !.n = @ + 1]) /\ latest' = [latest EXCEPT ![mem.l] = mem.n + 1]
  /\ UNCHANGED <<lw, pend, parked, quar, intent, op, done, given, begun, faults>>

(* The completion's result is unclear and needs a review.                  *)
Unsettle ==
  /\ Working /\ ~mem.rev /\ mem.n > 0
  /\ Save([mem EXCEPT !.rev = TRUE])
  /\ UNCHANGED <<lw, pend, parked, quar, intent, op, done, given, begun, latest, faults>>

(* The completion is recorded, then the file is deleted.                   *)
CompleteTray ==
  /\ Working /\ mem.n > 0
  /\ done' = [done EXCEPT ![mem.l] = @ + 1] /\ mem' = NoTray
  /\ \/ Smooth /\ file' = NoCopy
     \/ (Mishap("delete") \/ Mishap("crash")) /\ UNCHANGED file
  /\ UNCHANGED <<lw, pend, parked, quar, intent, op, given, begun, latest>>

(* The file is deleted, then the reset is logged; without the entry the    *)
(* file is written again.                                                  *)
reset_current_work ==
  /\ Working /\ ~mem.rev
  /\ file' = NoCopy /\ given' = given \cup {mem.l}
  /\ op' = [Idle EXCEPT !.pc = "reset_log", !.snap = _current_tray_state_snapshot(mem)]
  /\ UNCHANGED <<lw, mem, pend, parked, quar, intent, done, begun, latest, faults>>
LogReset ==
  /\ At("reset_log") /\ End
  /\ \/ Smooth /\ mem' = NoTray /\ UNCHANGED <<file, given>>
     \/ Mishap("log") /\ file' = op.snap /\ given' = given \ {mem.l} /\ UNCHANGED mem
  /\ UNCHANGED <<lw, pend, parked, quar, intent, done, begun, latest>>

existing_label_path(l) == \E f \in parked : f.k = "qr" /\ f.c.w = lw /\ f.c.l = l

(* Mutant: the current file is deleted before the parked one exists.       *)
save_state_Late ==
  /\ Working /\ ~mem.rev /\ ~existing_label_path(mem.l)
  /\ op' = [Idle EXCEPT !.pc = "park_delete", !.snap = _current_tray_state_snapshot(mem)]
  /\ file' = NoCopy
  /\ UNCHANGED <<lw, mem, pend, parked, quar, intent, done, given, begun, latest, faults>>
(* park_current_tray: the parked file, ...                                 *)
save_state ==
  /\ Working /\ ~mem.rev /\ ~existing_label_path(mem.l)
  /\ op' = [Idle EXCEPT !.pc = "park_delete", !.snap = _current_tray_state_snapshot(mem)]
  /\ parked' = parked \cup {[k |-> "qr", c |-> op'.snap]}
  /\ UNCHANGED <<lw, mem, pend, file, quar, intent, done, given, begun, latest, faults>>
Unpark == parked \ {[k |-> "qr", c |-> op.snap]}
(* ... the deletion of the current file, taken back when it fails, ...     *)
ParkDelete ==
  /\ At("park_delete")
  /\ \/ Smooth /\ file' = NoCopy /\ Go("park_log") /\ UNCHANGED parked
     \/ Mishap("delete") /\ parked' = Unpark /\ End /\ UNCHANGED file
  /\ UNCHANGED <<lw, mem, pend, quar, intent, done, given, begun, latest>>
(* ... and the log entry; without it the parked file is deleted ...        *)
park_current_tray ==
  /\ At("park_log")
  /\ \/ Smooth /\ mem' = NoTray /\ End /\ UNCHANGED parked
     \/ Mishap("log") /\ parked' = Unpark /\ Go("park_undo") /\ UNCHANGED mem
  /\ UNCHANGED <<lw, pend, file, quar, intent, done, given, begun, latest>>
(* ... and the current file written again.                                 *)
ParkUndo ==
  /\ At("park_undo") /\ End
  /\ \/ Smooth /\ file' = op.snap
     \/ Mishap("save") /\ UNCHANGED file
  /\ UNCHANGED <<lw, mem, pend, parked, quar, intent, done, given, begun, latest>>

(* What a restore may take: the worker's own healthy file.                 *)
Restorable(f) ==
  f.c.w = lw /\ validate_tray_state(f.c) /\ ~_paired_preflight_blocks_label(f.c.l)

DropCompleted(f) == _is_completed_master_label(f.c.l)

_build_parked_restore_contract(f) ==
  [k |-> f.k, w |-> f.c.w, l |-> f.c.l, sha |-> _canonical_state_hash(f.c)]

(* The restored state and its contract go to the current file in one       *)
(* write; a tray in hand is given up if the operator says so.              *)
restore_parked_tray(f) ==
  /\ AtIdle /\ ~mem.rev /\ Restorable(f)
  /\ \/ /\ DropCompleted(f) /\ parked' = parked \ {f}
        /\ UNCHANGED <<mem, pend, file, op, given, latest>>
     \/ /\ ~DropCompleted(f) /\ UNCHANGED parked
        /\ pend' = [pend EXCEPT !.res = _build_parked_restore_contract(f)]
        /\ file' = [f.c EXCEPT !.w = lw, !.act = None, !.res = pend'.res]
        /\ op' = [Idle EXCEPT !.pc = "restore", !.then = "resume"]
        /\ given' = (given \cup (IF mem = NoTray THEN {} ELSE {mem.l})) \ {f.c.l}
        /\ latest' = IF f.c.l \in given \cup {mem.l} THEN [latest EXCEPT ![f.c.l] = f.c.n] ELSE latest
        /\ mem' = NoTray
  /\ UNCHANGED <<lw, quar, intent, done, begun, faults>>
ResumeRestored ==
  /\ At("resume") /\ End /\ Adopt(file)
  /\ UNCHANGED <<lw, pend, file, parked, quar, intent, done, given, begun, faults>>

_admin_pin_approval_for(c) ==
  "CONSUMED" \in PinOutcomes /\ intent' = [st |-> "CONSUMED", c |-> c]
_admin_pin_failed(c) ==
  /\ "UNVERIFIED_DETACHING" \in PinOutcomes /\ intent = NoIntent
  /\ intent' = [st |-> "UNVERIFIED_DETACHING", c |-> c]
existing_label_path_any_worker(l, c) == \A f \in ParkedCopies(l) : f.c = c
(* The supervisor's handover of an unsettled tray: the PIN intent, the     *)
(* move of the current file, the parked copy and the log entry.            *)
_defer_blocked_current_tray_for_supervisor ==
  /\ Working /\ mem.rev
  /\ existing_label_path_any_worker(mem.l, _current_tray_state_snapshot(mem))
  /\ Save(mem)
  /\ \/ _admin_pin_approval_for(file') /\ Go("hold_move")
     \/ /\ _admin_pin_failed(file')
        /\ op' = [Idle EXCEPT !.pc = "pin", !.then = "idle"]
  /\ UNCHANGED <<lw, pend, parked, quar, done, given, begun, latest, faults>>
_admin_pin_move ==
  /\ At("hold_move")
  /\ \/ Smooth /\ _quarantine_current_tray_state /\ Go("hold_park")
     \/ Mishap("delete") /\ UNCHANGED <<file, quar>> /\ End
  /\ UNCHANGED <<lw, mem, pend, parked, intent, done, given, begun, latest>>
HoldPark ==
  /\ At("hold_park") /\ End
  /\ \/ /\ Smooth /\ intent' = NoIntent /\ mem' = NoTray
        /\ parked' = parked \cup {[k |-> "rec", c |-> intent.c]}
     \/ Mishap("save") /\ UNCHANGED <<parked, intent, mem>>
     \/ /\ Mishap("log") /\ UNCHANGED <<intent, mem>>
        /\ parked' = parked \cup {[k |-> "rec", c |-> intent.c]}
  /\ UNCHANGED <<lw, pend, file, quar, done, given, begun, latest>>
(* A consumed intent whose file was moved is finished from the admin list. *)
_admin_pin_resume_intermediate ==
  /\ AtIdle /\ intent.st = "CONSUMED" /\ file = NoCopy /\ intent.c.l \in quar
  /\ parked' = parked \cup {[k |-> "rec", c |-> intent.c]} /\ intent' = NoIntent
  /\ mem' = IF mem.l = intent.c.l THEN NoTray ELSE mem
  /\ UNCHANGED <<lw, pend, file, quar, op, done, given, begun, latest, faults>>

change_worker ==
  /\ AtIdle /\ ~mem.rev /\ Logout
  /\ mem' = NoTray
  /\ file' = IF mem = NoTray THEN file ELSE _current_tray_state_snapshot(mem)
  /\ UNCHANGED <<pend, parked, quar, intent, done, given, begun, latest, faults>>

(* The program is closed and started again.                                *)
Exit ==
  /\ lw = None /\ op = Idle /\ pend # NoPend
  /\ pend' = NoPend
  /\ UNCHANGED <<lw, mem, file, parked, quar, intent, op, done, given, begun, latest, faults>>
Crash ==
  /\ Mishap("crash") /\ (lw # None \/ op # Idle)
  /\ Logout /\ mem' = NoTray /\ pend' = NoPend
  /\ UNCHANGED <<file, parked, quar, intent, done, given, begun, latest>>

Recovery ==
  \/ _admin_pin_finish_unverified_detachment \/ LoadCurrent
  \/ _reconcile_activation_event_from_state \/ _drain_pending_parked_restore
  \/ _cleanup_parked_restore_source \/ _clear_persisted_parked_restore
Choice ==
  \/ DiscardCompleted \/ ContinueOwn \/ Takeover \/ DeclineTakeover \/ CancelRecovery
  \/ defer_recovery_state
UnderWay ==
  \/ _drain_pending_activation_event \/ _defer_saved_recovery_state \/ LogReset
  \/ ParkDelete \/ park_current_tray \/ ParkUndo \/ ResumeRestored \/ _admin_pin_move \/ HoldPark

Next ==
  \/ \E w \in Workers : start_work(w)
  \/ Recovery \/ Choice \/ UnderWay
  \/ \E l \in Labels : _activate_master_label_tray(l)
  \/ Scan \/ Unsettle \/ CompleteTray \/ reset_current_work \/ save_state
  \/ \E f \in parked : restore_parked_tray(f)
  \/ _defer_blocked_current_tray_for_supervisor \/ _admin_pin_resume_intermediate
  \/ change_worker \/ Exit \/ Crash

Spec == Init /\ [][Next]_vars

-----------------------------------------------------------------------------
(* Properties.                                                             *)

ParkedTypeOK ==
  /\ lw \in Workers \cup {None}
  /\ mem \in [l : Labels, n : 0..MaxScans, rev : BOOLEAN] \cup {NoTray}
  /\ file \in Copies \cup {NoCopy} /\ intent.c \in Copies \cup {NoCopy}
  /\ \A f \in parked : f.k \in {"qr", "rec"} /\ f.c \in Copies
  /\ quar \subseteq Labels /\ given \subseteq Labels

Held(l) == file.l = l \/ l \in quar \/ intent.c.l = l \/ ParkedCopies(l) # {}
(* The work on a tray that is neither completed nor given up exists in a   *)
(* durable file or, while the program runs, in hand.                       *)
NoTrayLost ==
  \A l \in begun : done[l] > 0 \/ l \in given \/ mem.l = l \/ Held(l)

(* A label is completed once, however many copies of its work exist.       *)
CompletedOnce == \A l \in Labels : done[l] <= 1

(* A tray is taken up with all the scans it had when it was last worked on.*)
ResumedWhole ==
  (mem = NoTray /\ mem' # NoTray /\ op.pc \in {"choose", "resume"}) => mem'.n = latest[mem'.l]
=============================================================================
