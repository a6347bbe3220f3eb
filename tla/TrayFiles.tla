------------------------------ MODULE TrayFiles ------------------------------
(***************************************************************************)
(* Two components that keep the files of an open tray: the preflight hold  *)
(* and the parked trays.  They share no variable, so one run checks both:  *)
(* `part` is picked at the start, and only that component moves.  The      *)
(* parked trays are there twice: under the death of the program and        *)
(* deletions that fail, and under writes that fail.                        *)
(***************************************************************************)
EXTENDS Naturals, FiniteSets, TLC

CONSTANTS l1, l2, u1, u2, none   \* model values
CONSTANTS Labels, Codes, BadCodes, TraySize, HoldCapacity, WriterCapacity, WaitingLimit,
          MaxHolds, HoldFaultKinds, MaxHoldFaults   \* the preflight hold

VARIABLES
  part,
  hold, quarantined, tray, trayFile, log, completed, admitted, holdMem, writer, lane, ids,
  holdFaults,
  lw, parkMem, pend, file, parked, quar, intent, op, done, given, begun, latest,
  parkFaults

Hold == INSTANCE PreflightHold WITH
  NoLabel <- none, NoCode <- none, FaultKinds <- HoldFaultKinds, MaxFaults <- MaxHoldFaults,
  mem <- holdMem, faults <- holdFaults
Park == INSTANCE ParkedTray WITH
  Workers <- {u1, u2}, Labels <- {l1, l2}, MaxScans <- 2,
  PinOutcomes <- {"CONSUMED", "UNVERIFIED_DETACHING"},
  FaultKinds <- {"crash", "delete"}, MaxFaults <- 2, mem <- parkMem,
  faults <- parkFaults
Resume == INSTANCE ParkedTray WITH
  Workers <- {u1, u2}, Labels <- {l1}, MaxScans <- 2,
  PinOutcomes <- {"CONSUMED", "UNVERIFIED_DETACHING"}, FaultKinds <- {"save", "clear"},
  MaxFaults <- 1, mem <- parkMem, faults <- parkFaults

holdVars == <<hold, quarantined, tray, trayFile, log, completed, admitted, holdMem,
              writer, lane, ids, holdFaults>>
parkVars == <<lw, parkMem, pend, file, parked, quar, intent, op, done, given, begun,
              latest, parkFaults>>
vars == <<part, holdVars, parkVars>>

ASSUME TrayFilesAssumption ==
  Hold!HoldAssumption /\ Park!ParkedAssumption /\ Resume!ParkedAssumption

Init ==
  /\ part \in {"hold", "park", "resume"}
  /\ Hold!Init
  /\ \/ part \notin {"resume"} /\ Park!Init
     \/ part = "resume" /\ Resume!Init

(* A step of the part that was picked; the others stay as they begin.      *)
HoldStep == part = "hold" /\ Hold!Next /\ UNCHANGED <<part, parkVars>>
ParkStep == part = "park" /\ Park!Next /\ UNCHANGED <<part, holdVars>>
ResumeStep == part = "resume" /\ Resume!Next /\ UNCHANGED <<part, holdVars>>

Next == HoldStep \/ ParkStep \/ ResumeStep
Spec == Init /\ [][Next]_vars

------------------------------------------------------------------------------
(* Every product scan the hold has accepted (preflight_scan_hold.py) is in *)
(* a hold, judged or set aside; it is judged once, in the order of the     *)
(* scans and for the label it was scanned for, whatever is drained again,  *)
(* quarantined or restored, and a label never has two holds.               *)
ScansKept == part = "hold" =>
  /\ Hold!HoldTypeOK /\ Hold!AcceptedNeverLost /\ Hold!OneVerdict
  /\ Hold!HeldInOrder /\ Hold!HeldForItsLabel /\ Hold!OneHoldPerLabel

(* The work of a tray stays in a file until it is completed or given up    *)
(* (park_current_tray, restore_parked_tray, _load_current_tray_state), no  *)
(* label is completed twice, and a tray is taken up with all its scans     *)
(* when writes fail and contracts stay behind.                             *)
WorkKept ==
  /\ [](part = "park" => Park!ParkedTypeOK /\ Park!NoTrayLost /\ Park!CompletedOnce)
  /\ [][part = "resume" => Resume!ResumedWhole]_parkVars

Symmetric == Permutations({l1, l2}) \cup Permutations({u1, u2})
==============================================================================
