-------------------------- MODULE RecoveryEvidence --------------------------
(***************************************************************************)
(* The evidence a handed-over pair leaves on disk, what it bars, and how   *)
(* the supervisor deals with evidence that can no longer be read.  Every   *)
(* scan enumerates the files anew (ParkedTrayStore.enumerate_key_evidence);*)
(* a file whose labels cannot be told bars every label until two scanned   *)
(* labels are bound to it.  A current tray state of a barred label is kept *)
(* byte for byte before other work is let in.  The PIN is granted or       *)
(* refused here; PairedHandoff has its detail.                             *)
(***************************************************************************)
EXTENDS Naturals, FiniteSets

CONSTANTS
  Damages,                \* <<file, "bad" or "none">>: what may happen to a file
  Stale,                  \* BOOLEAN: a current file of a barred label turns up
  SameLogFile,            \* BOOLEAN: events still go to the file of the handoff's audit entry
  FaultKinds, MaxFaults

EvidenceAssumption ==
  /\ Stale \in BOOLEAN /\ SameLogFile \in BOOLEAN /\ MaxFaults \in Nat

VARIABLES
  file,      \* the files of the pair, of the stale hold and of the audit
  copies,    \* versions of the current file kept as .bad-<sha256> or .bad-<time>
  broken,    \* those of them that cannot be read any more
  held,      \* the versions named in the stale hold
  asked,     \* the versions named in PHS2_PAIRED_STALE_CURRENT_* events
  bound,     \* evidence that has been bound to scanned labels
  slot,      \* the version in the current file, 0 when there is none
  app,       \* the program: up, _paired_stale_current_*
  op,        \* the supervisor's handler that is under way
  faults

vars == <<file, copies, broken, held, asked, bound, slot, app, op, faults>>

PairFiles == {"record", "hold", "current", "released", "manager"}
Files == PairFiles \cup {"stale", "staleMgr", "audit"}
Versions == 1..2
Labels == {"H", "C", "D", "X"}           \* H, C: the pair's; X: any other label
LabelOf(v) == IF v = 1 THEN "C" ELSE "D"
LabelsOf(vs) == {LabelOf(v) : v \in vs}
Copies == [how : {"sha", "moved"}, v : Versions]
Copy(how, v) == [how |-> how, v |-> v]
None == Copy("none", 0)
AuditId == Copy("audit", 0)
AskedId == Copy("asked", 0)
Evidence == Copies \cup {AuditId, AskedId}
Idle == [pc |-> "idle", on |-> "pair", ev |-> AuditId, pin |-> 0]
Down == [up |-> FALSE, blocked |-> FALSE, first |-> 0, kept |-> None, changed |-> None]

Init ==
  /\ file = [n \in Files |-> IF n \in {"manager", "stale", "staleMgr"} THEN "none" ELSE "ok"]
  /\ copies = {} /\ broken = {} /\ held = {} /\ asked = {} /\ bound = {}
  /\ slot = (IF Stale THEN 1 ELSE 0) /\ app = Down /\ op = Idle /\ faults = 0

Mishap(kind) == kind \in FaultKinds /\ faults < MaxFaults /\ faults' = faults + 1
Smooth == faults' = faults
At(pc) == app.up /\ op.pc = pc
Go(pc) == op' = [op EXCEPT !.pc = pc]
End == op' = Idle
Here(n) == file[n] # "none"

----------------------------------------------------------------------------
(* ------------------------------------------ what the files still say --- *)
(* A row of the enumeration: its labels; without labels it binds them all. *)
Row(labels, unidentified) == [labels |-> labels, unidentified |-> unidentified]
Bound(id, labels) == IF id \in bound THEN labels ELSE {}
Scanned(id) == IF id.v = 2 THEN {"C", "D"} ELSE {"H", "C"}

(* Mutant: one original that can be read counts for the pair.              *)
MutInspect ==
  LET parts == {n \in {"hold", "current"} : file["record"] = "ok" \/ file[n] = "ok"} IN
  Row({IF n = "hold" THEN "H" ELSE "C" : n \in parts}
        \cup (IF file["manager"] = "ok" THEN {"H", "C"} ELSE {}),
      parts = {} /\ file["manager"] # "ok")

(* Either the record, or both originals, or the manager's hold.            *)
_inspect_verified ==
  LET parts == {n \in {"hold", "current"} : file["record"] = "ok" \/ file[n] = "ok"} IN
  Row({IF n = "hold" THEN "H" ELSE "C" : n \in parts}
        \cup (IF file["manager"] = "ok" THEN {"H", "C"} ELSE {}),
      Cardinality(parts) < 2 /\ file["manager"] # "ok")

PairRows == IF \E n \in PairFiles : Here(n) THEN {_inspect_verified} ELSE {}
StaleRows ==
  LET labels == IF file["stale"] = "ok" \/ file["staleMgr"] = "ok" THEN LabelsOf(held) ELSE {} IN
  IF Here("stale") THEN {Row(labels, labels = {})} ELSE {}
StaleMarkerRows ==
  IF Here("staleMgr") THEN {Row(IF file["staleMgr"] = "ok" THEN LabelsOf(held) ELSE {},
                                file["staleMgr"] # "ok")} ELSE {}
CopyRow(c) ==
  LET labels == (IF c \in broken THEN {} ELSE {LabelOf(c.v)}) \cup Bound(c, Scanned(c)) IN
  Row(labels, labels = {})
NamedCopies == {c \in copies \ broken : c.v \in asked}
(* An event that names the copies has the labels of those it still finds.  *)
AuditRows ==
  LET left == {LabelOf(c.v) : c \in NamedCopies} \cup Bound(AskedId, Scanned(AskedId)) IN
  (IF asked # {} THEN {Row(left, left = {})} ELSE {}) \cup
  (CASE file["audit"] = "none" -> {}
     [] file["audit"] = "ok" -> {Row({"H", "C"}, FALSE)}
     [] OTHER -> {Row(Bound(AuditId, Scanned(AuditId)), AuditId \notin bound)})

enumerate_key_evidence ==
  PairRows \cup StaleRows \cup StaleMarkerRows \cup {CopyRow(c) : c \in copies} \cup AuditRows
binds(row, l) == row.unidentified \/ l \in row.labels
_paired_preflight_blocks_label(l) == \E row \in enumerate_key_evidence : binds(row, l)
_preflight_context_blocks_mutation == app.blocked
Barred(l) == _preflight_context_blocks_mutation \/ _paired_preflight_blocks_label(l)

----------------------------------------------------------------------------
(* ----------------------------------------------------------- login ------ *)
(* A barred current tray is moved aside; if that fails, its bytes are kept *)
(* in memory and, if it can be, in a copy, and the input stays locked.     *)
_load_current_tray_state ==
  /\ ~app.up
  /\ \/ /\ slot = 0 \/ ~_paired_preflight_blocks_label(LabelOf(slot))
        /\ app' = [Down EXCEPT !.up = TRUE] /\ UNCHANGED <<slot, copies>> /\ Smooth
     \/ /\ slot # 0 /\ _paired_preflight_blocks_label(LabelOf(slot)) /\ Smooth
        /\ app' = [Down EXCEPT !.up = TRUE] /\ copies' = copies \cup {Copy("moved", slot)} /\ slot' = 0
     \/ /\ slot # 0 /\ _paired_preflight_blocks_label(LabelOf(slot)) /\ Mishap("quarantine")
        /\ \E kept \in {None} \cup ({Copy("sha", slot)} \ broken) :
             /\ app' = [Down EXCEPT !.up = TRUE, !.blocked = TRUE, !.first = slot, !.kept = kept]
             /\ copies' = copies \cup ({kept} \ {None})
        /\ UNCHANGED slot
  /\ UNCHANGED <<file, broken, held, asked, bound, op>>

(* --------------------------------------- a stale current is preserved --- *)
Whole(c) == c \in copies \ broken
(* preserve_stale_bytes fails when a damaged copy has the name already.    *)
preserve_stale_bytes(v) == Copy("sha", v) \notin broken /\ copies' = copies \cup {Copy("sha", v)}
(* The PIN fixes the content that may be moved (_retry_ and _continue_).   *)
StalePin(on) ==
  /\ At("idle") /\ app.blocked /\ Smooth
  /\ op' = [Idle EXCEPT !.on = on, !.pin = slot, !.pc = IF slot = 0 THEN "check" ELSE "first"]
  /\ UNCHANGED <<file, copies, broken, held, asked, bound, slot, app>>
_retry_paired_stale_current_preservation == StalePin("retry")
_continue_after_paired_stale_current == StalePin("continue")

KeepFirst ==
  /\ At("first")
  /\ \/ /\ Whole(app.kept) /\ Smooth /\ Go("changed") /\ UNCHANGED <<app, copies>>
     \/ /\ ~Whole(app.kept) /\ Smooth /\ Go("changed") /\ preserve_stale_bytes(app.first)
        /\ app' = [app EXCEPT !.kept = Copy("sha", app.first)]
     \/ /\ ~Whole(app.kept) /\ Copy("sha", app.first) \in broken /\ Smooth /\ End
        /\ UNCHANGED <<app, copies>>
     \/ ~Whole(app.kept) /\ Mishap("copy") /\ End /\ UNCHANGED <<app, copies>>
  /\ UNCHANGED <<file, broken, held, asked, bound, slot>>

KeepChanged ==
  /\ At("changed") /\ Smooth
  /\ \/ slot \in {0, app.first} /\ Go("ask") /\ UNCHANGED copies
     \/ slot \notin {0, app.first} /\ preserve_stale_bytes(slot) /\ Go("ask")
     \/ slot \notin {0, app.first} /\ Copy("sha", slot) \in broken /\ End /\ UNCHANGED copies
  /\ UNCHANGED <<file, broken, held, asked, bound, slot, app>>

AskPreservation ==
  /\ At("ask")
  /\ \/ Smooth /\ Go("move") /\ asked' = asked \cup ({app.first, slot} \ {0})
     \/ Mishap("audit") /\ End /\ UNCHANGED asked
  /\ UNCHANGED <<file, copies, broken, held, bound, slot, app>>

_quarantine_current_tray_state ==
  /\ At("move")
  /\ \/ /\ Smooth /\ slot = op.pin /\ slot # 0 /\ Go("check") /\ slot' = 0
        /\ copies' = copies \cup {Copy("moved", slot)} /\ app' = [app EXCEPT !.changed = Copy("moved", slot)]
     \/ /\ slot # op.pin /\ Smooth /\ End /\ UNCHANGED <<slot, copies, app>>
     \/ /\ slot = op.pin /\ Mishap("quarantine") /\ End /\ UNCHANGED <<slot, copies, app>>
  /\ UNCHANGED <<file, broken, held, asked, bound>>

_preserve_paired_stale_current ==
  /\ At("check") /\ Smooth
  /\ IF slot = 0 /\ Whole(app.kept) /\ op.on = "continue" THEN Go("defer") ELSE End
  /\ UNCHANGED <<file, copies, broken, held, asked, bound, slot, app>>

LogDeferral ==
  /\ At("defer")
  /\ \/ Smooth /\ Go("hold") /\ asked' = asked \cup {app.first}
     \/ Mishap("audit") /\ End /\ UNCHANGED asked
  /\ UNCHANGED <<file, copies, broken, held, bound, slot, app>>

hold_stale_current ==
  /\ At("hold") /\ Smooth
  /\ IF file["stale"] # "bad"
       THEN /\ Go("open") /\ file' = [file EXCEPT !["stale"] = "ok"]
            /\ held' = {c.v : c \in {d \in {app.kept, app.changed} : Whole(d)}}
       ELSE End /\ UNCHANGED <<file, held>>
  /\ UNCHANGED <<copies, broken, asked, bound, slot, app>>

OpenInput ==
  /\ At("open") /\ Smooth /\ End /\ app' = [app EXCEPT !.blocked = FALSE]
  /\ UNCHANGED <<file, copies, broken, held, asked, bound, slot>>

----------------------------------------------------------------------------
(* ------------------------- _show_paired_preflight_handoffs: identify ---- *)
(* Two labels are scanned and asked of the server on the lane.             *)
Scan(on, ev) ==
  /\ At("idle") /\ Smooth /\ op' = [Idle EXCEPT !.pc = "central", !.on = on, !.ev = ev]
  /\ UNCHANGED <<file, copies, broken, held, asked, bound, slot, app>>
_identify_unreadable_pair == (\E row \in PairRows : row.unidentified) /\ Scan("pair", AuditId)
_recheck_stale_hold_entry == file["stale"] = "bad" /\ Scan("stale", AuditId)
UnreadableAudits ==
  {c \in copies : CopyRow(c).unidentified}
    \cup (IF file["audit"] = "bad" /\ AuditId \notin bound THEN {AuditId} ELSE {})
    \cup (IF asked # {} /\ NamedCopies = {} /\ AskedId \notin bound THEN {AskedId} ELSE {})
_identify_unreadable_audit == \E ev \in UnreadableAudits : Scan("audit", ev)

resolve_phs_label ==
  /\ At("central") /\ \/ Smooth /\ Go("pin")
                      \/ Mishap("central") /\ End
  /\ UNCHANGED <<file, copies, broken, held, asked, bound, slot, app>>

(* The PIN is taken over the bytes of the evidence: the pair's over those  *)
(* of its record, which has to be there.                                   *)
Source == CASE op.on = "pair" -> Here("record")
            [] op.on = "stale" -> Here("stale")
            [] OTHER -> op.ev \in UnreadableAudits
_admin_pin_approval_for ==
  /\ At("pin")
  /\ \/ Smooth /\ (IF Source THEN Go("bind") ELSE End)
     \/ Mishap("refused") /\ End
  /\ UNCHANGED <<file, copies, broken, held, asked, bound, slot, app>>

(* The event comes first; an entry of the log changes a log file's bytes.  *)
bind_unidentified ==
  /\ At("bind") /\ op.on = "pair" /\ End
  /\ \/ Smooth /\ file' = [file EXCEPT !["manager"] =
                             IF @ = "none" /\ _inspect_verified.unidentified THEN "ok" ELSE @]
     \/ Mishap("audit") /\ UNCHANGED file
  /\ UNCHANGED <<copies, broken, held, asked, bound, slot, app>>
bind_unidentified_stale ==
  /\ At("bind") /\ op.on = "stale" /\ End
  /\ \/ Smooth /\ file' = [file EXCEPT !["staleMgr"] =
                             IF @ = "none" /\ file["stale"] = "bad" THEN "ok" ELSE @]
     \/ Mishap("audit") /\ UNCHANGED file
  /\ UNCHANGED <<copies, broken, held, asked, bound, slot, app>>
BindAudit ==
  /\ At("bind") /\ op.on = "audit" /\ End
  /\ \/ Smooth /\ bound' = IF Source THEN bound \cup {op.ev} ELSE bound
     \/ Mishap("audit") /\ UNCHANGED bound
  /\ UNCHANGED <<file, copies, broken, held, asked, slot, app>>

----------------------------------------------------------------------------
(* Any other event of the day; a binding names the file by its digest.     *)
_log_event ==
  /\ app.up /\ SameLogFile /\ file["audit"] = "bad" /\ Smooth
  /\ bound' = bound \ {AuditId}
  /\ UNCHANGED <<file, copies, broken, held, asked, slot, app, op>>

(* A copy that was compared a moment ago is not damaged before the hold.   *)
Damage ==
  /\ Mishap("damage")
  /\ \/ \E d \in Damages : d[1] \in Files /\ Here(d[1]) /\ file' = [file EXCEPT ![d[1]] = d[2]]
          /\ UNCHANGED broken
     \/ \E c \in copies \ broken :
          /\ <<"copy", "bad">> \in Damages /\ op.pc \notin {"defer", "hold"}
          /\ broken' = broken \cup {c} /\ UNCHANGED file
  /\ UNCHANGED <<copies, held, asked, bound, slot, app, op>>
Touch ==
  /\ slot = 1 /\ Mishap("touch") /\ slot' = 2
  /\ UNCHANGED <<file, copies, broken, held, asked, bound, app, op>>
Exit ==                                  \* the program is closed and started again
  /\ At("idle") /\ Smooth /\ app' = Down
  /\ UNCHANGED <<file, copies, broken, held, asked, bound, slot, op>>
Crash ==
  /\ app.up /\ Mishap("crash") /\ app' = Down /\ op' = Idle
  /\ UNCHANGED <<file, copies, broken, held, asked, bound, slot>>

Steps ==
  \/ _load_current_tray_state \/ KeepFirst \/ KeepChanged \/ AskPreservation
  \/ _quarantine_current_tray_state \/ _preserve_paired_stale_current \/ LogDeferral
  \/ hold_stale_current \/ OpenInput \/ resolve_phs_label \/ _admin_pin_approval_for
  \/ bind_unidentified \/ bind_unidentified_stale \/ BindAudit
Next ==
  \/ Steps \/ _retry_paired_stale_current_preservation \/ _continue_after_paired_stale_current
  \/ _identify_unreadable_pair \/ _recheck_stale_hold_entry \/ _identify_unreadable_audit
  \/ _log_event \/ Damage \/ Touch \/ Exit \/ Crash
Spec == Init /\ [][Next]_vars

----------------------------------------------------------------------------
(* Types; a stale hold names a version, and a broken copy is a copy.       *)
EvidenceTypeOK ==
  /\ file \in [Files -> {"none", "ok", "bad"}]
  /\ copies \subseteq Copies /\ broken \subseteq copies /\ held \subseteq {c.v : c \in copies}
  /\ asked \subseteq Versions /\ bound \subseteq Evidence /\ slot \in 0..2
  /\ app.up \in BOOLEAN /\ app.blocked \in BOOLEAN
  /\ app.first \in 0..2 /\ {app.kept, app.changed} \subseteq Copies \cup {None}
  /\ faults \in 0..MaxFaults

(* As long as anything is left of a handed-over pair, in its folder or in  *)
(* the audit, and whatever of it is damaged or gone, both of its labels    *)
(* are refused; and so are the labels of every copy that was put away.     *)
LabelsStayBarred ==
  /\ (\E n \in PairFiles \cup {"audit"} : Here(n)) => \A l \in {"H", "C"} : Barred(l)
  /\ \A c \in copies : Barred(LabelOf(c.v))
  /\ (Here("stale") \/ Here("staleMgr")) => \A v \in held : Barred(LabelOf(v))

(* The input opens again only when the bytes that were found at login and  *)
(* the bytes the file had last are kept, and nothing is left in the slot.  *)
BothVersionsKept ==
  [][app.blocked /\ ~app'.blocked /\ app'.up =>
       /\ slot = 0 /\ app.kept \in copies /\ app.kept.v = app.first
       /\ app.changed \in copies /\ app.first \in held
       /\ (app.changed.v \in held \/ app.changed \in broken)]_vars

(* The last content of the file, which no handler may lose.                *)
NothingLost == [][slot # 0 /\ slot' # slot => (\E c \in copies' : c.v = slot) \/ faults' # faults]_vars

(* Once other labels are let in, only damage or a failure shuts them out:  *)
(* binding evidence to its labels is final.                                *)
NoRelock == ~Barred("X") /\ Barred("X")' => faults' # faults
=============================================================================
