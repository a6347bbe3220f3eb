---------------------------- MODULE PairedHandoff ----------------------------
(***************************************************************************)
(* The paired handoff: a DRAINING preflight hold and a current tray of     *)
(* another label, found together at login, are recorded as one pair        *)
(* (paired_preflight_handoff.py) and moved out of the active slots under   *)
(* one administrator PIN (container_admin_pin.py, pin_file_move.py and the *)
(* _admin_pin_* methods of Container_Audit.py).  Every durable write is a  *)
(* step; the program may end between any two.  One worker logs in again    *)
(* and again; the bytes of a file are its version number.                  *)
(***************************************************************************)
EXTENDS Naturals, FiniteSets, Sequences

CONSTANTS
  MaxVersions,            \* contents the two original files take on (bound)
  MaxKeys,                \* operation keys (bound)
  FaultKinds, MaxFaults

PairedAssumption ==
  MaxVersions \in Nat \ {0} /\ MaxKeys \in Nat \ {0} /\ MaxFaults \in Nat

VARIABLES
  slot,      \* the active files: the preflight hold and the current tray state
  bad,       \* contents of current-state files kept as .bad-<sha256>
  rec,       \* the pair records: a record's identity is the two contents it holds
  intents,   \* the admin PIN intents, by operation key
  consumed,  \* keys the PIN server has consumed
  app,       \* the program: up, login epoch, current_tray, _preflight_hold_snapshot
  op,        \* the handler that is under way
  newest,    \* the last content of each original (ghost)
  faults

vars == <<slot, bad, rec, intents, consumed, app, op, newest, faults>>

Names == {"hold", "current"}
Gone == 0
Other == MaxVersions + 1                \* the tray of some other label
Contents == 1..Other
Ids == [Names -> Contents]
Keys == 1..MaxKeys
NoId == [n \in Names |-> 1]
NoRec == [st |-> "none", arch |-> [n \in Names |-> Gone], event |-> 0]
Idle == [pc |-> "idle", via |-> "fresh", id |-> NoId, k |-> 0]
IntentStates == {"PREPARED", "VERIFIED", "CONSUMED", "APPLIED", "REJECTED", "UNKNOWN",
                 "TARGET_CHANGED", "SUPERSEDED", "UNVERIFIED_DETACHING",
                 "UNVERIFIED_OPERATOR_HOLD", "HANDED_OFF_UNKNOWN"}

Init ==
  /\ slot = [n \in Names |-> 1] /\ newest = slot /\ bad = {}
  /\ rec = [id \in Ids |-> NoRec] /\ intents = <<>> /\ consumed = {}
  /\ app = [up |-> TRUE, epoch |-> 0, tray |-> "pair", snap |-> TRUE]
  /\ op = Idle /\ faults = 0

Mishap(kind) == kind \in FaultKinds /\ faults < MaxFaults /\ faults' = faults + 1
Smooth == faults' = faults
At(pc) == op.pc = pc
Go(pc) == op' = [op EXCEPT !.pc = pc]
(* A handler that the login ran gives way to the rest of the login.        *)
End == op' = IF op.via = "startup" THEN [Idle EXCEPT !.pc = "load"] ELSE Idle
Mine == intents[op.k]
Pair == rec[op.id]
(* A key that the operator holds the item under is marked as held for good. *)
transition(k, st) ==
  intents' = [intents EXCEPT ![k].st = st, ![k].held = @ \/ st = "UNVERIFIED_DETACHING"]

(* ------------------------------------------------------ the pair store -- *)
pending == {id \in Ids : rec[id].st = "pending"}
originals_match(id) == rec[id].arch = id
(* The versions of an original have one label.  A recorded pair bars both  *)
(* labels, whatever became of the record and of the bytes.                 *)
SameLabel(c, d) == (c = Other) = (d = Other)
_paired_preflight_blocks_label(n, c) == \E id \in Ids : rec[id].st # "none" /\ SameLabel(id[n], c)
_preflight_context_blocks_mutation == app.snap \/ slot["hold"] # Gone
(* What the fingerprint of the target is taken over: the archived file if  *)
(* there is one, else the active one.                                      *)
source(id) == [n \in Names |-> IF rec[id].arch[n] # Gone THEN rec[id].arch[n] ELSE slot[n]]
Readable(id) == \A n \in Names : source(id)[n] # Gone

(* ------------------------------------------------------- the PIN intent -- *)
Closed == {"APPLIED", "REJECTED", "SUPERSEDED"}
OpenKeys(id) == {k \in DOMAIN intents : intents[k].id = id /\ intents[k].st \notin Closed}
ChangedKeys(id) == {k \in OpenKeys(id) : intents[k].st = "TARGET_CHANGED"}
(* _admin_pin_failed: the operator keeps the request or holds the item.    *)
Failed(k, rest) ==
  \/ rest' = [Idle EXCEPT !.via = op.via, !.pc = IF op.via = "startup" THEN "load" ELSE "idle"]
     /\ transition(k, "UNKNOWN")
  \/ rest' = [op EXCEPT !.pc = "detach", !.k = k] /\ transition(k, "UNVERIFIED_DETACHING")

----------------------------------------------------------------------------
(* ------------------------- _defer_paired_preflight_from_operations ------ *)
DeferStart ==
  /\ app.up /\ At("idle") /\ Smooth
  /\ \/ \E id \in pending :
          op' = [Idle EXCEPT !.id = id,
                   !.pc = IF /\ ChangedKeys(id) # {}
                             /\ \A n \in Names : slot[n] # Gone
                             /\ slot # id
                          THEN "supersede" ELSE "approve"]
     \/ pending = {} /\ (\A n \in Names : slot[n] # Gone) /\ op' = [Idle EXCEPT !.pc = "prepare"]
  /\ UNCHANGED <<slot, bad, rec, intents, consumed, app, newest>>

supersede_changed_record ==
  /\ At("supersede") /\ Go("retire") /\ Smooth
  /\ rec' = [rec EXCEPT ![op.id].st = "superseded"]
  /\ UNCHANGED <<slot, bad, intents, consumed, app, newest>>

RetireChanged ==
  /\ At("retire") /\ Go("prepare") /\ Smooth
  /\ intents' = [k \in DOMAIN intents |->
       IF k \in ChangedKeys(op.id) THEN [intents[k] EXCEPT !.st = "SUPERSEDED"] ELSE intents[k]]
  /\ UNCHANGED <<slot, bad, rec, consumed, app, newest>>

prepare ==
  /\ At("prepare") /\ Smooth
  /\ IF pending = {} /\ (\A n \in Names : slot[n] # Gone) /\ rec[slot].st = "none"
       THEN rec' = [rec EXCEPT ![slot].st = "pending"]
            /\ op' = [op EXCEPT !.pc = "approve", !.id = slot]
       ELSE End /\ UNCHANGED rec
  /\ UNCHANGED <<slot, bad, intents, consumed, app, newest>>

(* ------------------------------------------- _admin_pin_approval_for ---- *)
SameLogin(k) == intents[k].epoch = app.epoch
Unverified(k) == intents[k].st \in {"PREPARED", "UNKNOWN"} /\ ~intents[k].vid
Retired(k) ==     \* a request that a new one may replace
  \/ intents[k].st = "TARGET_CHANGED"
  \/ Unverified(k) /\ ~SameLogin(k) /\ source(op.id) = intents[k].snap
  \/ intents[k].st \in {"VERIFIED", "UNKNOWN"} /\ intents[k].vid /\ k \notin consumed
NewIntent == [st |-> "PREPARED", id |-> op.id, snap |-> source(op.id), vid |-> FALSE,
              held |-> FALSE, epoch |-> app.epoch, moving |-> {}]

(* The dialog is answered: the old request is retired, the new one written. *)
NewRequest ==
  /\ At("approve") /\ (\A k \in OpenKeys(op.id) : Retired(k)) /\ Smooth
  /\ IF Readable(op.id)
       THEN /\ Len(intents) < MaxKeys
            /\ intents' = Append([k \in DOMAIN intents |->
                 IF k \in OpenKeys(op.id) THEN [intents[k] EXCEPT !.st = "SUPERSEDED"]
                                          ELSE intents[k]], NewIntent)
            /\ op' = [op EXCEPT !.pc = "verify", !.k = Len(intents) + 1]
       ELSE End /\ UNCHANGED intents
  /\ UNCHANGED <<slot, bad, rec, consumed, app, newest>>

CancelPrompt ==
  /\ At("approve") /\ (\A k \in OpenKeys(op.id) : Retired(k)) /\ Mishap("cancel") /\ End
  /\ UNCHANGED <<slot, bad, rec, intents, consumed, app, newest>>

(* A request without an answer, in the login that made it, is sent again.  *)
RetryRequest ==
  /\ At("approve") /\ Smooth
  /\ \E k \in OpenKeys(op.id) :
       /\ Unverified(k) /\ SameLogin(k) /\ Readable(op.id)
       /\ IF source(op.id) = intents[k].snap
            THEN op' = [op EXCEPT !.pc = "verify", !.k = k] /\ UNCHANGED intents
            ELSE Failed(k, op)
  /\ UNCHANGED <<slot, bad, rec, consumed, app, newest>>

(* Requests that are not asked of the server again.                        *)
CloseRequest ==
  /\ At("approve") /\ Smooth
  /\ \E k \in OpenKeys(op.id) :
       \/ intents[k].st = "HANDED_OFF_UNKNOWN" /\ End /\ UNCHANGED intents
       \/ /\ Unverified(k) /\ ~SameLogin(k) /\ source(op.id) # intents[k].snap
          /\ transition(k, "HANDED_OFF_UNKNOWN") /\ End
       \/ /\ Unverified(k) /\ SameLogin(k) /\ ~Readable(op.id) /\ End /\ UNCHANGED intents
       \/ /\ intents[k].st \in {"UNVERIFIED_DETACHING", "UNVERIFIED_OPERATOR_HOLD"}
          /\ op' = [op EXCEPT !.pc = "detach", !.k = k] /\ UNCHANGED intents
  /\ UNCHANGED <<slot, bad, rec, consumed, app, newest>>

(* The server says CONSUMED; only an intent that says so too is resumed.   *)
ResumeConsumed ==
  /\ At("approve") /\ Smooth
  /\ \E k \in OpenKeys(op.id) \cap consumed :
       /\ intents[k].st \in {"VERIFIED", "UNKNOWN", "CONSUMED"}
       /\ IF intents[k].st = "CONSUMED"
            THEN op' = [op EXCEPT !.k = k, !.via = IF op.via = "fresh" THEN "resume" ELSE op.via,
                          !.pc = IF rec[op.id].st = "released" /\ originals_match(op.id)
                                 THEN "complete" ELSE "hold"]
            ELSE End
  /\ UNCHANGED <<slot, bad, rec, intents, consumed, app, newest>>

AskStatusLost ==
  /\ At("approve") /\ Mishap("redeem")
  /\ \E k \in OpenKeys(op.id) : intents[k].st \in {"VERIFIED", "UNKNOWN", "CONSUMED"}
                                 /\ intents[k].vid /\ Failed(k, op)
  /\ UNCHANGED <<slot, bad, rec, consumed, app, newest>>

verify ==
  /\ At("verify")
  /\ \/ Smooth /\ Go("redeem") /\ intents' = [intents EXCEPT ![op.k].st = "VERIFIED", ![op.k].vid = TRUE]
     \/ Mishap("refused") /\ End /\ transition(op.k, "REJECTED")
     \/ Mishap("verify") /\ Failed(op.k, op)
  /\ UNCHANGED <<slot, bad, rec, consumed, app, newest>>

(* A lost answer is asked for by status; the loss here is of both.         *)
redeem ==
  /\ At("redeem")
  /\ \/ Smooth /\ Go("consume") /\ consumed' = consumed \cup {op.k} /\ UNCHANGED intents
     \/ Mishap("refused") /\ End /\ transition(op.k, "REJECTED") /\ UNCHANGED consumed
     \/ Mishap("redeem") /\ Failed(op.k, op) /\ consumed' \in {consumed, consumed \cup {op.k}}
  /\ UNCHANGED <<slot, bad, rec, app, newest>>

Consume ==
  /\ At("consume") /\ Smooth /\ Go("fingerprint") /\ transition(op.k, "CONSUMED")
  /\ UNCHANGED <<slot, bad, rec, consumed, app, newest>>

_admin_pin_target_changed ==
  /\ At("fingerprint") /\ Smooth
  /\ IF source(op.id) = Mine.snap
       THEN Go("event") /\ UNCHANGED intents
       ELSE End /\ IF Readable(op.id) THEN transition(op.k, "TARGET_CHANGED") ELSE UNCHANGED intents
  /\ UNCHANGED <<slot, bad, rec, consumed, app, newest>>

(* --------------------------------------- the audit event and the moves -- *)
LogDeferred ==
  /\ At("event")
  /\ \/ /\ Smooth /\ op' = [op EXCEPT !.pc = "hold", !.via = "fresh"]
        /\ rec' = [rec EXCEPT ![op.id].event = IF @ = 0 THEN op.k ELSE @]
     \/ Mishap("audit") /\ End /\ UNCHANGED rec
  /\ UNCHANGED <<slot, bad, intents, consumed, app, newest>>

(* The steps of moving one original.                                       *)
Rename(n) == IF n = "hold" THEN "rename_hold" ELSE "rename_current"
Readback(n) == IF n = "hold" THEN "readback_hold" ELSE "readback_current"
Next2(n) == IF n = "hold" THEN "current" ELSE "release"

(* Mutant: the archive is written from the record and the file removed.    *)
MutRename(n) ==
  /\ At(Rename(n)) /\ Smooth
  /\ IF slot[n] = Gone THEN End /\ UNCHANGED <<slot, rec>>
     ELSE /\ Go(Readback(n))
          /\ rec' = [rec EXCEPT ![op.id].arch[n] = op.id[n]]
          /\ slot' = [slot EXCEPT ![n] = Gone]
  /\ UNCHANGED <<bad, intents, consumed, app, newest>>

(* The journal comes first; a file that is already there is only verified. *)
_admin_pin_journal_move(n) ==
  /\ At(n) /\ Smooth
  /\ IF Mine.st \notin {"CONSUMED", "UNVERIFIED_DETACHING"} \/ op.id[n] # Mine.snap[n]
       THEN /\ IF op.via = "resume" THEN op' = [op EXCEPT !.pc = "fingerprint", !.via = "fresh"] ELSE End
            /\ UNCHANGED intents
       ELSE /\ intents' = [intents EXCEPT ![op.k].moving = @ \cup {n}]
            /\ IF Pair.arch[n] = Gone THEN Go(Rename(n))
               ELSE IF Pair.arch[n] # Mine.snap[n] THEN Go(Readback(n))
               ELSE IF slot[n] # Gone THEN End ELSE Go(Next2(n))
  /\ UNCHANGED <<slot, bad, rec, consumed, app, newest>>

RenameOriginal(n) ==
  /\ At(Rename(n)) /\ Smooth
  /\ IF slot[n] = Gone THEN End /\ UNCHANGED <<slot, rec>>
     ELSE /\ Go(Readback(n))
          /\ rec' = [rec EXCEPT ![op.id].arch[n] = slot[n]]
          /\ slot' = [slot EXCEPT ![n] = Gone]
  /\ UNCHANGED <<bad, intents, consumed, app, newest>>

(* Put back, the current file first, whatever the journal says was moved.  *)
Restorable == {n \in Mine.moving : Pair.arch[n] # Gone}
RestoreConflict == \E n \in Restorable : slot[n] # Gone
_admin_pin_restore_moves(ns) ==
  /\ slot' = [n \in Names |-> IF n \in ns THEN Pair.arch[n] ELSE slot[n]]
  /\ rec' = [rec EXCEPT ![op.id].arch = [n \in Names |-> IF n \in ns THEN Gone ELSE @[n]]]

recover_pinned_move(n) ==
  /\ At(Readback(n)) /\ Smooth
  /\ IF Pair.arch[n] = Mine.snap[n]
       THEN Go(Next2(n)) /\ UNCHANGED <<slot, rec, intents>>
       ELSE /\ End
            /\ IF slot[n] # Gone THEN UNCHANGED <<slot, rec, intents>>
               ELSE IF Mine.st = "CONSUMED" /\ ~RestoreConflict
               THEN _admin_pin_restore_moves(Restorable) /\ transition(op.k, "TARGET_CHANGED")
               ELSE _admin_pin_restore_moves({n}) /\ UNCHANGED intents
  /\ UNCHANGED <<bad, consumed, app, newest>>

AfterRelease ==
  IF Mine.st = "UNVERIFIED_DETACHING" THEN "held"
  ELSE IF op.via \in {"resume", "recheck"} /\ Pair.event # op.k
       THEN IF op.via = "resume" THEN "fingerprint" ELSE "idle"
       ELSE "complete"
release ==
  /\ At("release") /\ Smooth
  /\ IF (\A n \in Names : slot[n] = Gone) /\ originals_match(op.id)
       THEN /\ rec' = [rec EXCEPT ![op.id].st = "released"]
            /\ IF AfterRelease = "idle" THEN op' = Idle ELSE Go(AfterRelease)
       ELSE End /\ UNCHANGED rec
  /\ UNCHANGED <<slot, bad, intents, consumed, app, newest>>

_admin_pin_complete ==
  /\ At("complete")
  /\ \/ /\ Smooth
        /\ IF Mine.st = "CONSUMED" /\ Pair.st = "released" /\ originals_match(op.id)
                /\ (\A n \in Mine.moving : slot[n] = Gone)
             THEN transition(op.k, "APPLIED") /\ Go("finish")
             ELSE End /\ UNCHANGED intents
     \/ Mishap("audit") /\ End /\ UNCHANGED intents
  /\ UNCHANGED <<slot, bad, rec, consumed, app, newest>>

_finish_preflight_handoff ==
  /\ At("finish") /\ Smooth /\ End
  /\ app' = [app EXCEPT !.snap = FALSE, !.tray = "none"]
  /\ UNCHANGED <<slot, bad, rec, intents, consumed, newest>>

(* ----------------------------------- the unverified operator hold ------- *)
_admin_pin_detach_unverified ==
  /\ At("detach") /\ Smooth
  /\ IF Mine.st = "UNVERIFIED_DETACHING" /\ op.id = Mine.snap THEN Go("hold") ELSE End
  /\ UNCHANGED <<slot, bad, rec, intents, consumed, app, newest>>

FinishDetachment ==
  /\ At("held") /\ Smooth /\ End
  /\ app' = [app EXCEPT !.snap = FALSE, !.tray = "none"]
  /\ transition(op.k, "UNVERIFIED_OPERATOR_HOLD")
  /\ UNCHANGED <<slot, bad, rec, consumed, newest>>

(* ------------------------------------------- _recheck_admin_pin_intents -- *)
(* A request without an answer is verified again in the login that made    *)
(* it, held or not; the status of a verified one is asked for afterwards,  *)
(* and a question that fails leaves the request as it is.                  *)
Recheck ==
  /\ app.up /\ At("idle") /\ Smooth
  /\ \E k \in DOMAIN intents :
       LET resumed == [Idle EXCEPT !.id = intents[k].id, !.k = k, !.via = "recheck"] IN
       \/ /\ intents[k].st = "UNVERIFIED_DETACHING"
          /\ op' = [resumed EXCEPT !.pc = "detach"] /\ UNCHANGED <<intents, app>>
       \/ /\ intents[k].st \in {"PREPARED", "UNKNOWN", "UNVERIFIED_OPERATOR_HOLD"} /\ ~intents[k].vid
          /\ IF SameLogin(k)
               THEN intents' = [intents EXCEPT ![k].st = "VERIFIED", ![k].vid = TRUE]
               ELSE transition(k, "SUPERSEDED")
          /\ UNCHANGED <<op, app>>
       \/ /\ intents[k].st \in {"UNKNOWN", "UNVERIFIED_OPERATOR_HOLD", "VERIFIED"} /\ intents[k].vid
          /\ k \notin consumed
          /\ transition(k, "SUPERSEDED") /\ UNCHANGED <<op, app>>
       \/ /\ intents[k].st = "CONSUMED" /\ k \in consumed
          /\ op' = [resumed EXCEPT !.pc = IF rec[intents[k].id].st = "released" /\ rec[intents[k].id].event = k
                                          THEN "complete" ELSE "hold"]
          /\ UNCHANGED <<intents, app>>
       \/ /\ intents[k].st = "APPLIED" /\ (\A n \in Names : slot[n] = Gone) /\ app.tray # "other"
          /\ app' = [app EXCEPT !.snap = FALSE, !.tray = "none"] /\ UNCHANGED <<intents, op>>
  /\ UNCHANGED <<slot, bad, rec, consumed, newest>>

(* ------------------------------------------------- stopping, login ------ *)
Crash ==
  /\ app.up /\ Mishap("crash") /\ op' = Idle
  /\ app' = [app EXCEPT !.up = FALSE, !.tray = "none", !.snap = FALSE]
  /\ UNCHANGED <<slot, bad, rec, intents, consumed, newest>>

(* The login first finishes the holds that were not verified.              *)
start_work ==
  /\ ~app.up /\ Smooth
  /\ app' = [app EXCEPT !.up = TRUE, !.epoch = @ + 1]
  /\ \/ \E k \in DOMAIN intents : intents[k].st = "UNVERIFIED_DETACHING"
          /\ op' = [pc |-> "detach", via |-> "startup", id |-> intents[k].id, k |-> k]
     \/ (\A k \in DOMAIN intents : intents[k].st # "UNVERIFIED_DETACHING")
          /\ op' = [Idle EXCEPT !.pc = "load"]
  /\ UNCHANGED <<slot, bad, rec, intents, consumed, newest>>

(* A current tray whose label is barred is put away before it can be       *)
(* worked on; a pair that is not recorded yet is left where it is.         *)
_load_current_tray_state ==
  /\ At("load") /\ Smooth /\ op' = Idle
  /\ LET c == slot["current"]
         barred == c # Gone /\ _paired_preflight_blocks_label("current", c)
         holdBarred == _paired_preflight_blocks_label("hold", slot["hold"]) IN
     /\ IF barred THEN bad' = bad \cup {c} /\ slot' = [slot EXCEPT !["current"] = Gone]
                  ELSE UNCHANGED <<bad, slot>>
     /\ app' = [app EXCEPT !.snap = slot["hold"] # Gone /\ ~holdBarred,
                           !.tray = IF c = Gone \/ barred THEN "none"
                                    ELSE IF c = Other THEN "other" ELSE "pair"]
  /\ UNCHANGED <<rec, intents, consumed, newest>>

(* --------------------------------------------------- other work --------- *)
StartOther ==
  /\ app.up /\ At("idle") /\ app.tray = "none" /\ Smooth
  /\ ~_preflight_context_blocks_mutation /\ slot["current"] = Gone
  /\ ~_paired_preflight_blocks_label("current", Other)
  /\ slot' = [slot EXCEPT !["current"] = Other] /\ app' = [app EXCEPT !.tray = "other"]
  /\ UNCHANGED <<bad, rec, intents, consumed, op, newest>>

FinishOther ==
  /\ app.up /\ At("idle") /\ app.tray = "other" /\ Smooth
  /\ ~_preflight_context_blocks_mutation
  /\ slot' = [slot EXCEPT !["current"] = Gone] /\ app' = [app EXCEPT !.tray = "none"]
  /\ UNCHANGED <<bad, rec, intents, consumed, op, newest>>

(* Another writer changes an original that is still in its slot.           *)
Touch(n) ==
  /\ slot[n] \in 1..(MaxVersions - 1) /\ Mishap("touch")
  /\ slot' = [slot EXCEPT ![n] = @ + 1] /\ newest' = [newest EXCEPT ![n] = slot[n] + 1]
  /\ UNCHANGED <<bad, rec, intents, consumed, app, op>>

----------------------------------------------------------------------------
Steps ==
  \/ supersede_changed_record \/ RetireChanged \/ prepare
  \/ NewRequest \/ RetryRequest \/ CloseRequest \/ ResumeConsumed
  \/ verify \/ redeem \/ Consume \/ _admin_pin_target_changed \/ LogDeferred
  \/ (\E n \in Names : _admin_pin_journal_move(n) \/ RenameOriginal(n) \/ recover_pinned_move(n))
  \/ release \/ _admin_pin_complete \/ _finish_preflight_handoff
  \/ _admin_pin_detach_unverified \/ FinishDetachment
  \/ start_work \/ _load_current_tray_state
Next ==
  \/ Steps \/ DeferStart \/ Recheck \/ StartOther \/ FinishOther
  \/ CancelPrompt \/ AskStatusLost \/ Crash \/ (\E n \in Names : Touch(n))

Spec == Init /\ [][Next]_vars

(* The handler runs; the supervisor asks for the handoff again while the   *)
(* pair is in the way; other work is finished.                             *)
Fairness == WF_vars(Steps) /\ SF_vars(DeferStart) /\ SF_vars(FinishOther)

----------------------------------------------------------------------------
PairTypeOK ==
  /\ slot \in [Names -> 0..Other] /\ bad \subseteq Contents /\ newest \in [Names -> 1..MaxVersions]
  /\ rec \in [Ids -> [st : {"none", "pending", "superseded", "released"},
                      arch : [Names -> 0..Other], event : 0..MaxKeys]]
  /\ \A k \in DOMAIN intents :
       intents[k] \in [st : IntentStates, id : Ids, snap : [Names -> 0..Other], vid : BOOLEAN,
                       held : BOOLEAN, epoch : Nat, moving : SUBSET Names]
  /\ consumed \subseteq DOMAIN intents

(* The bytes of both originals, as they were last written, are somewhere:  *)
(* in the active slot, in a record's archive or beside the slot; the tray  *)
(* of another label too while it is worked on.                             *)
OriginalsKept ==
  /\ \A n \in Names :
       \/ slot[n] = newest[n]
       \/ \E id \in Ids : rec[id].arch[n] = newest[n]
       \/ n = "current" /\ newest[n] \in bad
  /\ app.tray = "other" =>
       slot["current"] = Other \/ \E id \in Ids : rec[id].arch["current"] = Other

(* The pair is released only with both originals archived as recorded,     *)
(* under a key for these bytes that was consumed or that the operator held *)
(* without an answer.                                                      *)
ReleasedUnderKey ==
  \A id \in Ids : rec[id].st = "released" =>
    /\ rec[id].arch = id
    /\ \E k \in DOMAIN intents :
         /\ intents[k].id = id /\ intents[k].snap = id
         /\ k \in consumed \/ intents[k].held

(* One key is applied for a record, only after it was consumed for the     *)
(* bytes the record holds, and one request is open at a time.              *)
AppliedOnce ==
  /\ \A k \in DOMAIN intents : intents[k].st = "APPLIED" =>
       k \in consumed /\ rec[intents[k].id].st = "released" /\ intents[k].snap = intents[k].id
  /\ \A id \in Ids :
       /\ Cardinality(OpenKeys(id)) <= 1
       /\ Cardinality({k \in DOMAIN intents : intents[k].id = id /\ intents[k].st = "APPLIED"}) <= 1
  /\ Cardinality(pending) <= 1

(* A handed-over tray is not worked on: once the pair is released its tray *)
(* is gone from memory, or the input is still locked.                      *)
ReleasedNotWorked ==
  (app.tray = "pair" /\ \E id \in Ids : rec[id].st = "released" /\ id["current"] # Other) => app.snap

(* A recorded pair is handed over, or its record replaced.                 *)
HandoffEnds == (pending # {}) ~> (pending = {})
=============================================================================
