------------------------------ MODULE PhsLabel ------------------------------
(***************************************************************************)
(* The exchange of one tray's label for the label of another work          *)
(* instruction (phs_label_workflow.py, kind SINGLE, and its callers in     *)
(* Container_Audit.py).  One journal file holds one exchange; each step    *)
(* saves it before or after the central call, so that a run that failed    *)
(* anywhere is taken up where its journal stands.  A label is named by its *)
(* instruction.                                                            *)
(***************************************************************************)
EXTENDS PhsCentral, FiniteSets

CONSTANTS
  Trays, Instructions,
  MaxAttempts,        \* print attempts of one exchange (bound)
  FaultKinds, MaxFaults

PhsAssumption ==
  /\ IsFiniteSet(Trays) /\ IsFiniteSet(Instructions)
  /\ MaxAttempts \in Nat \ {0} /\ MaxFaults \in Nat

VARIABLES
  cur,      \* current_tray, or none
  local,    \* each tray's active_label_id, as displayed and saved
  journal,  \* phs_label_exchange_recovery.json
  run,      \* the lane task of an exchange
  tick,     \* phs_label_reprint_confirm_var
  active,   \* central: each tray's ACTIVE label
  central,  \* central: the exchanges, by the content of their prepare key
  paper,    \* printed copies: of each exchange, those that need an excuse and those excused
  faults

vars == <<cur, local, journal, run, tick, active, central, paper, faults>>

None == "none"
Orig == "original"                       \* the label of the input tag itself
Labels == {Orig} \cup Instructions
Keys == [t : Trays, src : Labels, ins : Instructions]
NoKey == [t |-> None, src |-> Orig, ins |-> None]

TerminalStates == {"COMMITTED", "CANCELLED"}
Statuses == TerminalStates \cup
  {"PREPARE_PENDING", "PREPARED", "PRINT_REQUEST_PENDING", "PRINT_REQUESTED",
   "LOCAL_PRINT_STARTING", "LOCAL_PRINT_SUCCEEDED", "PRINT_COMPLETE_PENDING",
   "PRINT_FAILURE_ACK_PENDING", "PRINT_FAILED", "PRINT_COMPLETED",
   "ACTIVATE_PENDING", "COMMITTED_LOCAL_REFRESH_PENDING"}
EmptyJournal == [st |-> "CANCELLED", key |-> NoKey, ex |-> FALSE, no |-> 0, att |-> FALSE]
IdleRun == [pc |-> "idle", t |-> None, ins |-> None, confirm |-> FALSE, seen |-> "none",
            snap |-> Orig, ok |-> FALSE]

Init ==
  /\ cur = None
  /\ local = [t \in Trays |-> None]
  /\ journal = EmptyJournal
  /\ run = IdleRun
  /\ tick = FALSE
  /\ active = [t \in Trays |-> Orig]
  /\ central = [k \in Keys |-> NoExchange({k.ins})]
  /\ paper = [k \in Keys |-> [copies |-> 0, jams |-> 0, asked |-> 0]]
  /\ faults = 0

Mishap(kind) == kind \in FaultKinds /\ faults < MaxFaults /\ faults' = faults + 1
Smooth == faults' = faults

Open == journal.st \notin TerminalStates
OfTray(t) == Open /\ journal.key.t = t
(* An instruction that no exchange has used or is about to use.            *)
Planned(i) == \A k \in Keys : k.ins = i => central[k].st = "none"

_phs_label_exchange_transition_pending == run.pc # "idle" \/ (cur # None /\ OfTray(cur))

-----------------------------------------------------------------------------
(* The tray and the operator.                                              *)

(* A tray begins with the label the preflight found, or comes back from    *)
(* where it was parked.                                                    *)
OpenTray(t) ==
  /\ cur = None
  /\ cur' = t
  /\ local' = [local EXCEPT ![t] = IF @ = None THEN active[t] ELSE @]
  /\ UNCHANGED <<journal, run, tick, active, central, paper, faults>>

(* Completion, reset, parking and a change of the worker.                  *)
LeaveTray ==
  /\ cur # None /\ ~_phs_label_exchange_transition_pending
  /\ cur' = None
  /\ UNCHANGED <<local, journal, run, tick, active, central, paper, faults>>

(* The operator approves a reprint when the screen asks for it.            *)
TickReprint ==
  /\ ~tick /\ run.pc = "idle" /\ journal.st = "LOCAL_PRINT_STARTING"
  /\ tick' = TRUE
  /\ paper' = [paper EXCEPT ![journal.key].asked = IF @ < MaxAttempts THEN @ + 1 ELSE @]
  /\ UNCHANGED <<cur, local, journal, run, active, central, faults>>

Submit(i, confirm) ==
  run' = [IdleRun EXCEPT !.pc = "load", !.t = cur, !.ins = i, !.confirm = confirm,
                         !.snap = local[cur]]

(* F8 with a selected candidate, or without one on an open journal.        *)
_execute_selected_phs_label_exchange(i) ==
  /\ cur # None /\ run.pc = "idle"
  /\ (Planned(i) /\ i # local[cur]) \/ (OfTray(cur) /\ i = journal.key.ins)
  /\ Submit(i, tick)
  /\ UNCHANGED <<cur, local, journal, tick, active, central, paper, faults>>
(* Opening the work screen builds the panel anew, with the box unticked,   *)
(* and schedules the recovery.                                             *)
_schedule_phs_label_exchange_recovery ==
  /\ cur # None /\ run.pc = "idle" /\ OfTray(cur)
  /\ tick' = FALSE /\ Submit(journal.key.ins, FALSE)
  /\ UNCHANGED <<cur, local, journal, active, central, paper, faults>>

(* Another terminal exchanges the label of a tray with nothing open.       *)
ExchangedElsewhere(t, i) ==
  /\ Mishap("elsewhere") /\ Planned(i) /\ t # cur
  /\ \A k \in Keys : k.t = t => central[k].st # "open"
  /\ active' = [active EXCEPT ![t] = i]
  /\ LET k == [t |-> t, src |-> active[t], ins |-> i]
     IN  /\ central' = [central EXCEPT ![k].st = "committed"]
         /\ paper' = [paper EXCEPT ![k] = [copies |-> 1, jams |-> 0, asked |-> 0]]
  /\ UNCHANGED <<cur, local, journal, run, tick>>

-----------------------------------------------------------------------------
(* execute_single, on the lane.                                            *)

Raise == run' = [run EXCEPT !.pc = "end"]
Goto(pc) == run' = [run EXCEPT !.pc = pc]
_save(s) == journal' = [journal EXCEPT !.st = s]
AtStep(pc) == run.pc = pc /\ UNCHANGED <<cur, local, tick>>

(* A central call: its effect and what the run does with the answer; or it *)
(* fails before the effect, or after it when the answer or the next save   *)
(* of the journal is lost.                                                 *)
Call(effect, answer) ==
  \/ effect /\ answer /\ Smooth
  \/ Mishap("net") /\ Raise /\ UNCHANGED <<journal, central, active>>
  \/ Mishap("lost") /\ effect /\ Raise /\ UNCHANGED journal

(* The label the centre has in use for the tray of the snapshot.           *)
_resolve_tray_source(t) == active[t]

RecoveryConflict == Open /\ (journal.key.t # run.t \/ journal.key.ins # run.ins)

(* The journal is taken up; or the candidate and the tray's label are read *)
(* again and a new journal is begun.                                       *)
StartSingle ==
  /\ AtStep("load")
  /\ \/ RecoveryConflict /\ Raise /\ UNCHANGED journal
     \/ Open /\ ~RecoveryConflict /\ Goto("central") /\ UNCHANGED journal
     \/ ~Open /\ ~Planned(run.ins) /\ Raise /\ UNCHANGED journal
     \/ /\ ~Open /\ Planned(run.ins)
        /\ run' = [run EXCEPT !.pc = "central", !.snap = _resolve_tray_source(run.t)]
        /\ journal' = [EmptyJournal EXCEPT !.st = "PREPARE_PENDING",
                         !.key = [t |-> run.t, src |-> _resolve_tray_source(run.t), ins |-> run.ins]]
  /\ UNCHANGED <<active, central, paper, faults>>

Key == journal.key
Ex == central[Key]
Refused == Ex.st = "none" /\ ~(Planned(Key.ins) /\ active[Key.t] = Key.src)
PrepareExchange ==
  /\ AtStep("central") /\ ~journal.ex
  /\ \/ Refused /\ _save("CANCELLED") /\ Raise /\ Smooth /\ UNCHANGED <<active, central>>
     \/ ~Refused /\ Call(/\ central' = [central EXCEPT ![Key] = prepare_phs_label_exchange(@)]
                         /\ UNCHANGED active,
                         /\ journal' = [journal EXCEPT !.st = "PREPARED", !.ex = TRUE]
                         /\ run' = [run EXCEPT !.pc = "observed",
                                       !.seen = IF Ready(Ex) THEN "READY" ELSE central'[Key].st])
  /\ UNCHANGED paper

GetExchange ==
  /\ AtStep("central") /\ journal.ex
  /\ Call(UNCHANGED <<central, active>>,
          /\ run' = [run EXCEPT !.pc = "observed", !.seen = IF Ready(Ex) THEN "READY" ELSE Ex.st]
          /\ UNCHANGED journal)
  /\ UNCHANGED paper

_apply_target_to_tray == [run EXCEPT !.snap = Key.ins]
Succeed(s) == _save(s) /\ run' = [_apply_target_to_tray EXCEPT !.pc = "end", !.ok = TRUE]

(* The attempt to print with; a failed one is not used again.              *)
HasAttempt == journal.att /\ journal.st # "PRINT_FAILED"
(* A request that was not answered is repeated under its key.              *)
NextRequest ==
  IF journal.st = "PRINT_REQUEST_PENDING" THEN journal
  ELSE [journal EXCEPT !.st = "PRINT_REQUEST_PENDING", !.no = @ + 1, !.att = FALSE]

(* What the answer and the journal say is to be done next.                 *)
Dispatch ==
  /\ AtStep("observed")
  /\ \/ run.seen = "committed" /\ Succeed("COMMITTED_LOCAL_REFRESH_PENDING")
     \/ /\ run.seen # "committed" /\ journal.st = "PRINT_FAILURE_ACK_PENDING"
        /\ Goto("failure_ack") /\ UNCHANGED journal
     \/ /\ run.seen = "READY" /\ journal.st # "PRINT_FAILURE_ACK_PENDING"
        /\ Goto("activate") /\ _save("ACTIVATE_PENDING")
     \/ /\ run.seen = "open" /\ journal.st # "PRINT_FAILURE_ACK_PENDING"
        /\ IF HasAttempt THEN Goto("print") /\ UNCHANGED journal
           ELSE Goto("request") /\ journal' = NextRequest
  /\ UNCHANGED <<active, central, paper, faults>>

RequestPrint ==
  /\ AtStep("request")
  /\ Call(/\ central' = [central EXCEPT ![Key] = request_phs_label_print(@, Key.ins, journal.no)]
          /\ UNCHANGED active,
          IF central'[Key].att[Key.ins] = [no |-> journal.no, st |-> "REQUESTED"]
          THEN journal' = [journal EXCEPT !.st = "PRINT_REQUESTED", !.att = TRUE] /\ Goto("print")
          ELSE Raise /\ UNCHANGED journal)
  /\ UNCHANGED paper

PrintDone == journal.st \in {"LOCAL_PRINT_SUCCEEDED", "PRINT_COMPLETE_PENDING"}
ConfirmationRequired == journal.st = "LOCAL_PRINT_STARTING" /\ ~run.confirm

(* Mutant: the success is saved with the start.                            *)
BeginPrint_Eager ==
  /\ AtStep("print") /\ Smooth
  /\ \/ ConfirmationRequired /\ Raise /\ UNCHANGED journal
     \/ PrintDone /\ _save("PRINT_COMPLETE_PENDING") /\ Goto("complete")
     \/ ~ConfirmationRequired /\ ~PrintDone /\ _save("LOCAL_PRINT_SUCCEEDED") /\ Goto("paper")
  /\ UNCHANGED <<active, central, paper>>

(* The picture is rendered and the start of the print is saved.            *)
BeginPrint ==
  /\ AtStep("print")
  /\ \/ ConfirmationRequired /\ Raise /\ UNCHANGED journal /\ Smooth
     \/ PrintDone /\ _save("PRINT_COMPLETE_PENDING") /\ Goto("complete") /\ Smooth
     \/ /\ ~ConfirmationRequired /\ ~PrintDone
        /\ \/ _save("LOCAL_PRINT_STARTING") /\ Goto("paper") /\ Smooth
           \/ Mishap("printer") /\ _save("PRINT_FAILURE_ACK_PENDING") /\ Goto("failure_ack")
  /\ UNCHANGED <<active, central, paper>>

print_png == [paper EXCEPT ![Key].copies = @ + 1]
(* The printer, and the save of its proof.  A print that raises may have   *)
(* produced paper.                                                         *)
PrintPng ==
  /\ AtStep("paper")
  /\ \/ /\ paper' = print_png
        /\ \/ _save("LOCAL_PRINT_SUCCEEDED") /\ Goto("print") /\ Smooth
           \/ Mishap("disk") /\ Raise /\ UNCHANGED journal
     \/ /\ Mishap("printer")
        /\ \E n \in {0, 1} : paper' = [paper EXCEPT ![Key].copies = @ + n, ![Key].jams = @ + n]
        /\ _save("PRINT_FAILURE_ACK_PENDING") /\ Goto("failure_ack")
  /\ UNCHANGED <<active, central>>

AcknowledgeFailure ==
  /\ AtStep("failure_ack")
  /\ Call(/\ central' = [central EXCEPT ![Key] = complete_phs_label_print(@, Key.ins, journal.no, FALSE)]
          /\ UNCHANGED active,
          _save("PRINT_FAILED") /\ Raise)
  /\ UNCHANGED paper

CompletePrint ==
  /\ AtStep("complete")
  /\ Call(/\ central' = [central EXCEPT ![Key] = complete_phs_label_print(@, Key.ins, journal.no, TRUE)]
          /\ UNCHANGED active,
          IF Ready(central'[Key])
          THEN _save("ACTIVATE_PENDING") /\ Goto("activate") ELSE Raise /\ UNCHANGED journal)
  /\ UNCHANGED paper

(* After an error the exchange is read again; both may fail.               *)
Activate ==
  /\ AtStep("activate")
  /\ \/ /\ central' = [central EXCEPT ![Key] = activate_phs_label_exchange(@)]
        /\ active' = [active EXCEPT ![Key.t] = Key.ins]
        /\ \/ Smooth /\ Succeed("COMMITTED_LOCAL_REFRESH_PENDING")
           \/ Mishap("lost") /\ Raise /\ UNCHANGED journal
     \/ Mishap("net") /\ Raise /\ UNCHANGED <<journal, central, active>>
  /\ UNCHANGED paper

-----------------------------------------------------------------------------
(* finish, on the main thread.                                             *)

(* The snapshot's label goes to the tray, unless a hold or a changed tray  *)
(* makes the result stale or the tray cannot be saved; then the success is *)
(* confirmed in the journal.                                               *)
Finish ==
  /\ run.pc = "end"
  /\ run' = IdleRun
  /\ \/ /\ Smooth /\ local' = [local EXCEPT ![run.t] = run.snap]
        /\ IF run.ok THEN _save("COMMITTED") /\ tick' = FALSE
           ELSE UNCHANGED <<journal, tick>>
     \/ /\ Mishap("disk") /\ run.ok
        /\ local' \in {local, [local EXCEPT ![run.t] = run.snap]}
        /\ UNCHANGED <<journal, tick>>
     \/ Mishap("hold") /\ UNCHANGED <<local, journal, tick>>
  /\ UNCHANGED <<cur, active, central, paper>>

(* A rescan of the label shows which label is in use.                      *)
_begin_active_phs_label_refresh ==
  /\ cur # None /\ ~_phs_label_exchange_transition_pending
  /\ local[cur] # active[cur]
  /\ local' = [local EXCEPT ![cur] = active[cur]]
  /\ UNCHANGED <<cur, journal, run, tick, active, central, paper, faults>>

(* The program ends and starts again, perhaps for another worker.          *)
Restart ==
  /\ Mishap("crash")
  /\ run' = IdleRun /\ tick' = FALSE /\ cur' \in {cur, None}
  /\ UNCHANGED <<local, journal, active, central, paper>>

ExchangeStep ==
  \/ StartSingle \/ PrepareExchange \/ GetExchange \/ Dispatch \/ RequestPrint \/ BeginPrint
  \/ PrintPng \/ AcknowledgeFailure \/ CompletePrint \/ Activate \/ Finish

Next ==
  \/ \E t \in Trays : OpenTray(t) \/ \E i \in Instructions : ExchangedElsewhere(t, i)
  \/ LeaveTray \/ TickReprint \/ _begin_active_phs_label_refresh
  \/ \E i \in Instructions : _execute_selected_phs_label_exchange(i)
  \/ _schedule_phs_label_exchange_recovery
  \/ ExchangeStep \/ Restart

Spec == Init /\ [][Next]_vars

(* The lane works off its task; the operator comes back to an open         *)
(* exchange: reopens its tray, ticks the approval and presses F8.          *)
Resume == /\ OfTray(cur) /\ (journal.st = "LOCAL_PRINT_STARTING" => tick)
          /\ _execute_selected_phs_label_exchange(journal.key.ins)
Fairness ==
  /\ WF_vars(ExchangeStep) /\ SF_vars(TickReprint)
  /\ SF_vars(Resume)
  /\ SF_vars(Open /\ OpenTray(journal.key.t))
  /\ SF_vars(Open /\ cur # journal.key.t /\ LeaveTray)

-----------------------------------------------------------------------------
(* Properties.                                                             *)

PhsTypeOK ==
  /\ cur \in Trays \cup {None}
  /\ local \in [Trays -> Labels \cup {None}]
  /\ journal \in [st : Statuses, key : Keys \cup {NoKey}, ex : BOOLEAN,
                  no : 0..MaxAttempts, att : BOOLEAN]
  /\ run.t \in Trays \cup {None} /\ run.snap \in Labels
  /\ active \in [Trays -> Labels]
  /\ \A k \in Keys : central[k] \in Exchanges({k.ins}, MaxAttempts)

(* No exchange is left behind in the centre: one that is open there is the *)
(* journal's, whatever answer was lost and wherever the program ended.     *)
NoOrphan == \A k \in Keys : central[k].st = "open" => Open /\ journal.key = k

(* A label is in use only once it exists on paper.                         *)
PaperBeforeActive == \A k \in Keys : central[k].st = "committed" => paper[k].copies > 0

(* A label is printed again only after the printer reported an error or    *)
(* the operator approved it.                                               *)
OneCopy ==
  \A k \in Keys : paper[k].copies > 1 + paper[k].jams => paper[k].asked > 0

(* With no exchange open, a tray shows the label that its last exchange    *)
(* here made active.                                                       *)
TrayFollows ==
  \A k \in Keys : (journal.st = "COMMITTED" /\ journal.key = k /\ active[k.t] = k.ins /\ run.pc = "idle")
                    => local[k.t] = k.ins

(* A tray with an open exchange is not left, except by a restart.          *)
TrayStays ==
  [][cur # None /\ OfTray(cur) /\ cur' = None => run' = IdleRun /\ faults' = faults + 1]_vars

(* Every exchange that was begun is settled.                               *)
ExchangeSettles == Open ~> ~Open
=============================================================================
