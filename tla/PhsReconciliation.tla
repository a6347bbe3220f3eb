-------------------------- MODULE PhsReconciliation --------------------------
(***************************************************************************)
(* The exchange of labels that a central reconciliation orders             *)
(* (phs_reconciliation_workflow.py and its callers in Container_Audit.py): *)
(* all target labels are printed, one after the other, and activated at    *)
(* once.  It shares its journal file with the SINGLE exchange of PhsLabel. *)
(* A context is what a scan resolved: the reconciliation, and whether the  *)
(* centre had already linked an exchange to it.                            *)
(***************************************************************************)
EXTENDS PhsCentral, FiniteSets

CONSTANTS
  Contexts,            \* reconciliations
  N,                   \* target labels of each
  MaxAttempts,         \* print attempts of one label (bound)
  FaultKinds, MaxFaults

ReconAssumption ==
  IsFiniteSet(Contexts) /\ N \in Nat \ {0} /\ MaxAttempts \in Nat \ {0} /\ MaxFaults \in Nat

VARIABLES
  ctx,      \* _phs_reconciliation_context, or none
  tick,     \* phs_label_reprint_confirm_var
  journal,  \* phs_label_exchange_recovery.json
  run,      \* the lane task
  central,  \* central: the exchange of each reconciliation
  foreign,  \* exchanges that another terminal began
  damaged,  \* labels whose rendered file was changed
  paper,    \* copies of each label, those after a printer error, approvals
  faults

vars == <<ctx, tick, journal, run, central, foreign, damaged, paper, faults>>

Targets == 1..N
Ctx == [c : Contexts, linked : BOOLEAN]
NoCtx == [c |-> "none", linked |-> FALSE]
TerminalStates == {"COMMITTED", "CANCELLED"}
TargetStates ==
  {"PREPARED", "PRINT_REQUEST_PENDING", "PRINT_REQUESTED", "LOCAL_PRINT_STARTING",
   "LOCAL_PRINT_SUCCEEDED", "PRINT_COMPLETE_PENDING", "PRINT_COMPLETED",
   "PRINT_FAILURE_ACK_PENDING", "PRINT_FAILED"}
Statuses == TerminalStates \cup TargetStates \cup {"PREPARE_PENDING", "ACTIVATE_PENDING"}
NewTarget == [st |-> "PREPARED", no |-> 0, att |-> FALSE]
NewTargets == [k \in Targets |-> NewTarget]
EmptyJournal == [kind |-> "RECONCILIATION", st |-> "CANCELLED", ctx |-> NoCtx, ex |-> FALSE,
                 filled |-> FALSE, tg |-> NewTargets]
IdleRun == [pc |-> "idle", ctx |-> NoCtx, confirm |-> FALSE, ready |-> {}, seen |-> "none",
            k |-> 1, ok |-> FALSE]

Init ==
  /\ ctx = NoCtx /\ tick = FALSE
  /\ journal \in {EmptyJournal, [EmptyJournal EXCEPT !.kind = "SINGLE", !.st = "PREPARED"]}
  /\ run = IdleRun
  /\ central = [c \in Contexts |-> NoExchange(Targets)]
  /\ foreign = {} /\ damaged = {}
  /\ paper = [c \in Contexts |-> [k \in Targets |-> [copies |-> 0, jams |-> 0, asked |-> 0]]]
  /\ faults = 0

Mishap(kind) == kind \in FaultKinds /\ faults < MaxFaults /\ faults' = faults + 1
Smooth == faults' = faults
Open == journal.st \notin TerminalStates
Ours == Open /\ journal.kind = "RECONCILIATION"
(* A target whose print may or may not have happened.                      *)
Ambiguous(k) == journal.tg[k].st = "LOCAL_PRINT_STARTING"

-----------------------------------------------------------------------------
(* The operator and the centre.                                            *)

(* The centre's answer to a scan: the reconciliation of the label and the  *)
(* exchange its actions are linked to.                                     *)
Linked(c) == central[c].st # "none"
resolve(c) == [c |-> c, linked |-> Linked(c)]

(* A scan while F8 is armed.                                               *)
_intercept_phs_reconciliation_scan(c) ==
  /\ run.pc = "idle" /\ central[c].st # "committed"
  /\ ctx' = resolve(c)
  /\ ctx # ctx'
  /\ UNCHANGED <<tick, journal, run, central, foreign, damaged, paper, faults>>

(* The dialog, or the box beside it.                                       *)
_confirm_phs_reconciliation_ambiguous_reprint ==
  /\ run.pc = "idle" /\ Ours /\ ~tick /\ \E k \in Targets : Ambiguous(k)
  /\ tick' = TRUE
  /\ LET sheet == paper[journal.ctx.c] IN
       paper' = [paper EXCEPT ![journal.ctx.c] = [k \in Targets |->
         IF Ambiguous(k) /\ sheet[k].asked < MaxAttempts THEN [sheet[k] EXCEPT !.asked = @ + 1]
         ELSE sheet[k]]]
  /\ UNCHANGED <<ctx, journal, run, central, foreign, damaged, faults>>

(* F8: the resolved context, or the open journal without one.              *)
_execute_phs_reconciliation_exchange ==
  /\ run.pc = "idle" /\ (ctx # NoCtx \/ Ours)
  /\ run' = [IdleRun EXCEPT !.pc = "load", !.ctx = ctx, !.confirm = tick]
  /\ UNCHANGED <<ctx, tick, journal, central, foreign, damaged, paper, faults>>

(* The SINGLE exchange in the journal is settled by its own coordinator.   *)
SettleSingle ==
  /\ Open /\ journal.kind = "SINGLE" /\ run.pc = "idle"
  /\ journal' = [journal EXCEPT !.st = "COMMITTED"]
  /\ UNCHANGED <<ctx, tick, run, central, foreign, damaged, paper, faults>>

(* Another terminal prepares the exchange and prints its first label, or   *)
(* fails to.                                                               *)
OtherTerminal(c) ==
  /\ Mishap("elsewhere") /\ central[c].st = "none"
  /\ foreign' = foreign \cup {c}
  /\ \E s \in {"NONE", "FAILED", "SUCCEEDED"} :
       /\ central' = [central EXCEPT ![c].st = "open",
                        ![c].att[1] = IF s = "NONE" THEN @ ELSE [no |-> 1, st |-> s]]
       /\ paper' = [paper EXCEPT ![c][1].copies = IF s = "SUCCEEDED" THEN 1 ELSE 0]
  /\ UNCHANGED <<ctx, tick, journal, run, damaged>>

DamageArtifact(k) ==
  /\ Mishap("artifact") /\ Ours
  /\ damaged' = damaged \cup {k}
  /\ UNCHANGED <<ctx, tick, journal, run, central, foreign, paper>>

-----------------------------------------------------------------------------
(* execute, on the lane.                                                   *)

AtStep(pc) == run.pc = pc /\ UNCHANGED <<ctx, tick, foreign>>
Raise == run' = [run EXCEPT !.pc = "end"]
Goto(pc) == run' = [run EXCEPT !.pc = pc]
_save(s) == journal' = [journal EXCEPT !.st = s]
C == journal.ctx.c
Tg == journal.tg[run.k]
_save_target(s) == journal' = [journal EXCEPT !.st = s, !.tg[run.k].st = s]

(* A central call: its effect and the answer; or it fails before the       *)
(* effect, or after it.                                                    *)
Call(effect, answer) ==
  \/ effect /\ answer /\ Smooth
  \/ Mishap("net") /\ Raise /\ UNCHANGED <<journal, central>>
  \/ Mishap("lost") /\ effect /\ Raise /\ UNCHANGED journal

RecoveryConflict == Open /\ (journal.kind = "SINGLE" \/ (run.ctx # NoCtx /\ run.ctx # journal.ctx))

_load_or_start ==
  /\ AtStep("load")
  /\ \/ RecoveryConflict /\ Raise /\ UNCHANGED journal
     \/ /\ ~RecoveryConflict /\ Ours /\ run.ctx \in {NoCtx, journal.ctx}
        /\ Goto("central") /\ UNCHANGED journal
     \/ /\ ~RecoveryConflict /\ ~(Ours /\ run.ctx \in {NoCtx, journal.ctx})
        /\ IF run.ctx = NoCtx THEN Raise /\ UNCHANGED journal
           ELSE /\ Goto("central")
                /\ journal' = [EmptyJournal EXCEPT !.st = "PREPARE_PENDING", !.ctx = run.ctx,
                                                   !.ex = run.ctx.linked]
  /\ UNCHANGED <<central, damaged, paper, faults>>

ReadySet(e) == {k \in Targets : e.att[k].st = "SUCCEEDED"}
Observe(e) == run' = [run EXCEPT !.pc = "observed", !.ready = ReadySet(e), !.seen = e.st]
Fill(e) == [k \in Targets |-> [NewTarget EXCEPT !.st = IF k \in ReadySet(e) THEN "PRINT_COMPLETED" ELSE @]]

(* The key names the reconciliation's version, so that a context resolved  *)
(* before another terminal linked its exchange is refused.                 *)
Refused == central[C].st # "none" /\ C \in foreign

PrepareReconciliation ==
  /\ AtStep("central") /\ ~journal.ex
  /\ \/ Refused /\ _save("CANCELLED") /\ Raise /\ Smooth /\ UNCHANGED central
     \/ ~Refused /\ Call(central' = [central EXCEPT ![C] = prepare_phs_label_exchange(@)],
                         /\ Observe(central'[C])
                         /\ journal' = [journal EXCEPT !.st = "PREPARED", !.ex = TRUE,
                                          !.filled = TRUE, !.tg = Fill(central'[C])])
  /\ UNCHANGED <<damaged, paper>>

GetExchange ==
  /\ AtStep("central") /\ journal.ex
  /\ Call(UNCHANGED central,
          /\ Observe(central[C])
          /\ journal' = IF journal.filled THEN journal
                        ELSE [journal EXCEPT !.st = "PREPARED", !.filled = TRUE, !.tg = Fill(central[C])])
  /\ UNCHANGED <<damaged, paper>>

Dispatch ==
  /\ AtStep("observed")
  /\ \/ /\ run.seen = "committed" /\ _save("COMMITTED")
        /\ run' = [run EXCEPT !.pc = "end", !.ok = TRUE]
     \/ run.seen = "open" /\ run' = [run EXCEPT !.pc = "target", !.k = 1] /\ UNCHANGED journal
  /\ UNCHANGED <<central, damaged, paper, faults>>

NextTarget == run' = [run EXCEPT !.pc = "target", !.k = @ + 1]
(* The attempt to print with; a failed one is not used again.              *)
HasAttempt_Failed == Tg.att                                           \* mutant
HasAttempt == Tg.att /\ Tg.st # "PRINT_FAILED"

(* A request that was not answered is repeated under its key.              *)
NextRequest ==
  IF Tg.st = "PRINT_REQUEST_PENDING" THEN journal
  ELSE [journal EXCEPT !.st = "PRINT_REQUEST_PENDING",
          !.tg[run.k] = [st |-> "PRINT_REQUEST_PENDING", no |-> @.no + 1, att |-> FALSE]]

(* The top of the loop over the targets.                                   *)
BeginTarget ==
  /\ AtStep("target") /\ run.k <= N
  /\ \/ run.k \in run.ready /\ _save_target("PRINT_COMPLETED") /\ NextTarget
     \/ /\ run.k \notin run.ready /\ Tg.st = "PRINT_FAILURE_ACK_PENDING"
        /\ Goto("failure_ack") /\ UNCHANGED journal
     \/ /\ run.k \notin run.ready /\ Tg.st # "PRINT_FAILURE_ACK_PENDING"
        /\ IF HasAttempt THEN Goto("print") /\ UNCHANGED journal
           ELSE Goto("request") /\ journal' = NextRequest
  /\ UNCHANGED <<central, damaged, paper, faults>>

RequestPrint ==
  /\ AtStep("request")
  /\ Call(central' = [central EXCEPT ![C] = request_phs_label_print(@, run.k, Tg.no)],
          IF central'[C].att[run.k] = [no |-> Tg.no, st |-> "REQUESTED"]
          THEN /\ journal' = [journal EXCEPT !.st = "PRINT_REQUESTED", !.tg[run.k].st = "PRINT_REQUESTED",
                                             !.tg[run.k].att = TRUE]
               /\ Goto("print")
          ELSE Raise /\ UNCHANGED journal)
  /\ UNCHANGED <<damaged, paper>>

PrintDone == Tg.st \in {"LOCAL_PRINT_SUCCEEDED", "PRINT_COMPLETE_PENDING"}
ConfirmationRequired_Never == FALSE                                   \* mutant
ConfirmationRequired == Tg.st = "LOCAL_PRINT_STARTING" /\ ~run.confirm
(* The file that was printed is the one that was rendered.                 *)
_validate_artifact == run.k \notin damaged

BeginPrint ==
  /\ AtStep("print")
  /\ \/ ConfirmationRequired /\ Raise /\ Smooth /\ UNCHANGED <<journal, damaged>>
     \/ /\ PrintDone /\ Smooth /\ UNCHANGED damaged
        /\ IF _validate_artifact THEN _save_target("PRINT_COMPLETE_PENDING") /\ Goto("complete")
           ELSE Raise /\ UNCHANGED journal
     \/ /\ ~ConfirmationRequired /\ ~PrintDone
        /\ damaged' = damaged \ {run.k}
        /\ \/ _save_target("LOCAL_PRINT_STARTING") /\ Goto("paper") /\ Smooth
           \/ Mishap("printer") /\ _save_target("PRINT_FAILURE_ACK_PENDING") /\ Goto("failure_ack")
  /\ UNCHANGED <<central, paper>>

(* The printer, then the proof and the start of the completion are saved.  *)
PrintPng ==
  /\ AtStep("paper")
  /\ \/ /\ paper' = [paper EXCEPT ![C][run.k].copies = @ + 1]
        /\ \/ _save_target("LOCAL_PRINT_SUCCEEDED") /\ Goto("proved") /\ Smooth
           \/ Mishap("disk") /\ Raise /\ UNCHANGED journal
     \/ /\ Mishap("printer")
        /\ \E n \in {0, 1} :
             paper' = [paper EXCEPT ![C][run.k].copies = @ + n, ![C][run.k].jams = @ + n]
        /\ _save_target("PRINT_FAILURE_ACK_PENDING") /\ Goto("failure_ack")
  /\ UNCHANGED <<central, damaged>>

SaveCompletePending ==
  /\ AtStep("proved")
  /\ _save_target("PRINT_COMPLETE_PENDING") /\ Goto("complete")
  /\ UNCHANGED <<central, damaged, paper, faults>>

_record_print_failure ==
  /\ AtStep("failure_ack")
  /\ Call(central' = [central EXCEPT ![C] = complete_phs_label_print(@, run.k, Tg.no, FALSE)],
          IF central'[C].att[run.k].st = "FAILED" THEN _save_target("PRINT_FAILED") /\ Raise
          ELSE Raise /\ UNCHANGED journal)
  /\ UNCHANGED <<damaged, paper>>

CompletePrint ==
  /\ AtStep("complete")
  /\ Call(central' = [central EXCEPT ![C] = complete_phs_label_print(@, run.k, Tg.no, TRUE)],
          IF central'[C].att[run.k] = [no |-> Tg.no, st |-> "SUCCEEDED"]
          THEN _save_target("PRINT_COMPLETED") /\ NextTarget ELSE Raise /\ UNCHANGED journal)
  /\ UNCHANGED <<damaged, paper>>

(* After the last target the exchange is read again.                       *)
CheckReady ==
  /\ AtStep("target") /\ run.k > N
  /\ Call(UNCHANGED central,
          IF Ready(central[C]) THEN _save("ACTIVATE_PENDING") /\ Goto("activate")
          ELSE Raise /\ UNCHANGED journal)
  /\ UNCHANGED <<damaged, paper>>

Activate ==
  /\ AtStep("activate")
  /\ Call(central' = [central EXCEPT ![C] = activate_phs_label_exchange(@)],
          IF central'[C].st = "committed"
          THEN _save("COMMITTED") /\ run' = [run EXCEPT !.pc = "end", !.ok = TRUE]
          ELSE Raise /\ UNCHANGED journal)
  /\ UNCHANGED <<damaged, paper>>

(* finish: the context goes with a success and is the journal's after a    *)
(* failure; a hold or a changed tray leaves the screen alone.              *)
Finish ==
  /\ run.pc = "end" /\ run' = IdleRun
  /\ \/ /\ Smooth
        /\ IF run.ok THEN ctx' = NoCtx /\ tick' = FALSE
           ELSE /\ ctx' = IF journal.ctx # NoCtx THEN journal.ctx ELSE ctx
                /\ UNCHANGED tick
     \/ Mishap("hold") /\ UNCHANGED <<ctx, tick>>
  /\ UNCHANGED <<journal, central, foreign, damaged, paper>>

(* The program starts again; the recovery brings the journal's context.    *)
Restart ==
  /\ Mishap("crash")
  /\ run' = IdleRun /\ tick' = FALSE
  /\ ctx' = IF Ours THEN journal.ctx ELSE NoCtx
  /\ UNCHANGED <<journal, central, foreign, damaged, paper>>

ExchangeStep ==
  \/ _load_or_start \/ PrepareReconciliation \/ GetExchange \/ Dispatch \/ BeginTarget
  \/ RequestPrint \/ BeginPrint \/ PrintPng \/ SaveCompletePending \/ _record_print_failure
  \/ CompletePrint \/ CheckReady \/ Activate \/ Finish

Next ==
  \/ \E c \in Contexts : _intercept_phs_reconciliation_scan(c) \/ OtherTerminal(c)
  \/ \E k \in Targets : DamageArtifact(k)
  \/ _confirm_phs_reconciliation_ambiguous_reprint \/ _execute_phs_reconciliation_exchange
  \/ SettleSingle \/ ExchangeStep \/ Restart

Spec == Init /\ [][Next]_vars

(* The lane works off its task; the operator approves and presses F8 for   *)
(* the open exchange.                                                      *)
Resume == /\ Ours /\ ctx \in {NoCtx, journal.ctx}
          /\ (\E k \in Targets : Ambiguous(k)) => tick
          /\ _execute_phs_reconciliation_exchange
Fairness ==
  /\ WF_vars(ExchangeStep) /\ SF_vars(Resume)
  /\ SF_vars(Ours /\ ctx \notin {NoCtx, journal.ctx} /\ _execute_phs_reconciliation_exchange)
  /\ SF_vars(_confirm_phs_reconciliation_ambiguous_reprint)

-----------------------------------------------------------------------------
(* Properties.                                                             *)

ReconTypeOK ==
  /\ ctx \in Ctx \cup {NoCtx} /\ tick \in BOOLEAN /\ run.k \in 1..(N + 1)
  /\ journal \in [kind : {"RECONCILIATION", "SINGLE"}, st : Statuses, ctx : Ctx \cup {NoCtx},
                  ex : BOOLEAN, filled : BOOLEAN,
                  tg : [Targets -> [st : TargetStates, no : Nat, att : BOOLEAN]]]
  /\ central \in [Contexts -> [st : {"none", "open", "committed"},
                               att : [Targets -> [no : Nat, st : AttemptStates]]]]

(* The labels become active together, when every one exists on paper.      *)
AllOnPaper ==
  \A c \in Contexts : central[c].st = "committed" => \A k \in Targets : paper[c][k].copies > 0

(* Until the operator has approved a reprint no label is printed twice,    *)
(* except after a printer error.                                           *)
NoSilentReprint ==
  (\A c \in Contexts, k \in Targets : paper[c][k].asked = 0)
    => \A c \in Contexts, k \in Targets : paper[c][k].copies <= 1 + paper[c][k].jams

(* An open exchange that this terminal prepared is the journal's.          *)
NoOrphanExchange ==
  \A c \in Contexts : central[c].st = "open" => c \in foreign \/ (Ours /\ journal.ctx.c = c)

(* The journal says COMMITTED only when the centre does.                   *)
CommittedIsCentral ==
  journal.st = "COMMITTED" /\ journal.ctx # NoCtx => central[journal.ctx.c].st = "committed"

(* What a reconciliation promises of the labels and of the centre: it is   *)
(* finished only with all its labels on paper and committed at the server, *)
(* no label is printed again silently, and no exchange the server knows is *)
(* orphaned (phs_reconciliation_workflow.py).                              *)
ReconSound ==
  ReconTypeOK /\ AllOnPaper /\ NoSilentReprint /\ NoOrphanExchange /\ CommittedIsCentral

(* Every exchange that was begun is settled.                               *)
ReconciliationSettles == Ours ~> ~Ours
=============================================================================
