------------------------------ MODULE AppClose ------------------------------
(***************************************************************************)
(* The serial UI lane (tk_serial_ui_lane.py), the writer thread of the     *)
(* preflight hold, the event log thread, and the closing of the program    *)
(* (on_closing, _finalize_application_close), which waits for all three    *)
(* before it destroys the window.  The Tk thread is the owner; a handler   *)
(* of it is one step, except where it joins another thread.                *)
(***************************************************************************)
EXTENDS Naturals, Sequences, FiniteSets

CONSTANTS
  MaxTasks, MaxGens,      \* tasks admitted and tray generations (bounds)
  MaxJoins,               \* EVENT_LOG_CLOSE_MAX_JOIN_ATTEMPTS
  MaxCloses,              \* requests to close (bound)
  FaultKinds, MaxFaults

CloseAssumption ==
  MaxTasks \in Nat \ {0} /\ MaxGens \in Nat /\ MaxJoins \in Nat \ {0} /\ MaxCloses \in Nat

VARIABLES
  st, active, stopSent,  \* the lane
  tq, rq,                \* its task queue (of one) and result queue
  wk,                    \* its worker thread
  gen, genOf,            \* _scan_callback_epoch, and each task's
  tasks, applied,        \* tasks admitted, and what was applied of each
  hold,                  \* the hold writer: state, and whether a write is under way
  log,                   \* the log thread: state, close requested, joins, unstaged entries
  close,                 \* on_closing: requested, lane drained, hold drained
  owner,                 \* what the Tk thread is doing
  closes, faults

laneVars == <<st, active, stopSent, tq, rq, wk>>
jobVars == <<gen, genOf, tasks, applied>>
vars == <<laneVars, jobVars, hold, log, close, owner, closes, faults>>

Tasks == 1..MaxTasks
Stop == MaxTasks + 1
Idle == [pc |-> "idle", op |-> 0, asked |-> FALSE]
Gone == [Idle EXCEPT !.pc = "gone"]

(* There is no lane yet, which closing treats as a closed one.             *)
Init ==
  /\ st = "CLOSED" /\ active = 0 /\ stopSent = TRUE /\ tq = 0 /\ rq = <<>> /\ wk = Gone
  /\ gen = 0 /\ genOf = [t \in Tasks |-> 0] /\ tasks = 0 /\ applied = [t \in Tasks |-> <<>>]
  /\ hold = [st |-> "closed", busy |-> FALSE]
  /\ log = [st |-> "run", req |-> FALSE, joins |-> 0, unstaged |-> FALSE]
  /\ close = [req |-> FALSE, lane |-> FALSE, hold |-> FALSE]
  /\ owner = "free" /\ closes = 0 /\ faults = 0

Mishap(kind) == kind \in FaultKinds /\ faults < MaxFaults /\ faults' = faults + 1
Smooth == faults' = faults
Free == owner = "free"
Destroyed == owner = "destroyed"

-----------------------------------------------------------------------------
(* The lane.                                                               *)

_break_lane == st' = "BROKEN" /\ active' = 0

Admits == active = 0 /\ st \in {"IDLE", "CLOSED"}
put_nowait(t) == tq' = t

(* _ui_task_lane makes a new lane when the last one is closed; submit      *)
(* admits one task at a time.                                              *)
submit ==
  /\ Free /\ ~close.req /\ tasks < MaxTasks /\ Admits
  /\ tasks' = tasks + 1 /\ active' = tasks' /\ st' = "BUSY"
  /\ genOf' = [genOf EXCEPT ![tasks'] = gen]
  /\ put_nowait(tasks')
  /\ IF st = "CLOSED" THEN wk' = Idle /\ stopSent' = FALSE /\ rq' = <<>>
                      ELSE UNCHANGED <<wk, stopSent, rq>>
  /\ UNCHANGED <<gen, applied, hold, log, close, owner, closes, faults>>

WorkerTake ==
  /\ wk.pc = "idle" /\ tq # 0 /\ tq' = 0
  /\ wk' = IF tq = Stop THEN Gone ELSE [pc |-> "run", op |-> tq, asked |-> FALSE]
  /\ UNCHANGED <<st, active, stopSent, rq, jobVars, hold, log, close, owner, closes, faults>>

Waits == "ask"

(* The worker waits for a step that only the Tk thread may take, once a    *)
(* task (a bound).                                                         *)
call_ui_sync ==
  /\ wk.pc = "run" /\ ~wk.asked
  /\ IF active = 0 \/ st \in {"BROKEN", "CLOSED"}
     THEN wk' = [wk EXCEPT !.pc = "end"] /\ UNCHANGED rq
     ELSE wk' = [wk EXCEPT !.pc = Waits, !.asked = TRUE] /\ rq' = Append(rq, [op |-> active, k |-> "ui_call"])
  /\ UNCHANGED <<st, active, stopSent, tq, jobVars, hold, log, close, owner, closes, faults>>

(* The work ends; an entry of the log that cannot be staged is kept in     *)
(* memory.                                                                 *)
WorkerEnd ==
  /\ wk.pc \in {"run", "end"} /\ wk' = Idle
  /\ \E k \in {"success", "failure"} :
       /\ wk.pc = "end" => k = "failure"
       /\ rq' = Append(rq, [op |-> wk.op, k |-> k])
  /\ \/ Smooth /\ UNCHANGED log
     \/ Mishap("stage") /\ log' = [log EXCEPT !.unstaged = TRUE]
  /\ UNCHANGED <<st, active, stopSent, tq, jobVars, hold, close, owner, closes>>

_generation_is_current(t) == genOf[t] = gen

(* _complete_close: the stop is put into the queue and the worker joined.  *)
JoinWorker(then) ==
  IF stopSent THEN owner' = then /\ UNCHANGED <<stopSent, tq>>
  ELSE /\ stopSent' = TRUE
       /\ IF tq = 0 THEN tq' = Stop /\ owner' = then ELSE UNCHANGED tq /\ owner' = "free"

Answer(e) == IF active = e.op /\ _generation_is_current(e.op) THEN "run" ELSE "end"

_apply_ui_call ==
  /\ Free /\ rq # <<>> /\ Head(rq).k = "ui_call" /\ rq' = Tail(rq)
  /\ wk' = [wk EXCEPT !.pc = Answer(Head(rq))]
  /\ UNCHANGED <<st, active, stopSent, tq, jobVars, hold, log, close, owner, closes, faults>>

Applies(e) ==
  IF _generation_is_current(e.op) THEN (IF e.k = "success" THEN "finish" ELSE "fail") ELSE "stale"

_apply_terminal_result ==
  /\ Free /\ rq # <<>> /\ Head(rq).k # "ui_call" /\ rq' = Tail(rq)
  /\ IF active # Head(rq).op
     THEN _break_lane /\ Smooth /\ UNCHANGED <<applied, stopSent, tq, owner>>
     ELSE /\ applied' = [applied EXCEPT ![active] = Append(@, Applies(Head(rq)))]
          /\ \/ /\ Mishap("callback") /\ _break_lane /\ UNCHANGED <<stopSent, tq, owner>>
             \/ /\ Smooth /\ active' = 0
                /\ IF st = "DRAINING" THEN st' = st /\ JoinWorker("join")
                                      ELSE st' = "IDLE" /\ UNCHANGED <<stopSent, tq, owner>>
  /\ UNCHANGED <<wk, gen, genOf, tasks, hold, log, close, closes>>

(* The tray is replaced or a callback epoch ends.                          *)
_invalidate_pending_scan_callbacks ==
  /\ Free /\ gen < MaxGens /\ gen' = gen + 1
  /\ UNCHANGED <<laneVars, genOf, tasks, applied, hold, log, close, owner, closes, faults>>

(* The join of the worker ends; the callbacks of drain_then run.           *)
JoinDone ==
  /\ owner \in {"join", "final_join"} /\ wk.pc = "gone"
  /\ st' = "CLOSED"
  /\ owner' = IF owner = "final_join" THEN "final" ELSE IF close.req THEN "hold" ELSE "free"
  /\ close' = IF owner = "join" /\ close.req THEN [close EXCEPT !.lane = TRUE] ELSE close
  /\ UNCHANGED <<active, stopSent, tq, rq, wk, jobVars, hold, log, closes, faults>>
JoinTimeout ==
  /\ owner \in {"join", "final_join"} /\ wk.pc # "gone" /\ Mishap("slow")
  /\ _break_lane
  /\ owner' = IF owner = "final_join" THEN "final" ELSE "free"
  /\ UNCHANGED <<stopSent, tq, rq, wk, jobVars, hold, log, close, closes>>

-----------------------------------------------------------------------------
(* The hold writer and the log thread.                                     *)

HoldSubmit ==
  /\ Free /\ ~close.req /\ hold.st \in {"open", "closed"} /\ ~hold.busy
  /\ hold' = [st |-> "open", busy |-> TRUE]
  /\ UNCHANGED <<laneVars, jobVars, log, close, owner, closes, faults>>
HoldWrite ==
  /\ hold.busy /\ ~Destroyed
  /\ hold' = [hold EXCEPT !.busy = FALSE]
  /\ UNCHANGED <<laneVars, jobVars, log, close, owner, closes, faults>>
(* Mutant: the drain callbacks are lost.                                   *)
HoldResume_Lost == close' = close /\ owner' = "free"
HoldResume == close' = [close EXCEPT !.hold = TRUE] /\ owner' = "save"
(* Its pump: closing ends when nothing is left.                            *)
HoldClosed ==
  /\ Free /\ hold.st = "closing" /\ ~hold.busy
  /\ hold' = [hold EXCEPT !.st = "closed"]
  /\ HoldResume
  /\ UNCHANGED <<laneVars, jobVars, log, closes, faults>>

_flush_pending_event_logs ==
  /\ log.st = "run" /\ log.unstaged /\ ~Destroyed
  /\ log' = [log EXCEPT !.unstaged = FALSE]
  /\ UNCHANGED <<laneVars, jobVars, hold, close, owner, closes, faults>>
(* The thread ends after the None of the queue, flushed or not.            *)
_event_log_writer ==
  /\ log.st = "run" /\ log.req
  /\ \/ Smooth /\ log' = [log EXCEPT !.st = "ended", !.unstaged = FALSE]
     \/ Mishap("flush") /\ log' = [log EXCEPT !.st = "ended"]
  /\ UNCHANGED <<laneVars, jobVars, hold, close, owner, closes>>

-----------------------------------------------------------------------------
(* Closing.                                                                *)

_abort_application_close ==
  /\ close' = [req |-> FALSE, lane |-> FALSE, hold |-> FALSE] /\ owner' = "free"

(* Mutant: the writes under way do not keep the hold writer open.          *)
HoldDrained_Idle == hold.st # "closing"
(* The drain of the hold writer is behind the closing.                     *)
HoldDrained == hold.st = "closed" \/ close.hold

(* The lane is drained first; another request while it drains registers    *)
(* once more.                                                              *)
on_closing ==
  /\ Free /\ closes < MaxCloses /\ closes' = closes + 1
  /\ close' = [close EXCEPT !.req = TRUE]
  /\ log' = [log EXCEPT !.joins = 0]
  /\ IF close.lane THEN owner' = "hold" /\ UNCHANGED <<st, stopSent, tq>>
     ELSE IF st = "CLOSED" THEN owner' = "drained" /\ UNCHANGED <<st, stopSent, tq>>
     ELSE /\ st' = IF st = "BROKEN" THEN st ELSE "DRAINING"
          /\ IF active = 0 THEN JoinWorker("join") ELSE UNCHANGED <<stopSent, tq, owner>>
  /\ UNCHANGED <<active, rq, wk, jobVars, hold, faults>>
resume_after_lane ==
  /\ owner = "drained" /\ owner' = "hold" /\ close' = [close EXCEPT !.lane = TRUE]
  /\ UNCHANGED <<laneVars, jobVars, hold, log, closes, faults>>

DrainHold ==
  /\ owner = "hold"
  /\ IF HoldDrained THEN UNCHANGED hold /\ owner' = "save"
     ELSE hold' = [hold EXCEPT !.st = "closing"] /\ owner' = "free"
  /\ UNCHANGED <<laneVars, jobVars, log, close, closes, faults>>

(* The hold, the tray and the end of the work session are saved.           *)
SaveForClose ==
  /\ owner = "save"
  /\ \/ Smooth /\ owner' = "final_lane" /\ UNCHANGED close
     \/ Mishap("session") /\ _abort_application_close
  /\ UNCHANGED <<laneVars, jobVars, hold, log, closes>>

(* _finalize_application_close: a lane that is not idle is only told to    *)
(* drain.                                                                  *)
close_idle ==
  /\ owner = "final_lane"
  /\ IF st = "CLOSED" THEN owner' = "final" /\ UNCHANGED <<st, stopSent, tq>>
     ELSE /\ st' = IF st = "BROKEN" THEN st ELSE "DRAINING"
          /\ IF active = 0 THEN JoinWorker("final_join")
             ELSE owner' = "final" /\ UNCHANGED <<stopSent, tq>>
  /\ UNCHANGED <<active, rq, wk, jobVars, hold, log, close, closes, faults>>
RequestLogEnd ==
  /\ owner = "final" /\ owner' = "log_join" /\ log' = [log EXCEPT !.req = TRUE]
  /\ UNCHANGED <<laneVars, jobVars, hold, close, closes, faults>>
LogJoinTimeout ==
  /\ owner = "log_join" /\ log.st = "run" /\ Mishap("slowlog")
  /\ log' = [log EXCEPT !.joins = @ + 1]
  /\ IF log.joins + 1 < MaxJoins
     THEN owner' = "again" /\ UNCHANGED <<st, active, close>>
     ELSE _break_lane /\ close' = [close EXCEPT !.req = FALSE] /\ owner' = "free"
  /\ UNCHANGED <<stopSent, tq, rq, wk, jobVars, hold, closes>>
(* on_closing runs again, with both drains behind it.                      *)
CloseAgain ==
  /\ owner = "again" /\ owner' = "save"
  /\ UNCHANGED <<laneVars, jobVars, hold, log, close, closes, faults>>

has_unstaged == log.unstaged
(* The program goes on: the request is taken back.                         *)
KeepWorking == close' = [close EXCEPT !.req = FALSE]

_finalize_application_close ==
  /\ owner = "log_join" /\ log.st = "ended"
  /\ \/ /\ ~has_unstaged /\ owner' = "destroyed" /\ UNCHANGED <<log, close>>
     \/ /\ has_unstaged /\ KeepWorking /\ owner' = "free"
        /\ log' = [log EXCEPT !.st = "run", !.req = FALSE, !.joins = 0]
  /\ UNCHANGED <<laneVars, jobVars, hold, closes, faults>>

Worker == WorkerTake \/ call_ui_sync \/ WorkerEnd
Pump == _apply_ui_call \/ _apply_terminal_result \/ HoldClosed
Closing ==
  \/ JoinDone \/ JoinTimeout \/ resume_after_lane \/ DrainHold \/ SaveForClose
  \/ close_idle \/ RequestLogEnd \/ LogJoinTimeout \/ CloseAgain \/ _finalize_application_close

Next ==
  \/ submit \/ _invalidate_pending_scan_callbacks \/ HoldSubmit \/ on_closing
  \/ Worker \/ Pump \/ HoldWrite \/ _flush_pending_event_logs \/ _event_log_writer \/ Closing

Spec == Init /\ [][Next]_vars

(* Threads run, the Tk loop turns, and work ends.                          *)
Fairness ==
  /\ WF_vars(WorkerTake) /\ WF_vars(WorkerEnd) /\ WF_vars(Pump)
  /\ WF_vars(HoldWrite) /\ WF_vars(_event_log_writer) /\ WF_vars(_flush_pending_event_logs)
  /\ WF_vars(Closing)

-----------------------------------------------------------------------------
(* Properties.                                                             *)

CloseTypeOK ==
  /\ st \in {"IDLE", "BUSY", "DRAINING", "BROKEN", "CLOSED"} /\ active \in 0..MaxTasks
  /\ tq \in 0..Stop /\ wk.pc \in {"idle", "run", "ask", "end", "gone"} /\ Len(rq) <= 2
  /\ wk.pc \in {"run", "ask", "end"} => wk.op \in Tasks
  /\ hold.st \in {"open", "closing", "closed"} /\ log.st \in {"run", "ended"}
  /\ \A t \in Tasks : Len(applied[t]) <= 1

(* The worker works only for the task the lane holds open, so that no      *)
(* second one is admitted beside it, unless the lane was given up.         *)
OneTaskAtATime == wk.pc \in {"run", "ask", "end"} => active = wk.op \/ st \in {"BROKEN", "CLOSED"}

(* The window is destroyed only when every admitted task was applied,      *)
(* every held scan written and every log entry staged.                     *)
Settled == st = "BROKEN" \/ \A t \in 1..tasks : applied[t] # <<>>
DrainedBeforeDestroy == Destroyed => Settled /\ ~hold.busy /\ ~log.unstaged

(* A result reaches the tray it was meant for, or none.                    *)
FreshResults ==
  [][\A t \in Tasks : applied'[t] # applied[t] =>
       (applied'[t][1] \in {"finish", "fail"} <=> genOf[t] = gen)]_vars

(* A request to close ends with the window destroyed or the program back   *)
(* at work; a lane that broke waits for the operator to ask again.         *)
CloseEnds == close.req ~> ~close.req \/ Destroyed \/ st = "BROKEN"
(* A task is applied, unless the lane was given up.                        *)
TasksEnd == \A t \in Tasks : tasks >= t ~> applied[t] # <<>> \/ st = "BROKEN"
(* A worker that waits for the Tk thread is released.                      *)
WaiterReleased == wk.pc = "ask" ~> wk.pc # "ask"
=============================================================================
