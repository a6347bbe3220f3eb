---------------------------- MODULE ReviewOutbox ----------------------------
(***************************************************************************)
(* Two facts the program commits to SQLite before it reports them: a       *)
(* completed tray whose transfer needs a review (transfer_store.py         *)
(* record_error) and a label whose replacement is awaited                  *)
(* (mark_phs_replacement_waiting).  Each is committed with an outbox row   *)
(* that names the event log of that day; Container_Audit.py appends the    *)
(* row to that log and then records a receipt.  The lane tasks that create *)
(* and replay the rows, and the flags that keep the replay from being      *)
(* forgotten, are modelled with the worker who logs in and out.            *)
(***************************************************************************)
EXTENDS Naturals, FiniteSets

CONSTANTS
  Reviews, Markers,       \* intents that may need a review, and label pairs
  Days,                   \* the event logs of the PC, one a day
  FaultKinds, MaxFaults   \* what may fail and how often (bound)

OutboxAssumption ==
  /\ IsFiniteSet(Reviews) /\ IsFiniteSet(Markers) /\ Reviews \cap Markers = {}
  /\ Days \in Nat \ {0} /\ MaxFaults \in Nat

Facts == Reviews \cup Markers
None == "none"
NoDay == 0
Lost == "lost"           \* the cases could not be read
Hooked == {"recovery", "refresh", "retry"}   \* tasks with an on_idle hook
Tasks == Hooked \cup {"complete", "mark"}
Idle == [task |-> None, pc |-> None, f |-> None, todo |-> {},
         bad |-> FALSE, req |-> FALSE, stale |-> FALSE]

VARIABLES
  day, up,       \* the day; the program runs and a worker is logged in
  asked,         \* change_worker waits for the answer to its question
  path,          \* the log a fact's outbox row names, NoDay before it is committed
  order,         \* outbox_sequence
  rows,          \* rows of a fact in each log
  receipts,      \* projection receipts
  linked,        \* intents with a durable local completion
  closed,        \* trays whose completion has ended
  active,        \* intents in OPERATOR_REVIEW
  lane,          \* the task of the serial lane
  kick,          \* root.after(0, _admit_pending_transfer_coordinator_work)
  recov,         \* _startup_transfer_recovery_pending
  recovering,    \* _startup_transfer_recovery_inflight
  pending, inflight, required,   \* _transfer_post_review_refresh_pending, _inflight, _required
  cases,         \* _transfer_post_review_cases
  shown,         \* _presented_post_review_case_ids
  notice,        \* the blocking notice is on the screen
  seen,          \* _phs_replacement_notice_pairs
  told,          \* reviews the worker had a notice of
  faults

store == <<path, order, rows, receipts, linked, closed, active, told>>
flags == <<recov, recovering, pending, inflight, required, cases, shown, notice, seen>>
vars == <<day, up, asked, path, order, rows, receipts, linked, closed, active, lane, kick,
          recov, recovering, pending, inflight, required, cases, shown, notice, seen, told, faults>>

Init ==
  /\ day = 1 /\ up = FALSE /\ asked = FALSE
  /\ path = [f \in Facts |-> NoDay] /\ order = [f \in Facts |-> 0]
  /\ rows = [f \in Facts |-> [d \in 1..Days |-> 0]] /\ receipts = {}
  /\ linked = {} /\ closed = {} /\ active = {} /\ told = {}
  /\ lane = Idle /\ kick = FALSE
  /\ recov = TRUE /\ recovering = FALSE
  /\ pending = FALSE /\ inflight = FALSE /\ required = FALSE
  /\ cases = {} /\ shown = {} /\ notice = FALSE /\ seen = {} /\ faults = 0

Mishap(kind) == kind \in FaultKinds /\ faults < MaxFaults /\ faults' = faults + 1
Smooth == faults' = faults
Busy == lane.task # None

-----------------------------------------------------------------------------
(* The store.                                                              *)

(* The first commit of a fact names the day's log; a later one keeps it.   *)
Commit(f) ==
  IF path[f] # NoDay THEN UNCHANGED <<path, order>>
  ELSE /\ path' = [path EXCEPT ![f] = day]
       /\ order' = [order EXCEPT ![f] = 1 + Cardinality({g \in Facts : path[g] # NoDay})]

(* Outbox rows without a receipt; they are taken in the order of their     *)
(* commits.                                                                *)
PendingRows(kind) == {f \in kind \ receipts : path[f] # NoDay}
First(S) == {f \in S : \A g \in S : order[f] <= order[g]}
Newest(S) == {f \in S : \A g \in S : order[g] <= order[f]}

(* append_event_log_entry_idempotent on the log the row names.             *)
\* Mutant: the rows of the log are not looked through.
AppendRow_Blind(f) == rows' = [rows EXCEPT ![f][path[f]] = IF @ < 2 THEN @ + 1 ELSE @]
AppendRow(f) ==
  rows' = IF rows[f][path[f]] > 0 THEN rows ELSE [rows EXCEPT ![f][path[f]] = 1]

-----------------------------------------------------------------------------
(* The lane.                                                               *)

Task(t, f, req) == [Idle EXCEPT !.task = t, !.pc = "start", !.f = f, !.req = req]

(* _schedule_startup_transfer_recovery and                                 *)
(* _schedule_transfer_post_review_refresh, one after the other, as login   *)
(* calls them.                                                             *)
Refresh(want, free) ==
  IF want /\ free /\ ~inflight
  THEN pending' = FALSE /\ inflight' = TRUE /\ lane' = Task("refresh", None, required)
  ELSE pending' = want /\ UNCHANGED <<inflight, lane>>

(* A worker logs in: the day's log is opened and the replays are asked for. *)
Login ==
  /\ ~up /\ up' = TRUE
  /\ IF recov /\ ~recovering /\ ~Busy
     THEN /\ recovering' = TRUE /\ lane' = Task("recovery", None, FALSE)
          /\ pending' = TRUE /\ UNCHANGED inflight
     ELSE UNCHANGED recovering /\ Refresh(TRUE, ~Busy)
  /\ UNCHANGED <<day, asked, store, kick, recov, required, cases, shown, notice, seen, faults>>

(* change_worker asks while the lane is idle; the answer comes later and   *)
(* makes the results of the task that was admitted meanwhile stale.        *)
ChangeAsk ==
  /\ up /\ ~asked /\ ~Busy /\ asked' = TRUE
  /\ UNCHANGED <<day, up, store, flags, lane, kick, faults>>

ChangeWorker ==
  /\ asked /\ asked' = FALSE
  /\ \/ up' = FALSE /\ lane' = IF Busy THEN [lane EXCEPT !.stale = TRUE] ELSE lane
     \/ UNCHANGED <<up, lane>>
  /\ UNCHANGED <<day, store, flags, kick, faults>>

(* The program is closed or dies and is started again, at times another day. *)
Restarted ==
  /\ day' \in {day, day + 1} \cap 1..Days
  /\ up' = FALSE /\ asked' = FALSE /\ lane' = Idle /\ kick' = FALSE
  /\ recov' = TRUE /\ recovering' = FALSE
  /\ pending' = FALSE /\ inflight' = FALSE /\ required' = FALSE
  /\ cases' = {} /\ shown' = {} /\ notice' = FALSE /\ seen' = {}
  /\ UNCHANGED store

Exit == up /\ ~asked /\ ~Busy /\ Smooth /\ Restarted
Crash == Mishap("crash") /\ Restarted

(* _admit_pending_transfer_coordinator_work.                               *)
Admit ==
  /\ kick /\ kick' = FALSE
  /\ Refresh(pending, ~Busy)
  /\ UNCHANGED <<day, up, asked, store, recov, recovering, required, cases, shown, notice, seen, faults>>

(* A hold is drained: a recovery that is still pending is tried again.     *)
ResumeRecovery ==
  /\ up /\ recov /\ ~recovering /\ ~Busy
  /\ recovering' = TRUE /\ lane' = Task("recovery", None, FALSE)
  /\ UNCHANGED <<day, up, asked, store, kick, recov, pending, inflight, required, cases, shown,
                 notice, seen, faults>>

(* request_complete_tray, the reconciliation of a label, and the           *)
(* supervisor's retry take the lane.                                       *)
StartWork ==
  /\ up /\ ~asked /\ ~Busy /\ ~notice
  /\ \/ \E f \in Reviews \ closed : lane' = Task("complete", f, FALSE)
     \/ \E f \in Markers : lane' = Task("mark", f, FALSE)
     \/ \E f \in cases : lane' = Task("retry", f, FALSE)
  /\ UNCHANGED <<day, up, asked, store, flags, kick, faults>>

(* A supervisor asks for a retry and no case is known: the replay is run.  *)
RetryNone ==
  /\ up /\ ~asked /\ ~Busy /\ ~notice /\ cases = {}
  /\ Refresh(TRUE, TRUE)
  /\ UNCHANGED <<day, up, asked, store, kick, recov, recovering, required, cases, shown, notice, seen, faults>>

Going(t, pc) == lane.task = t /\ lane.pc = pc
Step(pc) == lane' = [lane EXCEPT !.pc = pc]
Worker(rest) == UNCHANGED <<day, up, asked, kick, flags, rest>>

(* The completion is linked locally; its attempt may end in a review.      *)
LinkTray ==
  /\ Going("complete", "start") /\ Smooth
  /\ linked' = linked \cup {lane.f}
  /\ IF lane.f \in active THEN Step("append") /\ UNCHANGED <<path, order, active>>
     ELSE \/ Step("done") /\ UNCHANGED <<path, order, active>>
          \/ path[lane.f] = NoDay /\ Commit(lane.f) /\ active' = active \cup {lane.f} /\ Step("append")
  /\ Worker(<<rows, receipts, closed, told>>)

(* mark_phs_replacement_waiting.                                           *)
MarkWaiting ==
  /\ Going("mark", "start") /\ Smooth
  /\ Commit(lane.f) /\ Step("append")
  /\ Worker(<<rows, receipts, linked, closed, active, told>>)

(* The recovery reads the markers that are to be replayed, unless a hold   *)
(* bars it; the refresh reads the reviews.                                 *)
Replay(todo) ==
  \/ todo = {} /\ Step("drained")
  \/ \E f \in First(todo) : lane' = [lane EXCEPT !.pc = "append", !.todo = todo, !.f = f]

ReadMarkers ==
  /\ Going("recovery", "start")
  /\ \/ Smooth /\ Replay(PendingRows(Markers))
     \/ Mishap("hold") /\ lane' = [lane EXCEPT !.pc = "done", !.bad = TRUE]
  /\ Worker(<<store>>)

ReadReviews ==
  /\ Going("refresh", "start") /\ Smooth /\ Replay(PendingRows(Reviews))
  /\ Worker(<<store>>)

(* Where a task goes once its row has its receipt, and where once the row  *)
(* could not be projected.                                                 *)
AfterRow ==
  LET rest == lane.todo \ {lane.f} IN
  \/ \E f \in First(rest) : lane' = [lane EXCEPT !.todo = rest, !.f = f, !.pc = "append"]
  \/ rest = {} /\ lane' = IF lane.task \in {"recovery", "refresh"}
                          THEN [lane EXCEPT !.todo = {}, !.f = None, !.pc = "drained"]
                          ELSE [lane EXCEPT !.pc = "done"]
Broken ==
  IF lane.task = "refresh"
  THEN [lane EXCEPT !.todo = {}, !.bad = TRUE, !.f = None, !.pc = "drained"]
  ELSE [lane EXCEPT !.todo = {}, !.bad = TRUE, !.pc = "done"]

(* The append, which may fail with or without having written its row, and  *)
(* the receipt.                                                            *)
Appending ==
  /\ lane.pc = "append"
  /\ \/ AppendRow(lane.f) /\ Smooth /\ Step("receipt")
     \/ UNCHANGED rows /\ Mishap("append") /\ lane' = Broken
     \/ AppendRow(lane.f) /\ Mishap("unsure") /\ lane' = Broken
  /\ Worker(<<path, order, receipts, linked, closed, active, told>>)

Receipting ==
  /\ lane.pc = "receipt"
  /\ \/ receipts' = receipts \cup {lane.f} /\ Smooth /\ AfterRow
     \/ UNCHANGED receipts /\ Mishap("sqlite") /\ lane' = Broken
  /\ Worker(<<path, order, rows, linked, closed, active, told>>)

ProjectReview == lane.f \in Reviews /\ Appending
ReceiptReview == lane.f \in Reviews /\ Receipting
ProjectMarker == lane.f \in Markers /\ Appending
ReceiptMarker == lane.f \in Markers /\ Receipting

(* The rest of the recovery: drain_pending tries the linked intents, some  *)
(* of which end in a review (lane.req).  A hold ends the drain; an error   *)
(* ends it and loses its results.                                          *)
DrainSeals ==
  /\ Going("recovery", "drained")
  /\ \/ /\ Smooth
        /\ \/ Step("done") /\ UNCHANGED <<path, order, active>>
           \/ \E f \in {g \in linked : path[g] = NoDay} :
                /\ Commit(f) /\ active' = active \cup {f}
                /\ lane' = [lane EXCEPT !.req = TRUE]
     \/ /\ Mishap("hold") /\ lane' = [lane EXCEPT !.pc = "done", !.bad = TRUE]
        /\ UNCHANGED <<path, order, active>>
     \/ /\ Mishap("sqlite") /\ lane' = [lane EXCEPT !.pc = "done", !.req = FALSE]
        /\ UNCHANGED <<path, order, active>>
  /\ Worker(<<rows, receipts, linked, closed, told>>)

(* The rest of the refresh: the active reviews are read for the screen.    *)
ReadCases ==
  /\ Going("refresh", "drained")
  /\ \/ Step("done") /\ Smooth
     \/ Mishap("sqlite") /\ lane' = [lane EXCEPT !.pc = "done", !.f = Lost, !.bad = TRUE]
  /\ Worker(<<store>>)

(* retry_operator_review: an intent still in review is sent again.         *)
RetryReview ==
  /\ Going("retry", "start") /\ Smooth /\ Step("done")
  /\ \/ active' = active \ {lane.f}
     \/ UNCHANGED active
  /\ Worker(<<path, order, rows, receipts, linked, closed, told>>)

-----------------------------------------------------------------------------
(* The results on the Tk thread.                                           *)

EndTask ==
  /\ Busy /\ lane.pc = "done"
  /\ kick' = (kick \/ lane.task \in Hooked)
  /\ UNCHANGED <<day, up, asked, path, order, rows, receipts, linked, active, faults>>
Presents == notice' = TRUE /\ told' = (IF notice THEN told ELSE told \cup active)

(* A result of an earlier generation: no callback runs.                    *)
EndStale ==
  /\ EndTask /\ lane.stale /\ lane' = Idle
  /\ UNCHANGED <<closed, told, flags>>

(* _finish_startup_transfer_recovery; a marker that was not projected      *)
(* shows the storage warning.                                              *)
EndRecovery ==
  /\ EndTask /\ ~lane.stale /\ lane.task = "recovery" /\ lane' = Idle
  /\ recovering' = FALSE /\ recov' = lane.bad
  /\ required' = (required \/ lane.req)
  /\ notice' = (notice \/ (lane.bad /\ lane.f # None))
  /\ UNCHANGED <<closed, told, pending, inflight, cases, shown, seen>>

(* _finish_transfer_post_review_refresh: one case that was not presented   *)
(* yet, or else what was required or failed, brings the notice up.         *)
\* Mutant: a required notice is dropped when the replay went well.
EndRefresh_Quiet ==
  /\ EndTask /\ ~lane.stale /\ lane.task = "refresh" /\ lane' = Idle
  /\ inflight' = FALSE /\ cases' = active /\ required' = FALSE
  /\ UNCHANGED <<closed, told, recov, recovering, pending, shown, notice, seen>>
EndRefresh ==
  /\ EndTask /\ ~lane.stale /\ lane.task = "refresh" /\ lane' = Idle
  /\ inflight' = FALSE /\ cases' = IF lane.f = Lost THEN {} ELSE active
  /\ LET new == cases' \ shown
         tell == new # {} \/ lane.req \/ lane.bad
     IN /\ IF tell THEN Presents ELSE UNCHANGED <<notice, told>>
        /\ shown' = IF ~notice THEN shown \cup Newest(new) ELSE shown
        /\ required' = (tell /\ (lane.bad \/ notice))
  /\ UNCHANGED <<closed, recov, recovering, pending, seen>>

(* The completion ends, with a notice when a review is required            *)
(* (tray_completion.py): the case is named when its row was projected.     *)
EndComplete ==
  /\ EndTask /\ ~lane.stale /\ lane.task = "complete" /\ lane' = Idle
  /\ closed' = closed \cup {lane.f}
  /\ IF lane.f \in active
     THEN /\ Presents /\ required' = (required \/ lane.bad)
          /\ shown' = IF lane.bad \/ notice THEN shown ELSE shown \cup {lane.f}
     ELSE UNCHANGED <<notice, told, required, shown>>
  /\ UNCHANGED <<recov, recovering, pending, inflight, cases, seen>>

(* _finish_phs_replacement_waiting_marker: the awaited replacement counts  *)
(* as marked, or the storage warning is shown and nothing is applied.      *)
EndMark ==
  /\ EndTask /\ ~lane.stale /\ lane.task = "mark" /\ lane' = Idle
  /\ seen' = IF lane.bad THEN seen ELSE seen \cup {lane.f}
  /\ notice' = (notice \/ lane.bad)
  /\ UNCHANGED <<closed, told, recov, recovering, pending, inflight, required, cases, shown>>

(* The retry's finish asks for a refresh while its own task holds the lane. *)
EndRetry ==
  /\ EndTask /\ ~lane.stale /\ lane.task = "retry" /\ lane' = Idle
  /\ pending' = TRUE
  /\ UNCHANGED <<closed, told, recov, recovering, inflight, required, cases, shown, notice, seen>>

(* The worker acknowledges the notice.                                     *)
Acknowledge ==
  /\ up /\ ~asked /\ notice /\ notice' = FALSE
  /\ UNCHANGED <<day, up, asked, store, lane, kick, recov, recovering, pending, inflight, required,
                 cases, shown, seen, faults>>

-----------------------------------------------------------------------------
WorkerStep ==
  LinkTray \/ MarkWaiting \/ ReadMarkers \/ ReadReviews \/ ProjectReview \/ ReceiptReview
  \/ ProjectMarker \/ ReceiptMarker \/ DrainSeals \/ ReadCases \/ RetryReview
EndStep == EndStale \/ EndRecovery \/ EndRefresh \/ EndComplete \/ EndMark \/ EndRetry
Next ==
  Login \/ ChangeAsk \/ ChangeWorker \/ Exit \/ Crash \/ Admit \/ ResumeRecovery \/ StartWork
  \/ RetryNone \/ WorkerStep \/ EndStep \/ Acknowledge

Spec == Init /\ [][Next]_vars

(* The threads run, a notice is acknowledged and a worker logs in.         *)
SessionFairness ==
  /\ WF_vars(WorkerStep) /\ WF_vars(EndStep) /\ WF_vars(Admit) /\ WF_vars(Acknowledge)
  /\ WF_vars(Login) /\ WF_vars(ChangeWorker)

(* Besides, the program is closed every day and started again, and the     *)
(* callback of an idle lane does not lose the race with a click every day. *)
AdmitFirst == pending /\ ~inflight /\ ~Busy /\ ~asked /\ Admit
Fairness == SessionFairness /\ SF_vars(Exit) /\ SF_vars(AdmitFirst)

-----------------------------------------------------------------------------
TypeInv ==
  /\ day \in 1..Days /\ path \in [Facts -> 0..Days] /\ receipts \subseteq Facts
  /\ lane.task \in Tasks \cup {None} /\ lane.f \in Facts \cup {None, Lost}
  /\ closed \subseteq linked /\ active \subseteq Reviews /\ seen \subseteq Markers

(* The logs of the PC together hold at most one row of a fact, however     *)
(* often it is marked, replayed or projected (each row is relayed).        *)
RowOnce == \A f \in Facts : \A d, e \in 1..Days : rows[f][d] <= 1 /\ (rows[f][d] + rows[f][e] > 1 => d = e)

(* A receipt proves that the row is in the log its outbox row names: a     *)
(* receipted fact is not replayed any more.                                *)
ReceiptProvesRow == \A f \in receipts : path[f] # NoDay /\ rows[f][path[f]] = 1

(* The label workflow goes on only once the awaited replacement is in the  *)
(* log and receipted.                                                      *)
MarkedIsDurable == seen \subseteq receipts

(* What the outboxes promise: the three properties above, of states of     *)
(* these types.                                                            *)
OutboxSound == TypeInv /\ RowOnce /\ ReceiptProvesRow /\ MarkedIsDurable

(* Every committed fact comes into the log its outbox row names, whatever  *)
(* append, receipt or process fails on the way.                            *)
FactsReported == \A f \in Facts : path[f] # NoDay ~> f \in receipts

(* Every review is settled or the worker has a notice of it.               *)
ReviewsTold == \A f \in Reviews : f \in active ~> (f \in told \/ f \notin active)

=============================================================================
