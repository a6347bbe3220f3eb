------------------------------ MODULE MCFinish ------------------------------
(***************************************************************************)
(* What is begun on the PC ends: the held scans, the handover of a         *)
(* recorded pair, the rows of the event log, of the outboxes and of the    *)
(* relay queue, the closing of the program and an enrollment.  The         *)
(* components share no variable, so one run checks them: `part` is picked  *)
(* at the start, only that component moves, and each property assumes the  *)
(* fairness of its own component.                                          *)
(***************************************************************************)
EXTENDS Naturals, FiniteSets, TLC

CONSTANTS l1, p1, p2, r1, u1, none   \* model values

VARIABLES
  part,
  holdHold, quarantined, tray, trayFile, holdLog, completed, admitted, mem, writer,
  holdLane, ids, holdFaults,
  slot, bad, rec, intents, consumed, app, op, newest, pairFaults,
  gate, fence, fresh, exact, held, adm, sessions, unstaged, logFiles, seq, notices, csv,
  synced, lockf, pc, cur, logged, acked, logFaults,
  day, up, asked, path, order, boxRows, receipts, linked, closed, boxActive, boxLane,
  kick, recov, recovering, pending, inflight, required, cases, shown, notice, seen,
  told, boxFaults,
  relayRows, auth, relayWk, relaySrv, late, paused, relayFaults,
  st, winActive, stopSent, tq, rq, winWk, gen, genOf, tasks, applied, winHold, winLog,
  close, owner, closes, winFaults,
  journal, archived, package, authFile, enrollFiles, report, enrollSrv, run, fails, ends

Hold == INSTANCE PreflightHold WITH
  Labels <- {l1}, NoLabel <- none, Codes <- {p1, p2}, NoCode <- none, BadCodes <- {p2},
  TraySize <- 1, HoldCapacity <- 2, WriterCapacity <- 2, WaitingLimit <- 1,
  MaxHolds <- 1, FaultKinds <- {"server"}, MaxFaults <- 2, hold <- holdHold,
  log <- holdLog, lane <- holdLane, faults <- holdFaults
Pair == INSTANCE PairedHandoff WITH
  MaxVersions <- 2, MaxKeys <- 3, FaultKinds <- {"cancel", "verify", "refused", "audit"},
  MaxFaults <- 2, faults <- pairFaults
Log == INSTANCE EventLog WITH
  Main <- "main", Logger <- "logger", Tool <- "tool",
  Threads <- {"main", "logger", "tool"}, Sources <- {"catalog"}, MaxClock <- 0,
  MaxSessions <- 1, MaxEntries <- 1,
  FaultKinds <- {"dies", "disk", "kill", "power", "slow"}, MaxFaults <- 1,
  files <- logFiles, faults <- logFaults
Box == INSTANCE ReviewOutbox WITH
  Reviews <- {r1}, Markers <- {}, Days <- 2,
  FaultKinds <- {"crash", "append", "sqlite", "hold"}, MaxFaults <- 1, rows <- boxRows,
  active <- boxActive, lane <- boxLane, faults <- boxFaults
Relay == INSTANCE RelayQueue WITH
  Rows <- {1, 2}, NoRow <- 0, BadRows <- {}, DirtyRows <- {2}, ClientMode <- "enforce",
  ServerMode <- "observe", MaxKeys <- 4, Workers <- {u1}, Migrated <- {},
  MaxAttempts <- 3, FaultKinds <- {"network", "crash", "lapse", "pause", "slow"},
  MaxFaults <- 2, rows <- relayRows, wk <- relayWk, srv <- relaySrv,
  faults <- relayFaults
Win == INSTANCE AppClose WITH
  MaxTasks <- 2, MaxGens <- 1, MaxJoins <- 2, MaxCloses <- 1, FaultKinds <- {"callback",
  "flush", "session", "slow", "slowlog", "stage"}, MaxFaults <- 2, active <- winActive,
  wk <- winWk, hold <- winHold, log <- winLog, faults <- winFaults
Enroll == INSTANCE Enrollment WITH
  Modes <- {"two"}, Fresh <- FALSE, MaxAuths <- 2, MaxFails <- 3, MaxEnds <- 1,
  PromptPrepare <- TRUE, files <- enrollFiles, srv <- enrollSrv

holdVars == <<holdHold, quarantined, tray, trayFile, holdLog, completed, admitted, mem,
              writer, holdLane, ids, holdFaults>>
pairVars == <<slot, bad, rec, intents, consumed, app, op, newest, pairFaults>>
logVars == <<gate, fence, fresh, exact, held, adm, sessions, unstaged, logFiles, seq,
             notices, csv, synced, lockf, pc, cur, logged, acked, logFaults>>
boxVars == <<day, up, asked, path, order, boxRows, receipts, linked, closed, boxActive,
             boxLane, kick, recov, recovering, pending, inflight, required, cases,
             shown, notice, seen, told, boxFaults>>
relayVars == <<relayRows, auth, relayWk, relaySrv, late, paused, relayFaults>>
winVars == <<st, winActive, stopSent, tq, rq, winWk, gen, genOf, tasks, applied,
             winHold, winLog, close, owner, closes, winFaults>>
enrollVars == <<journal, archived, package, authFile, enrollFiles, report, enrollSrv,
                run, fails, ends>>
vars == <<part, holdVars, pairVars, logVars, boxVars, relayVars, winVars, enrollVars>>

ASSUME Hold!HoldAssumption /\ Pair!PairedAssumption /\ Log!FenceAssumption /\ Log!LogAssumption
       /\ Box!OutboxAssumption /\ Relay!AuthorityAssumption /\ Relay!QueueAssumption /\
       Win!CloseAssumption /\ Enroll!EnrollmentAssumption

Init ==
  /\ part \in {"hold", "pair", "log", "outbox", "relay", "close", "enroll"}
  /\ Hold!Init
  /\ Pair!Init
  /\ Log!Init
  /\ Box!Init
  /\ Relay!Init
  /\ Win!Init
  /\ Enroll!Init

(* A step of the part that was picked; the others stay as they begin.      *)
HoldStep == part = "hold" /\ Hold!Next /\ UNCHANGED <<part, pairVars, logVars, boxVars,
            relayVars, winVars, enrollVars>>
PairStep == part = "pair" /\ Pair!Next /\ UNCHANGED <<part, holdVars, logVars, boxVars,
            relayVars, winVars, enrollVars>>
LogStep == part = "log" /\ Log!Next /\ UNCHANGED <<part, holdVars, pairVars, boxVars,
           relayVars, winVars, enrollVars>>
BoxStep == part = "outbox" /\ Box!Next /\ UNCHANGED <<part, holdVars, pairVars, logVars,
           relayVars, winVars, enrollVars>>
RelayStep == part = "relay" /\ Relay!Next /\ UNCHANGED <<part, holdVars, pairVars,
             logVars, boxVars, winVars, enrollVars>>
WinStep == part = "close" /\ Win!Next /\ UNCHANGED <<part, holdVars, pairVars, logVars,
           boxVars, relayVars, enrollVars>>
EnrollStep == part = "enroll" /\ Enroll!Next /\ UNCHANGED <<part, holdVars, pairVars,
              logVars, boxVars, relayVars, winVars>>

Next == HoldStep \/ PairStep \/ LogStep \/ BoxStep \/ RelayStep \/ WinStep \/ EnrollStep
Spec == Init /\ [][Next]_vars

------------------------------------------------------------------------------
(* A scan the hold has accepted is judged in the end or waits in the       *)
(* supervisor's list (preflight_scan_hold.py and its drain in the window), *)
(* and a recorded pair is handed over or its record replaced               *)
(* (paired_preflight_handoff.py).                                          *)
HeldSettles ==
  /\ Hold!Fairness => Hold!AcceptedSettles
  /\ Pair!Fairness => Pair!HandoffEnds

(* An event that was reported as written becomes a row of the log, every   *)
(* committed fact of the outboxes comes into the log its row names, and a  *)
(* review is settled or told to the worker (event_log_store.py,            *)
(* transfer_store.py).                                                     *)
FactsReported ==
  /\ Log!Fairness => Log!Projected
  /\ Box!Fairness => Box!FactsReported /\ Box!ReviewsTold

(* A queued row is acknowledged, failed or in an operator's hands in the   *)
(* end, whichever claims expire on the way (run_persistent_relay_loop).    *)
RowsSettle == Relay!Fairness => Relay!RowsSettle

(* A request to close ends, an admitted task is applied and a worker that  *)
(* waits for the Tk thread is released, unless the lane broke (on_closing, *)
(* tk_serial_ui_lane.py).                                                  *)
CloseEnds == Win!Fairness => Win!CloseEnds /\ Win!TasksEnd /\ Win!WaiterReleased

(* The generation the server has switched to becomes the PC's own, and a   *)
(* recovery whose intent is durable ends                                   *)
(* (register_container_audit_worker_pc.py).                                *)
EnrollmentEnds == Enroll!Fairness => Enroll!CommittedActivated /\ Enroll!RecoveryEnds
==============================================================================
