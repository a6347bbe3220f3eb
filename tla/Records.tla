------------------------------- MODULE Records -------------------------------
(***************************************************************************)
(* What is written down on the PC: the paired handoff, the evidence it     *)
(* leaves, the event log under its fence, the outbox of reviews, and the   *)
(* closing of the program.  They share no variable, so one run checks      *)
(* them: `part` is picked at the start, and only that component moves.     *)
(* The evidence is there also with damage that can be mended, the log with *)
(* a maintenance session and, with torn lines, without one.                *)
(***************************************************************************)
EXTENDS Naturals, FiniteSets, TLC

CONSTANTS
  MaxVersions, MaxKeys, PairFaultKinds, MaxPairFaults,       \* of the paired handoff
  Reviews, Markers, Days, BoxFaultKinds, MaxBoxFaults,       \* of the outbox
  MaxTasks, MaxGens, MaxJoins, MaxCloses, WinFaultKinds, MaxWinFaults   \* of closing

VARIABLES
  part,
  pairSlot, bad, rec, intents, consumed, pairApp, pairOp, newest, pairFaults,
  file, copies, broken, proofHeld, proofAsked, bound, proofSlot, proofApp, proofOp,
  proofFaults,
  gate, fence, fresh, exact, logHeld, adm, sessions, unstaged, files, seq, notices, csv,
  synced, lockf, pc, cur, logged, acked, logFaults,
  day, up, boxAsked, path, order, rows, receipts, linked, closed, boxActive, lane, kick,
  recov, recovering, pending, inflight, required, cases, shown, notice, seen, told,
  boxFaults,
  st, winActive, stopSent, tq, rq, wk, gen, genOf, tasks, applied, hold, log, close,
  owner, closes, winFaults

(* Damage after which the record can still be read as a file, and that     *)
(* leaves the supervisor's own holds alone.                                *)
Mendable == ({"record", "hold", "current", "released", "audit", "stale", "copy"} \X {"bad"})
              \cup ({"hold", "current", "released"} \X {"none"})

Pair == INSTANCE PairedHandoff WITH
  FaultKinds <- PairFaultKinds, MaxFaults <- MaxPairFaults, slot <- pairSlot,
  app <- pairApp, op <- pairOp, faults <- pairFaults
Proof == INSTANCE RecoveryEvidence WITH
  Damages <- ({"record", "hold", "current", "released", "audit", "stale", "staleMgr",
  "manager"} \X {"bad", "none"}) \cup {<<"copy", "bad">>}, Stale <- TRUE,
  SameLogFile <- TRUE, FaultKinds <- {"quarantine", "copy", "audit", "refused",
  "central", "damage", "touch", "crash"}, MaxFaults <- 4, held <- proofHeld,
  asked <- proofAsked, slot <- proofSlot, app <- proofApp, op <- proofOp,
  faults <- proofFaults
Mended == INSTANCE RecoveryEvidence WITH
  Damages <- Mendable, Stale <- TRUE, SameLogFile <- FALSE,
  FaultKinds <- {"quarantine", "audit", "damage", "touch"}, MaxFaults <- 2,
  held <- proofHeld, asked <- proofAsked, slot <- proofSlot, app <- proofApp,
  op <- proofOp, faults <- proofFaults
Log == INSTANCE EventLog WITH
  Main <- "main", Logger <- "logger", Tool <- "tool",
  Threads <- {"main", "logger", "tool"}, Sources <- {"catalog"}, MaxClock <- 2,
  MaxSessions <- 1, MaxEntries <- 2,
  FaultKinds <- {"dies", "disk", "kill", "power", "receipt", "slow"}, MaxFaults <- 2,
  held <- logHeld, faults <- logFaults
Torn == INSTANCE EventLog WITH
  Main <- "main", Logger <- "logger", Tool <- "tool",
  Threads <- {"main", "logger", "tool"}, Sources <- {"catalog"}, MaxClock <- 2,
  MaxSessions <- 0, MaxEntries <- 3, FaultKinds <- {"disk", "kill", "power", "tear"},
  MaxFaults <- 2, held <- logHeld, faults <- logFaults
Box == INSTANCE ReviewOutbox WITH
  FaultKinds <- BoxFaultKinds, MaxFaults <- MaxBoxFaults, asked <- boxAsked, active <- boxActive, faults <- boxFaults
Win == INSTANCE AppClose WITH
  FaultKinds <- WinFaultKinds, MaxFaults <- MaxWinFaults, active <- winActive,
  faults <- winFaults

pairVars == <<pairSlot, bad, rec, intents, consumed, pairApp, pairOp, newest,
              pairFaults>>
proofVars == <<file, copies, broken, proofHeld, proofAsked, bound, proofSlot, proofApp,
               proofOp, proofFaults>>
logVars == <<gate, fence, fresh, exact, logHeld, adm, sessions, unstaged, files, seq,
             notices, csv, synced, lockf, pc, cur, logged, acked, logFaults>>
boxVars == <<day, up, boxAsked, path, order, rows, receipts, linked, closed, boxActive,
             lane, kick, recov, recovering, pending, inflight, required, cases, shown,
             notice, seen, told, boxFaults>>
winVars == <<st, winActive, stopSent, tq, rq, wk, gen, genOf, tasks, applied, hold, log,
             close, owner, closes, winFaults>>
vars == <<part, pairVars, proofVars, logVars, boxVars, winVars>>

ASSUME RecordsAssumption ==
  Pair!PairedAssumption /\ Proof!EvidenceAssumption /\ Mended!EvidenceAssumption /\
       Log!FenceAssumption /\ Log!LogAssumption /\ Torn!FenceAssumption /\
       Torn!LogAssumption /\ Box!OutboxAssumption /\ Win!CloseAssumption

Init ==
  /\ part \in {"pair", "evidence", "mended", "log", "torn", "outbox", "close"}
  /\ Pair!Init
  /\ \/ part \notin {"mended"} /\ Proof!Init
     \/ part = "mended" /\ Mended!Init
  /\ \/ part \notin {"torn"} /\ Log!Init
     \/ part = "torn" /\ Torn!Init
  /\ Box!Init
  /\ Win!Init

(* A step of the part that was picked; the others stay as they begin.      *)
PairStep == part = "pair" /\ Pair!Next /\ UNCHANGED <<part, proofVars, logVars, boxVars,
            winVars>>
ProofStep == part = "evidence" /\ Proof!Next /\ UNCHANGED <<part, pairVars, logVars,
             boxVars, winVars>>
MendedStep == part = "mended" /\ Mended!Next /\ UNCHANGED <<part, pairVars, logVars,
              boxVars, winVars>>
LogStep == part = "log" /\ Log!Next /\ UNCHANGED <<part, pairVars, proofVars, boxVars,
           winVars>>
TornStep == part = "torn" /\ Torn!Next /\ UNCHANGED <<part, pairVars, proofVars,
            boxVars, winVars>>
BoxStep == part = "outbox" /\ Box!Next /\ UNCHANGED <<part, pairVars, proofVars,
           logVars, winVars>>
WinStep == part = "close" /\ Win!Next /\ UNCHANGED <<part, pairVars, proofVars, logVars,
           boxVars>>

Next == PairStep \/ ProofStep \/ MendedStep \/ LogStep \/ TornStep \/ BoxStep \/ WinStep
Spec == Init /\ [][Next]_vars

------------------------------------------------------------------------------
(* The originals of a recorded pair (paired_preflight_handoff.py) are each *)
(* kept somewhere, the pair is released once and only under a consumed     *)
(* PIN, and a released tray is not worked on.                              *)
PairKept == part = "pair" =>
  /\ Pair!PairTypeOK /\ Pair!OriginalsKept /\ Pair!ReleasedUnderKey
  /\ Pair!AppliedOnce /\ Pair!ReleasedNotWorked

(* Whatever is damaged or removed of a handed-over pair, its two labels    *)
(* stay barred (enumerate_key_evidence), other labels once let in are not  *)
(* shut out again while the program runs without new damage, and a current *)
(* file that changes while it is put away is kept in each of its versions. *)
EvidenceKept ==
  /\ [](part = "evidence" => Proof!EvidenceTypeOK /\ Proof!LabelsStayBarred)
  /\ [][part = "mended" => Mended!NoRelock]_proofVars
  /\ Proof!BothVersionsKept /\ Proof!NothingLost

(* Nothing is written while a maintenance session holds the fence, an      *)
(* event accepted for the log is kept until its row is durable, a row is   *)
(* there once and in the order of the events, and the fence is lent only   *)
(* to a living process (event_log_store.py, writer_session_fence.py).      *)
LogKept ==
  /\ [](part = "log" => Log!LogTypeOK /\ Log!FencedOut /\ Log!KeptUntilDurable)
  /\ [](part = "torn" => Torn!RowsOnce /\ Torn!InOrder)
  /\ Log!DelegatedAlive

(* A fact of the outboxes (transfer_store.py record_error,                 *)
(* mark_phs_replacement_waiting) has one row in the logs of all days, a    *)
(* receipt proves a row that is there, and what is told to the worker as   *)
(* recorded is durable.                                                    *)
OutboxSound == part = "outbox" => Box!OutboxSound

(* The window is destroyed only when lane and hold writer have ended and   *)
(* every admitted task is applied (on_closing), one task runs at a time    *)
(* (tk_serial_ui_lane.py), and a result for an earlier tray is not applied.*)
ClosedDrained ==
  [](part = "close" => Win!CloseTypeOK /\ Win!OneTaskAtATime /\ Win!DrainedBeforeDestroy) /\ Win!FreshResults
==============================================================================
