------------------------------ MODULE EventLog ------------------------------
(***************************************************************************)
(* The event log (event_log_store.py, _log_event and the log thread of     *)
(* Container_Audit.py): an entry is staged as a file of the outbox, which  *)
(* is drained into the CSV file and then removed, or is appended at once.  *)
(* Every write is admitted by the gate of WriterFence; the CSV file has a  *)
(* lock file of its own.  Rows of one key are written once.                *)
(***************************************************************************)
EXTENDS WriterFence, Sequences, SequencesExt

CONSTANTS
  Main, Logger,             \* the threads of the program
  MaxEntries, MaxClock,     \* entries logged and readings of the clock (bounds)
  FaultKinds, MaxFaults

LogAssumption ==
  /\ Threads = {Main, Logger, Tool} /\ Cardinality(Threads) = 3
  /\ MaxEntries \in Nat \ {0} /\ MaxClock \in Nat

VARIABLES
  unstaged, files, seq, \* the outbox: in memory, on disk, its last number
  notices,              \* unfinished items of log_queue
  csv, synced,          \* the rows, and how many of them reached the disk
  lockf,                \* the lock file
  pc, cur,              \* each thread, and the entry it appends
  logged, acked,        \* entries logged, and those reported as written
  faults

boxVars == <<unstaged, files, seq, notices>>
rowVars == <<csv, synced, lockf>>
vars == <<fenceVars, boxVars, rowVars, pc, cur, logged, acked, faults>>

Program == {Main, Logger}
Entries == 1..MaxEntries
None == [e |-> 0, n |-> 0]
HeaderTorn == 0      \* a row of the file that nobody can read
Torn == MaxEntries + 1
Junk == MaxEntries + 2

Init ==
  /\ FenceInit
  /\ unstaged = <<>> /\ files = {} /\ seq = 0 /\ notices = 0
  /\ csv = <<>> /\ synced = 0 /\ lockf = "none"
  /\ pc = [t \in Program |-> "idle"] /\ cur = [t \in Program |-> None]
  /\ logged = 0 /\ acked = {} /\ faults = 0

Mishap(kind) == kind \in FaultKinds /\ faults < MaxFaults /\ faults' = faults + 1
Smooth == faults' = faults
Goto(t, l) == pc' = [pc EXCEPT ![t] = l]
Turned(t, src) ==
  /\ \/ Denied(t, src) /\ Smooth
     \/ TimedOut(t) /\ Mishap("slow")
  /\ Refuse(t)
FenceStays == UNCHANGED <<fence, fresh, exact, held, sessions>>

-----------------------------------------------------------------------------
(* The outbox.                                                             *)

Names == {f.n : f \in files}
MaxOf(S) == CHOOSE x \in S \cup {0} : \A y \in S \cup {0} : y <= x
Name(now) == MaxOf({seq + 1, now})

(* stage: the entry is kept in memory before it is admitted.               *)
stage ==
  /\ pc[Main] = "idle" /\ logged < MaxEntries /\ logged' = logged + 1
  /\ unstaged' = Append(unstaged, logged')
  /\ Goto(Main, "stage") /\ cur' = [cur EXCEPT ![Main] = [e |-> logged', n |-> 0]]
  /\ UNCHANGED <<fenceVars, files, seq, notices, rowVars, acked, faults>>
StageEnter ==
  /\ pc[Main] = "stage"
  /\ \/ Admitted(Main, "event_outbox_stage") /\ Enter(Main) /\ Smooth /\ Goto(Main, "staging")
     \/ Turned(Main, "event_outbox_stage") /\ Goto(Main, "idle")
  /\ FenceStays /\ UNCHANGED <<boxVars, rowVars, cur, logged, acked>>
(* One file of _persist_unstaged, also at the head of drain.               *)
_persist_unstaged(t) ==
  /\ pc[t] \in {"staging", "drain"} /\ unstaged # <<>>
  /\ \/ /\ Smooth /\ \E now \in 0..MaxClock : seq' = Name(now)
        /\ files' = files \cup {[e |-> Head(unstaged), n |-> seq']} /\ unstaged' = Tail(unstaged)
        /\ UNCHANGED <<pc, gate, adm>>
     \/ /\ Mishap("disk") /\ Leave(t) /\ Goto(t, IF t = Main THEN "idle" ELSE "done")
        /\ UNCHANGED <<files, seq, unstaged>>
  /\ FenceStays /\ UNCHANGED <<notices, rowVars, cur, logged, acked>>
Staged ==
  /\ pc[Main] = "staging" /\ unstaged = <<>> /\ Leave(Main) /\ Goto(Main, "idle")
  /\ acked' = acked \cup {cur[Main].e} /\ notices' = notices + 1
  /\ FenceStays /\ UNCHANGED <<unstaged, files, seq, rowVars, cur, logged, faults>>

(* The log thread wakes for an item or every second.                       *)
_event_log_writer ==
  /\ pc[Logger] = "idle" /\ (notices > 0 \/ unstaged # <<>> \/ files # {}) /\ Goto(Logger, "flush")
  /\ UNCHANGED <<fenceVars, boxVars, rowVars, cur, logged, acked, faults>>
task_done ==
  /\ pc[Logger] = "done" /\ Goto(Logger, "idle")
  /\ notices' = IF notices > 0 THEN notices - 1 ELSE 0
  /\ UNCHANGED <<fenceVars, unstaged, files, seq, rowVars, cur, logged, acked, faults>>

(* A synchronous entry waits for the queue, drains the outbox and appends  *)
(* its row; one that failed is logged again.                               *)
LogSync ==
  /\ pc[Main] = "idle"
  /\ \/ logged < MaxEntries /\ logged' = logged + 1 /\ cur' = [cur EXCEPT ![Main] = [e |-> logged', n |-> 0]]
     \/ /\ cur[Main] # None /\ cur[Main].e \notin acked \cup ToSet(unstaged) \cup {f.e : f \in files}
        /\ UNCHANGED <<logged, cur>>
  /\ Goto(Main, "join")
  /\ UNCHANGED <<fenceVars, boxVars, rowVars, acked, faults>>
QueueJoined ==
  /\ pc[Main] = "join" /\ notices = 0 /\ Goto(Main, "flush")
  /\ UNCHANGED <<fenceVars, boxVars, rowVars, cur, logged, acked, faults>>

Failed(t) == IF t = Main THEN "idle" ELSE "done"

DrainEnter(t) ==
  /\ pc[t] = "flush"
  /\ \/ Admitted(t, "event_outbox_project") /\ Enter(t) /\ Smooth /\ Goto(t, "drain")
     \/ Turned(t, "event_outbox_project") /\ Goto(t, Failed(t))
  /\ FenceStays /\ UNCHANGED <<boxVars, rowVars, cur, logged, acked>>
DrainDone(t) ==
  /\ pc[t] = "drain" /\ unstaged = <<>> /\ files = {} /\ Leave(t)
  /\ Goto(t, IF t = Main THEN "append" ELSE "done")
  /\ FenceStays /\ UNCHANGED <<boxVars, rowVars, cur, logged, acked, faults>>
AppendEnter ==
  /\ pc[Main] = "append"
  /\ \/ Admitted(Main, "event_csv") /\ Enter(Main) /\ Smooth /\ Goto(Main, "lock")
     \/ Turned(Main, "event_csv") /\ Goto(Main, "idle")
  /\ FenceStays /\ UNCHANGED <<boxVars, rowVars, cur, logged, acked>>

(* Drain takes the oldest file; its row is appended under the lock file.   *)
Appending(t) ==
  \/ pc[t] = "drain" /\ unstaged = <<>> /\ files # {}
  \/ pc[t] = "lock"
_interprocess_file_lock(t) ==
  /\ Appending(t)
  /\ \/ lockf # "left" /\ lockf' = "held" /\ Goto(t, IF pc[t] = "drain" THEN "row" ELSE "own")
        /\ UNCHANGED <<gate, adm>>
     \/ lockf = "left" /\ Leave(t) /\ Goto(t, Failed(t)) /\ UNCHANGED lockf
  /\ FenceStays /\ UNCHANGED <<boxVars, csv, synced, cur, logged, acked, faults>>

Oldest == CHOOSE f \in files : \A g \in files : f.n <= g.n
RowOf(t) == IF pc[t] = "row" THEN Oldest ELSE [e |-> cur[t].e, n |-> 0]
(* A row after a torn one is part of it.                                   *)
Appended(e) == IF csv # <<>> /\ Last(csv) = Torn THEN [csv EXCEPT ![Len(csv)] = Junk] ELSE Append(csv, e)
Known(e) == e \in ToSet(csv)
append_event_log_entry_idempotent(t) ==
  /\ pc[t] \in {"row", "own"}
  /\ \/ /\ HeaderTorn \in ToSet(csv) /\ lockf' = "none" /\ Leave(t) /\ Goto(t, Failed(t))
        /\ UNCHANGED csv
     \/ /\ HeaderTorn \notin ToSet(csv)
        /\ csv' = IF Known(RowOf(t).e) THEN csv ELSE Appended(RowOf(t).e)
        /\ Goto(t, IF pc[t] = "row" THEN "fsync" ELSE "own_fsync") /\ UNCHANGED <<lockf, gate, adm>>
  /\ FenceStays /\ UNCHANGED <<boxVars, synced, cur, logged, acked, faults>>
(* Mutant: the file goes before its row is on the disk.                    *)
Fsync_Not == synced' = synced
Fsync == synced' = Len(csv)
fsync(t) ==
  /\ pc[t] \in {"fsync", "own_fsync"} /\ lockf' = "none"
  /\ \/ /\ Smooth /\ Fsync
        /\ IF pc[t] = "fsync" THEN Goto(t, "unlink") /\ UNCHANGED <<acked, gate, adm>>
                              ELSE Goto(t, "idle") /\ acked' = acked \cup {cur[t].e} /\ Leave(t)
     \/ /\ Mishap("disk") /\ UNCHANGED <<synced, acked>> /\ Leave(t) /\ Goto(t, Failed(t))
  /\ FenceStays /\ UNCHANGED <<boxVars, csv, cur, logged>>
unlink(t) ==
  /\ pc[t] = "unlink" /\ Goto(t, "drain")
  /\ files' = files \ {Oldest}
  /\ UNCHANGED <<fenceVars, unstaged, seq, notices, rowVars, cur, logged, acked, faults>>

-----------------------------------------------------------------------------
(* The ends of the program.                                                *)

Restarted ==
  /\ unstaged' = <<>> /\ notices' = 0 /\ seq' = MaxOf(Names)
  /\ pc' = [t \in Program |-> "idle"] /\ cur' = [t \in Program |-> None]
  /\ lockf' = IF lockf = "held" THEN "left" ELSE lockf
  /\ UNCHANGED <<files, logged, acked>>
Kill ==
  /\ Mishap("kill") /\ Restarted /\ Abandoned(Program)
  /\ FenceStays /\ UNCHANGED <<csv, synced>>
(* The machine goes down: rows that are not on the disk are lost, and the  *)
(* first of them may be torn.                                              *)
PowerLoss ==
  /\ Mishap("power") /\ Restarted
  /\ gate' = "free" /\ adm' = [t \in Threads |-> Outside] /\ held' = FALSE
  /\ \/ \E k \in synced..Len(csv) : csv' = SubSeq(csv, 1, k)
     \/ /\ "tear" \in FaultKinds /\ Len(csv) > synced
        /\ csv' = Append(SubSeq(csv, 1, synced), IF synced = 0 THEN HeaderTorn ELSE Torn)
  /\ synced' = Len(csv')
  /\ UNCHANGED <<fence, fresh, exact, sessions>>
(* The lock file that a dead process left is removed after five minutes.   *)
LockStale ==
  /\ lockf = "left" /\ lockf' = "none"
  /\ UNCHANGED <<fenceVars, boxVars, csv, synced, pc, cur, logged, acked, faults>>

Step(t) ==
  \/ _persist_unstaged(t) \/ DrainEnter(t) \/ DrainDone(t) \/ _interprocess_file_lock(t)
  \/ append_event_log_entry_idempotent(t) \/ fsync(t) \/ unlink(t)
MainNext == stage \/ StageEnter \/ Staged \/ LogSync \/ QueueJoined \/ AppendEnter \/ Step(Main)
LoggerNext == _event_log_writer \/ task_done \/ Step(Logger)
Apart == UNCHANGED <<boxVars, rowVars, pc, cur, logged, acked>>
Rest == Apart /\ Smooth
Deploy == FenceNext /\ Rest
Dies ==
  /\ FenceDies /\ Apart
  /\ IF exact' = exact THEN Mishap("dies") ELSE Mishap("receipt")

Next == MainNext \/ LoggerNext \/ Kill \/ PowerLoss \/ LockStale \/ Deploy \/ Dies

Spec == Init /\ [][Next]_vars

-----------------------------------------------------------------------------
(* Properties.                                                             *)

LogTypeOK ==
  /\ FenceTypeOK /\ lockf \in {"none", "held", "left"} /\ synced \in 0..Len(csv)
  /\ \A t \in Program : gate = t <=>
       pc[t] \in {"staging", "drain", "lock", "row", "own", "fsync", "own_fsync", "unlink"}

(* An entry is one row of the CSV file, whatever was retried.              *)
RowsOnce == \A i, j \in 1..Len(csv) : csv[i] = csv[j] /\ csv[i] \in Entries => i = j

(* What was reported as written is on the disk, as a row or as a file of   *)
(* the outbox.                                                             *)
KeptUntilDurable ==
  \A e \in acked : (\E f \in files : f.e = e) \/ \E i \in 1..synced : csv[i] = e

(* The rows are in the order of the log calls.                             *)
InOrder == \A i, j \in 1..Len(csv) : i < j /\ {csv[i], csv[j]} \subseteq Entries => csv[i] < csv[j]

(* What was reported as written becomes a row.                             *)
Projected == \A e \in Entries : e \in acked ~> e \in ToSet(csv)

(* The threads run and the log thread gets its turn at the gate, the lock  *)
(* file ages, and a session is finished.                                   *)
Fairness ==
  /\ WF_vars(Step(Main)) /\ WF_vars(StageEnter) /\ WF_vars(Staged) /\ WF_vars(QueueJoined)
  /\ WF_vars(AppendEnter) /\ WF_vars(_event_log_writer) /\ WF_vars(task_done)
  /\ WF_vars(Step(Logger)) /\ SF_vars(DrainEnter(Logger)) /\ WF_vars(LockStale)
  /\ WF_vars(ToolLeave /\ Rest) /\ SF_vars(ToolLeave /\ adm[Tool].depth = 1 /\ Rest)
  /\ SF_vars(Release /\ Rest) /\ WF_vars(Resume /\ Rest)
=============================================================================
