-------------------------------- MODULE Push --------------------------------
(***************************************************************************)
(* The pushing of records to the server: the relay queue and the scan of   *)
(* the source file that fills it.  They share no variable, so one run      *)
(* checks both: `part` is picked at the start, and only that component     *)
(* moves.  The queue is there with two processes, with a server that       *)
(* refuses (and a cloned profile, a damaged spool, the operator) and with  *)
(* a server that knows no tokens; the scan, which keeps its own names,     *)
(* with runners that overlap on a file that grows, with runners that take  *)
(* turns on a file that is also replaced, and with such runners on a file  *)
(* that only grows while no spooled copy is damaged.                       *)
(***************************************************************************)
EXTENDS DeltaScan, TLC

CONSTANTS
  u1, u2,     \* model values
  ShortLen, GrowsFaults, ReplacedFaults
              \* where runners overlap or the file is replaced: lines and mishaps (bounds)

VARIABLES
  part,
  relayRows, auth, wk, srv, late, paused, relayFaults

Shared == INSTANCE RelayQueue WITH
  Rows <- {1, 2}, NoRow <- 0, MaxAttempts <- 3, BadRows <- {}, DirtyRows <- {2},
  ClientMode <- "enforce", ServerMode <- "observe", MaxKeys <- 3, Workers <- {u1, u2},
  Migrated <- {}, FaultKinds <- {"slow", "network", "crash", "lapse", "margin",
  "pause"}, MaxFaults <- 2, rows <- relayRows, faults <- relayFaults
Refused == INSTANCE RelayQueue WITH
  Rows <- {1, 2}, NoRow <- 0, MaxAttempts <- 3, BadRows <- {1}, DirtyRows <- {},
  ClientMode <- "enforce", ServerMode <- "enforce", MaxKeys <- 4, Workers <- {u1},
  Migrated <- {}, FaultKinds <- {"exception", "spool", "operator", "clone", "lapse",
  "network", "pause", "denied", "credentials"}, MaxFaults <- 3, rows <- relayRows, faults <- relayFaults
Legacy == INSTANCE RelayQueue WITH
  Rows <- {1, 2}, NoRow <- 0, MaxAttempts <- 3, BadRows <- {}, DirtyRows <- {},
  ClientMode <- "observe", ServerMode <- "ignore", MaxKeys <- 3, Workers <- {u1, u2},
  Migrated <- {1}, FaultKinds <- {"slow", "network", "crash", "spool", "exception"},
  MaxFaults <- 2, rows <- relayRows, faults <- relayFaults
relayVars == <<relayRows, auth, wk, srv, late, paused, relayFaults>>
pushVars == <<part, relayVars, vars>>

ASSUME PushAssumption ==
       Shared!AuthorityAssumption /\ Shared!QueueAssumption /\ Refused!AuthorityAssumption /\
       Refused!QueueAssumption /\ Legacy!AuthorityAssumption /\ Legacy!QueueAssumption
       /\ ScanAssumption

PushInit ==
  /\ part \in {"shared", "refused", "legacy", "grows", "replaced", "once"}
  /\ \/ part \notin {"refused", "legacy"} /\ Shared!Init
     \/ part = "refused" /\ Refused!Init
     \/ part = "legacy" /\ Legacy!Init
  /\ Init

(* A pass of a runner ends before another begins.                          *)
TakeTurns == \A v, w \in Runners : run[v].pc # "idle" /\ run[w].pc # "idle" => v = w

(* A step of the part that was picked; the others stay as they begin.      *)
SharedStep == part = "shared" /\ Shared!Next /\ UNCHANGED <<part, vars>>
RefusedStep == part = "refused" /\ Refused!Next /\ UNCHANGED <<part, vars>>
LegacyStep == part = "legacy" /\ Legacy!Next /\ UNCHANGED <<part, vars>>
GrowsStep == /\ part = "grows" /\ Next /\ file'.gen = file.gen
             /\ file'.len <= ShortLen /\ faults' <= GrowsFaults
             /\ UNCHANGED <<part, relayVars>>
ReplacedStep == /\ part = "replaced" /\ Next /\ TakeTurns'
                /\ file'.len <= ShortLen /\ faults' <= ReplacedFaults
                /\ UNCHANGED <<part, relayVars>>
OnceStep == /\ part = "once" /\ Next /\ file'.gen = file.gen /\ TakeTurns' /\ bad' = {}
            /\ UNCHANGED <<part, relayVars>>

PushNext == SharedStep \/ RefusedStep \/ LegacyStep \/ GrowsStep \/ ReplacedStep \/ OnceStep
PushSpec == PushInit /\ [][PushNext]_pushVars

------------------------------------------------------------------------------
(* A row of the relay queue (direct_sync_push.py) has one claimant, keeps  *)
(* its reserved token until the answer, is never refused as a clone of     *)
(* itself, and is recorded as stored only when the server has it; a token  *)
(* has one user; a row sent again is the row sent before; and what the     *)
(* server has acknowledged stays so.                                       *)
RelaySound ==
  /\ [](part = "shared" => Shared!RelayTypeOK /\ Shared!OneClaimant /\ Shared!ReservationIntact
                            /\ Shared!NoSelfClone /\ Shared!AckedIsCommitted)
  /\ [](part = "refused" => Refused!AckedIsCommitted /\ Refused!TokenHasOneUser)
  /\ [](part = "legacy" => Legacy!ReplayIsExact)
  /\ Shared!AckedStays

(* No line of a file is left out between two deltas, whatever of it was    *)
(* queued, refused, lost or replaced in between (_build_delta_source_file),*)
(* and runners that take turns on a file that only grows queue no line     *)
(* twice.                                                                  *)
EachLineOnce == ScanTypeOK /\ NoGap /\ (part = "once" => OnceEach)

Symmetric == Permutations({u1, u2})
==============================================================================
