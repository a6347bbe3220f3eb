----------------------------- MODULE DeltaScan -----------------------------
(***************************************************************************)
(* The relay runner's scan of one event file                               *)
(* (tools/direct_sync_relay_runner.py): the part of a growing CSV file     *)
(* that no earlier delta carries becomes a new row of the relay queue.     *)
(*                                                                         *)
(* Positions are counted in complete lines.  What is queued and what is    *)
(* acknowledged is read back from the rows whose content still matches the *)
(* file; a cursor with the hash of the prefix it stands for remembers the  *)
(* acknowledged part.  Two runners may scan at once, the file may be       *)
(* replaced, and what happens to a row is RelayQueue's business.  A hash   *)
(* of the first n lines is the file's generation with n.                   *)
(***************************************************************************)
EXTENDS Naturals, FiniteSets, FiniteSetsExt

CONSTANTS
  Runners,      \* the session's runner and the persistent one
  MaxLen,       \* lines of a file (bound)
  MaxGen,       \* replacements of the file, plus one (bound)
  FaultKinds, MaxFaults

ScanAssumption ==
  /\ IsFiniteSet(Runners)
  /\ MaxLen \in Nat \ {0} /\ MaxGen \in Nat \ {0} /\ MaxFaults \in Nat

VARIABLES
  file,     \* the event file and its writer's lock
  cursor,   \* direct_sync_source_scan_state
  hint,     \* its verified_source_signature is the file's, and recent
  rows,     \* the relay rows of this file's deltas
  bad,      \* waiting rows whose spooled copy is damaged
  run,      \* each runner
  faults

vars == <<file, cursor, hint, rows, bad, run, faults>>

Gens == 1..MaxGen
(* A delta: the lines after s up to e of one generation of the file.       *)
Deltas == {d \in [gen : Gens, s : 0..MaxLen, e : 1..MaxLen] : d.s < d.e}
NoDelta == [gen |-> 0, s |-> 0, e |-> 0]
Waiting == {"pending", "leased"}          \* "pending" also stands for retry_wait
Blocked == {"failed_permanent", "operator_review"}
Statuses == {"none", "acked"} \cup Waiting \cup Blocked

IdleRunner == [pc |-> "idle", d |-> NoDelta]

Init ==
  /\ file = [gen |-> 1, len |-> 0, part |-> FALSE, lock |-> FALSE]
  /\ cursor = [gen |-> 0, n |-> 0]
  /\ hint = FALSE
  /\ rows = [d \in Deltas |-> "none"]
  /\ bad = {}
  /\ run = [w \in Runners |-> IdleRunner]
  /\ faults = 0

Mishap(kind) == kind \in FaultKinds /\ faults < MaxFaults /\ faults' = faults + 1

-----------------------------------------------------------------------------
(* The event file.                                                         *)

BeginAppend ==
  /\ ~file.lock /\ file.len < MaxLen
  /\ file' = [file EXCEPT !.part = TRUE, !.lock = TRUE]
  /\ hint' = FALSE
  /\ UNCHANGED <<cursor, rows, bad, run, faults>>
FinishAppend ==
  /\ file.lock
  /\ file' = [file EXCEPT !.part = FALSE, !.lock = FALSE, !.len = @ + 1]
  /\ hint' = FALSE
  /\ UNCHANGED <<cursor, rows, bad, run, faults>>

(* The writer dies; its lock counts for a while and the torn line stays.   *)
LockGoesStale ==
  /\ file.lock /\ Mishap("torn")
  /\ file' = [file EXCEPT !.lock = FALSE]
  /\ UNCHANGED <<cursor, hint, rows, bad, run>>

(* The file is replaced, perhaps under the same size and time stamps.      *)
Replace ==
  /\ ~file.lock /\ file.gen < MaxGen
  /\ \E n \in 0..MaxLen :
       /\ file' = [gen |-> file.gen + 1, len |-> n, part |-> FALSE, lock |-> FALSE]
       /\ hint' \in {FALSE, hint /\ n = file.len /\ ~file.part}
  /\ UNCHANGED <<cursor, rows, bad, run, faults>>

HintExpires == hint /\ hint' = FALSE /\ UNCHANGED <<file, cursor, rows, bad, run, faults>>

-----------------------------------------------------------------------------
(* What the rows say of the file.                                          *)

(* Rows whose content is still in the file.                                *)
Matching == {d \in Deltas : rows[d] # "none" /\ d.gen = file.gen /\ d.e <= file.len}
_delta_relay_row_has_usable_spool(d) == rows[d] \notin Waiting \/ d \notin bad

(* _read_delta_progress: from 0 as far as the ranges follow each other,    *)
(* with the longest of those that start at the same place.                 *)
_read_delta_progress(D) ==
  LET f[p \in 0..MaxLen] == LET E == {d.e : d \in {x \in D : x.s = p}}
                            IN  IF E = {} THEN p ELSE f[Max(E)]
  IN  f[0]
(* Mutants: a waiting row counts as acknowledged; only acknowledged rows   *)
(* count as queued; refused ones count too.                                *)
Durable_Waiting == {d \in Matching : rows[d] \in {"acked"} \cup Waiting}
Durable == {d \in Matching : rows[d] = "acked"}
Queued  == {d \in Matching : rows[d] = "acked" \/ (rows[d] \in Waiting /\ d \notin bad)}
DurableProgress == _read_delta_progress(Durable)
QueuedProgress  == _read_delta_progress(Queued)
ExistingTerminalDeltaBlocked ==
  \E d \in Matching : rows[d] \in Blocked /\ d.s = QueuedProgress

-----------------------------------------------------------------------------
(* A runner's pass over the file.                                          *)

_source_prefix_recently_verified ==
  hint /\ cursor.n = file.len /\ \A d \in Deltas : rows[d] \in {"none", "acked"}

(* Damaged copies of waiting rows are written again from the delta's own   *)
(* file before the scan; one that is being uploaded ends the pass.         *)
_repair_recoverable_delta_spools_before_scan(w) ==
  /\ run[w].pc = "idle" /\ ~file.lock /\ ~_source_prefix_recently_verified
  /\ LET damaged == {d \in Matching : ~_delta_relay_row_has_usable_spool(d)}
     IN  /\ bad' = bad \ {d \in damaged : rows[d] = "pending"}
         /\ run' = IF \E d \in damaged : rows[d] = "leased" THEN run
                   ELSE [run EXCEPT ![w].pc = "scan"]
  /\ UNCHANGED <<file, cursor, hint, rows, faults>>

(* The cursor catches up with what is acknowledged.                        *)
Explicit == IF DurableProgress > cursor.n THEN [gen |-> file.gen, n |-> DurableProgress] ELSE cursor
(* _read_source_scan_state, then the prefix is hashed: where the next      *)
(* delta starts.                                                           *)
Sent == IF QueuedProgress > Explicit.n THEN [gen |-> file.gen, n |-> QueuedProgress] ELSE Explicit
(* Mutant: only the size is compared.                                      *)
ReplacedOrTruncated_BySize == Sent.n > 0 /\ file.len < Sent.n
ReplacedOrTruncated == Sent.n > 0 /\ (file.len < Sent.n \/ Sent.gen # file.gen)
Start == IF ReplacedOrTruncated THEN 0 ELSE Sent.n

(* _build_delta_source_file.  A file that changes while it is read yields  *)
(* nothing, so the reading is one step.                                    *)
_build_delta_source_file(w) ==
  /\ run[w].pc = "scan"
  /\ cursor' = Explicit
  /\ IF ExistingTerminalDeltaBlocked \/ file.lock
     THEN run' = [run EXCEPT ![w] = IdleRunner] /\ hint' = (hint /\ Explicit = cursor)
     ELSE IF file.len <= Start
     THEN /\ hint' = ((hint /\ Explicit = cursor)
                       \/ (~file.part /\ Explicit = [gen |-> file.gen, n |-> file.len]))
          /\ run' = [run EXCEPT ![w] = IdleRunner]
     ELSE /\ hint' = (hint /\ Explicit = cursor)
          /\ run' = [run EXCEPT ![w] = [pc |-> "built",
                                        d |-> [gen |-> file.gen, s |-> Start, e |-> file.len]]]
  /\ UNCHANGED <<file, rows, bad, faults>>

(* enqueue_completed_source_file: a row that exists is found again.        *)
enqueue_completed_source_file(w) ==
  /\ run[w].pc = "built"
  /\ rows' = [rows EXCEPT ![run[w].d] = IF @ = "none" THEN "pending" ELSE @]
  /\ bad' = IF rows[run[w].d] = "pending" THEN bad \ {run[w].d} ELSE bad
  /\ run' = [run EXCEPT ![w] = IF rows[run[w].d] = "none" THEN [@ EXCEPT !.pc = "queued"]
                               ELSE IdleRunner]
  /\ UNCHANGED <<file, cursor, hint, faults>>
EnqueueBlocked(w) ==
  /\ run[w].pc = "built" /\ Mishap("blocked")
  /\ run' = [run EXCEPT ![w] = IdleRunner]
  /\ UNCHANGED <<file, cursor, hint, rows, bad>>

(* run_relay_once for that row: acknowledged, or left to a later cycle.    *)
DrainTarget(w) ==
  /\ run[w].pc = "queued"
  /\ \/ /\ rows[run[w].d] = "pending" /\ run[w].d \notin bad
        /\ rows' = [rows EXCEPT ![run[w].d] = "acked"]
        /\ run' = [run EXCEPT ![w].pc = "acked"]
     \/ rows' = rows /\ run' = [run EXCEPT ![w] = IdleRunner]
  /\ UNCHANGED <<file, cursor, hint, bad, faults>>

(* _record_source_sent_byte_count_after_ack: the acknowledged chain if it  *)
(* is longer than the cursor, else the acknowledged row itself when it     *)
(* continues the cursor or starts a new file.                              *)
_record_source_sent_byte_count_after_ack(w) ==
  LET d == run[w].d
  IN  /\ run[w].pc = "acked"
      /\ cursor' = IF DurableProgress > cursor.n THEN [gen |-> file.gen, n |-> DurableProgress]
                   ELSE IF rows[d] = "acked" /\ (d.s = 0 \/ d.s = cursor.n)
                   THEN [gen |-> d.gen, n |-> d.e]
                   ELSE cursor
      /\ hint' = (hint /\ cursor' = cursor)
      /\ run' = [run EXCEPT ![w] = IdleRunner]
      /\ UNCHANGED <<file, rows, bad, faults>>

-----------------------------------------------------------------------------
(* The queue around the scan, and mishaps.                                 *)

Claim(d) ==
  /\ rows[d] = "pending"
  /\ rows' = [rows EXCEPT ![d] = "leased"]
  /\ UNCHANGED <<file, cursor, hint, bad, run, faults>>
(* A claimed row is acknowledged or waits again; its copy unreadable, it   *)
(* fails; the server refuses it or asks for a review.                      *)
Settle(d) ==
  /\ rows[d] = "leased"
  /\ \/ d \notin bad /\ rows' = [rows EXCEPT ![d] = "acked"] /\ UNCHANGED faults
     \/ rows' = [rows EXCEPT ![d] = "pending"] /\ UNCHANGED faults
     \/ d \in bad /\ rows' = [rows EXCEPT ![d] = "failed_permanent"] /\ UNCHANGED faults
     \/ Mishap("refused") /\ \E st \in Blocked : rows' = [rows EXCEPT ![d] = st]
  /\ UNCHANGED <<file, cursor, hint, bad, run>>
retry_dead_relay_batch(d) ==
  /\ rows[d] \in Blocked /\ d \notin bad /\ Mishap("operator")
  /\ rows' = [rows EXCEPT ![d] = "pending"]
  /\ UNCHANGED <<file, cursor, hint, bad, run>>
DamageSpool(d) ==
  /\ rows[d] \in Waiting /\ d \notin bad /\ Mishap("spool")
  /\ bad' = bad \cup {d}
  /\ UNCHANGED <<file, cursor, hint, rows, run>>
Crash(w) ==
  /\ run[w].pc # "idle" /\ Mishap("crash")
  /\ run' = [run EXCEPT ![w] = IdleRunner]
  /\ UNCHANGED <<file, cursor, hint, rows, bad>>

Pass(w) ==
  \/ _repair_recoverable_delta_spools_before_scan(w) \/ _build_delta_source_file(w)
  \/ enqueue_completed_source_file(w) \/ DrainTarget(w)
  \/ _record_source_sent_byte_count_after_ack(w)

Next ==
  \/ \E w \in Runners : Pass(w) \/ EnqueueBlocked(w) \/ Crash(w)
  \/ \E d \in Deltas : Claim(d) \/ Settle(d) \/ retry_dead_relay_batch(d) \/ DamageSpool(d)
  \/ BeginAppend \/ FinishAppend \/ LockGoesStale \/ Replace \/ HintExpires

Spec == Init /\ [][Next]_vars

-----------------------------------------------------------------------------
ScanTypeOK ==
  /\ file \in [gen : Gens, len : 0..MaxLen, part : BOOLEAN, lock : BOOLEAN]
  /\ cursor \in [gen : Gens \cup {0}, n : 0..MaxLen]
  /\ hint \in BOOLEAN
  /\ rows \in [Deltas -> Statuses] /\ bad \subseteq Deltas
  /\ run \in [Runners -> [pc : {"idle", "scan", "built", "queued", "acked"}, d : Deltas \cup {NoDelta}]]
  /\ faults \in 0..MaxFaults

Covered(g, k, st) == \E d \in Deltas : d.gen = g /\ d.s < k /\ k <= d.e /\ rows[d] \in st

(* The cursor never runs ahead: as long as the file is the one it was      *)
(* written for, every line it claims as sent is in an acknowledged row,    *)
(* whoever moved it and whatever was lost or refused in between (_record_source_sent_byte_count_after_ack,   *)
(* _read_source_scan_state).                                               *)
CursorIsAcked == cursor.gen = file.gen => \A k \in 1..cursor.n : Covered(cursor.gen, k, {"acked"})

(* No line is skipped: when a delta is queued, every earlier line of the   *)
(* same file already is (_build_delta_source_file).                        *)
NoGap ==
  \A d \in Deltas : rows[d] # "none" =>
    \A k \in 1..d.s : Covered(d.gen, k, Statuses \ {"none"})

(* As long as runners that take turns scan a file that is never replaced,  *)
(* every line is queued once (the ranges of _build_delta_source_file).     *)
OnceEach ==
  \A d, x \in Deltas :
    d # x /\ rows[d] # "none" /\ rows[x] # "none" => d.e <= x.s \/ x.e <= d.s
=============================================================================
