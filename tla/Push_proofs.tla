---------------------------- MODULE Push_proofs ----------------------------
(***************************************************************************)
(* Proofs about the pushing of records: the scan of a source file.         *)
(***************************************************************************)
EXTENDS Push, NaturalsInduction, WellFoundedInduction, TLAPS

-----------------------------------------------------------------------------
(* Numbers.                                                                *)

(* A set of natural numbers has a least one: the induction of what follows.*)
LEMMA Least ==
  ASSUME NEW T \in SUBSET Nat, T # {}
  PROVE  \E x \in T : \A y \in T : x <= y
<1>1. PICK x \in T : \A y \in T : ~(<<y, x>> \in OpToRel(<, Nat))
  BY NatLessThanWellFounded, WFMin
<1>2. \A y \in T : ~(y < x)
  BY <1>1 DEF OpToRel
<1> QED
  BY <1>2

(* A set of numbers up to n has a greatest one.                            *)
LEMMA Greatest ==
  ASSUME NEW n \in Nat, NEW T \in SUBSET (0..n), T # {}
  PROVE  \E x \in T : \A y \in T : x >= y
<1> DEFINE U == {n - x : x \in T}
<1>1. U \in SUBSET Nat
  OBVIOUS
<1>2. U # {}
  <2>1. PICK x \in T : TRUE
    OBVIOUS
  <2>2. n - x \in U
    OBVIOUS
  <2> QED
    BY <2>2
<1>3. PICK u \in U : \A y \in U : u <= y
  BY <1>1, <1>2, Least
<1> QED
  BY <1>3

LEMMA MaxIsGreatest ==
  ASSUME NEW n \in Nat, NEW T \in SUBSET (0..n), T # {}
  PROVE  Max(T) \in T /\ \A y \in T : Max(T) >= y
<1>1. \E x \in T : \A y \in T : x >= y
  BY Greatest
<1> QED
  BY <1>1, Zenon DEF Max

-----------------------------------------------------------------------------
(* How far a set of deltas reaches (_read_delta_progress).                 *)

(* The ends of the deltas that start at p.                                 *)
Ends(D, p) == {d.e : d \in {x \in D : x.s = p}}
(* f follows the deltas of D from every position of P.                     *)
Follows(f, D, P) == f = [p \in P |-> IF Ends(D, p) = {} THEN p ELSE f[Max(Ends(D, p))]]
Walk(D) == CHOOSE f : Follows(f, D, 0..MaxLen)

LEMMA ProgressWalk == ASSUME NEW D PROVE _read_delta_progress(D) = Walk(D)[0]
  BY DEF _read_delta_progress, Walk, Ends, Follows

LEMMA EndsLater ==
  ASSUME ScanAssumption, NEW D \in SUBSET Deltas, NEW p \in 0..MaxLen, Ends(D, p) # {}
  PROVE  /\ Max(Ends(D, p)) \in (p + 1)..MaxLen
         /\ \E x \in D : x.s = p /\ x.e = Max(Ends(D, p))
<1>1. Ends(D, p) \in SUBSET (0..MaxLen) /\ MaxLen \in Nat
  BY DEF Ends, Deltas, ScanAssumption
<1>2. Max(Ends(D, p)) \in Ends(D, p)
  BY <1>1, MaxIsGreatest
<1> QED
  BY <1>2 DEF Ends, Deltas, ScanAssumption

LEMMA WalkStep ==
  ASSUME ScanAssumption, NEW D \in SUBSET Deltas, NEW n \in 1..MaxLen,
         NEW f, Follows(f, D, n..MaxLen)
  PROVE  \E g : Follows(g, D, (n - 1)..MaxLen)
<1> DEFINE a == IF Ends(D, n - 1) = {} THEN n - 1 ELSE f[Max(Ends(D, n - 1))]
           g == [p \in (n - 1)..MaxLen |-> IF p = n - 1 THEN a ELSE f[p]]
<1>0. MaxLen \in Nat /\ n \in Nat
  BY DEF ScanAssumption
<1>1. ASSUME NEW p \in (n - 1)..MaxLen
      PROVE  g[p] = IF Ends(D, p) = {} THEN p ELSE g[Max(Ends(D, p))]
  <2>1. Ends(D, p) # {} => Max(Ends(D, p)) \in n..MaxLen /\ g[Max(Ends(D, p))] = f[Max(Ends(D, p))]
    BY <1>0, EndsLater
  <2>2. CASE p = n - 1
    BY <2>1, <2>2
  <2>3. CASE p # n - 1
    <3>1. p \in n..MaxLen /\ g[p] = f[p]
      BY <2>3, <1>0
    <3>2. f[p] = IF Ends(D, p) = {} THEN p ELSE f[Max(Ends(D, p))]
      BY <3>1, Zenon DEF Follows
    <3> QED
      BY <2>1, <3>1, <3>2
  <2> QED
    BY <2>2, <2>3
<1>2. g = [p \in (n - 1)..MaxLen |-> IF Ends(D, p) = {} THEN p ELSE g[Max(Ends(D, p))]]
  <2> DEFINE h == [p \in (n - 1)..MaxLen |-> IF Ends(D, p) = {} THEN p ELSE g[Max(Ends(D, p))]]
  <2>1. \A p \in (n - 1)..MaxLen : h[p] = g[p]
    BY <1>1
  <2> HIDE DEF a
  <2> QED
    BY <2>1
<1> QED
  BY <1>2, Zenon DEF Follows

LEMMA WalkExists ==
  ASSUME ScanAssumption, NEW D \in SUBSET Deltas
  PROVE  Follows(Walk(D), D, 0..MaxLen)
<1> DEFINE T == {n \in 0..MaxLen : \E f : Follows(f, D, n..MaxLen)}
<1>0. MaxLen \in Nat
  BY DEF ScanAssumption
<1>1. MaxLen \in T
  <2> DEFINE f == [p \in MaxLen..MaxLen |-> p]
  <2>1. \A p \in MaxLen..MaxLen : Ends(D, p) = {}
    BY <1>0 DEF Ends, Deltas
  <2>2. f = [p \in MaxLen..MaxLen |-> IF Ends(D, p) = {} THEN p ELSE f[Max(Ends(D, p))]]
    BY <2>1
  <2> QED
    BY <1>0, <2>2 DEF Follows
<1>2. PICK n \in T : \A m \in T : n <= m
  <2>1. T \in SUBSET Nat
    BY <1>0
  <2>2. T # {}
    BY <1>1
  <2> QED
    BY <2>1, <2>2, Least
<1>3. n = 0
  <2>1. SUFFICES ASSUME n # 0 PROVE FALSE
    OBVIOUS
  <2>2. n \in 1..MaxLen /\ \E f : Follows(f, D, n..MaxLen)
    BY <2>1, <1>2, <1>0
  <2>3. n - 1 \in T
    BY <2>2, WalkStep, <1>0
  <2> QED
    BY <2>3, <1>2, <2>2
<1>4. \E f : Follows(f, D, 0..MaxLen)
  BY <1>2, <1>3
<1> QED
  BY <1>4, Zenon DEF Walk

(* From p, f reaches q: every line between is in a delta that ends by q,   *)
(* and no delta starts at q.                                               *)
Reaches(D, p, q) ==
  /\ q \in p..MaxLen
  /\ \A k \in (p + 1)..q : \E x \in D : x.s < k /\ k <= x.e /\ x.e <= q
  /\ \A x \in D : x.s # q

LEMMA Reach ==
  ASSUME ScanAssumption, NEW D \in SUBSET Deltas
  PROVE  Reaches(D, 0, _read_delta_progress(D))
<1> DEFINE f == Walk(D)
           T == {p \in 0..MaxLen : ~Reaches(D, p, f[p])}
<1>0. MaxLen \in Nat /\ 0 \in 0..MaxLen
  BY DEF ScanAssumption
<1>1. SUFFICES T = {}
  BY <1>0, ProgressWalk
<1>2. SUFFICES ASSUME T # {} PROVE FALSE
  OBVIOUS
<1>3. PICK p \in T : \A y \in T : p >= y
  BY <1>0, <1>2, Greatest
<1>4. f[p] = IF Ends(D, p) = {} THEN p ELSE f[Max(Ends(D, p))]
  BY WalkExists, Zenon DEF Follows
<1> HIDE DEF f
<1>5. CASE Ends(D, p) = {}
  <2>1. f[p] = p /\ \A x \in D : x.s # p
    BY <1>4, <1>5 DEF Ends
  <2>2. Reaches(D, p, f[p])
    BY <2>1, <1>0 DEF Reaches
  <2> QED
    BY <2>2
<1>6. CASE Ends(D, p) # {}
  <2> DEFINE m == Max(Ends(D, p))
  <2>1. m \in (p + 1)..MaxLen /\ \E x \in D : x.s = p /\ x.e = m
    BY <1>6, EndsLater
  <2>2. f[p] = f[m]
    BY <1>4, <1>6
  <2> HIDE DEF m
  <2>3. Reaches(D, m, f[m])
    BY <2>1, <1>3, <1>0
  <2>4. Reaches(D, p, f[p])
    <3>1. f[m] \in m..MaxLen
      BY <2>3 DEF Reaches
    <3>2. ASSUME NEW k \in (p + 1)..f[m]
          PROVE  \E x \in D : x.s < k /\ k <= x.e /\ x.e <= f[m]
      <4>1. CASE k <= m
        BY <4>1, <2>1, <3>1, <1>0
      <4>2. CASE ~(k <= m)
        <5>1. k \in (m + 1)..f[m]
          BY <4>2, <3>1, <2>1, <1>0
        <5> QED
          BY <5>1, <2>3 DEF Reaches
      <4> QED
        BY <4>1, <4>2
    <3> QED
      BY <2>1, <2>2, <2>3, <3>1, <3>2, <1>0 DEF Reaches
  <2> QED
    BY <2>4
<1> QED
  BY <1>5, <1>6

-----------------------------------------------------------------------------
(* The state, and what the deltas of the file cover.                       *)

Pcs == {"idle", "scan", "built", "queued", "acked"}
Busy == {"built", "queued", "acked"}
AnyRow == Statuses \ {"none"}
Files == [gen : Gens, len : 0..MaxLen, part : BOOLEAN, lock : BOOLEAN]
Cursors == [gen : Gens \cup {0}, n : 0..MaxLen]
Passes == [pc : Pcs, d : Deltas \cup {NoDelta}]

(* A writer that holds the lock has a line to write.                       *)
Room == file.lock => file.len < MaxLen

(* The first n lines of a generation are in rows of these statuses.        *)
Upto(g, n, st) == \A k \in 1..n : Covered(g, k, st)

LEMMA ProgressCovers ==
  ASSUME ScanAssumption, ScanTypeOK
  PROVE  /\ DurableProgress \in 0..MaxLen /\ Upto(file.gen, DurableProgress, {"acked"})
         /\ QueuedProgress \in 0..MaxLen /\ Upto(file.gen, QueuedProgress, AnyRow)
<1>1. Durable \in SUBSET Deltas /\ Queued \in SUBSET Deltas
  BY DEF Durable, Queued, Matching
<1>2. Reaches(Durable, 0, DurableProgress) /\ Reaches(Queued, 0, QueuedProgress)
  BY <1>1, Reach DEF DurableProgress, QueuedProgress
<1>3. \A d \in Durable : d \in Deltas /\ d.gen = file.gen /\ rows[d] \in {"acked"}
  BY DEF Durable, Matching
<1>4. \A d \in Queued : d \in Deltas /\ d.gen = file.gen /\ rows[d] \in AnyRow
  BY DEF Queued, Matching, AnyRow, ScanTypeOK
<1>5. MaxLen \in Nat
  BY DEF ScanAssumption
<1> QED
  BY <1>2, <1>3, <1>4, <1>5 DEF Reaches, Upto, Covered

(* The cursor, caught up, and where the next delta starts.                 *)
LEMMA ExplicitType ==
  ASSUME ScanAssumption, ScanTypeOK
  PROVE  Explicit \in Cursors /\ Sent \in Cursors /\ Start \in 0..MaxLen
  BY ProgressCovers DEF Explicit, Sent, Start, ScanTypeOK, Files, Cursors, ScanAssumption

LEMMA TypeStep ==
  ASSUME ScanAssumption, ScanTypeOK, Room, [Next]_vars
  PROVE  ScanTypeOK' /\ Room'
<1>0. /\ MaxLen \in Nat /\ MaxGen \in Nat /\ MaxFaults \in Nat
      /\ file \in Files /\ cursor \in Cursors /\ hint \in BOOLEAN /\ rows \in [Deltas -> Statuses]
      /\ bad \subseteq Deltas /\ run \in [Runners -> Passes] /\ faults \in 0..MaxFaults
  BY DEF ScanAssumption, ScanTypeOK, Files, Cursors, Passes, Pcs
<1> SUFFICES /\ file' \in Files /\ cursor' \in Cursors /\ hint' \in BOOLEAN
             /\ rows' \in [Deltas -> Statuses] /\ bad' \subseteq Deltas
             /\ run' \in [Runners -> Passes] /\ faults' \in 0..MaxFaults /\ Room'
  BY Zenon DEF ScanTypeOK, Files, Cursors, Passes, Pcs
<1>1. \A k : Mishap(k) => faults' \in 0..MaxFaults
  BY <1>0 DEF Mishap
<1>a. CASE UNCHANGED vars
  BY <1>0, <1>a DEF vars, Room
<1>2. IdleRunner \in Passes /\ \A r \in Passes : \A p \in Pcs : [r EXCEPT !.pc = p] \in Passes
  BY DEF Passes, Pcs, IdleRunner
<1>b. ASSUME NEW w \in Runners, Pass(w) \/ EnqueueBlocked(w) \/ Crash(w)
      PROVE  /\ cursor' \in Cursors /\ hint' \in BOOLEAN /\ rows' \in [Deltas -> Statuses]
             /\ bad' \subseteq Deltas /\ faults' \in 0..MaxFaults
             /\ run' \in [Runners -> Passes] /\ UNCHANGED file
  <2>1. CASE _build_delta_source_file(w)
    <3>1. hint' \in BOOLEAN
      BY <2>1, Zenon DEF _build_delta_source_file
    <3>2. file.len > Start => [gen |-> file.gen, s |-> Start, e |-> file.len] \in Deltas
      BY <1>0, ExplicitType DEF Deltas, Files
    <3>3. file.len > Start =>
            [pc |-> "built", d |-> [gen |-> file.gen, s |-> Start, e |-> file.len]] \in Passes
      BY <3>2 DEF Passes, Pcs
    <3>4. file.len \in Nat /\ Start \in Nat
      BY <1>0, ExplicitType DEF Files
    <3>5. \E r \in Passes : run' = [run EXCEPT ![w] = r]
      BY <2>1, <1>2, <3>3, <3>4 DEF _build_delta_source_file
    <3>6. run' \in [Runners -> Passes]
      BY <3>5, <1>0
    <3> QED
      BY <2>1, <3>1, <3>6, <1>0, ExplicitType DEF _build_delta_source_file
  <2>2. CASE _repair_recoverable_delta_spools_before_scan(w)
    BY <2>2, <1>0, <1>2 DEF _repair_recoverable_delta_spools_before_scan, Pcs
  <2>3. CASE enqueue_completed_source_file(w)
    <3>1. run' \in [Runners -> Passes]
      BY <2>3, <1>0, <1>2 DEF enqueue_completed_source_file, Pcs
    <3>2. rows' \in [Deltas -> Statuses] /\ bad' \subseteq Deltas
      BY <2>3, <1>0 DEF enqueue_completed_source_file, Statuses, Waiting
    <3> QED
      BY <2>3, <1>0, <3>1, <3>2 DEF enqueue_completed_source_file
  <2>6. CASE DrainTarget(w)
    <3>0. \/ run' = [run EXCEPT ![w] = IdleRunner]
          \/ run' = [run EXCEPT ![w] = [run[w] EXCEPT !.pc = "acked"]]
      BY <2>6, <1>0 DEF DrainTarget
    <3>1. run' \in [Runners -> Passes]
      BY <3>0, <1>0, <1>2 DEF Pcs
    <3>2. rows' \in [Deltas -> Statuses]
      BY <2>6, <1>0 DEF DrainTarget, Statuses
    <3> QED
      BY <2>6, <1>0, <3>1, <3>2 DEF DrainTarget
  <2>4. CASE EnqueueBlocked(w) \/ Crash(w)
    BY <2>4, <1>0, <1>1, <1>2 DEF EnqueueBlocked, Crash
  <2>5. CASE _record_source_sent_byte_count_after_ack(w)
    <3>1. hint' \in BOOLEAN
      BY <2>5, Zenon DEF _record_source_sent_byte_count_after_ack
    <3>2. cursor' \in Cursors
      BY <2>5, <1>0, ProgressCovers
      DEF _record_source_sent_byte_count_after_ack, Cursors, Files, Passes, Deltas, NoDelta
    <3> QED
      BY <2>5, <3>1, <3>2, <1>0, <1>2 DEF _record_source_sent_byte_count_after_ack
  <2> QED
    BY <1>b, <2>1, <2>2, <2>3, <2>4, <2>5, <2>6 DEF Pass
<1>c. ASSUME NEW d \in Deltas,
             Claim(d) \/ Settle(d) \/ retry_dead_relay_batch(d) \/ DamageSpool(d)
      PROVE  /\ UNCHANGED <<file, cursor, hint, run>> /\ rows' \in [Deltas -> Statuses]
             /\ bad' \subseteq Deltas /\ faults' \in 0..MaxFaults
  <2>1. CASE Claim(d) \/ DamageSpool(d)
    BY <1>0, <1>1, <2>1 DEF Claim, DamageSpool, Statuses, Waiting
  <2>2. CASE Settle(d)
    BY <1>0, <1>1, <2>2 DEF Settle, Statuses, Waiting, Blocked
  <2>3. CASE retry_dead_relay_batch(d)
    BY <1>0, <1>1, <2>3 DEF retry_dead_relay_batch, Statuses, Waiting
  <2> QED
    BY <1>c, <2>1, <2>2, <2>3
<1>d. CASE BeginAppend \/ FinishAppend \/ LockGoesStale \/ Replace \/ HintExpires
  <2>1. hint' \in BOOLEAN
    <3>1. CASE Replace
      BY <3>1, <1>0, Zenon DEF Replace
    <3> QED
      BY <1>d, <3>1, <1>0 DEF BeginAppend, FinishAppend, LockGoesStale, HintExpires
  <2>2. UNCHANGED <<cursor, rows, bad, run>> /\ faults' \in 0..MaxFaults
    BY <1>d, <1>0, <1>1 DEF BeginAppend, FinishAppend, LockGoesStale, Replace, HintExpires
  <2>3. file' \in Files /\ Room'
    <3>1. CASE BeginAppend
      BY <3>1, <1>0 DEF BeginAppend, Files, Room
    <3>2. CASE FinishAppend
      <4>1. file.len + 1 \in 0..MaxLen
        BY <3>2, <1>0 DEF FinishAppend, Files, Room
      <4> QED
        BY <3>2, <1>0, <4>1 DEF FinishAppend, Files, Room
    <3>4. CASE LockGoesStale \/ HintExpires
      BY <3>4, <1>0 DEF LockGoesStale, HintExpires, Files, Room
    <3>3. CASE Replace
      BY <3>3, <1>0 DEF Replace, Files, Room, Gens
    <3> QED
      BY <1>d, <3>1, <3>2, <3>3, <3>4
  <2> QED
    BY <2>1, <2>2, <2>3, <1>0
<1> QED
  BY <1>a, <1>b, <1>c, <1>d, <1>0 DEF Room, Next

-----------------------------------------------------------------------------
(* No line is skipped.                                                     *)

(* Whatever the cursor claims is queued in the generation it stands for.   *)
CursorQueued == Upto(cursor.gen, cursor.n, AnyRow)
(* A delta that is being worked on starts where the queued lines end.      *)
DeltaBehind ==
  \A w \in Runners : run[w].pc \in Busy =>
    run[w].d \in Deltas /\ Upto(run[w].d.gen, run[w].d.s, AnyRow)
RowThere == \A w \in Runners : run[w].pc \in {"queued", "acked"} => rows[run[w].d] \in AnyRow
GapInv == ScanTypeOK /\ Room /\ CursorQueued /\ DeltaBehind /\ RowThere /\ NoGap

(* Rows are neither deleted nor un-acknowledged.                           *)
RowsStay == \A d \in Deltas : (rows[d] \in AnyRow => rows'[d] \in AnyRow)
                           /\ (rows[d] = "acked" => rows'[d] = "acked")

(* The first n lines of a generation are, after the step, in such rows.    *)
Still(g, n, st) ==
  \A k \in 1..n : \E d \in Deltas : d.gen = g /\ d.s < k /\ k <= d.e /\ rows'[d] \in st

LEMMA StaysCovered ==
  ASSUME RowsStay, NEW g, NEW n
  PROVE  /\ Upto(g, n, AnyRow) => Still(g, n, AnyRow)
         /\ Upto(g, n, {"acked"}) => Still(g, n, {"acked"})
  BY DEF RowsStay, Upto, Covered, Still

LEMMA RowsStayStep == ASSUME GapInv, [Next]_vars PROVE RowsStay
<1>0. rows \in [Deltas -> Statuses] /\ \A w \in Runners : run[w].pc \in Busy => run[w].d \in Deltas
  BY DEF GapInv, ScanTypeOK, DeltaBehind
<1> USE DEF RowsStay, AnyRow
<1>1. ASSUME UNCHANGED rows PROVE RowsStay
  BY <1>1
<1>2. ASSUME NEW w \in Runners, Pass(w) \/ EnqueueBlocked(w) \/ Crash(w) PROVE RowsStay
  <2>1. CASE enqueue_completed_source_file(w)
    BY <2>1, <1>0 DEF enqueue_completed_source_file, Busy, Statuses, Waiting
  <2>2. CASE DrainTarget(w)
    BY <2>2, <1>0 DEF DrainTarget, Busy, Statuses, Waiting
  <2> QED
    BY <1>1, <1>2, <2>1, <2>2 DEF Pass, EnqueueBlocked, Crash, _build_delta_source_file,
       _repair_recoverable_delta_spools_before_scan, _record_source_sent_byte_count_after_ack
<1>3. ASSUME NEW d \in Deltas,
             Claim(d) \/ Settle(d) \/ retry_dead_relay_batch(d) \/ DamageSpool(d)
      PROVE  RowsStay
  BY <1>0, <1>1, <1>3 DEF Claim, Settle, retry_dead_relay_batch, DamageSpool, Statuses, Waiting, Blocked
<1> QED
  BY <1>1, <1>2, <1>3 DEF Next, vars, BeginAppend, FinishAppend, LockGoesStale, Replace, HintExpires

(* The cursor, caught up, claims queued lines; so does the start of a new  *)
(* delta, of the file as it is.                                            *)
LEMMA StartQueued ==
  ASSUME ScanAssumption, GapInv
  PROVE  /\ Upto(Explicit.gen, Explicit.n, AnyRow)
         /\ Upto(file.gen, Start, AnyRow)
<1>1. Explicit = [gen |-> file.gen, n |-> DurableProgress] \/ Explicit = cursor
  BY DEF Explicit
<1>2. Upto(file.gen, DurableProgress, {"acked"}) => Upto(file.gen, DurableProgress, AnyRow)
  BY DEF Upto, Covered, AnyRow, Statuses
<1>3. Upto(Explicit.gen, Explicit.n, AnyRow)
  BY <1>1, <1>2, ProgressCovers DEF GapInv, CursorQueued
<1>4. Sent = [gen |-> file.gen, n |-> QueuedProgress] \/ Sent = Explicit
  BY DEF Sent
<1>5. Upto(Sent.gen, Sent.n, AnyRow)
  BY <1>3, <1>4, ProgressCovers DEF GapInv
<1>6. Start = 0 \/ (Start = Sent.n /\ (Sent.n > 0 => Sent.gen = file.gen))
  BY DEF Start, ReplacedOrTruncated
<1>7. Upto(file.gen, 0, AnyRow)
  BY DEF Upto
<1>8. Sent.n \in Nat
  BY ExplicitType DEF GapInv, Cursors
<1>9. CASE Start = Sent.n /\ Sent.n > 0
  <2>1. Sent.gen = file.gen
    BY <1>6, <1>9
  <2>2. Upto(file.gen, Start, AnyRow)
    BY <1>5, <1>9, <2>1
  <2> QED
    BY <1>3, <2>2
<1> QED
  BY <1>3, <1>6, <1>7, <1>8, <1>9

LEMMA GapStep == ASSUME ScanAssumption, GapInv, [Next]_vars PROVE GapInv'
<1>1. ScanTypeOK' /\ Room' /\ RowsStay
  BY TypeStep, RowsStayStep DEF GapInv
<1>0. /\ CursorQueued' <=> Still(cursor'.gen, cursor'.n, AnyRow)
      /\ NoGap' <=> \A d \in Deltas : rows'[d] # "none" => Still(d.gen, d.s, AnyRow)
      /\ DeltaBehind' <=> \A w \in Runners : run'[w].pc \in Busy =>
                            run'[w].d \in Deltas /\ Still(run'[w].d.gen, run'[w].d.s, AnyRow)
  BY DEF CursorQueued, NoGap, DeltaBehind, Still, Upto, Covered, AnyRow
<1>2. ASSUME UNCHANGED cursor PROVE CursorQueued'
  BY <1>0, <1>1, <1>2, StaysCovered DEF GapInv, CursorQueued
<1>3. ASSUME NEW d \in Deltas, rows[d] \in AnyRow
      PROVE  Still(d.gen, d.s, AnyRow)
  <2>1. Upto(d.gen, d.s, AnyRow)
    BY <1>3 DEF GapInv, NoGap, Upto, AnyRow
  <2> QED
    BY <1>1, <2>1, StaysCovered
<1>4. ASSUME \A d \in Deltas : rows'[d] # "none" => rows[d] # "none" PROVE NoGap'
  <2>1. \A d \in Deltas : rows'[d] # "none" => rows[d] \in AnyRow
    BY <1>4 DEF GapInv, ScanTypeOK, AnyRow
  <2> QED
    BY <1>0, <1>3, <2>1
<1>5. ASSUME NEW w \in Runners, run[w].pc \in Busy
      PROVE  run[w].d \in Deltas /\ Still(run[w].d.gen, run[w].d.s, AnyRow)
  BY <1>1, <1>5, StaysCovered DEF GapInv, DeltaBehind
<1>6. ASSUME NEW w \in Runners, run[w].pc \in {"queued", "acked"}
      PROVE  rows'[run[w].d] \in AnyRow
  BY <1>1, <1>5, <1>6 DEF GapInv, RowThere, RowsStay, Busy
<1>7. ASSUME UNCHANGED run PROVE DeltaBehind' /\ RowThere'
  BY <1>0, <1>5, <1>6, <1>7 DEF RowThere
<1>8. ASSUME NEW w \in Runners, run' = [run EXCEPT ![w] = IdleRunner]
      PROVE  DeltaBehind' /\ RowThere'
  BY <1>0, <1>5, <1>6, <1>8 DEF RowThere, IdleRunner, Busy, GapInv, ScanTypeOK
<1>9. CASE UNCHANGED rows /\ UNCHANGED cursor /\ UNCHANGED run
  BY <1>1, <1>2, <1>4, <1>7, <1>9 DEF GapInv
<1>10. ASSUME NEW w \in Runners, _build_delta_source_file(w) PROVE GapInv'
  <2>1. CursorQueued'
    BY <1>0, <1>10, <1>1, StaysCovered, StartQueued DEF _build_delta_source_file
  <2>2. CASE run' = [run EXCEPT ![w] = IdleRunner]
    BY <1>1, <1>4, <1>8, <1>10, <2>1, <2>2 DEF GapInv, _build_delta_source_file
  <2>3. CASE /\ ~(file.len <= Start)
             /\ run' = [run EXCEPT ![w] = [pc |-> "built",
                                           d |-> [gen |-> file.gen, s |-> Start, e |-> file.len]]]
    <3>1. [gen |-> file.gen, s |-> Start, e |-> file.len] \in Deltas
      BY <2>3, ExplicitType DEF GapInv, ScanTypeOK, Deltas, ScanAssumption
    <3>2. Still(file.gen, Start, AnyRow)
      BY <1>1, StaysCovered, StartQueued
    <3>3. DeltaBehind' /\ RowThere'
      BY <1>0, <1>5, <1>6, <2>3, <3>1, <3>2 DEF RowThere, Busy, GapInv, ScanTypeOK
    <3> QED
      BY <1>1, <1>4, <1>10, <2>1, <3>3 DEF GapInv, _build_delta_source_file
  <2> QED
    BY <1>10, <2>2, <2>3 DEF _build_delta_source_file
<1>11. ASSUME NEW w \in Runners, enqueue_completed_source_file(w) PROVE GapInv'
  <2>1. run[w].d \in Deltas /\ Still(run[w].d.gen, run[w].d.s, AnyRow)
    BY <1>5, <1>11 DEF enqueue_completed_source_file, Busy
  <2>2. NoGap'
    <3>1. \A d \in Deltas : d # run[w].d => rows'[d] = rows[d]
      BY <1>11, <2>1 DEF enqueue_completed_source_file, GapInv, ScanTypeOK
    <3>2. \A d \in Deltas : rows[d] # "none" => rows[d] \in AnyRow
      BY DEF GapInv, ScanTypeOK, AnyRow
    <3> QED
      BY <1>0, <1>3, <2>1, <3>1, <3>2
  <2>3. rows'[run[w].d] \in AnyRow
    BY <1>11, <2>1 DEF enqueue_completed_source_file, GapInv, ScanTypeOK, AnyRow, Statuses, Waiting
  <2>4. \/ run' = [run EXCEPT ![w] = IdleRunner]
        \/ run' = [run EXCEPT ![w].pc = "queued"]
    BY <1>11 DEF enqueue_completed_source_file
  <2>5. DeltaBehind' /\ RowThere'
    BY <1>0, <1>5, <1>6, <1>8, <2>1, <2>3, <2>4 DEF RowThere, Busy, GapInv, ScanTypeOK
  <2> QED
    BY <1>1, <1>2, <1>11, <2>2, <2>5 DEF GapInv, enqueue_completed_source_file
<1>12. ASSUME NEW w \in Runners, DrainTarget(w) PROVE GapInv'
  <2>1. run[w].d \in Deltas /\ rows[run[w].d] # "none"
    BY <1>5, <1>12 DEF DrainTarget, Busy, GapInv, RowThere, AnyRow
  <2>2. \A d \in Deltas : rows'[d] # "none" => rows[d] # "none"
    BY <1>12, <2>1 DEF DrainTarget, GapInv, ScanTypeOK
  <2>3. \/ run' = [run EXCEPT ![w] = IdleRunner]
        \/ run' = [run EXCEPT ![w].pc = "acked"] /\ run[w].pc = "queued"
    BY <1>12 DEF DrainTarget
  <2>4. DeltaBehind' /\ RowThere'
    BY <1>0, <1>5, <1>6, <1>8, <2>1, <2>3 DEF RowThere, Busy, GapInv, ScanTypeOK
  <2> QED
    BY <1>1, <1>2, <1>4, <1>12, <2>2, <2>4 DEF GapInv, DrainTarget
<1>13. ASSUME NEW w \in Runners, _record_source_sent_byte_count_after_ack(w) PROVE GapInv'
  <2>1. /\ UNCHANGED rows /\ run' = [run EXCEPT ![w] = IdleRunner] /\ run[w].pc = "acked"
        /\ run[w].d \in Deltas /\ rows[run[w].d] \in AnyRow
    BY <1>5, <1>13 DEF _record_source_sent_byte_count_after_ack, Busy, GapInv, RowThere
  <2>2. \/ cursor' = [gen |-> file.gen, n |-> DurableProgress]
        \/ cursor' = cursor
        \/ cursor' = [gen |-> run[w].d.gen, n |-> run[w].d.e]
    BY <1>13 DEF _record_source_sent_byte_count_after_ack
  <2>3. CursorQueued'
    <3>1. CASE cursor' = [gen |-> file.gen, n |-> DurableProgress]
      <4>1. Upto(file.gen, DurableProgress, AnyRow)
        BY ProgressCovers DEF Upto, Covered, AnyRow, Statuses, GapInv
      <4> QED
        BY <1>0, <3>1, <4>1, <1>1, StaysCovered
    <3>2. CASE cursor' = [gen |-> run[w].d.gen, n |-> run[w].d.e]
      <4>1. Upto(run[w].d.gen, run[w].d.s, AnyRow)
        BY <2>1 DEF GapInv, NoGap, Upto, AnyRow
      <4>2. Upto(run[w].d.gen, run[w].d.e, AnyRow)
        BY <4>1, <2>1 DEF Upto, Covered, Deltas
      <4> QED
        BY <1>0, <3>2, <4>2, <1>1, StaysCovered
    <3> QED
      BY <1>2, <2>2, <3>1, <3>2
  <2> QED
    BY <1>1, <1>4, <1>8, <2>1, <2>3 DEF GapInv
<1>14. ASSUME NEW w \in Runners, EnqueueBlocked(w) \/ Crash(w) PROVE GapInv'
  BY <1>1, <1>2, <1>4, <1>8, <1>14 DEF GapInv, EnqueueBlocked, Crash
<1>15. ASSUME NEW w \in Runners, _repair_recoverable_delta_spools_before_scan(w) PROVE GapInv'
  <2>1. UNCHANGED <<rows, cursor>> /\ (run' = run \/ run' = [run EXCEPT ![w].pc = "scan"])
    BY <1>15 DEF _repair_recoverable_delta_spools_before_scan
  <2>2. DeltaBehind' /\ RowThere'
    BY <1>0, <1>5, <1>6, <2>1 DEF RowThere, Busy, GapInv, ScanTypeOK
  <2> QED
    BY <1>1, <1>2, <1>4, <2>1, <2>2 DEF GapInv
<1>16. ASSUME NEW d \in Deltas,
              Claim(d) \/ Settle(d) \/ retry_dead_relay_batch(d) \/ DamageSpool(d)
       PROVE  GapInv'
  <2>1. UNCHANGED <<cursor, run>>
    BY <1>16 DEF Claim, Settle, retry_dead_relay_batch, DamageSpool
  <2>2. \A x \in Deltas : rows'[x] # "none" => rows[x] # "none"
    BY <1>16 DEF Claim, Settle, retry_dead_relay_batch, DamageSpool, Blocked, GapInv, ScanTypeOK
  <2> QED
    BY <1>1, <1>2, <1>4, <1>7, <2>1, <2>2 DEF GapInv
<1> QED
  BY <1>9, <1>10, <1>11, <1>12, <1>13, <1>14, <1>15, <1>16
  DEF Next, vars, Pass, BeginAppend, FinishAppend, LockGoesStale, Replace, HintExpires

LEMMA GapFirst == ASSUME ScanAssumption, Init PROVE GapInv
<1>1. ScanTypeOK /\ Room
  <2>1. 1 \in Gens /\ MaxLen \in Nat /\ MaxFaults \in Nat /\ IdleRunner \in Passes
    BY DEF ScanAssumption, Gens, Passes, Pcs, IdleRunner
  <2>2. file \in Files /\ Room
    BY <2>1 DEF Init, Files, Room
  <2>3. cursor \in Cursors /\ rows \in [Deltas -> Statuses] /\ run \in [Runners -> Passes]
    BY <2>1 DEF Init, Cursors, Statuses
  <2>4. hint \in BOOLEAN /\ bad \subseteq Deltas
    BY DEF Init
  <2>5. faults \in 0..MaxFaults
    BY <2>1 DEF Init
  <2> QED
    BY <2>2, <2>3, <2>4, <2>5, Zenon DEF ScanTypeOK, Files, Cursors, Passes, Pcs
<1> QED
  BY <1>1 DEF Init, GapInv, CursorQueued, DeltaBehind, RowThere, NoGap, Upto, IdleRunner, Busy

(* No line of a file is left out between two deltas, with any number of    *)
(* runners and whatever is refused, damaged or lost or the file replaced   *)
(* in between (_build_delta_source_file).                                  *)
THEOREM NothingSkipped == ASSUME ScanAssumption PROVE Spec => [](ScanTypeOK /\ NoGap)
<1>1. GapInv /\ [Next]_vars => GapInv'
  BY GapStep
<1>2. Init => GapInv
  BY GapFirst
<1>3. GapInv => ScanTypeOK /\ NoGap
  BY DEF GapInv
<1> QED
  BY <1>1, <1>2, <1>3, PTL DEF Spec

-----------------------------------------------------------------------------
(* The cursor stands behind acknowledged lines.                            *)

(* The file was never replaced: everything is of the first generation.     *)
FirstFile ==
  /\ file.gen = 1 /\ (cursor.n > 0 => cursor.gen = 1)
  /\ \A w \in Runners : run[w].pc \in Busy => run[w].d.gen = 1
  /\ \A d \in Deltas : rows[d] \in AnyRow => d.gen = 1

LEMMA FirstFileStep ==
  ASSUME ScanAssumption, GapInv, FirstFile, [Next]_vars, file'.gen = 1
  PROVE  FirstFile'
<1>0. /\ GapInv' /\ rows \in [Deltas -> Statuses] /\ DOMAIN run = Runners
      /\ \A w \in Runners : run[w].pc \in Busy => run[w].d \in Deltas
  BY GapStep DEF GapInv, ScanTypeOK, DeltaBehind
<1>1. \A d \in Deltas : rows'[d] \in AnyRow => d.gen = 1
  <2>1. ASSUME NEW w \in Runners, enqueue_completed_source_file(w) \/ DrainTarget(w)
        PROVE  \A d \in Deltas : rows'[d] \in AnyRow => rows[d] \in AnyRow \/ (d = run[w].d /\ run[w].pc \in Busy)
    BY <1>0, <2>1 DEF enqueue_completed_source_file, DrainTarget, Busy
  <2>2. ASSUME NEW x \in Deltas,
               Claim(x) \/ Settle(x) \/ retry_dead_relay_batch(x) \/ DamageSpool(x)
        PROVE  \A d \in Deltas : rows'[d] \in AnyRow => rows[d] \in AnyRow
    BY <1>0, <2>2 DEF Claim, Settle, retry_dead_relay_batch, DamageSpool, Blocked, Statuses, AnyRow
  <2>3. CASE UNCHANGED rows
    BY <2>3 DEF FirstFile
  <2> QED
    BY <2>1, <2>2, <2>3 DEF FirstFile, Next, Pass, vars, BeginAppend, FinishAppend, LockGoesStale,
       Replace, HintExpires, EnqueueBlocked, Crash, _repair_recoverable_delta_spools_before_scan,
       _build_delta_source_file, _record_source_sent_byte_count_after_ack
<1>2. cursor'.n > 0 => cursor'.gen = 1
  <2>1. CursorQueued' /\ cursor' \in Cursors
    BY <1>0 DEF GapInv, ScanTypeOK, Cursors
  <2>2. cursor'.n > 0 => 1 \in 1..cursor'.n
    BY <2>1 DEF Cursors
  <2>3. cursor'.n > 0 => Covered(cursor.gen, 1, AnyRow)'
    BY <2>1, <2>2 DEF CursorQueued, Upto, Covered
  <2> QED
    BY <2>3, <1>1 DEF Covered
<1>3. ASSUME NEW w \in Runners, run'[w].pc \in Busy PROVE run'[w].d.gen = 1
  <2>1. ASSUME NEW v \in Runners, _build_delta_source_file(v) PROVE run'[w].d.gen = 1
    <3>1. \/ run' = [run EXCEPT ![v] = IdleRunner]
          \/ run' = [run EXCEPT ![v] = [pc |-> "built",
                                        d |-> [gen |-> file.gen, s |-> Start, e |-> file.len]]]
      BY <2>1 DEF _build_delta_source_file
    <3> QED
      BY <1>0, <1>3, <3>1 DEF FirstFile, IdleRunner, Busy
  <2>2. ASSUME NEW v \in Runners, \/ EnqueueBlocked(v) \/ Crash(v) \/ DrainTarget(v)
                                 \/ _repair_recoverable_delta_spools_before_scan(v)
                                 \/ enqueue_completed_source_file(v)
                                 \/ _record_source_sent_byte_count_after_ack(v)
        PROVE  run'[w].d.gen = 1
    BY <1>0, <1>3, <2>2 DEF FirstFile, IdleRunner, Busy, EnqueueBlocked, Crash, DrainTarget,
       _repair_recoverable_delta_spools_before_scan, enqueue_completed_source_file,
       _record_source_sent_byte_count_after_ack, GapInv, ScanTypeOK
  <2>3. CASE UNCHANGED run
    BY <1>3, <2>3 DEF FirstFile
  <2> QED
    BY <2>1, <2>2, <2>3 DEF Next, Pass, vars, BeginAppend, FinishAppend, LockGoesStale,
       Replace, HintExpires, Claim, Settle, retry_dead_relay_batch, DamageSpool
<1> QED
  BY <1>1, <1>2, <1>3 DEF FirstFile

(* Whatever the cursor claims is acknowledged in its generation.           *)
CursorAcked == Upto(cursor.gen, cursor.n, {"acked"})
(* A delta that continues the cursor is of the cursor's generation.        *)
Continues(c, d) == d.s = 0 \/ d.s # c.n \/ d.gen = c.gen
SameFile == \A w \in Runners : run[w].pc \in Busy => Continues(cursor, run[w].d)
AckInv == CursorAcked /\ SameFile

LEMMA AckStep ==
  ASSUME ScanAssumption, FirstFile' \/ TakeTurns, GapInv, AckInv, [Next]_vars
  PROVE  AckInv'
<1>1. RowsStay /\ GapInv'
  BY RowsStayStep, GapStep
<1>0. /\ CursorAcked' <=> Still(cursor'.gen, cursor'.n, {"acked"})
      /\ SameFile' <=> \A w \in Runners : run'[w].pc \in Busy => Continues(cursor', run'[w].d)
  BY DEF CursorAcked, SameFile, Still, Upto, Covered
<1>2. ASSUME UNCHANGED cursor PROVE CursorAcked'
  BY <1>0, <1>1, <1>2, StaysCovered DEF AckInv, CursorAcked
<1>3. ASSUME NEW w \in Runners, NEW r, run' = [run EXCEPT ![w] = r], UNCHANGED cursor,
             r.pc \in Busy => run[w].pc \in Busy /\ r.d = run[w].d
      PROVE  SameFile'
  BY <1>0, <1>3 DEF AckInv, SameFile, GapInv, ScanTypeOK
(* Without replacement all deltas and the cursor are of one generation.    *)
<1>4. ASSUME FirstFile' PROVE SameFile'
  <2>1. ASSUME NEW w \in Runners, run'[w].pc \in Busy PROVE Continues(cursor', run'[w].d)
    <3>1. run'[w].d \in Deltas /\ run'[w].d.gen = 1 /\ run'[w].d.s \in Nat
      BY <1>1, <1>4, <2>1 DEF GapInv, DeltaBehind, FirstFile, Deltas
    <3>2. cursor'.n \in Nat /\ (cursor'.n > 0 => cursor'.gen = 1)
      BY <1>1, <1>4 DEF GapInv, ScanTypeOK, FirstFile
    <3> QED
      BY <3>1, <3>2 DEF Continues
  <2> QED
    BY <1>0, <2>1
(* With one runner at work the cursor moves only when it is idle again.    *)
<1>5. ASSUME NEW w \in Runners, run[w].pc # "idle", run' = [run EXCEPT ![w] = IdleRunner], TakeTurns
      PROVE  SameFile'
  <2>1. \A v \in Runners : v # w => run[v].pc = "idle"
    BY <1>5 DEF TakeTurns
  <2>2. \A v \in Runners : run'[v].pc = "idle"
    BY <1>5, <2>1 DEF IdleRunner, GapInv, ScanTypeOK
  <2> QED
    BY <1>0, <2>2 DEF Busy
<1>6. ASSUME NEW w \in Runners, _build_delta_source_file(w) PROVE AckInv'
  <2>1. CursorAcked'
    <3>1. Explicit = [gen |-> file.gen, n |-> DurableProgress] \/ Explicit = cursor
      BY DEF Explicit
    <3>2. Upto(Explicit.gen, Explicit.n, {"acked"})
      BY <3>1, ProgressCovers DEF GapInv, AckInv, CursorAcked
    <3> QED
      BY <1>0, <1>1, <1>6, <3>2, StaysCovered DEF _build_delta_source_file
  <2>2. CASE TakeTurns /\ run' = [run EXCEPT ![w] = [pc |-> "built",
                  d |-> [gen |-> file.gen, s |-> Start, e |-> file.len]]]
    <3>1. \A v \in Runners : v # w => run'[v].pc = "idle"
      BY <1>6, <2>2 DEF TakeTurns, _build_delta_source_file, GapInv, ScanTypeOK
    <3>2. run'[w].d = [gen |-> file.gen, s |-> Start, e |-> file.len]
      BY <2>2 DEF GapInv, ScanTypeOK
    <3>3. cursor' = Explicit
      BY <1>6 DEF _build_delta_source_file
    <3>4. Start = 0 \/ Start # Explicit.n \/ Explicit.gen = file.gen
      <4>1. Explicit.n \in Nat /\ QueuedProgress \in Nat
        BY ExplicitType, ProgressCovers DEF GapInv, Cursors
      <4>2. \/ Sent = [gen |-> file.gen, n |-> QueuedProgress] /\ QueuedProgress > Explicit.n
            \/ Sent = Explicit
        BY DEF Sent
      <4>3. Start = 0 \/ (Start = Sent.n /\ (Sent.n > 0 => Sent.gen = file.gen))
        BY DEF Start, ReplacedOrTruncated
      <4>4. Sent.n \in Nat
        BY ExplicitType DEF GapInv, Cursors
      <4>5. CASE Sent = [gen |-> file.gen, n |-> QueuedProgress] /\ QueuedProgress > Explicit.n
        BY <4>1, <4>3, <4>5
      <4>6. CASE Sent = Explicit
        BY <4>3, <4>4, <4>6
      <4> QED
        BY <4>2, <4>5, <4>6
    <3>5. Continues(cursor', run'[w].d)
      BY <3>2, <3>3, <3>4 DEF Continues
    <3>6. SameFile'
      BY <1>0, <3>1, <3>5 DEF Busy
    <3> QED
      BY <2>1, <3>6 DEF AckInv
  <2>3. CASE run' = [run EXCEPT ![w] = IdleRunner]
    BY <1>4, <1>5, <1>6, <2>1, <2>3 DEF AckInv, _build_delta_source_file
  <2> QED
    BY <1>4, <1>6, <2>1, <2>2, <2>3 DEF AckInv, _build_delta_source_file
<1>7. ASSUME NEW w \in Runners, _record_source_sent_byte_count_after_ack(w) PROVE AckInv'
  <2>1. /\ UNCHANGED rows /\ run' = [run EXCEPT ![w] = IdleRunner] /\ run[w].pc = "acked"
        /\ run[w].d \in Deltas
    BY <1>7 DEF _record_source_sent_byte_count_after_ack, Busy, GapInv, DeltaBehind
  <2>2. \/ cursor' = [gen |-> file.gen, n |-> DurableProgress]
        \/ cursor' = cursor
        \/ /\ cursor' = [gen |-> run[w].d.gen, n |-> run[w].d.e]
           /\ rows[run[w].d] = "acked" /\ (run[w].d.s = 0 \/ run[w].d.s = cursor.n)
    BY <1>7 DEF _record_source_sent_byte_count_after_ack
  <2>3. ASSUME cursor' = [gen |-> file.gen, n |-> DurableProgress] PROVE CursorAcked'
    BY <1>0, <1>1, <2>3, ProgressCovers, StaysCovered DEF GapInv
  <2>4. ASSUME cursor' = [gen |-> run[w].d.gen, n |-> run[w].d.e],
               rows[run[w].d] = "acked", run[w].d.s = 0 \/ run[w].d.s = cursor.n
        PROVE  CursorAcked'
    <3>1. run[w].d.s = 0 \/ (run[w].d.s = cursor.n /\ run[w].d.gen = cursor.gen)
      BY <2>1, <2>4 DEF AckInv, SameFile, Continues, Busy
    <3>2. Upto(run[w].d.gen, run[w].d.s, {"acked"})
      <4>1. Upto(run[w].d.gen, 0, {"acked"})
        BY DEF Upto
      <4> QED
        BY <3>1, <4>1 DEF AckInv, CursorAcked
    <3>3. Upto(run[w].d.gen, run[w].d.e, {"acked"})
      BY <3>2, <2>1, <2>4 DEF Upto, Covered, Deltas
    <3> QED
      BY <1>0, <1>1, <2>4, <3>3, StaysCovered
  <2>5. CursorAcked'
    BY <1>2, <2>2, <2>3, <2>4
  <2> QED
    BY <1>4, <1>5, <2>1, <2>5 DEF AckInv
<1>8. ASSUME NEW w \in Runners, NEW r, UNCHANGED cursor,
             run' = run \/ (run' = [run EXCEPT ![w] = r]
               /\ (r.pc \in Busy => run[w].pc \in Busy /\ r.d = run[w].d))
      PROVE  AckInv'
  <2>1. CASE UNCHANGED run
    BY <1>0, <1>2, <1>8, <2>1 DEF AckInv, SameFile
  <2> QED
    BY <1>2, <1>3, <1>8, <2>1 DEF AckInv
<1>9. ASSUME NEW w \in Runners,
             \/ enqueue_completed_source_file(w) \/ DrainTarget(w) \/ EnqueueBlocked(w) \/ Crash(w)
             \/ _repair_recoverable_delta_spools_before_scan(w)
      PROVE  AckInv'
  <2>1. /\ UNCHANGED cursor
        /\ \/ run' = run \/ run' = [run EXCEPT ![w] = IdleRunner]
           \/ run' = [run EXCEPT ![w] = [run[w] EXCEPT !.pc = "scan"]]
           \/ run' = [run EXCEPT ![w] = [run[w] EXCEPT !.pc = "queued"]] /\ run[w].pc = "built"
           \/ run' = [run EXCEPT ![w] = [run[w] EXCEPT !.pc = "acked"]] /\ run[w].pc = "queued"
    BY <1>9 DEF enqueue_completed_source_file, DrainTarget, EnqueueBlocked, Crash,
       _repair_recoverable_delta_spools_before_scan, GapInv, ScanTypeOK
  <2>2. IdleRunner.pc \notin Busy
    BY DEF IdleRunner, Busy
  <2>3. \A p \in Pcs : [run[w] EXCEPT !.pc = p].pc = p /\ [run[w] EXCEPT !.pc = p].d = run[w].d
    BY DEF GapInv, ScanTypeOK, Pcs
  <2> QED
    BY <1>8, <2>1, <2>2, <2>3 DEF Busy, Pcs
<1>10. CASE UNCHANGED <<cursor, run>>
  BY <1>0, <1>2, <1>10 DEF AckInv, SameFile
<1> QED
  BY <1>6, <1>7, <1>9, <1>10
  DEF Next, vars, Pass, BeginAppend, FinishAppend, LockGoesStale, Replace, HintExpires,
      Claim, Settle, retry_dead_relay_batch, DamageSpool

-----------------------------------------------------------------------------
(* A line is queued once.                                                  *)

Within == \A d \in Deltas : rows[d] \in AnyRow => d.e <= file.len
(* A delta that was built starts where every row has ended.                *)
Fresh ==
  \A w \in Runners : run[w].pc = "built" =>
    /\ run[w].d.e <= file.len
    /\ \A x \in Deltas : rows[x] \in AnyRow => x.e <= run[w].d.s
OnceInv == OnceEach /\ bad = {} /\ Within /\ Fresh

(* Unless a refused row stands there, no row reaches past the start of the *)
(* next delta: the queued rows follow each other from the first line.      *)
LEMMA StartsAtTheEnd ==
  ASSUME ScanAssumption, FirstFile, GapInv, OnceInv, ~ExistingTerminalDeltaBlocked,
         NEW x \in Deltas, rows[x] \in AnyRow
  PROVE  x.e <= Start
<1> DEFINE p == QueuedProgress
<1>0. /\ MaxLen \in Nat /\ p \in 0..MaxLen /\ file.gen = 1
      /\ \A d \in Deltas : rows[d] \in AnyRow => d.gen = 1
      /\ Reaches(Queued, 0, p) /\ rows \in [Deltas -> Statuses] /\ file.len \in Nat
      /\ \A d \in Deltas : d.s \in Nat /\ d.e \in Nat /\ d.s < d.e
  <2>1. Queued \in SUBSET Deltas
    BY DEF Queued, Matching
  <2>2. Reaches(Queued, 0, p)
    BY <2>1, Reach DEF QueuedProgress
  <2> QED
    BY <2>2, ProgressCovers DEF FirstFile, GapInv, ScanAssumption, ScanTypeOK, Deltas
<1> HIDE DEF p
<1>1. x.e <= p
  <2>1. SUFFICES ASSUME ~(x.e <= p) PROVE FALSE
    OBVIOUS
  <2>2. PICK r \in Deltas : rows[r] \in AnyRow /\ r.s <= p /\ p < r.e
    <3>1. CASE x.s <= p
      BY <2>1, <3>1, <1>0
    <3>2. CASE ~(x.s <= p)
      <4>1. p + 1 \in 1..x.s
        BY <3>2, <1>0
      <4>2. Covered(x.gen, p + 1, AnyRow)
        BY <4>1 DEF GapInv, NoGap, AnyRow
      <4> QED
        BY <4>2, <1>0 DEF Covered
    <3> QED
      BY <3>1, <3>2
  <2>3. r.s = p
    <3>1. SUFFICES ASSUME r.s < p PROVE FALSE
      BY <2>2, <1>0
    <3>2. p \in 1..p
      BY <3>1, <1>0
    <3>3. PICK y \in Queued : y.s < p /\ p <= y.e /\ y.e <= p
      BY <3>2, <1>0 DEF Reaches
    <3>4. y \in Deltas /\ rows[y] # "none" /\ rows[r] # "none"
      BY <3>3, <2>2 DEF Queued, Matching, AnyRow
    <3>5. y # r
      BY <3>3, <3>4, <2>2, <1>0
    <3>6. y.e <= r.s \/ r.e <= y.s
      BY <3>4, <3>5 DEF OnceInv, OnceEach
    <3> QED
      BY <3>1, <3>3, <3>4, <3>6, <2>2, <1>0
  <2>4. r \notin Queued
    BY <2>3, <1>0 DEF Reaches
  <2>5. r \in Matching
    BY <2>2, <1>0 DEF Matching, OnceInv, Within, AnyRow
  <2>6. rows[r] # "acked" /\ rows[r] \notin Waiting /\ rows[r] # "none"
    BY <2>2, <2>4, <2>5 DEF Queued, OnceInv, AnyRow
  <2>7. rows[r] \in Blocked
    BY <2>6, <1>0 DEF Statuses, Waiting, Blocked
  <2> QED
    BY <2>3, <2>5, <2>7 DEF ExistingTerminalDeltaBlocked, p
<1>2. p <= Start
  <2>1. Explicit \in Cursors /\ Explicit.n \in Nat
    BY ExplicitType DEF GapInv, Cursors
  <2>2. ASSUME Explicit.n > 0 PROVE Explicit.gen = 1 /\ Explicit.n <= file.len
    <3>1. Covered(Explicit.gen, Explicit.n, AnyRow)
      BY <2>1, <2>2, StartQueued DEF Upto
    <3>2. PICK d \in Deltas : d.gen = Explicit.gen /\ Explicit.n <= d.e /\ rows[d] \in AnyRow
      BY <3>1 DEF Covered
    <3>3. d.e <= file.len
      BY <3>2 DEF OnceInv, Within
    <3> QED
      BY <3>2, <3>3, <2>1, <1>0
  <2>3. p <= file.len
    <3>1. CASE p = 0
      BY <3>1, <1>0
    <3>2. CASE p # 0
      <4>1. p \in 1..p
        BY <3>2, <1>0
      <4>2. PICK y \in Queued : p <= y.e
        BY <4>1, <1>0 DEF Reaches
      <4>3. y \in Deltas /\ y.e <= file.len
        BY DEF Queued, Matching
      <4> QED
        BY <4>2, <4>3, <1>0
    <3> QED
      BY <3>1, <3>2
  <2>4. \/ Sent = [gen |-> 1, n |-> p] /\ p > Explicit.n
        \/ Sent = Explicit /\ ~(p > Explicit.n)
    <3>1. QueuedProgress = p
      BY DEF p
    <3>2. CASE p > Explicit.n
      BY <1>0, <3>1, <3>2 DEF Sent
    <3>3. CASE ~(p > Explicit.n)
      BY <3>1, <3>3 DEF Sent
    <3> QED
      BY <3>2, <3>3
  <2>5. CASE Sent = [gen |-> 1, n |-> p] /\ p > Explicit.n
    BY <2>5, <2>3, <1>0 DEF Start, ReplacedOrTruncated
  <2>6. CASE Sent = Explicit /\ ~(p > Explicit.n)
    <3>1. Start = Explicit.n
      BY <2>6, <2>2, <2>1, <1>0 DEF Start, ReplacedOrTruncated
    <3> QED
      BY <3>1, <2>6, <2>1, <1>0
  <2> QED
    BY <2>4, <2>5, <2>6
<1>3. Start \in Nat
  BY ExplicitType DEF GapInv
<1> QED
  BY <1>0, <1>1, <1>2, <1>3

LEMMA OnceKept ==
  ASSUME ScanAssumption, FirstFile, TakeTurns, GapInv, OnceInv, [Next]_vars,
         file'.gen = file.gen, bad' = {}
  PROVE  OnceInv'
<1>0. /\ rows \in [Deltas -> Statuses] /\ DOMAIN run = Runners /\ file.len \in Nat
      /\ \A d \in Deltas : d.s \in Nat /\ d.e \in Nat /\ d.s < d.e
      /\ \A w \in Runners : run[w].pc = "built" => run[w].d \in Deltas
      /\ file \in Files
  BY DEF GapInv, ScanTypeOK, DeltaBehind, Busy, Deltas, Files
<1>2. file'.len \in Nat /\ file.len <= file'.len
  <2>1. ~Replace
    <3>1. file.gen \in Nat
      BY <1>0 DEF Files, Gens
    <3>2. Replace => file'.gen = file.gen + 1
      BY DEF Replace
    <3> QED
      BY <3>1, <3>2
  <2>2. CASE UNCHANGED file
    BY <1>0, <2>2
  <2>3. CASE BeginAppend \/ FinishAppend \/ LockGoesStale
    <3>1. file'.len = file.len \/ file'.len = file.len + 1
      BY <1>0, <2>3 DEF BeginAppend, FinishAppend, LockGoesStale, Files
    <3> QED
      BY <1>0, <3>1
  <2> QED
    BY <2>1, <2>2, <2>3 DEF Next, Pass, vars,
       HintExpires, Claim, Settle, retry_dead_relay_batch, EnqueueBlocked, Crash, DamageSpool,
       _repair_recoverable_delta_spools_before_scan, _build_delta_source_file,
       enqueue_completed_source_file, DrainTarget, _record_source_sent_byte_count_after_ack
<1>3. ASSUME \A d \in Deltas : rows'[d] \in AnyRow => rows[d] \in AnyRow
      PROVE  OnceEach' /\ Within'
  <2>1. \A d \in Deltas : rows'[d] # "none" => rows[d] # "none"
    <3>1. rows' \in [Deltas -> Statuses]
      BY GapStep DEF GapInv, ScanTypeOK
    <3> QED
      BY <1>3, <3>1 DEF AnyRow
  <2>2. OnceEach'
    BY <2>1 DEF OnceInv, OnceEach
  <2>3. Within'
    BY <1>0, <1>2, <1>3 DEF OnceInv, Within
  <2> QED
    BY <2>2, <2>3
<1>4. ASSUME UNCHANGED run, \A d \in Deltas : rows'[d] \in AnyRow => rows[d] \in AnyRow PROVE Fresh'
  BY <1>0, <1>2, <1>4 DEF OnceInv, Fresh, Deltas
<1>5. ASSUME NEW w \in Runners, run'[w].pc # "built", \A v \in Runners : v # w => run'[v] = run[v],
             \/ run[w].pc # "idle"
             \/ \A d \in Deltas : rows'[d] \in AnyRow => rows[d] \in AnyRow
      PROVE  Fresh'
  <2>1. CASE run[w].pc # "idle"
    BY <1>5, <2>1 DEF TakeTurns, Fresh
  <2>2. CASE \A d \in Deltas : rows'[d] \in AnyRow => rows[d] \in AnyRow
    BY <1>0, <1>2, <1>5, <2>2 DEF OnceInv, Fresh, Deltas
  <2> QED
    BY <1>5, <2>1, <2>2
<1>6. ASSUME NEW w \in Runners, _build_delta_source_file(w) PROVE OnceInv'
  <2>1. UNCHANGED <<rows, file>>
    BY <1>6 DEF _build_delta_source_file
  <2>2. CASE run' = [run EXCEPT ![w] = IdleRunner]
    BY <1>0, <1>3, <1>5, <2>1, <2>2 DEF OnceInv, IdleRunner
  <2>3. CASE /\ ~ExistingTerminalDeltaBlocked
             /\ run' = [run EXCEPT ![w] = [pc |-> "built",
                                           d |-> [gen |-> file.gen, s |-> Start, e |-> file.len]]]
    <3>1. \A v \in Runners : v # w => run'[v].pc = "idle"
      BY <1>0, <1>6, <2>3 DEF TakeTurns, _build_delta_source_file
    <3>2. run'[w].d = [gen |-> file.gen, s |-> Start, e |-> file.len]
      BY <2>3, <1>0
    <3>3. \A x \in Deltas : rows[x] \in AnyRow => x.e <= Start
      BY <2>3, StartsAtTheEnd
    <3>4. Fresh'
      BY <2>1, <3>1, <3>2, <3>3, <1>0 DEF Fresh
    <3> QED
      BY <1>3, <2>1, <3>4 DEF OnceInv
  <2> QED
    BY <1>6, <2>2, <2>3 DEF _build_delta_source_file
<1>7. ASSUME NEW w \in Runners, enqueue_completed_source_file(w) PROVE OnceInv'
  <2> DEFINE d == run[w].d
  <2>1. /\ run[w].pc = "built" /\ d \in Deltas /\ UNCHANGED file
        /\ rows' = [rows EXCEPT ![d] = IF rows[d] = "none" THEN "pending" ELSE rows[d]]
    BY <1>0, <1>7 DEF enqueue_completed_source_file
  <2>2. run'[w].pc # "built"
    BY <1>0, <1>7 DEF enqueue_completed_source_file, IdleRunner, GapInv, ScanTypeOK
  <2>3. d.e <= file.len /\ \A x \in Deltas : rows[x] \in AnyRow => x.e <= d.s
    BY <2>1 DEF OnceInv, Fresh
  <2> HIDE DEF d
  <2>4. \A x \in Deltas : x # d => rows'[x] = rows[x]
    BY <2>1, <1>0
  <2>5. \A x \in Deltas : rows[x] # "none" => rows[x] \in AnyRow
    BY <1>0 DEF AnyRow
  <2>6. OnceEach'
    <3> SUFFICES ASSUME NEW y \in Deltas, NEW x \in Deltas, y # x, rows'[y] # "none", rows'[x] # "none"
                 PROVE  y.e <= x.s \/ x.e <= y.s
      BY DEF OnceEach
    <3>1. CASE y # d /\ x # d
      BY <3>1, <2>4 DEF OnceInv, OnceEach
    <3>2. CASE y = d \/ x = d
      BY <3>2, <2>3, <2>4, <2>5
    <3> QED
      BY <3>1, <3>2
  <2>7. Within'
    BY <2>1, <2>3, <2>4 DEF OnceInv, Within
  <2>8. Fresh'
    BY <1>0, <1>5, <1>7, <2>1, <2>2 DEF enqueue_completed_source_file
  <2> QED
    BY <2>6, <2>7, <2>8 DEF OnceInv
<1>8. ASSUME NEW w \in Runners, DrainTarget(w) PROVE OnceInv'
  <2>1. run[w].pc = "queued" /\ run[w].d \in Deltas /\ rows[run[w].d] \in AnyRow
    BY <1>8 DEF DrainTarget, GapInv, DeltaBehind, RowThere, Busy
  <2>2. \A d \in Deltas : rows'[d] \in AnyRow => rows[d] \in AnyRow
    BY <1>0, <1>8, <2>1 DEF DrainTarget
  <2>3. run'[w].pc # "built" /\ \A v \in Runners : v # w => run'[v] = run[v]
    BY <1>8, <1>0 DEF DrainTarget, IdleRunner, GapInv, ScanTypeOK
  <2> QED
    BY <1>3, <1>5, <2>2, <2>3 DEF OnceInv
<1>9. ASSUME NEW w \in Runners,
             \/ EnqueueBlocked(w) \/ Crash(w) \/ _record_source_sent_byte_count_after_ack(w)
             \/ _repair_recoverable_delta_spools_before_scan(w)
      PROVE  OnceInv'
  <2>1. /\ UNCHANGED rows
        /\ run' = run \/ (run'[w].pc # "built" /\ \A v \in Runners : v # w => run'[v] = run[v])
    BY <1>9, <1>0 DEF EnqueueBlocked, Crash, _record_source_sent_byte_count_after_ack,
       _repair_recoverable_delta_spools_before_scan, IdleRunner, GapInv, ScanTypeOK
  <2> QED
    BY <1>3, <1>4, <1>5, <2>1 DEF OnceInv
<1>10. ASSUME NEW d \in Deltas,
              Claim(d) \/ Settle(d) \/ retry_dead_relay_batch(d) \/ DamageSpool(d)
       PROVE  OnceInv'
  <2>1. UNCHANGED run
    BY <1>10 DEF Claim, Settle, retry_dead_relay_batch, DamageSpool
  <2>2. \A x \in Deltas : rows'[x] \in AnyRow => rows[x] \in AnyRow
    BY <1>10, <1>0 DEF Claim, Settle, retry_dead_relay_batch, DamageSpool, Blocked, Statuses, AnyRow
  <2> QED
    BY <1>3, <1>4, <2>1, <2>2 DEF OnceInv
<1>11. CASE UNCHANGED <<rows, run>>
  BY <1>3, <1>4, <1>11 DEF OnceInv
<1> QED
  BY <1>6, <1>7, <1>8, <1>9, <1>10, <1>11
  DEF Next, vars, Pass, BeginAppend, FinishAppend, LockGoesStale, Replace, HintExpires

-----------------------------------------------------------------------------
(* The theorems of the run.                                                *)

(* What each part assumes of its steps holds of its states.                *)
PushInv ==
  /\ GapInv /\ AckInv
  /\ part \in {"grows", "once"} => FirstFile
  /\ part \in {"replaced", "once"} => TakeTurns
  /\ part = "once" => OnceInv

LEMMA PushFirst == ASSUME PushInit PROVE PushInv
<1>1. ScanAssumption /\ Init
  BY PushAssumption DEF PushAssumption, PushInit
<1>2. GapInv
  BY <1>1, GapFirst
<1>3. AckInv /\ FirstFile /\ TakeTurns /\ OnceInv
  BY <1>1 DEF Init, AckInv, CursorAcked, SameFile, Upto, IdleRunner, Busy, FirstFile, AnyRow,
     TakeTurns, OnceInv, OnceEach, Within, Fresh
<1> QED
  BY <1>2, <1>3 DEF PushInv

LEMMA PushUnmoved == ASSUME PushInv, UNCHANGED <<part, vars>> PROVE PushInv'
<1> USE DEF vars, Upto, Covered
<1>1. GapInv' /\ AckInv'
  BY DEF PushInv, GapInv, ScanTypeOK, Room, CursorQueued, DeltaBehind, RowThere, NoGap, AckInv,
     CursorAcked, SameFile
<1>2. (FirstFile => FirstFile') /\ (TakeTurns => TakeTurns') /\ (OnceInv => OnceInv')
  BY DEF FirstFile, TakeTurns, OnceInv, OnceEach, Within, Fresh
<1> QED
  BY <1>1, <1>2 DEF PushInv

LEMMA PushStep == ASSUME PushInv, [PushNext]_pushVars PROVE PushInv'
<1>0. ScanAssumption
  BY PushAssumption DEF PushAssumption
<1>1. CASE UNCHANGED <<part, vars>>
  BY <1>1, PushUnmoved
<1>2. CASE GrowsStep
  <2>1. [Next]_vars /\ file'.gen = 1 /\ part' = part /\ part = "grows"
    BY <1>2 DEF GrowsStep, PushInv, FirstFile
  <2>2. FirstFile' /\ GapInv'
    BY <1>0, <2>1, FirstFileStep, GapStep DEF PushInv
  <2>3. AckInv'
    BY <1>0, <2>1, <2>2, AckStep DEF PushInv
  <2> QED
    BY <2>1, <2>2, <2>3 DEF PushInv
<1>3. CASE ReplacedStep
  <2>1. [Next]_vars /\ part' = part /\ part = "replaced" /\ TakeTurns'
    BY <1>3 DEF ReplacedStep
  <2>2. GapInv' /\ AckInv'
    BY <1>0, <2>1, GapStep, AckStep DEF PushInv
  <2> QED
    BY <2>1, <2>2 DEF PushInv
<1>4. CASE OnceStep
  <2>1. /\ [Next]_vars /\ file'.gen = file.gen /\ file.gen = 1 /\ part' = part /\ part = "once"
        /\ TakeTurns' /\ bad' = {}
    BY <1>4 DEF OnceStep, PushInv, FirstFile
  <2>2. FirstFile' /\ GapInv'
    BY <1>0, <2>1, FirstFileStep, GapStep DEF PushInv
  <2>3. AckInv' /\ OnceInv'
    BY <1>0, <2>1, <2>2, AckStep, OnceKept DEF PushInv
  <2> QED
    BY <2>1, <2>2, <2>3 DEF PushInv
<1> QED
  BY <1>1, <1>2, <1>3, <1>4 DEF PushNext, SharedStep, RefusedStep, LegacyStep, pushVars

(* The cursor of a source file stands behind acknowledged lines only, with *)
(* any number of runners that overlap on a file that only grows, and with  *)
(* runners that take turns on a file that is replaced or cut short any     *)
(* number of times (_record_source_sent_byte_count_after_ack,              *)
(* _read_source_scan_state).                                               *)
THEOREM CursorNeverAhead == PushSpec => []CursorIsAcked
<1>1. PushInv => CursorIsAcked
  BY DEF PushInv, AckInv, CursorAcked, CursorIsAcked, Upto
<1> QED
  BY <1>1, PushFirst, PushStep, PTL DEF PushSpec

(* No line of a file is left out between two deltas, and runners that take *)
(* turns on a file that only grows queue none twice, whatever the server   *)
(* refuses and however often a runner dies (_build_delta_source_file,      *)
(* _read_delta_progress).                                                  *)
THEOREM LinesQueuedOnce == PushSpec => []EachLineOnce
<1>1. PushInv => EachLineOnce
  BY DEF PushInv, GapInv, OnceInv, EachLineOnce
<1> QED
  BY <1>1, PushFirst, PushStep, PTL DEF PushSpec
=============================================================================
