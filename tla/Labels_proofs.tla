---------------------------- MODULE Labels_proofs ----------------------------
(***************************************************************************)
(* Theorems about the labels of a tray and the units of work groups.       *)
(* The reconciliation: three accounts of the same labels, the journal's,   *)
(* the centre's and the paper's, which no step changes together.           *)
(* The sealing: what a station asks, holds and stores is compared with a   *)
(* ledger that moves between its answer and the command built from it.     *)
(***************************************************************************)
EXTENDS Labels, FiniteSetTheorems, TLAPS

Pcs == {"idle", "load", "central", "observed", "target", "request", "print", "paper", "proved",
        "failure_ack", "complete", "activate", "end"}
Labelled == [st : TargetStates, no : Nat, att : BOOLEAN]
Journals == [kind : {"RECONCILIATION", "SINGLE"}, st : Statuses, ctx : Ctx \cup {NoCtx},
             ex : BOOLEAN, filled : BOOLEAN, tg : [Targets -> Labelled]]
Ledger == [st : {"none", "open", "committed"}, att : [Targets -> [no : Nat, st : AttemptStates]]]
Sheet == [copies : Nat, jams : Nat, asked : Nat]
Tasks == [pc : Pcs, ctx : Ctx \cup {NoCtx}, confirm : BOOLEAN, ready : SUBSET Targets,
          seen : {"none", "open", "committed"}, k : 1..(N + 1), ok : BOOLEAN]

ReconTypes ==
  /\ ctx \in Ctx \cup {NoCtx} /\ tick \in BOOLEAN /\ journal \in Journals /\ run \in Tasks
  /\ central \in [Contexts -> Ledger] /\ paper \in [Contexts -> [Targets -> Sheet]]

(* What saving a state of the current target changes.                      *)
SavesTarget(j, k, s) == j = [journal EXCEPT !.st = s, !.tg[k].st = s]
TargetSaved(j, k, s) ==
  /\ j \in Journals /\ j.st = s /\ j.kind = journal.kind /\ j.ctx = journal.ctx
  /\ j.ex = journal.ex /\ j.filled = journal.filled
  /\ j.tg[k].st = s /\ j.tg[k].att = journal.tg[k].att /\ j.tg[k].no = journal.tg[k].no
  /\ \A i \in Targets : i # k => j.tg[i] = journal.tg[i]
LEMMA SaveTarget ==
  ASSUME journal \in Journals, NEW k \in Targets, NEW s \in TargetStates, NEW j,
         SavesTarget(j, k, s)
  PROVE  TargetSaved(j, k, s)
<1> USE DEF SavesTarget
<1>1. j.tg = [journal.tg EXCEPT ![k].st = s] /\ journal.tg \in [Targets -> Labelled]
  BY DEF Journals
<1>2. j.tg \in [Targets -> Labelled]
  BY <1>1 DEF Labelled
<1>3. j.tg[k].st = s /\ j.tg[k].att = journal.tg[k].att /\ j.tg[k].no = journal.tg[k].no
  BY <1>1 DEF Labelled
<1>4. \A i \in Targets : i # k => j.tg[i] = journal.tg[i]
  BY <1>1
<1>5. j.st = s /\ j.kind = journal.kind /\ j.ctx = journal.ctx /\ j.ex = journal.ex /\ j.filled = journal.filled
  BY DEF Journals
<1>6. s \in Statuses
  BY DEF Statuses
<1>7. j = [kind |-> journal.kind, st |-> s, ctx |-> journal.ctx, ex |-> journal.ex, filled |-> journal.filled, tg |-> j.tg]
  BY DEF Journals
<1>8. j \in Journals
  BY <1>2, <1>6, <1>7 DEF Journals
<1> QED
  BY <1>3, <1>4, <1>5, <1>8 DEF TargetSaved

(* What the centre's calls do to an exchange: nothing is taken back.       *)
Moves(e, f) ==
  /\ f \in Ledger
  /\ e.st # "none" => f.st # "none"
  /\ e.st = "committed" => f.st = "committed"
  /\ \A k \in Targets : e.att[k].st = "SUCCEEDED" => f.att[k].st = "SUCCEEDED"

LEMMA PrepareMoves ==
  ASSUME NEW e \in Ledger, NEW f, f = prepare_phs_label_exchange(e)
  PROVE  Moves(e, f) /\ f.att = e.att /\ f.st # "none" /\ (f.st = "committed" => e.st = "committed")
  BY DEF prepare_phs_label_exchange, Moves, Ledger

LEMMA RequestMoves ==
  ASSUME NEW e \in Ledger, NEW k \in Targets, NEW n \in Nat,
         NEW f, f = request_phs_label_print(e, k, n)
  PROVE  /\ Moves(e, f) /\ f.st = e.st
         /\ \A i \in Targets : f.att[i].st = "SUCCEEDED" => e.att[i].st = "SUCCEEDED"
<1>1. CASE f = e
  BY <1>1 DEF Moves
<1>2. CASE /\ e.att[k].st \in {"NONE", "FAILED"}
           /\ f = [e EXCEPT !.att[k] = [no |-> n, st |-> "REQUESTED"]]
  <2>1. f.st = e.st /\ f.att = [e.att EXCEPT ![k] = [no |-> n, st |-> "REQUESTED"]]
    BY <1>2 DEF Ledger
  <2>2. f.att \in [Targets -> [no : Nat, st : AttemptStates]]
    BY <2>1 DEF Ledger, AttemptStates
  <2>3. f = [st |-> e.st, att |-> f.att]
    BY <1>2 DEF Ledger
  <2>4. f \in Ledger
    BY <2>2, <2>3 DEF Ledger
  <2> QED
    BY <1>2, <2>1, <2>4 DEF Moves, Ledger
<1> QED
  BY <1>1, <1>2 DEF request_phs_label_print

(* The attempt is closed with a state, or nothing happens.                 *)
Closed(e, k, s, f) == f = e \/ (e.att[k].st = "REQUESTED" /\ f = [e EXCEPT !.att[k].st = s])
LEMMA CompleteMoves ==
  ASSUME NEW e \in Ledger, NEW k \in Targets, NEW s \in {"SUCCEEDED", "FAILED"},
         NEW f, Closed(e, k, s, f)
  PROVE  /\ Moves(e, f) /\ f.st = e.st
         /\ \A i \in Targets : f.att[i].st = "SUCCEEDED" =>
              e.att[i].st = "SUCCEEDED" \/ (s = "SUCCEEDED" /\ i = k)
<1>1. CASE f = e
  BY <1>1 DEF Moves
<1>2. CASE e.att[k].st = "REQUESTED" /\ f = [e EXCEPT !.att[k].st = s]
  <2>1. f.st = e.st /\ f.att = [e.att EXCEPT ![k].st = s]
    BY <1>2 DEF Ledger
  <2>2. f.att \in [Targets -> [no : Nat, st : AttemptStates]]
    BY <2>1 DEF Ledger, AttemptStates
  <2>3. f = [st |-> e.st, att |-> f.att]
    BY <1>2 DEF Ledger
  <2>4. f \in Ledger
    BY <2>2, <2>3 DEF Ledger
  <2>5. \A i \in Targets : i # k => f.att[i] = e.att[i]
    BY <2>1 DEF Ledger
  <2>6. f.att[k].st = s
    BY <2>1 DEF Ledger
  <2> QED
    BY <1>2, <2>1, <2>4, <2>5, <2>6 DEF Moves
<1> QED
  BY <1>1, <1>2 DEF Closed

LEMMA ActivateMoves ==
  ASSUME NEW e \in Ledger, NEW f, f = activate_phs_label_exchange(e)
  PROVE  /\ Moves(e, f) /\ f.att = e.att /\ (f.st # "none" => e.st # "none")
         /\ f.st = "committed" => e.st = "committed" \/ \A k \in Targets : e.att[k].st = "SUCCEEDED"
  BY DEF activate_phs_label_exchange, Ready, Moves, Ledger

-----------------------------------------------------------------------------
(* The inductive invariant.                                                *)

Cur == {"request", "print", "paper", "proved", "failure_ack", "complete"}
Work == {"central", "observed", "target", "activate"} \cup Cur
OnPaper == {"LOCAL_PRINT_SUCCEEDED", "PRINT_COMPLETE_PENDING", "PRINT_COMPLETED"}
Begun == {"LOCAL_PRINT_STARTING", "LOCAL_PRINT_SUCCEEDED", "PRINT_COMPLETE_PENDING"}

(* A linked context's exchange exists.                                     *)
Known(x) == x # NoCtx => x.c \in Contexts /\ (x.linked => central[x.c].st # "none")
Linking == Known(ctx) /\ Known(run.ctx) /\ Known(journal.ctx)

(* The journal knows of an exchange only what exists, and of a target only *)
(* what it has read.                                                       *)
JournalSound ==
  /\ journal.kind = "SINGLE" => journal.ctx = NoCtx
  /\ Ours => journal.ctx # NoCtx
  /\ journal.ex => journal.ctx # NoCtx /\ central[journal.ctx.c].st # "none"
  /\ journal.filled => journal.ex
  /\ ~journal.filled => \A k \in Targets : journal.tg[k].st = "PREPARED"
  /\ \A k \in Targets : journal.tg[k].st \in Begun => journal.tg[k].att

(* The task works on the open journal, its target is in the state its step *)
(* needs, and the labels it has still before it and that the centre knows  *)
(* as printed are those it read.                                           *)
TaskSound ==
  /\ run.pc \in Work => Ours
  /\ run.pc \in Work \ {"central"} => journal.filled
  /\ run.pc \in Cur => run.k \in Targets /\ run.k \notin run.ready
  /\ run.pc = "request" => Tg.st = "PRINT_REQUEST_PENDING"
  /\ run.pc = "failure_ack" => Tg.st = "PRINT_FAILURE_ACK_PENDING"
  /\ run.pc = "paper" => Tg.st = "LOCAL_PRINT_STARTING"
  /\ run.pc = "proved" => Tg.st = "LOCAL_PRINT_SUCCEEDED"
  /\ run.pc = "complete" => Tg.st = "PRINT_COMPLETE_PENDING"
  /\ run.pc \in Cur \ {"request", "failure_ack"} => Tg.att
  /\ run.pc = "observed" /\ run.seen = "committed" => central[C].st = "committed"
  /\ run.pc = "observed" => run.ready = ReadySet(central[C])
  /\ run.pc \in Cur \cup {"target"} =>
       /\ run.ready \subseteq ReadySet(central[C])
       /\ \A k \in ReadySet(central[C]) : k >= run.k => k \in run.ready

(* What the centre and the journal call printed is on paper.               *)
LedgerSound ==
  \A c \in Contexts :
    /\ \A k \in Targets : central[c].att[k].st = "SUCCEEDED" => paper[c][k].copies > 0
    /\ central[c].st = "committed" => \A k \in Targets : central[c].att[k].st = "SUCCEEDED"
    /\ central[c].st = "none" => \A k \in Targets : central[c].att[k].st # "SUCCEEDED"
PaperSound ==
  Ours => \A k \in Targets :
    /\ journal.tg[k].st \in OnPaper => paper[C][k].copies > 0
    /\ journal.tg[k].st = "PRINT_COMPLETED" => central[C].att[k].st = "SUCCEEDED"

(* Without an approval, a label that the journal or the centre does not    *)
(* hold for printed has only the copies of printer errors.                 *)
NoAsk == \A c \in Contexts : \A k \in Targets : paper[c][k].asked = 0
Spent(k) ==
  \/ journal.tg[k].st \in OnPaper
  \/ journal.tg[k].st = "LOCAL_PRINT_STARTING" /\ ~(run.pc = "paper" /\ run.k = k)
Fresh(c, k) == central[c].att[k].st # "SUCCEEDED" /\ ~(Ours /\ journal.ctx.c = c /\ Spent(k))
Copies(c, k) ==
  /\ paper[c][k].copies <= 1 + paper[c][k].jams
  /\ Fresh(c, k) => paper[c][k].copies <= paper[c][k].jams
Printing ==
  NoAsk => ~tick /\ ~run.confirm /\ \A c \in Contexts : \A k \in Targets : Copies(c, k)

ReconInv ==
  /\ ReconTypes /\ Linking /\ JournalSound /\ TaskSound /\ LedgerSound /\ PaperSound /\ Printing
  /\ NoOrphanExchange /\ CommittedIsCentral

-----------------------------------------------------------------------------
(* What the steps have in common.                                          *)

(* The step moves the centre as the calls may.                             *)
CentralGood ==
  /\ central' \in [Contexts -> Ledger]
  /\ \A c \in Contexts : Moves(central[c], central'[c])
  /\ LedgerSound'
  /\ \A c \in Contexts : central'[c].st = "open" /\ central[c].st # "open" =>
                           c \in foreign' \/ (Ours' /\ journal'.ctx.c = c)

LEMMA SameCentral ==
  ASSUME ReconInv, UNCHANGED <<central, paper>>
  PROVE  CentralGood
  BY DEF ReconInv, ReconTypes, CentralGood, Moves, LedgerSound

(* A call about the journal's exchange.                                    *)
LEMMA CallGood ==
  ASSUME ReconInv, Ours, NEW f, Moves(central[C], f), UNCHANGED paper,
         Ours', journal'.ctx = journal.ctx,
         \A k \in Targets : f.att[k].st = "SUCCEEDED" => paper[C][k].copies > 0,
         f.st = "committed" => \A k \in Targets : f.att[k].st = "SUCCEEDED",
         f.st # "none", central' = central \/ central' = [central EXCEPT ![C] = f]
  PROVE  CentralGood
<1>1. C \in Contexts /\ central \in [Contexts -> Ledger]
  BY DEF ReconInv, ReconTypes, Linking, Known, JournalSound, C
<1>2. CASE central' = central
  BY <1>2, SameCentral
<1>3. CASE central' = [central EXCEPT ![C] = f]
  <2>1. central'[C] = f /\ \A c \in Contexts : c # C => central'[c] = central[c]
    BY <1>1, <1>3
  <2>2. central' \in [Contexts -> Ledger]
    BY <1>1, <1>3 DEF Moves
  <2>3. \A c \in Contexts : Moves(central[c], central'[c])
    <3>1. \A c \in Contexts : Moves(central[c], central[c])
      BY <1>1 DEF Moves
    <3> QED
      BY <2>1, <3>1
  <2>4. LedgerSound'
    BY <2>1 DEF ReconInv, LedgerSound
  <2>5. \A c \in Contexts : central'[c].st = "open" /\ central[c].st # "open" => c = C
    BY <2>1
  <2>6. journal'.ctx.c = C
    BY DEF C
  <2> QED
    BY <2>2, <2>3, <2>4, <2>5, <2>6 DEF CentralGood
<1> QED
  BY <1>2, <1>3

(* What survives a step that keeps the journal open for its exchange.      *)
LEMMA OrphansKept ==
  ASSUME ReconInv, CentralGood, UNCHANGED foreign, (Ours => Ours') /\ journal'.ctx = journal.ctx
  PROVE  NoOrphanExchange'
  BY DEF ReconInv, CentralGood, NoOrphanExchange

NewContext ==
  \/ ctx' \in {NoCtx, ctx, journal.ctx}
  \/ ctx'.c \in Contexts /\ (ctx'.linked => central'[ctx'.c].st # "none")
LEMMA LinkingKept ==
  ASSUME ReconInv, CentralGood, NewContext,
         run'.ctx \in {NoCtx, ctx, run.ctx}, journal'.ctx \in {journal.ctx, run.ctx}
  PROVE  Linking'
<1>1. \A x : Known(x) => (x # NoCtx => x.c \in Contexts /\ (x.linked => central'[x.c].st # "none"))
  BY DEF Known, CentralGood, Moves
<1>2. Known(NoCtx) /\ Known(ctx) /\ Known(journal.ctx) /\ Known(run.ctx)
  BY DEF ReconInv, Linking, Known
<1> QED
  BY <1>1, <1>2 DEF Linking, Known, NewContext

(* Copies are counted for a label that is no fresher than before.          *)
LEMMA CopiesKept ==
  ASSUME ReconInv, NoAsk, NEW c \in Contexts, NEW k \in Targets,
         paper'[c][k] = paper[c][k], Fresh(c, k)' => Fresh(c, k)
  PROVE  Copies(c, k)'
  BY DEF ReconInv, Printing, Copies

(* The journal stays as it was: the task goes on, a call fails, the task   *)
(* ends or the program does.                                               *)
LEMMA TaskStep ==
  ASSUME ReconInv, CentralGood, UNCHANGED <<journal, paper, foreign>>,
         ctx' \in Ctx \cup {NoCtx}, NewContext, tick' \in BOOLEAN, tick' => tick,
         run' \in Tasks, run'.pc # "paper", run'.ctx \in {NoCtx, ctx, run.ctx},
         run'.confirm => tick \/ run.confirm, TaskSound'
  PROVE  ReconInv'
<1>1. ReconTypes'
  BY DEF ReconInv, ReconTypes, CentralGood
<1>2. Ours' = Ours /\ C' = C /\ \A k \in Targets : journal'.tg[k] = journal.tg[k]
  BY DEF Ours, Open, C
<1>3. Linking' /\ NoOrphanExchange'
  BY <1>2, LinkingKept, OrphansKept
<1>4. JournalSound'
  BY <1>2 DEF ReconInv, JournalSound, CentralGood, Moves, Linking, Known
<1>6. Ours => C \in Contexts
  BY DEF ReconInv, JournalSound, Linking, Known, C
<1>7. PaperSound'
  BY <1>2, <1>6 DEF ReconInv, PaperSound, CentralGood, Moves
<1>8. Printing'
  <2> SUFFICES ASSUME NoAsk' PROVE (~tick /\ ~run.confirm /\ \A c \in Contexts : \A k \in Targets : Copies(c, k))'
    BY DEF Printing
  <2>1. NoAsk
    BY DEF NoAsk
  <2>2. ~tick' /\ ~run'.confirm
    BY <2>1 DEF ReconInv, Printing
  <2>3. ASSUME NEW c \in Contexts, NEW k \in Targets PROVE Copies(c, k)'
    <3>1. Fresh(c, k)' => Fresh(c, k)
      BY <1>2 DEF Fresh, Spent, CentralGood, Moves
    <3> QED
      BY <2>1, <3>1, CopiesKept
  <2> QED
    BY <2>2, <2>3
<1>9. CommittedIsCentral'
  BY DEF ReconInv, CommittedIsCentral, CentralGood, Moves, Linking, Known
<1> QED
  BY <1>1, <1>3, <1>4, <1>7, <1>8, <1>9 DEF ReconInv, CentralGood

(* The task saves a new state of its target.                               *)
TargetMoved(s) ==
  /\ journal' \in Journals /\ journal'.st \notin TerminalStates /\ journal'.kind = journal.kind
  /\ journal'.ctx = journal.ctx /\ journal'.ex = journal.ex /\ journal'.filled = journal.filled
  /\ journal'.tg[run.k].st = s
  /\ \A i \in Targets : i # run.k => journal'.tg[i] = journal.tg[i]
LEMMA TargetStep ==
  ASSUME ReconInv, run.pc \in Cur \cup {"target"}, run.k \in Targets, NEW s \in TargetStates,
         TargetMoved(s), UNCHANGED <<ctx, tick, foreign>>, CentralGood,
         paper' \in [Contexts -> [Targets -> Sheet]],
         \A c \in Contexts : \A k \in Targets : paper'[c][k].asked = paper[c][k].asked,
         \A c \in Contexts : \A k \in Targets : c # C \/ k # run.k => paper'[c][k] = paper[c][k],
         s \in Begun => journal'.tg[run.k].att,
         s \in OnPaper => paper'[C][run.k].copies > 0,
         s = "PRINT_COMPLETED" => central'[C].att[run.k].st = "SUCCEEDED",
         \A c \in Contexts : \A k \in Targets : NoAsk /\ c = C /\ k = run.k => Copies(c, k)',
         run' \in Tasks, run'.ctx = run.ctx, run'.confirm = run.confirm,
         run'.pc = "paper" => run'.k = run.k, TaskSound'
  PROVE  ReconInv'
<1>0. C \in Contexts /\ Ours /\ journal.filled /\ journal \in Journals /\ journal.ctx # NoCtx
  BY DEF ReconInv, TaskSound, JournalSound, Linking, Known, C, Work, Cur, ReconTypes
<1>1. /\ journal' \in Journals /\ journal'.st \notin TerminalStates /\ journal'.kind = journal.kind
      /\ journal'.ctx = journal.ctx /\ journal'.ex = journal.ex /\ journal'.filled = journal.filled
      /\ journal'.tg[run.k].st = s
      /\ \A i \in Targets : i # run.k => journal'.tg[i] = journal.tg[i]
  BY DEF TargetMoved
<1>2. ReconTypes'
  BY <1>1 DEF ReconInv, ReconTypes, CentralGood
<1>3. Ours' /\ C' = C
  BY <1>0, <1>1 DEF Ours, Open, C, TargetStates, TerminalStates
<1>4. Linking' /\ NoOrphanExchange'
  BY <1>1, <1>3, LinkingKept, OrphansKept DEF NewContext
<1>5. JournalSound'
  <2>1. journal.ex /\ central'[journal.ctx.c].st # "none"
    BY <1>0 DEF ReconInv, JournalSound, CentralGood, Moves, C
  <2>2. \A k \in Targets : journal'.tg[k].st \in Begun => journal'.tg[k].att
    BY <1>0, <1>1 DEF ReconInv, JournalSound
  <2> QED
    BY <1>0, <1>1, <2>1, <2>2 DEF JournalSound, Ours
<1>6. PaperSound'
  <2> SUFFICES ASSUME NEW k \in Targets
               PROVE  /\ journal'.tg[k].st \in OnPaper => paper'[C][k].copies > 0
                      /\ journal'.tg[k].st = "PRINT_COMPLETED" => central'[C].att[k].st = "SUCCEEDED"
    BY <1>3 DEF PaperSound
  <2>1. CASE k = run.k
    BY <1>1, <2>1
  <2>2. CASE k # run.k
    BY <1>0, <1>1, <2>2 DEF ReconInv, PaperSound, CentralGood, Moves
  <2> QED
    BY <2>1, <2>2
<1>7. Printing'
  <2> SUFFICES ASSUME NoAsk' PROVE (~tick /\ ~run.confirm /\ \A c \in Contexts : \A k \in Targets : Copies(c, k))'
    BY DEF Printing
  <2>1. NoAsk
    BY DEF NoAsk
  <2>2. ~tick' /\ ~run'.confirm
    BY <2>1 DEF ReconInv, Printing
  <2>3. ASSUME NEW c \in Contexts, NEW k \in Targets PROVE Copies(c, k)'
    <3>1. CASE c = C /\ k = run.k
      BY <2>1, <3>1
    <3>2. CASE c # C \/ k # run.k
      <4>1. Fresh(c, k)' => Fresh(c, k)
        BY <1>0, <1>1, <1>3, <3>2 DEF Fresh, Spent, CentralGood, Moves, C
      <4> QED
        BY <2>1, <3>2, <4>1, CopiesKept
    <3> QED
      BY <3>1, <3>2
  <2> QED
    BY <2>2, <2>3
<1>8. CommittedIsCentral'
  BY <1>1 DEF CommittedIsCentral, TerminalStates
<1> QED
  BY <1>2, <1>4, <1>5, <1>6, <1>7, <1>8 DEF ReconInv, CentralGood

LEMMA SavedTarget ==
  ASSUME journal \in Journals, run.k \in Targets, NEW s \in TargetStates, _save_target(s)
  PROVE  TargetMoved(s) /\ journal'.tg[run.k].att = journal.tg[run.k].att
<1>1. SavesTarget(journal', run.k, s)
  BY DEF _save_target, SavesTarget
<1>2. TargetSaved(journal', run.k, s)
  BY <1>1, SaveTarget
<1> QED
  BY <1>2 DEF TargetSaved, TargetMoved, TargetStates, TerminalStates

(* The journal is closed, or its activation is noted.                      *)
LEMMA StatusStep ==
  ASSUME ReconInv, Ours, NEW s \in {"COMMITTED", "CANCELLED", "ACTIVATE_PENDING"}, _save(s),
         UNCHANGED <<ctx, tick, paper, foreign>>, CentralGood,
         s = "COMMITTED" => central'[C].st = "committed",
         s = "CANCELLED" => C \in foreign /\ ~journal.filled,
         run' \in Tasks, run'.pc # "paper", run'.ctx = run.ctx, run'.confirm = run.confirm,
         TaskSound'
  PROVE  ReconInv'
<1>0. C \in Contexts /\ journal \in Journals /\ journal.ctx # NoCtx /\ journal.kind = "RECONCILIATION"
  BY DEF ReconInv, JournalSound, Linking, Known, C, ReconTypes, Ours
<1>1. /\ journal' \in Journals /\ journal'.st = s /\ journal'.kind = journal.kind
      /\ journal'.ctx = journal.ctx /\ journal'.tg = journal.tg
      /\ journal'.ex = journal.ex /\ journal'.filled = journal.filled
  <2>1. s \in Statuses
    BY DEF Statuses, TerminalStates
  <2> QED
    BY <1>0, <2>1 DEF _save, Journals
<1>2. ReconTypes'
  BY <1>1 DEF ReconInv, ReconTypes, CentralGood
<1>3. Linking'
  BY <1>1, LinkingKept DEF NewContext
<1>4. JournalSound'
  <2>1. journal.ex => central'[journal.ctx.c].st # "none"
    BY <1>0 DEF ReconInv, JournalSound, CentralGood, Moves, C
  <2> QED
    BY <1>0, <1>1, <2>1 DEF ReconInv, JournalSound
<1>5. Ours' => s = "ACTIVATE_PENDING"
  BY <1>1 DEF Ours, Open, TerminalStates
<1>6. PaperSound'
  BY <1>0, <1>1 DEF ReconInv, PaperSound, CentralGood, Moves, C
<1>7. Printing'
  <2> SUFFICES ASSUME NoAsk'
               PROVE  (~tick /\ ~run.confirm /\ \A c \in Contexts : \A k \in Targets : Copies(c, k))'
    BY DEF Printing
  <2>1. NoAsk
    BY DEF NoAsk
  <2>2. ~tick' /\ ~run'.confirm
    BY <2>1 DEF ReconInv, Printing
  <2>3. ASSUME NEW c \in Contexts, NEW k \in Targets PROVE Copies(c, k)'
    <3>1. Fresh(c, k)' => central[c].att[k].st # "SUCCEEDED"
      BY DEF Fresh, CentralGood, Moves
    <3>2. ASSUME c = C, s = "COMMITTED" PROVE ~Fresh(c, k)'
      BY <3>2 DEF Fresh, CentralGood, LedgerSound
    <3>3. ASSUME s = "CANCELLED" PROVE ~Spent(k)
      BY <3>3 DEF ReconInv, JournalSound, Spent, OnPaper
    <3>4. ASSUME s = "ACTIVATE_PENDING", c = C PROVE Spent(k) => (Ours /\ journal.ctx.c = c /\ Spent(k))'
      BY <1>0, <1>1, <3>4 DEF Ours, Open, Spent, C, TerminalStates
    <3>5. Fresh(c, k)' => Fresh(c, k)
      BY <3>1, <3>2, <3>3, <3>4 DEF Fresh, C
    <3> QED
      BY <2>1, <3>5, CopiesKept
  <2> QED
    BY <2>2, <2>3
<1>8. CommittedIsCentral'
  BY <1>1 DEF CommittedIsCentral, C
<1>9. NoOrphanExchange'
  <2>1. ASSUME NEW c \in Contexts, central'[c].st = "open" PROVE (c \in foreign \/ (Ours /\ journal.ctx.c = c))'
    <3>1. c \in foreign \/ c = C
      BY <2>1, <1>1 DEF ReconInv, NoOrphanExchange, CentralGood, C
    <3>2. CASE c = C
      BY <3>2, <1>0, <1>1, <2>1 DEF Ours, Open, C, TerminalStates
    <3> QED
      BY <3>1, <3>2
  <2> QED
    BY <2>1 DEF NoOrphanExchange
<1> QED
  BY <1>2, <1>3, <1>4, <1>6, <1>7, <1>8, <1>9 DEF ReconInv, CentralGood

(* The targets are taken over from the centre.                             *)
LEMMA FillStep ==
  ASSUME ReconInv, Ours, ~journal.filled, CentralGood, UNCHANGED <<ctx, tick, paper, foreign>>,
         journal' \in Journals, journal'.st = "PREPARED", journal'.ex, journal'.filled,
         journal'.kind = journal.kind, journal'.ctx = journal.ctx,
         central'[C].st # "none", journal'.tg = Fill(central'[C]),
         run' \in Tasks, run'.pc # "paper", run'.ctx = run.ctx, run'.confirm = run.confirm,
         TaskSound'
  PROVE  ReconInv'
<1>0. C \in Contexts /\ journal.ctx # NoCtx /\ journal.kind = "RECONCILIATION"
  BY DEF ReconInv, JournalSound, Linking, Known, C, Ours
<1>1. \A k \in Targets :
        \/ journal'.tg[k].st = "PREPARED"
        \/ journal'.tg[k].st = "PRINT_COMPLETED" /\ central'[C].att[k].st = "SUCCEEDED"
  BY DEF Fill, NewTarget, ReadySet
<1>2. ReconTypes'
  BY DEF ReconInv, ReconTypes, CentralGood
<1>3. Ours' /\ C' = C
  BY <1>0 DEF Ours, Open, C, TerminalStates
<1>4. Linking' /\ NoOrphanExchange'
  BY <1>3, LinkingKept, OrphansKept DEF NewContext
<1>5. JournalSound'
  BY <1>0, <1>1 DEF JournalSound, Begun, C
<1>6. PaperSound'
  BY <1>0, <1>1, <1>3 DEF PaperSound, OnPaper, CentralGood, LedgerSound
<1>7. Printing'
  <2> SUFFICES ASSUME NoAsk'
               PROVE  (~tick /\ ~run.confirm /\ \A c \in Contexts : \A k \in Targets : Copies(c, k))'
    BY DEF Printing
  <2>1. NoAsk
    BY DEF NoAsk
  <2>2. ~tick' /\ ~run'.confirm
    BY <2>1 DEF ReconInv, Printing
  <2>3. ASSUME NEW c \in Contexts, NEW k \in Targets PROVE Copies(c, k)'
    <3>1. Fresh(c, k)' => central[c].att[k].st # "SUCCEEDED"
      BY DEF Fresh, CentralGood, Moves
    <3>2. ~Spent(k)
      BY DEF ReconInv, JournalSound, Spent, OnPaper
    <3>3. Fresh(c, k)' => Fresh(c, k)
      BY <3>1, <3>2 DEF Fresh
    <3> QED
      BY <2>1, <3>3, CopiesKept
  <2> QED
    BY <2>2, <2>3
<1>8. CommittedIsCentral'
  BY DEF CommittedIsCentral
<1> QED
  BY <1>2, <1>4, <1>5, <1>6, <1>7, <1>8 DEF ReconInv, CentralGood

-----------------------------------------------------------------------------
(* The steps.                                                              *)

LEMMA Goes ==
  ASSUME ReconInv, NEW p \in Pcs, Goto(p)
  PROVE  /\ run' \in Tasks /\ run'.pc = p /\ run'.ctx = run.ctx /\ run'.confirm = run.confirm
         /\ run'.k = run.k /\ run'.ready = run.ready /\ run'.seen = run.seen
  BY DEF ReconInv, ReconTypes, Goto, Tasks

(* A task outside the lane's loop needs nothing.                           *)
LEMMA Rests == ASSUME run'.pc \in {"idle", "load", "end"} PROVE TaskSound'
  BY DEF TaskSound, Work, Cur

(* A failed call: the centre has moved or not.                             *)
LEMMA Raises ==
  ASSUME ReconInv, CentralGood, Raise, UNCHANGED <<ctx, tick, foreign, journal, paper>>
  PROVE  ReconInv'
<1>1. Goto("end") /\ "end" \in Pcs
  BY DEF Raise, Goto, Pcs
<1>2. /\ run' \in Tasks /\ run'.pc = "end" /\ run'.ctx = run.ctx /\ run'.confirm = run.confirm
  BY <1>1, Goes
<1>3. TaskSound' /\ NewContext /\ ctx' \in Ctx \cup {NoCtx} /\ tick' \in BOOLEAN
  BY <1>2, Rests DEF NewContext, ReconInv, ReconTypes
<1> QED
  BY <1>2, <1>3, TaskStep

LEMMA AtWork ==
  ASSUME ReconInv, run.pc \in Work
  PROVE  /\ Ours /\ C \in Contexts /\ journal.ctx # NoCtx /\ journal.kind = "RECONCILIATION"
         /\ central[C] \in Ledger /\ journal \in Journals /\ run \in Tasks
  BY DEF ReconInv, TaskSound, JournalSound, Linking, Known, C, Ours, ReconTypes

LEMMA PrepareStep == ASSUME ReconInv, PrepareReconciliation PROVE ReconInv'
<1> DEFINE f == prepare_phs_label_exchange(central[C])
<1>0. /\ run.pc = "central" /\ ~journal.ex /\ UNCHANGED <<ctx, tick, foreign, paper>>
      /\ run.pc \in Work
  BY DEF PrepareReconciliation, AtStep, Work
<1>1. /\ Ours /\ C \in Contexts /\ journal.ctx # NoCtx /\ journal.kind = "RECONCILIATION"
      /\ central[C] \in Ledger /\ journal \in Journals /\ run \in Tasks
      /\ central \in [Contexts -> Ledger] /\ ~journal.filled
  BY <1>0, AtWork DEF ReconInv, ReconTypes, JournalSound
<1>2. /\ Moves(central[C], f) /\ f.att = central[C].att /\ f.st # "none"
      /\ (f.st = "committed" => central[C].st = "committed")
  BY <1>1, PrepareMoves
<1>3. /\ \A k \in Targets : f.att[k].st = "SUCCEEDED" => paper[C][k].copies > 0
      /\ f.st = "committed" => \A k \in Targets : f.att[k].st = "SUCCEEDED"
      /\ f.st # "none"
  BY <1>1, <1>2 DEF ReconInv, LedgerSound, Moves
<1> HIDE DEF f
<1>4. CASE /\ Refused /\ _save("CANCELLED") /\ Raise /\ UNCHANGED central
  <2>1. Goto("end") /\ "end" \in Pcs
    BY <1>4 DEF Raise, Goto, Pcs
  <2>2. run' \in Tasks /\ run'.pc = "end" /\ run'.ctx = run.ctx /\ run'.confirm = run.confirm
    BY <2>1, Goes
  <2>3. CentralGood /\ C \in foreign
    BY <1>0, <1>4, SameCentral DEF Refused
  <2> QED
    BY <1>0, <1>1, <1>4, <2>2, <2>3, Rests, StatusStep
<1>5. CASE (central' = central \/ central' = [central EXCEPT ![C] = f]) /\ Raise /\ UNCHANGED journal
  <2>1. Ours'
    BY <1>1, <1>5 DEF Ours, Open
  <2>2. CentralGood
    BY <1>0, <1>1, <1>2, <1>3, <1>5, <2>1, CallGood
  <2> QED
    BY <1>0, <1>5, <2>2, Raises
<1>6. CASE /\ central' = [central EXCEPT ![C] = f] /\ Observe(central'[C])
           /\ journal' = [journal EXCEPT !.st = "PREPARED", !.ex = TRUE,
                                          !.filled = TRUE, !.tg = Fill(central'[C])]
  <2>1. central'[C] = f
    BY <1>1, <1>6
  <2>2. Fill(f) \in [Targets -> Labelled]
    BY DEF Fill, NewTarget, Labelled, TargetStates
  <2>3. /\ journal' = [kind |-> journal.kind, st |-> "PREPARED", ctx |-> journal.ctx, ex |-> TRUE,
                       filled |-> TRUE, tg |-> Fill(f)]
    BY <1>1, <1>6, <2>1 DEF Journals
  <2>4. /\ journal' \in Journals /\ journal'.st = "PREPARED" /\ journal'.ex /\ journal'.filled
        /\ journal'.kind = journal.kind /\ journal'.ctx = journal.ctx /\ journal'.tg = Fill(f)
    BY <1>1, <2>2, <2>3 DEF Journals, Statuses, TargetStates
  <2>5. Ours' /\ C' = C
    BY <1>1, <2>4 DEF Ours, Open, C, TerminalStates
  <2>6. CentralGood
    BY <1>0, <1>1, <1>2, <1>3, <1>6, <2>4, <2>5, CallGood
  <2>7. /\ run' \in Tasks /\ run'.pc = "observed" /\ run'.ctx = run.ctx /\ run'.confirm = run.confirm
        /\ run'.ready = ReadySet(f) /\ run'.seen = f.st
    BY <1>1, <1>2, <1>6, <2>1 DEF Observe, Tasks, Pcs, ReadySet, Moves, Ledger
  <2>8. TaskSound'
    BY <2>1, <2>4, <2>5, <2>7 DEF TaskSound, Work, Cur
  <2> QED
    BY <1>0, <1>1, <1>2, <2>1, <2>4, <2>6, <2>7, <2>8, FillStep
<1> QED
  BY <1>4, <1>5, <1>6 DEF PrepareReconciliation, Call, f

LEMMA GetStep == ASSUME ReconInv, GetExchange PROVE ReconInv'
<1>0. /\ run.pc = "central" /\ journal.ex /\ UNCHANGED <<ctx, tick, foreign, paper, central>>
      /\ run.pc \in Work
  BY DEF GetExchange, AtStep, Work, Call
<1>1. /\ Ours /\ C \in Contexts /\ journal.ctx # NoCtx /\ journal.kind = "RECONCILIATION"
      /\ central[C] \in Ledger /\ journal \in Journals /\ run \in Tasks
      /\ central[C].st # "none"
  BY <1>0, AtWork DEF ReconInv, ReconTypes, JournalSound, C
<1>2. CentralGood
  BY <1>0, SameCentral
<1>3. CASE Raise /\ UNCHANGED journal
  BY <1>0, <1>2, <1>3, Raises
<1>4. CASE Observe(central[C])
  <2>1. /\ run' \in Tasks /\ run'.pc = "observed" /\ run'.ctx = run.ctx /\ run'.confirm = run.confirm
        /\ run'.ready = ReadySet(central[C]) /\ run'.seen = central[C].st
    BY <1>1, <1>4 DEF Observe, Tasks, Pcs, ReadySet, Ledger
  <2>2. CASE journal.filled /\ UNCHANGED journal
    <3>1. Ours' /\ C' = C
      BY <1>1, <2>2 DEF Ours, Open, C
    <3>2. TaskSound'
      BY <1>0, <2>1, <2>2, <3>1 DEF TaskSound, Work, Cur
    <3>3. NewContext /\ ctx' \in Ctx \cup {NoCtx} /\ tick' \in BOOLEAN
      BY <1>0 DEF NewContext, ReconInv, ReconTypes
    <3> QED
      BY <1>0, <1>2, <2>1, <2>2, <3>2, <3>3, TaskStep
  <2>3. CASE /\ ~journal.filled
             /\ journal' = [journal EXCEPT !.st = "PREPARED", !.filled = TRUE, !.tg = Fill(central[C])]
    <3>1. Fill(central[C]) \in [Targets -> Labelled]
      BY DEF Fill, NewTarget, Labelled, TargetStates
    <3>2. journal' = [kind |-> journal.kind, st |-> "PREPARED", ctx |-> journal.ctx, ex |-> journal.ex,
                      filled |-> TRUE, tg |-> Fill(central[C])]
      BY <1>1, <2>3 DEF Journals
    <3>3. /\ journal' \in Journals /\ journal'.st = "PREPARED" /\ journal'.ex /\ journal'.filled
          /\ journal'.kind = journal.kind /\ journal'.ctx = journal.ctx
          /\ journal'.tg = Fill(central[C])
      BY <1>0, <1>1, <3>1, <3>2 DEF Journals, Statuses, TargetStates
    <3>4. Ours' /\ C' = C
      BY <1>1, <3>3 DEF Ours, Open, C, TerminalStates
    <3>5. TaskSound'
      BY <1>0, <2>1, <3>3, <3>4 DEF TaskSound, Work, Cur
    <3>6. central'[C] = central[C]
      BY <1>0
    <3> QED
      BY <1>0, <1>1, <1>2, <2>1, <2>3, <3>3, <3>5, <3>6, FillStep
  <2> QED
    BY <1>0, <1>3, <1>4, <2>2, <2>3 DEF GetExchange, Call
<1> QED
  BY <1>3, <1>4 DEF GetExchange, Call

LEMMA DispatchStep == ASSUME ReconAssumption, ReconInv, Dispatch PROVE ReconInv'
<1>0. run.pc = "observed" /\ run.pc \in Work /\ UNCHANGED <<ctx, tick, foreign, paper, central>>
  BY DEF Dispatch, AtStep, Work
<1>1. /\ Ours /\ C \in Contexts /\ journal \in Journals /\ run \in Tasks
  BY <1>0, AtWork
<1>2. CentralGood
  BY <1>0, SameCentral
<1>3. CASE /\ run.seen = "committed" /\ _save("COMMITTED")
           /\ run' = [run EXCEPT !.pc = "end", !.ok = TRUE]
  <2>1. run' \in Tasks /\ run'.pc = "end" /\ run'.ctx = run.ctx /\ run'.confirm = run.confirm
    BY <1>1, <1>3 DEF Tasks, Pcs
  <2>2. central'[C].st = "committed"
    BY <1>0, <1>3 DEF ReconInv, TaskSound
  <2> QED
    BY <1>0, <1>1, <1>2, <1>3, <2>1, <2>2, Rests, StatusStep
<1>4. CASE run' = [run EXCEPT !.pc = "target", !.k = 1] /\ UNCHANGED journal
  <2>1. /\ run' \in Tasks /\ run'.pc = "target" /\ run'.ctx = run.ctx /\ run'.confirm = run.confirm
        /\ run'.k = 1 /\ run'.ready = run.ready
    <3>1. 1 \in 1..(N + 1)
      BY DEF ReconAssumption
    <3> QED
      BY <1>1, <1>4, <3>1 DEF Tasks, Pcs
  <2>2. Ours' /\ C' = C
    BY <1>1, <1>4 DEF Ours, Open, C
  <2>3. TaskSound'
    BY <1>0, <1>4, <2>1, <2>2 DEF ReconInv, TaskSound, Work, Cur
  <2>4. NewContext /\ ctx' \in Ctx \cup {NoCtx} /\ tick' \in BOOLEAN
    BY <1>0 DEF NewContext, ReconInv, ReconTypes
  <2> QED
    BY <1>0, <1>2, <1>4, <2>1, <2>3, <2>4, TaskStep
<1> QED
  BY <1>3, <1>4 DEF Dispatch

(* In the loop, about the target it works on.                              *)
InLoop ==
  /\ run.pc \in Cur \cup {"target"} /\ run.k \in Targets /\ Ours /\ C \in Contexts
  /\ journal.filled /\ journal.ctx # NoCtx /\ journal \in Journals /\ run \in Tasks
  /\ central[C] \in Ledger /\ central[C].st # "none" /\ paper \in [Contexts -> [Targets -> Sheet]]

LEMMA LoopFacts ==
  ASSUME ReconInv, run.pc \in Cur \/ (run.pc = "target" /\ run.k <= N)
  PROVE  InLoop
<1>1. run.pc \in Work \ {"central"} /\ run \in Tasks
  BY DEF Work, Cur, ReconInv, ReconTypes
<1>2. run.k \in Targets
  BY <1>1 DEF ReconInv, TaskSound, Tasks, Targets
<1> QED
  BY <1>1, <1>2, AtWork DEF InLoop, ReconInv, TaskSound, JournalSound, C, ReconTypes, Cur

(* A step in the loop that changes neither the centre nor the paper.       *)
LEMMA LoopStep ==
  ASSUME ReconInv, InLoop, NEW s \in TargetStates, TargetMoved(s), CentralGood,
         UNCHANGED <<ctx, tick, foreign, paper>>,
         s \in Begun => journal'.tg[run.k].att,
         s \in OnPaper => paper[C][run.k].copies > 0,
         s = "PRINT_COMPLETED" => central'[C].att[run.k].st = "SUCCEEDED",
         NoAsk => Fresh(C, run.k) \/ s \in OnPaper,
         run' \in Tasks, run'.ctx = run.ctx, run'.confirm = run.confirm,
         run'.pc = "paper" => run'.k = run.k, TaskSound'
  PROVE  ReconInv'
<1>1. ASSUME NoAsk, NEW c \in Contexts, NEW k \in Targets, c = C, k = run.k PROVE Copies(c, k)'
  <2>1. CASE Fresh(C, run.k)
    BY <1>1, <2>1 DEF ReconInv, Printing, Copies
  <2>2. CASE s \in OnPaper
    <3>1. ~Fresh(c, k)'
      <4>1. Ours' /\ journal'.ctx.c = c /\ journal'.tg[k].st \in OnPaper
        BY <1>1, <2>2 DEF TargetMoved, InLoop, Ours, Open, C, TargetStates, TerminalStates
      <4> QED
        BY <4>1 DEF Fresh, Spent
    <3> QED
      BY <1>1, <3>1 DEF ReconInv, Printing, Copies
  <2> QED
    BY <1>1, <2>1, <2>2
<1> QED
  BY <1>1, TargetStep DEF InLoop

LEMMA BeginTargetStep == ASSUME ReconAssumption, ReconInv, BeginTarget PROVE ReconInv'
<1>0. /\ run.pc = "target" /\ run.k <= N /\ UNCHANGED <<ctx, tick, foreign, paper, central>> /\ InLoop
  BY LoopFacts DEF BeginTarget, AtStep
<1>1. CentralGood
  BY <1>0, SameCentral
<1>2. NewContext /\ ctx' \in Ctx \cup {NoCtx} /\ tick' \in BOOLEAN
  BY <1>0 DEF NewContext, ReconInv, ReconTypes
<1>3. CASE run.k \in run.ready /\ _save_target("PRINT_COMPLETED") /\ NextTarget
  <2>1. TargetMoved("PRINT_COMPLETED")
    BY <1>0, <1>3, SavedTarget DEF InLoop, TargetStates
  <2>2. central[C].att[run.k].st = "SUCCEEDED" /\ paper[C][run.k].copies > 0
    BY <1>0, <1>3 DEF ReconInv, TaskSound, LedgerSound, ReadySet, InLoop
  <2>3. /\ run' \in Tasks /\ run'.pc = "target" /\ run'.ctx = run.ctx /\ run'.confirm = run.confirm
        /\ run'.k = run.k + 1 /\ run'.ready = run.ready
    <3>1. run.k + 1 \in 1..(N + 1)
      BY <1>0 DEF InLoop, Targets, ReconAssumption
    <3> QED
      BY <1>0, <1>3, <3>1 DEF NextTarget, InLoop, Tasks, Pcs
  <2>4. Ours' /\ C' = C /\ journal'.filled
    BY <1>0, <2>1 DEF TargetMoved, InLoop, Ours, Open, C, TargetStates, TerminalStates
  <2>5. TaskSound'
    <3>1. \A k \in ReadySet(central[C]) : k >= run.k + 1 => k \in run.ready
      BY <1>0 DEF ReconInv, TaskSound, InLoop, ReadySet, Targets
    <3> QED
      BY <1>0, <2>3, <2>4, <3>1 DEF ReconInv, TaskSound, Work, Cur
  <2> QED
    BY <1>0, <1>1, <2>1, <2>2, <2>3, <2>5, LoopStep DEF TargetStates, OnPaper, Begun
<1>4. CASE /\ run.k \notin run.ready /\ Tg.st = "PRINT_FAILURE_ACK_PENDING"
           /\ Goto("failure_ack") /\ UNCHANGED journal
  <2>1. /\ run' \in Tasks /\ run'.pc = "failure_ack" /\ run'.ctx = run.ctx /\ run'.confirm = run.confirm
        /\ run'.k = run.k /\ run'.ready = run.ready
    BY <1>4, Goes DEF Pcs
  <2>2. Ours' /\ C' = C
    BY <1>0, <1>4 DEF Ours, Open, C, InLoop
  <2>3. TaskSound'
    BY <1>0, <1>4, <2>1, <2>2 DEF ReconInv, TaskSound, Work, Cur, InLoop, Tg
  <2> QED
    BY <1>0, <1>1, <1>2, <1>4, <2>1, <2>3, TaskStep
<1>5. CASE run.k \notin run.ready /\ HasAttempt /\ Goto("print") /\ UNCHANGED journal
  <2>1. /\ run' \in Tasks /\ run'.pc = "print" /\ run'.ctx = run.ctx /\ run'.confirm = run.confirm
        /\ run'.k = run.k /\ run'.ready = run.ready
    BY <1>5, Goes DEF Pcs
  <2>2. Ours' /\ C' = C /\ Tg'.att
    BY <1>0, <1>5, <2>1 DEF Ours, Open, C, InLoop, HasAttempt, Tg
  <2>3. TaskSound'
    BY <1>0, <1>5, <2>1, <2>2 DEF ReconInv, TaskSound, Work, Cur, InLoop
  <2> QED
    BY <1>0, <1>1, <1>2, <1>5, <2>1, <2>3, TaskStep
<1>6. CASE run.k \notin run.ready /\ ~HasAttempt /\ Goto("request") /\ journal' = NextRequest
  <2>1. /\ run' \in Tasks /\ run'.pc = "request" /\ run'.ctx = run.ctx /\ run'.confirm = run.confirm
        /\ run'.k = run.k /\ run'.ready = run.ready
    BY <1>6, Goes DEF Pcs
  <2>2. ASSUME Ours', C' = C, journal'.filled, journal'.tg[run.k].st = "PRINT_REQUEST_PENDING"
        PROVE  TaskSound'
    BY <1>0, <1>6, <2>1, <2>2 DEF ReconInv, TaskSound, Work, Cur, InLoop, Tg
  <2>3. CASE Tg.st = "PRINT_REQUEST_PENDING" /\ UNCHANGED journal
    <3>1. TaskSound'
      BY <1>0, <2>2, <2>3 DEF Ours, Open, C, InLoop, Tg
    <3> QED
      BY <1>0, <1>1, <1>2, <2>1, <2>3, <3>1, TaskStep
  <2>4. CASE journal' = [journal EXCEPT !.st = "PRINT_REQUEST_PENDING",
          !.tg[run.k] = [st |-> "PRINT_REQUEST_PENDING", no |-> journal.tg[run.k].no + 1, att |-> FALSE]]
    <3> DEFINE t == [st |-> "PRINT_REQUEST_PENDING", no |-> journal.tg[run.k].no + 1, att |-> FALSE]
    <3>1. t \in Labelled /\ t.st = "PRINT_REQUEST_PENDING"
      BY <1>0 DEF InLoop, Journals, Labelled, TargetStates
    <3>2. journal'.tg = [journal.tg EXCEPT ![run.k] = t] /\ journal.tg \in [Targets -> Labelled]
      BY <1>0, <2>4 DEF InLoop, Journals
    <3>3. journal' = [kind |-> journal.kind, st |-> "PRINT_REQUEST_PENDING", ctx |-> journal.ctx,
                      ex |-> journal.ex, filled |-> journal.filled, tg |-> journal'.tg]
      BY <1>0, <2>4 DEF InLoop, Journals
    <3> HIDE DEF t
    <3>4. TargetMoved("PRINT_REQUEST_PENDING")
      <4>1. journal'.tg \in [Targets -> Labelled]
        BY <1>0, <3>1, <3>2
      <4>2. journal'.tg[run.k] = t /\ \A i \in Targets : i # run.k => journal'.tg[i] = journal.tg[i]
        BY <1>0, <3>2 DEF InLoop
      <4>3. "PRINT_REQUEST_PENDING" \in Statuses /\ journal \in Journals
        BY <1>0 DEF Statuses, TargetStates, InLoop
      <4>4. journal' \in Journals
        BY <3>3, <4>1, <4>3 DEF Journals
      <4> QED
        BY <3>1, <3>3, <4>2, <4>4 DEF TargetMoved, TerminalStates
    <3>5. TaskSound'
      BY <1>0, <2>2, <3>4 DEF TargetMoved, Ours, Open, C, InLoop, TerminalStates
    <3>6. Fresh(C, run.k)
      <4>1. central[C].att[run.k].st # "SUCCEEDED"
        BY <1>0, <1>6 DEF ReconInv, TaskSound, InLoop, ReadySet, Targets
      <4>2. Tg.st \notin Begun
        BY <1>0, <1>6 DEF HasAttempt, ReconInv, JournalSound, Tg, InLoop, Begun
      <4>3. Tg.st # "PRINT_COMPLETED"
        BY <1>0, <4>1 DEF ReconInv, PaperSound, Tg, InLoop
      <4> QED
        BY <4>1, <4>2, <4>3 DEF Fresh, Spent, Tg, Begun, OnPaper
    <3> QED
      BY <1>0, <1>1, <2>1, <3>4, <3>5, <3>6, LoopStep DEF TargetStates, Begun, OnPaper
  <2> QED
    BY <1>6, <2>3, <2>4 DEF NextRequest, Tg
<1> QED
  BY <1>3, <1>4, <1>5, <1>6 DEF BeginTarget

(* A call that fails, before its effect or after it.                       *)
LEMMA CallFails ==
  ASSUME ReconInv, run.pc \in Work, NEW f, Moves(central[C], f),
         \A k \in Targets : f.att[k].st = "SUCCEEDED" => paper[C][k].copies > 0,
         f.st = "committed" => \A k \in Targets : f.att[k].st = "SUCCEEDED",
         f.st # "none", central' = central \/ central' = [central EXCEPT ![C] = f],
         Raise, UNCHANGED <<ctx, tick, foreign, journal, paper>>
  PROVE  ReconInv'
<1>1. Ours /\ Ours'
  BY AtWork DEF Ours, Open
<1>2. CentralGood
  BY <1>1, CallGood
<1> QED
  BY <1>2, Raises

(* The task stays at its target.                                           *)
LEMMA Stays ==
  ASSUME ReconInv, InLoop, run.k \notin run.ready, NEW s \in TargetStates, TargetMoved(s),
         NEW p \in Cur, Goto(p), ReadySet(central'[C]) = ReadySet(central[C]),
         p = "request" => s = "PRINT_REQUEST_PENDING",
         p = "failure_ack" => s = "PRINT_FAILURE_ACK_PENDING",
         p = "paper" => s = "LOCAL_PRINT_STARTING",
         p = "proved" => s = "LOCAL_PRINT_SUCCEEDED",
         p = "complete" => s = "PRINT_COMPLETE_PENDING",
         p \in Cur \ {"request", "failure_ack"} => journal'.tg[run.k].att
  PROVE  /\ run' \in Tasks /\ run'.pc = p /\ run'.ctx = run.ctx /\ run'.confirm = run.confirm
         /\ run'.k = run.k /\ TaskSound'
<1>1. /\ run' \in Tasks /\ run'.pc = p /\ run'.ctx = run.ctx /\ run'.confirm = run.confirm
      /\ run'.k = run.k /\ run'.ready = run.ready
  BY Goes DEF Cur, Pcs
<1>2. Ours' /\ C' = C /\ journal'.filled /\ journal'.tg[run.k].st = s
  BY DEF TargetMoved, InLoop, Ours, Open, C
<1>3. ReadySet(central[C])' = ReadySet(central[C])
  BY <1>2 DEF ReadySet
<1>4. /\ run.ready \subseteq ReadySet(central[C])
      /\ \A k \in ReadySet(central[C]) : k >= run.k => k \in run.ready
  BY DEF ReconInv, TaskSound, InLoop
<1>5. TaskSound'
  BY <1>1, <1>2, <1>3, <1>4 DEF TaskSound, Work, Cur, Tg, InLoop
<1> QED
  BY <1>1, <1>5

(* A label before the task that neither the centre nor the journal holds   *)
(* for printed.                                                            *)
LEMMA NotPrinted ==
  ASSUME ReconInv, InLoop, run.k \notin run.ready
  PROVE  /\ central[C].att[run.k].st # "SUCCEEDED" /\ Tg.st # "PRINT_COMPLETED"
         /\ Tg.st \notin Begun => Fresh(C, run.k)
<1>1. central[C].att[run.k].st # "SUCCEEDED"
  BY DEF ReconInv, TaskSound, InLoop, ReadySet, Targets
<1>2. Tg.st # "PRINT_COMPLETED"
  BY <1>1 DEF ReconInv, PaperSound, Tg, InLoop
<1> QED
  BY <1>1, <1>2 DEF Fresh, Spent, Tg, Begun, OnPaper

LEMMA RequestStep == ASSUME ReconInv, RequestPrint PROVE ReconInv'
<1> DEFINE f == request_phs_label_print(central[C], run.k, Tg.no)
<1>0. /\ run.pc = "request" /\ run.pc \in Cur /\ run.pc \in Work
      /\ UNCHANGED <<ctx, tick, foreign, paper>>
  BY DEF RequestPrint, AtStep, Cur, Work
<1>1. InLoop /\ run.k \notin run.ready /\ Tg.st = "PRINT_REQUEST_PENDING"
  BY <1>0, LoopFacts DEF ReconInv, TaskSound
<1>2. Tg.no \in Nat
  BY <1>1 DEF InLoop, Journals, Labelled, Tg
<1>3. /\ Moves(central[C], f) /\ f.st = central[C].st
      /\ \A i \in Targets : f.att[i].st = "SUCCEEDED" => central[C].att[i].st = "SUCCEEDED"
  BY <1>1, <1>2, RequestMoves DEF InLoop
<1>4. /\ \A k \in Targets : f.att[k].st = "SUCCEEDED" => paper[C][k].copies > 0
      /\ f.st = "committed" => \A k \in Targets : f.att[k].st = "SUCCEEDED"
      /\ f.st # "none"
  BY <1>1, <1>3 DEF ReconInv, LedgerSound, Moves, InLoop
<1> HIDE DEF f
<1>5. CASE (central' = central \/ central' = [central EXCEPT ![C] = f]) /\ Raise /\ UNCHANGED journal
  BY <1>0, <1>3, <1>4, <1>5, CallFails
<1>6. CASE /\ central' = [central EXCEPT ![C] = f]
           /\ journal' = [journal EXCEPT !.st = "PRINT_REQUESTED", !.tg[run.k].st = "PRINT_REQUESTED",
                                         !.tg[run.k].att = TRUE]
           /\ Goto("print")
  <2>1. TargetMoved("PRINT_REQUESTED") /\ journal'.tg[run.k].att
    <3> DEFINE g == [journal.tg EXCEPT ![run.k].st = "PRINT_REQUESTED"]
               t == [g[run.k] EXCEPT !.att = TRUE]
    <3>2. journal.tg \in [Targets -> Labelled] /\ journal \in Journals /\ run.k \in Targets
      BY <1>1 DEF InLoop, Journals
    <3>3. journal'.tg = [g EXCEPT ![run.k] = t]
      BY <1>6, <3>2 DEF Journals
    <3>0. /\ g \in [Targets -> Labelled] /\ g[run.k].st = "PRINT_REQUESTED"
          /\ \A i \in Targets : i # run.k => g[i] = journal.tg[i]
      BY <3>2 DEF Labelled, TargetStates
    <3> HIDE DEF g
    <3>1. t \in Labelled /\ t.st = "PRINT_REQUESTED" /\ t.att
      BY <3>0, <3>2 DEF Labelled
    <3> HIDE DEF t
    <3>4. /\ journal'.tg \in [Targets -> Labelled] /\ journal'.tg[run.k] = t
          /\ \A i \in Targets : i # run.k => journal'.tg[i] = journal.tg[i]
      BY <3>0, <3>1, <3>2, <3>3
    <3>5. journal' = [kind |-> journal.kind, st |-> "PRINT_REQUESTED", ctx |-> journal.ctx,
                      ex |-> journal.ex, filled |-> journal.filled, tg |-> journal'.tg]
      BY <1>6, <3>2 DEF Journals
    <3>6. "PRINT_REQUESTED" \in Statuses
      BY DEF Statuses, TargetStates
    <3>7. journal' \in Journals
      BY <3>2, <3>4, <3>5, <3>6 DEF Journals
    <3> QED
      BY <3>1, <3>4, <3>5, <3>7 DEF TargetMoved, TerminalStates
  <2>2. Ours' /\ journal'.ctx = journal.ctx
    BY <1>1, <2>1 DEF TargetMoved, InLoop, Ours, Open
  <2>3. CentralGood
    BY <1>0, <1>1, <1>3, <1>4, <1>6, <2>2, CallGood DEF InLoop
  <2>4. central'[C] = f /\ ReadySet(f) = ReadySet(central[C])
    BY <1>1, <1>3, <1>6 DEF InLoop, ReadySet, Moves, ReconInv, ReconTypes
  <2>5. /\ run' \in Tasks /\ run'.pc = "print" /\ run'.ctx = run.ctx /\ run'.confirm = run.confirm
        /\ run'.k = run.k /\ TaskSound'
    BY <1>1, <1>6, <2>1, <2>4, Stays DEF Cur, TargetStates
  <2>6. Fresh(C, run.k)
    BY <1>1, NotPrinted DEF Begun
  <2> QED
    BY <1>0, <1>1, <2>1, <2>3, <2>5, <2>6, LoopStep DEF TargetStates, Begun, OnPaper
<1> QED
  BY <1>5, <1>6 DEF RequestPrint, Call, f

LEMMA BeginPrintStep == ASSUME ReconInv, BeginPrint PROVE ReconInv'
<1>0. /\ run.pc = "print" /\ run.pc \in Cur /\ run.pc \in Work
      /\ UNCHANGED <<ctx, tick, foreign, paper, central>>
  BY DEF BeginPrint, AtStep, Cur, Work
<1>1. InLoop /\ run.k \notin run.ready /\ Tg.att
  BY <1>0, LoopFacts DEF ReconInv, TaskSound, Cur
<1>2. CentralGood
  BY <1>0, SameCentral
<1>3. CASE Raise /\ UNCHANGED journal
  BY <1>0, <1>2, <1>3, Raises
<1>4. ASSUME NEW s \in TargetStates, NEW p \in Cur, _save_target(s), Goto(p),
             \/ s = "PRINT_COMPLETE_PENDING" /\ p = "complete" /\ PrintDone
             \/ s = "LOCAL_PRINT_STARTING" /\ p = "paper" /\ ~ConfirmationRequired /\ ~PrintDone
             \/ s = "PRINT_FAILURE_ACK_PENDING" /\ p = "failure_ack" /\ ~ConfirmationRequired /\ ~PrintDone
      PROVE  ReconInv'
  <2>1. TargetMoved(s) /\ journal'.tg[run.k].att
    <3>1. TargetMoved(s) /\ journal'.tg[run.k].att = journal.tg[run.k].att
      BY <1>1, <1>4, SavedTarget DEF InLoop
    <3> QED
      BY <1>1, <3>1 DEF Tg
  <2>2. central'[C] = central[C]
    BY <1>0
  <2>3. /\ run' \in Tasks /\ run'.pc = p /\ run'.ctx = run.ctx /\ run'.confirm = run.confirm
        /\ run'.k = run.k /\ TaskSound'
    BY <1>1, <1>4, <2>1, <2>2, Stays
  <2>4. s \in OnPaper => paper[C][run.k].copies > 0
    BY <1>1, <1>4 DEF ReconInv, PaperSound, PrintDone, OnPaper, InLoop, Tg
  <2>5. NoAsk => Fresh(C, run.k) \/ s \in OnPaper
    <3>1. NoAsk => ~run.confirm
      BY DEF ReconInv, Printing
    <3>2. NoAsk => Tg.st \notin Begun \/ s \in OnPaper
      BY <1>4, <3>1 DEF ConfirmationRequired, PrintDone, Begun, OnPaper
    <3> QED
      BY <1>1, <3>2, NotPrinted
  <2> QED
    BY <1>0, <1>1, <1>2, <1>4, <2>1, <2>3, <2>4, <2>5, LoopStep
<1>5. /\ "PRINT_COMPLETE_PENDING" \in TargetStates /\ "LOCAL_PRINT_STARTING" \in TargetStates
      /\ "PRINT_FAILURE_ACK_PENDING" \in TargetStates
      /\ "complete" \in Cur /\ "paper" \in Cur /\ "failure_ack" \in Cur
  BY DEF TargetStates, Cur
<1>6. CASE PrintDone /\ _save_target("PRINT_COMPLETE_PENDING") /\ Goto("complete")
  BY <1>4, <1>5, <1>6
<1>7. CASE /\ ~ConfirmationRequired /\ ~PrintDone
           /\ _save_target("LOCAL_PRINT_STARTING") /\ Goto("paper")
  BY <1>4, <1>5, <1>7
<1>8. CASE /\ ~ConfirmationRequired /\ ~PrintDone
           /\ _save_target("PRINT_FAILURE_ACK_PENDING") /\ Goto("failure_ack")
  BY <1>4, <1>5, <1>8
<1> QED
  BY <1>3, <1>6, <1>7, <1>8 DEF BeginPrint

(* More paper, and the centre as it was.                                   *)
LEMMA PaperGrows ==
  ASSUME ReconInv, InLoop, UNCHANGED central, NEW a \in {0, 1}, NEW b \in {0, 1},
         \/ paper' = [paper EXCEPT ![C][run.k].copies = @ + a, ![C][run.k].jams = @ + b]
         \/ b = 0 /\ paper' = [paper EXCEPT ![C][run.k].copies = @ + a]
  PROVE  /\ CentralGood /\ paper' \in [Contexts -> [Targets -> Sheet]]
         /\ \A c \in Contexts : \A k \in Targets : paper'[c][k].asked = paper[c][k].asked
         /\ \A c \in Contexts : \A k \in Targets : c # C \/ k # run.k => paper'[c][k] = paper[c][k]
         /\ paper'[C][run.k].copies = paper[C][run.k].copies + a
         /\ paper'[C][run.k].jams = paper[C][run.k].jams + b
<1>1. /\ paper \in [Contexts -> [Targets -> Sheet]] /\ C \in Contexts /\ run.k \in Targets
      /\ central \in [Contexts -> Ledger]
  BY DEF InLoop, ReconInv, ReconTypes
<1>10. a \in Nat /\ b \in Nat
  OBVIOUS
<1> DEFINE p == [paper EXCEPT ![C][run.k].copies = @ + a]
           r == [paper[C] EXCEPT ![run.k].copies = @ + a]
<1>2. p = [paper EXCEPT ![C] = r] /\ paper[C] \in [Targets -> Sheet]
  BY <1>1
<1>3. /\ r \in [Targets -> Sheet] /\ r[run.k].copies = paper[C][run.k].copies + a
      /\ r[run.k].jams = paper[C][run.k].jams /\ r[run.k].asked = paper[C][run.k].asked
      /\ \A k \in Targets : k # run.k => r[k] = paper[C][k]
  <2> DEFINE g == paper[C]
             n == g[run.k].copies + a
  <2>1. g[run.k] \in Sheet /\ n \in Nat
    BY <1>1, <1>10, <1>2 DEF Sheet
  <2>2. r = [g EXCEPT ![run.k].copies = n] /\ g \in [Targets -> Sheet]
    BY <1>2
  <2> HIDE DEF r, g, n
  <2>3. /\ r \in [Targets -> Sheet] /\ r[run.k].copies = n
        /\ r[run.k].jams = g[run.k].jams /\ r[run.k].asked = g[run.k].asked
        /\ \A k \in Targets : k # run.k => r[k] = g[k]
    BY <1>1, <2>1, <2>2 DEF Sheet
  <2> QED
    BY <2>3 DEF g, n
<1> HIDE DEF r
<1>5. /\ p \in [Contexts -> [Targets -> Sheet]] /\ p[C] = r
      /\ \A c \in Contexts : c # C => p[c] = paper[c]
  BY <1>1, <1>2, <1>3
<1>4. PICK q \in [Targets -> Sheet] :
        /\ paper' = [p EXCEPT ![C] = q]
        /\ q[run.k].copies = r[run.k].copies
        /\ q[run.k].jams = r[run.k].jams + b /\ q[run.k].asked = r[run.k].asked
        /\ \A k \in Targets : k # run.k => q[k] = r[k]
  <2>1. CASE paper' = [paper EXCEPT ![C][run.k].copies = @ + a, ![C][run.k].jams = @ + b]
    <3> DEFINE q == [r EXCEPT ![run.k].jams = @ + b]
    <3>1. /\ q \in [Targets -> Sheet] /\ q[run.k].copies = r[run.k].copies
          /\ q[run.k].jams = r[run.k].jams + b /\ q[run.k].asked = r[run.k].asked
          /\ \A k \in Targets : k # run.k => q[k] = r[k]
      <4>1. r[run.k] \in Sheet /\ r[run.k].jams + b \in Nat
        BY <1>1, <1>10, <1>3 DEF Sheet
      <4> QED
        BY <1>1, <1>3, <4>1 DEF Sheet
    <3>2. paper' = [p EXCEPT ![C][run.k].jams = @ + b]
      BY <2>1
    <3>3. paper' = [p EXCEPT ![C] = q]
      BY <1>1, <1>5, <3>2
    <3> QED
      BY <3>1, <3>3
  <2>2. CASE b = 0 /\ paper' = p
    <3>1. paper' = [p EXCEPT ![C] = r]
      BY <1>1, <1>5, <2>2
    <3>2. r[run.k].jams = r[run.k].jams + b
      BY <1>1, <1>3, <2>2 DEF Sheet
    <3> QED
      BY <1>3, <3>1, <3>2
  <2> QED
    BY <2>1, <2>2
<1> HIDE DEF p
<1>7. /\ paper' \in [Contexts -> [Targets -> Sheet]] /\ paper'[C] = q
      /\ \A c \in Contexts : c # C => paper'[c] = paper[c]
  BY <1>1, <1>4, <1>5
<1>8. \A c \in Contexts : \A k \in Targets :
        /\ paper'[c][k].asked = paper[c][k].asked
        /\ c # C \/ k # run.k => paper'[c][k] = paper[c][k]
        /\ paper[c][k].copies > 0 => paper'[c][k].copies > 0
  <2> SUFFICES ASSUME NEW c \in Contexts, NEW k \in Targets
               PROVE  /\ paper'[c][k].asked = paper[c][k].asked
                      /\ c # C \/ k # run.k => paper'[c][k] = paper[c][k]
                      /\ paper[c][k].copies > 0 => paper'[c][k].copies > 0
    OBVIOUS
  <2>1. CASE c # C
    BY <1>7, <2>1
  <2>2. CASE c = C /\ k # run.k
    BY <1>3, <1>4, <1>7, <2>2
  <2>3. CASE c = C /\ k = run.k
    <3>1. paper[c][k].copies \in Nat
      BY <1>1 DEF Sheet
    <3> QED
      BY <1>3, <1>4, <1>7, <2>3, <3>1
  <2> QED
    BY <2>1, <2>2, <2>3
<1>9. CentralGood
  BY <1>1, <1>8 DEF ReconInv, CentralGood, LedgerSound, Moves
<1>11. /\ paper'[C][run.k].copies = paper[C][run.k].copies + a
       /\ paper'[C][run.k].jams = paper[C][run.k].jams + b
  BY <1>3, <1>4, <1>7
<1> QED
  BY <1>7, <1>8, <1>9, <1>11

(* The task has its label at the printer.                                  *)
LEMMA AtPrinter ==
  ASSUME ReconInv, run.pc = "paper"
  PROVE  /\ InLoop /\ run.k \notin run.ready /\ Tg.st = "LOCAL_PRINT_STARTING" /\ Tg.att
         /\ run.pc \in Cur /\ Fresh(C, run.k)
<1>1. InLoop /\ run.k \notin run.ready /\ Tg.st = "LOCAL_PRINT_STARTING" /\ Tg.att /\ run.pc \in Cur
  BY LoopFacts DEF ReconInv, TaskSound, Cur
<1>2. central[C].att[run.k].st # "SUCCEEDED"
  BY <1>1, NotPrinted
<1> QED
  BY <1>1, <1>2 DEF Fresh, Spent, OnPaper, Tg

LEMMA PrintPngStep == ASSUME ReconInv, PrintPng PROVE ReconInv'
<1>0. run.pc = "paper" /\ UNCHANGED <<ctx, tick, foreign, central>>
  BY DEF PrintPng, AtStep
<1>1. /\ InLoop /\ run.k \notin run.ready /\ Tg.st = "LOCAL_PRINT_STARTING" /\ Tg.att
      /\ run.pc \in Cur /\ Fresh(C, run.k)
  BY <1>0, AtPrinter
<1>2. /\ C \in Contexts /\ run.k \in Targets /\ central'[C] = central[C]
      /\ paper[C][run.k].copies \in Nat /\ paper[C][run.k].jams \in Nat
  BY <1>0, <1>1 DEF InLoop, Sheet
<1>3. NoAsk => paper[C][run.k].copies <= paper[C][run.k].jams
  BY <1>1, <1>2 DEF ReconInv, Printing, Copies
<1>4. CASE /\ paper' = [paper EXCEPT ![C][run.k].copies = @ + 1]
           /\ _save_target("LOCAL_PRINT_SUCCEEDED") /\ Goto("proved")
  <2>1. /\ CentralGood /\ paper' \in [Contexts -> [Targets -> Sheet]]
        /\ \A c \in Contexts : \A k \in Targets : paper'[c][k].asked = paper[c][k].asked
        /\ \A c \in Contexts : \A k \in Targets : c # C \/ k # run.k => paper'[c][k] = paper[c][k]
        /\ paper'[C][run.k].copies = paper[C][run.k].copies + 1
        /\ paper'[C][run.k].jams = paper[C][run.k].jams + 0
    BY <1>0, <1>1, <1>4, PaperGrows
  <2>2. TargetMoved("LOCAL_PRINT_SUCCEEDED") /\ journal'.tg[run.k].att = journal.tg[run.k].att
    BY <1>1, <1>4, SavedTarget DEF InLoop, TargetStates
  <2>3. /\ run' \in Tasks /\ run'.pc = "proved" /\ run'.ctx = run.ctx /\ run'.confirm = run.confirm
        /\ run'.k = run.k /\ TaskSound'
    BY <1>1, <1>2, <1>4, <2>2, Stays DEF TargetStates, Cur, Tg
  <2>4. ~Fresh(C, run.k)' /\ C' = C
    BY <1>1, <2>2, <2>3 DEF TargetMoved, InLoop, Fresh, Spent, Ours, Open, C, OnPaper
  <2>5. \A c \in Contexts : \A k \in Targets : NoAsk /\ c = C /\ k = run.k => Copies(c, k)'
    <3>1. ~(central'[C].att[run.k].st # "SUCCEEDED" /\ ~(Ours' /\ journal'.ctx.c = C /\ Spent(run.k)'))
      BY <2>3, <2>4 DEF Fresh, C
    <3> QED
      BY <1>2, <1>3, <2>1, <2>3, <3>1 DEF Copies, Fresh, Spent
  <2> QED
    BY <1>0, <1>1, <1>2, <2>1, <2>2, <2>3, <2>5, TargetStep DEF TargetStates, OnPaper, Begun, Tg
<1>5. CASE paper' = [paper EXCEPT ![C][run.k].copies = @ + 1] /\ Raise /\ UNCHANGED journal
  <2>1. /\ CentralGood /\ paper' \in [Contexts -> [Targets -> Sheet]]
        /\ \A c \in Contexts : \A k \in Targets : paper'[c][k].asked = paper[c][k].asked
        /\ \A c \in Contexts : \A k \in Targets : c # C \/ k # run.k => paper'[c][k] = paper[c][k]
        /\ paper'[C][run.k].copies = paper[C][run.k].copies + 1
        /\ paper'[C][run.k].jams = paper[C][run.k].jams + 0
    BY <1>0, <1>1, <1>5, PaperGrows
  <2>2. TargetMoved("LOCAL_PRINT_STARTING") /\ journal'.tg[run.k].att
    BY <1>1, <1>5 DEF InLoop, TargetMoved, Tg, Ours, Open
  <2>3. /\ run' \in Tasks /\ run'.pc = "end" /\ run'.ctx = run.ctx /\ run'.confirm = run.confirm
        /\ run'.k = run.k
    <3>1. Goto("end") /\ "end" \in Pcs
      BY <1>5 DEF Raise, Goto, Pcs
    <3> QED
      BY <3>1, Goes
  <2>4. TaskSound'
    BY <2>3, Rests
  <2>5. \A c \in Contexts : \A k \in Targets : NoAsk /\ c = C /\ k = run.k => Copies(c, k)'
    <3>1. ~(central'[C].att[run.k].st # "SUCCEEDED" /\ ~(Ours' /\ journal'.ctx.c = C /\ Spent(run.k)'))
      BY <1>1, <1>5, <2>3 DEF InLoop, Spent, Ours, Open, C, Tg
    <3> QED
      BY <1>2, <1>3, <2>1, <2>3, <3>1 DEF Copies, Fresh, Spent
  <2> QED
    BY <1>0, <1>1, <1>2, <2>1, <2>2, <2>3, <2>4, <2>5, TargetStep DEF TargetStates, OnPaper, Begun
<1>6. ASSUME NEW n \in {0, 1},
             paper' = [paper EXCEPT ![C][run.k].copies = @ + n, ![C][run.k].jams = @ + n],
             _save_target("PRINT_FAILURE_ACK_PENDING"), Goto("failure_ack")
      PROVE  ReconInv'
  <2>1. /\ CentralGood /\ paper' \in [Contexts -> [Targets -> Sheet]]
        /\ \A c \in Contexts : \A k \in Targets : paper'[c][k].asked = paper[c][k].asked
        /\ \A c \in Contexts : \A k \in Targets : c # C \/ k # run.k => paper'[c][k] = paper[c][k]
        /\ paper'[C][run.k].copies = paper[C][run.k].copies + n
        /\ paper'[C][run.k].jams = paper[C][run.k].jams + n
    BY <1>0, <1>1, <1>6, PaperGrows
  <2>2. TargetMoved("PRINT_FAILURE_ACK_PENDING")
    BY <1>1, <1>6, SavedTarget DEF InLoop, TargetStates
  <2>3. /\ run' \in Tasks /\ run'.pc = "failure_ack" /\ run'.ctx = run.ctx /\ run'.confirm = run.confirm
        /\ run'.k = run.k /\ TaskSound'
    BY <1>1, <1>2, <1>6, <2>2, Stays DEF TargetStates, Cur
  <2>5. \A c \in Contexts : \A k \in Targets : NoAsk /\ c = C /\ k = run.k => Copies(c, k)'
    BY <1>2, <1>3, <2>1 DEF Copies
  <2> QED
    BY <1>0, <1>1, <1>2, <2>1, <2>2, <2>3, <2>5, TargetStep DEF TargetStates, OnPaper, Begun
<1> QED
  BY <1>4, <1>5, <1>6 DEF PrintPng

LEMMA SavePendingStep == ASSUME ReconInv, SaveCompletePending PROVE ReconInv'
<1>0. /\ run.pc = "proved" /\ run.pc \in Cur /\ UNCHANGED <<ctx, tick, foreign, paper, central>>
      /\ _save_target("PRINT_COMPLETE_PENDING") /\ Goto("complete")
  BY DEF SaveCompletePending, AtStep, Cur
<1>1. /\ InLoop /\ run.k \notin run.ready /\ Tg.att /\ Tg.st = "LOCAL_PRINT_SUCCEEDED"
      /\ paper[C][run.k].copies > 0 /\ CentralGood /\ central'[C] = central[C]
  BY <1>0, LoopFacts, SameCentral DEF ReconInv, TaskSound, Cur, PaperSound, OnPaper, InLoop, Tg
<1>2. TargetMoved("PRINT_COMPLETE_PENDING") /\ journal'.tg[run.k].att = journal.tg[run.k].att
  BY <1>0, <1>1, SavedTarget DEF InLoop, TargetStates
<1>3. /\ run' \in Tasks /\ run'.pc = "complete" /\ run'.ctx = run.ctx /\ run'.confirm = run.confirm
      /\ run'.k = run.k /\ TaskSound'
  BY <1>0, <1>1, <1>2, Stays DEF TargetStates, Cur, Tg
<1> QED
  BY <1>0, <1>1, <1>2, <1>3, LoopStep DEF TargetStates, OnPaper, Begun, Tg

LEMMA FailureStep == ASSUME ReconInv, _record_print_failure PROVE ReconInv'
<1> DEFINE f == complete_phs_label_print(central[C], run.k, Tg.no, FALSE)
<1>0. /\ run.pc = "failure_ack" /\ run.pc \in Cur /\ run.pc \in Work
      /\ UNCHANGED <<ctx, tick, foreign, paper>>
  BY DEF _record_print_failure, AtStep, Cur, Work
<1>1. InLoop /\ run.k \notin run.ready /\ Tg.st = "PRINT_FAILURE_ACK_PENDING"
  BY <1>0, LoopFacts DEF ReconInv, TaskSound
<1>2. Tg.no \in Nat
  BY <1>1 DEF InLoop, Journals, Labelled, Tg
<1>3. /\ Moves(central[C], f) /\ f.st = central[C].st
      /\ \A i \in Targets : f.att[i].st = "SUCCEEDED" => central[C].att[i].st = "SUCCEEDED"
  <2>1. central[C] \in Ledger /\ run.k \in Targets
    BY <1>1 DEF InLoop
  <2>2. central[C].att[run.k] = [no |-> Tg.no, st |-> "REQUESTED"] => central[C].att[run.k].st = "REQUESTED"
    OBVIOUS
  <2>3. Closed(central[C], run.k, "FAILED", f)
    BY <2>2 DEF Closed, complete_phs_label_print
  <2> HIDE DEF f
  <2> QED
    BY <2>1, <2>3, CompleteMoves
<1>4. /\ \A k \in Targets : f.att[k].st = "SUCCEEDED" => paper[C][k].copies > 0
      /\ f.st = "committed" => \A k \in Targets : f.att[k].st = "SUCCEEDED"
      /\ f.st # "none"
  BY <1>1, <1>3 DEF ReconInv, LedgerSound, Moves, InLoop
<1> HIDE DEF f
<1>5. CASE (central' = central \/ central' = [central EXCEPT ![C] = f]) /\ Raise /\ UNCHANGED journal
  BY <1>0, <1>3, <1>4, <1>5, CallFails
<1>6. CASE central' = [central EXCEPT ![C] = f] /\ _save_target("PRINT_FAILED") /\ Raise
  <2>1. TargetMoved("PRINT_FAILED")
    BY <1>1, <1>6, SavedTarget DEF InLoop, TargetStates
  <2>2. Ours' /\ journal'.ctx = journal.ctx
    BY <1>1, <2>1 DEF TargetMoved, InLoop, Ours, Open
  <2>3. CentralGood
    BY <1>0, <1>1, <1>3, <1>4, <1>6, <2>2, CallGood DEF InLoop
  <2>4. run' \in Tasks /\ run'.pc = "end" /\ run'.ctx = run.ctx /\ run'.confirm = run.confirm
    <3>1. Goto("end") /\ "end" \in Pcs
      BY <1>6 DEF Raise, Goto, Pcs
    <3> QED
      BY <3>1, Goes
  <2>5. Fresh(C, run.k) /\ TaskSound'
    BY <1>1, <2>4, NotPrinted, Rests DEF Begun
  <2> QED
    BY <1>0, <1>1, <2>1, <2>3, <2>4, <2>5, LoopStep DEF TargetStates, Begun, OnPaper
<1> QED
  BY <1>5, <1>6 DEF _record_print_failure, Call, f

(* The task goes on to the next target.                                    *)
LEMMA GoesOn ==
  ASSUME ReconAssumption, ReconInv, InLoop, NextTarget, TargetMoved("PRINT_COMPLETED"),
         CentralGood, \A k \in ReadySet(central'[C]) : k # run.k => k \in ReadySet(central[C])
  PROVE  /\ run' \in Tasks /\ run'.pc = "target" /\ run'.ctx = run.ctx /\ run'.confirm = run.confirm
         /\ TaskSound'
<1>1. /\ run' \in Tasks /\ run'.pc = "target" /\ run'.ctx = run.ctx /\ run'.confirm = run.confirm
      /\ run'.k = run.k + 1 /\ run'.ready = run.ready
  <2>1. run.k + 1 \in 1..(N + 1)
    BY DEF InLoop, Targets, ReconAssumption
  <2> QED
    BY <2>1 DEF NextTarget, InLoop, Tasks, Pcs
<1>2. Ours' /\ C' = C /\ journal'.filled
  BY DEF TargetMoved, InLoop, Ours, Open, C
<1>3. ReadySet(central[C])' = ReadySet(central'[C])
  BY <1>2 DEF ReadySet
<1>4. run.ready \subseteq ReadySet(central'[C])
  BY DEF ReconInv, TaskSound, InLoop, ReadySet, CentralGood, Moves
<1>5. \A k \in ReadySet(central'[C]) : k >= run.k + 1 => k \in run.ready
  <2> SUFFICES ASSUME NEW k \in ReadySet(central'[C]), k >= run.k + 1 PROVE k \in run.ready
    OBVIOUS
  <2>1. k \in Targets /\ k # run.k /\ k >= run.k
    BY DEF InLoop, ReadySet, Targets
  <2> QED
    BY <2>1 DEF ReconInv, TaskSound, InLoop
<1> QED
  BY <1>1, <1>2, <1>3, <1>4, <1>5 DEF TaskSound, Work, Cur

LEMMA CompleteStep == ASSUME ReconAssumption, ReconInv, CompletePrint PROVE ReconInv'
<1> DEFINE f == complete_phs_label_print(central[C], run.k, Tg.no, TRUE)
<1>0. /\ run.pc = "complete" /\ run.pc \in Cur /\ run.pc \in Work
      /\ UNCHANGED <<ctx, tick, foreign, paper>>
  BY DEF CompletePrint, AtStep, Cur, Work
<1>1. /\ InLoop /\ run.k \notin run.ready /\ Tg.st = "PRINT_COMPLETE_PENDING"
      /\ paper[C][run.k].copies > 0
  BY <1>0, LoopFacts DEF ReconInv, TaskSound, PaperSound, InLoop, Tg, OnPaper
<1>2. Tg.no \in Nat
  BY <1>1 DEF InLoop, Journals, Labelled, Tg
<1>3. /\ Moves(central[C], f) /\ f.st = central[C].st
      /\ \A i \in Targets : f.att[i].st = "SUCCEEDED" => central[C].att[i].st = "SUCCEEDED" \/ i = run.k
  <2>1. central[C] \in Ledger /\ run.k \in Targets
    BY <1>1 DEF InLoop
  <2>2. central[C].att[run.k] = [no |-> Tg.no, st |-> "REQUESTED"] => central[C].att[run.k].st = "REQUESTED"
    OBVIOUS
  <2>3. Closed(central[C], run.k, "SUCCEEDED", f)
    BY <2>2 DEF Closed, complete_phs_label_print
  <2> HIDE DEF f
  <2> QED
    BY <2>1, <2>3, CompleteMoves
<1>4. /\ \A k \in Targets : f.att[k].st = "SUCCEEDED" => paper[C][k].copies > 0
      /\ f.st = "committed" => \A k \in Targets : f.att[k].st = "SUCCEEDED"
      /\ f.st # "none"
  BY <1>1, <1>3 DEF ReconInv, LedgerSound, Moves, InLoop
<1> HIDE DEF f
<1>5. CASE (central' = central \/ central' = [central EXCEPT ![C] = f]) /\ Raise /\ UNCHANGED journal
  BY <1>0, <1>3, <1>4, <1>5, CallFails
<1>6. CASE /\ central' = [central EXCEPT ![C] = f] /\ central'[C].att[run.k].st = "SUCCEEDED"
           /\ _save_target("PRINT_COMPLETED") /\ NextTarget
  <2>1. TargetMoved("PRINT_COMPLETED")
    BY <1>1, <1>6, SavedTarget DEF InLoop, TargetStates
  <2>2. Ours' /\ journal'.ctx = journal.ctx
    BY <1>1, <2>1 DEF TargetMoved, InLoop, Ours, Open
  <2>3. CentralGood
    BY <1>0, <1>1, <1>3, <1>4, <1>6, <2>2, CallGood DEF InLoop
  <2>4. \A k \in ReadySet(central'[C]) : k # run.k => k \in ReadySet(central[C])
    <3>1. central'[C] = f
      BY <1>1, <1>6 DEF InLoop, ReconInv, ReconTypes
    <3> QED
      BY <1>3, <3>1 DEF ReadySet
  <2>5. /\ run' \in Tasks /\ run'.pc = "target" /\ run'.ctx = run.ctx /\ run'.confirm = run.confirm
        /\ TaskSound'
    BY <1>1, <1>6, <2>1, <2>3, <2>4, GoesOn
  <2> QED
    BY <1>0, <1>1, <1>6, <2>1, <2>3, <2>5, LoopStep DEF TargetStates, Begun, OnPaper
<1>7. central'[C].att[run.k] = [no |-> Tg.no, st |-> "SUCCEEDED"] => central'[C].att[run.k].st = "SUCCEEDED"
  OBVIOUS
<1> QED
  BY <1>5, <1>6, <1>7 DEF CompletePrint, Call, f

LEMMA CheckStep == ASSUME ReconInv, CheckReady PROVE ReconInv'
<1>0. /\ run.pc = "target" /\ run.pc \in Work /\ UNCHANGED <<ctx, tick, foreign, paper, central>>
  BY DEF CheckReady, AtStep, Work, Call
<1>1. Ours /\ C \in Contexts /\ journal.filled /\ journal \in Journals /\ run \in Tasks
  BY <1>0, AtWork DEF ReconInv, TaskSound, Work
<1>2. CentralGood
  BY <1>0, SameCentral
<1>3. CASE Raise /\ UNCHANGED journal
  BY <1>0, <1>2, <1>3, Raises
<1>4. CASE _save("ACTIVATE_PENDING") /\ Goto("activate")
  <2>1. /\ run' \in Tasks /\ run'.pc = "activate" /\ run'.ctx = run.ctx /\ run'.confirm = run.confirm
    BY <1>4, Goes DEF Pcs
  <2>2. Ours' /\ journal'.filled
    BY <1>1, <1>4 DEF _save, Journals, Ours, Open, TerminalStates
  <2>3. TaskSound'
    BY <2>1, <2>2 DEF TaskSound, Work, Cur
  <2> QED
    BY <1>0, <1>1, <1>2, <1>4, <2>1, <2>3, StatusStep
<1> QED
  BY <1>3, <1>4 DEF CheckReady, Call

LEMMA ActivateStep == ASSUME ReconInv, Activate PROVE ReconInv'
<1> DEFINE f == activate_phs_label_exchange(central[C])
<1>0. /\ run.pc = "activate" /\ run.pc \in Work /\ UNCHANGED <<ctx, tick, foreign, paper>>
  BY DEF Activate, AtStep, Work
<1>1. /\ Ours /\ C \in Contexts /\ journal \in Journals /\ run \in Tasks /\ central[C] \in Ledger
      /\ central \in [Contexts -> Ledger] /\ central[C].st # "none"
  BY <1>0, AtWork DEF ReconInv, ReconTypes, TaskSound, JournalSound, C
<1>2. /\ Moves(central[C], f) /\ f.att = central[C].att
      /\ f.st = "committed" => central[C].st = "committed" \/ \A k \in Targets : central[C].att[k].st = "SUCCEEDED"
  BY <1>1, ActivateMoves
<1>3. /\ \A k \in Targets : f.att[k].st = "SUCCEEDED" => paper[C][k].copies > 0
      /\ f.st = "committed" => \A k \in Targets : f.att[k].st = "SUCCEEDED"
      /\ f.st # "none"
  BY <1>1, <1>2 DEF ReconInv, LedgerSound, Moves
<1> HIDE DEF f
<1>4. CASE (central' = central \/ central' = [central EXCEPT ![C] = f]) /\ Raise /\ UNCHANGED journal
  BY <1>0, <1>2, <1>3, <1>4, CallFails
<1>5. CASE /\ central' = [central EXCEPT ![C] = f] /\ central'[C].st = "committed"
           /\ _save("COMMITTED") /\ run' = [run EXCEPT !.pc = "end", !.ok = TRUE]
  <2>1. run' \in Tasks /\ run'.pc = "end" /\ run'.ctx = run.ctx /\ run'.confirm = run.confirm
    BY <1>1, <1>5 DEF Tasks, Pcs
  <2>2. /\ central' \in [Contexts -> Ledger] /\ central'[C] = f
        /\ \A c \in Contexts : c # C => central'[c] = central[c]
    BY <1>1, <1>2, <1>5 DEF Moves
  <2>3. CentralGood
    <3>1. \A c \in Contexts : Moves(central[c], central'[c])
      BY <1>1, <1>2, <2>2 DEF Moves
    <3>2. LedgerSound'
      BY <1>0, <1>3, <2>2 DEF ReconInv, LedgerSound
    <3>3. \A c \in Contexts : ~(central'[c].st = "open" /\ central[c].st # "open")
      BY <1>5, <2>2
    <3> QED
      BY <2>2, <3>1, <3>2, <3>3 DEF CentralGood
  <2> QED
    BY <1>0, <1>1, <1>5, <2>1, <2>3, Rests, StatusStep
<1> QED
  BY <1>4, <1>5 DEF Activate, Call, f

-----------------------------------------------------------------------------
(* The operator, the other terminal, the start and the end of a task.      *)

LEMMA IdleTask == ASSUME ReconAssumption PROVE IdleRun \in Tasks
<1>1. 1 \in 1..(N + 1)
  BY DEF ReconAssumption
<1> QED
  BY <1>1 DEF IdleRun, Tasks, Pcs

LEMMA FinishStep ==
  ASSUME ReconAssumption, ReconInv, Finish \/ Restart \/ _execute_phs_reconciliation_exchange
  PROVE  ReconInv'
<1>1. /\ UNCHANGED <<journal, central, foreign, paper>> /\ CentralGood
      /\ tick' => tick
      /\ ctx' \in {NoCtx, ctx, journal.ctx}
  BY SameCentral DEF Finish, Restart, _execute_phs_reconciliation_exchange
<1>2. /\ run' \in Tasks /\ run'.pc \in {"idle", "load"} /\ run'.ctx \in {NoCtx, ctx}
      /\ run'.confirm => tick
  <2>1. CASE run' = IdleRun
    BY <2>1, IdleTask DEF IdleRun
  <2>2. CASE run' = [IdleRun EXCEPT !.pc = "load", !.ctx = ctx, !.confirm = tick] /\ tick \in BOOLEAN
    BY <2>2, IdleTask DEF IdleRun, Tasks, Pcs, ReconInv, ReconTypes
  <2>3. tick \in BOOLEAN
    BY DEF ReconInv, ReconTypes
  <2> QED
    BY <2>1, <2>2, <2>3 DEF Finish, Restart, _execute_phs_reconciliation_exchange
<1>3. NewContext /\ ctx' \in Ctx \cup {NoCtx}
  BY <1>1 DEF NewContext, ReconInv, ReconTypes, Journals
<1>4. tick' \in BOOLEAN
  BY DEF ReconInv, ReconTypes, Finish, Restart, _execute_phs_reconciliation_exchange
<1>5. run'.pc \in {"idle", "load", "end"} /\ run'.pc # "paper" /\ run'.ctx \in {NoCtx, ctx, run.ctx}
  BY <1>2
<1>6. TaskSound'
  BY <1>5, Rests
<1>7. run'.confirm => tick \/ run.confirm
  BY <1>2
<1> QED
  BY <1>1, <1>2, <1>3, <1>4, <1>5, <1>6, <1>7, TaskStep

LEMMA ScanStep ==
  ASSUME ReconInv, NEW c \in Contexts, _intercept_phs_reconciliation_scan(c)
  PROVE  ReconInv'
<1>1. /\ UNCHANGED <<tick, journal, run, central, foreign, paper>> /\ run.pc = "idle"
      /\ ctx' = [c |-> c, linked |-> Linked(c)] /\ CentralGood
  BY SameCentral DEF _intercept_phs_reconciliation_scan, resolve
<1>2. ctx' \in Ctx /\ ctx'.c = c /\ (ctx'.linked => central'[c].st # "none")
  BY <1>1 DEF Ctx, Linked
<1>3. TaskSound' /\ NewContext
  BY <1>1, <1>2, Rests DEF NewContext
<1> QED
  BY <1>1, <1>2, <1>3, TaskStep DEF ReconInv, ReconTypes

(* A changed file disturbs nothing here.                                   *)
LEMMA Rest ==
  ASSUME ReconInv, UNCHANGED <<ctx, tick, journal, run, central, foreign, paper>>
  PROVE  ReconInv'
  BY DEF ReconInv, ReconTypes, Linking, Known, JournalSound, TaskSound, LedgerSound, PaperSound,
         Printing, NoAsk, Copies, Fresh, Spent, NoOrphanExchange, CommittedIsCentral, Ours, Open,
         C, Tg, ReadySet

LEMMA SingleStep == ASSUME ReconInv, SettleSingle PROVE ReconInv'
<1>1. /\ journal.kind = "SINGLE" /\ run.pc = "idle" /\ journal.ctx = NoCtx /\ journal \in Journals
      /\ journal' = [journal EXCEPT !.st = "COMMITTED"]
      /\ UNCHANGED <<ctx, tick, run, central, foreign, paper>>
  BY DEF SettleSingle, ReconInv, JournalSound, ReconTypes
<1>2. /\ journal' \in Journals /\ journal'.ctx = NoCtx /\ journal'.tg = journal.tg
      /\ journal'.ex = journal.ex /\ journal'.filled = journal.filled /\ journal'.kind = "SINGLE"
  <2>1. "COMMITTED" \in Statuses
    BY DEF Statuses, TerminalStates
  <2> QED
    BY <1>1, <2>1 DEF Journals
<1>3. ~Ours /\ ~Ours'
  BY <1>1, <1>2 DEF Ours
<1>4. TaskSound'
  BY <1>1, Rests
<1>5. Printing'
  BY <1>1, <1>3 DEF ReconInv, Printing, NoAsk, Copies, Fresh
<1> QED
  BY <1>1, <1>2, <1>3, <1>4, <1>5
     DEF ReconInv, ReconTypes, Linking, Known, JournalSound, LedgerSound, PaperSound,
         NoOrphanExchange, CommittedIsCentral

LEMMA StartStep == ASSUME ReconInv, _load_or_start PROVE ReconInv'
<1>0. run.pc = "load" /\ UNCHANGED <<ctx, tick, foreign, paper, central>> /\ CentralGood
  BY SameCentral DEF _load_or_start, AtStep
<1>1. CASE Raise /\ UNCHANGED journal
  BY <1>0, <1>1, Raises
<1>2. CASE Ours /\ Goto("central") /\ UNCHANGED journal
  <2>1. run' \in Tasks /\ run'.pc = "central" /\ run'.ctx = run.ctx /\ run'.confirm = run.confirm
    BY <1>2, Goes DEF Pcs
  <2>2. TaskSound' /\ NewContext /\ ctx' \in Ctx \cup {NoCtx} /\ tick' \in BOOLEAN
    BY <1>0, <1>2, <2>1 DEF TaskSound, Work, Cur, Ours, Open, NewContext, ReconInv, ReconTypes
  <2> QED
    BY <1>0, <1>2, <2>1, <2>2, TaskStep
<1>3. CASE /\ ~RecoveryConflict /\ ~(Ours /\ run.ctx \in {NoCtx, journal.ctx}) /\ run.ctx # NoCtx
           /\ Goto("central")
           /\ journal' = [EmptyJournal EXCEPT !.st = "PREPARE_PENDING", !.ctx = run.ctx,
                                               !.ex = run.ctx.linked]
  <2>1. run' \in Tasks /\ run'.pc = "central" /\ run'.ctx = run.ctx /\ run'.confirm = run.confirm
    BY <1>3, Goes DEF Pcs
  <2>2. ~Ours
    BY <1>3 DEF RecoveryConflict, Ours
  <2>3. /\ run.ctx \in Ctx /\ run.ctx.c \in Contexts /\ run.ctx.linked \in BOOLEAN
        /\ (run.ctx.linked => central[run.ctx.c].st # "none")
    BY <1>3 DEF ReconInv, ReconTypes, Linking, Known, Tasks, Ctx
  <2>4. journal' = [kind |-> "RECONCILIATION", st |-> "PREPARE_PENDING", ctx |-> run.ctx,
                    ex |-> run.ctx.linked, filled |-> FALSE, tg |-> NewTargets]
    BY <1>3 DEF EmptyJournal
  <2>5. NewTargets \in [Targets -> Labelled] /\ \A k \in Targets : NewTargets[k].st = "PREPARED"
    BY DEF NewTargets, NewTarget, Labelled, TargetStates
  <2>6. "PREPARE_PENDING" \in Statuses /\ "PREPARE_PENDING" \notin TerminalStates
    BY DEF Statuses, TerminalStates
  <2>7. journal' \in Journals
    BY <2>3, <2>4, <2>5, <2>6 DEF Journals
  <2>8. /\ journal'.kind = "RECONCILIATION" /\ journal'.ctx = run.ctx /\ ~journal'.filled
        /\ journal'.ex = run.ctx.linked /\ journal'.tg = NewTargets /\ journal'.st = "PREPARE_PENDING"
    BY <2>4
  <2>9. Ours'
    BY <2>6, <2>8 DEF Ours, Open
  <2>10. TaskSound'
    BY <2>1, <2>9 DEF TaskSound, Work, Cur
  <2>11. Linking'
    BY <1>0, <2>1, <2>8, LinkingKept DEF NewContext
  <2>12. JournalSound'
    BY <1>0, <1>3, <2>3, <2>5, <2>8 DEF JournalSound, Begun
  <2>13. PaperSound'
    BY <2>5, <2>8 DEF PaperSound, OnPaper
  <2>14. Printing'
    <3>1. ASSUME NoAsk, NEW c \in Contexts, NEW k \in Targets PROVE Copies(c, k)'
      <4>1. Fresh(c, k)' => Fresh(c, k)
        BY <1>0, <2>2 DEF Fresh
      <4>2. paper'[c][k] = paper[c][k]
        BY <1>0
      <4> QED
        BY <3>1, <4>1, <4>2, CopiesKept
    <3>2. NoAsk' = NoAsk
      BY <1>0 DEF NoAsk
    <3>3. NoAsk => ~tick' /\ ~run'.confirm
      BY <1>0, <2>1 DEF ReconInv, Printing
    <3> QED
      BY <3>1, <3>2, <3>3 DEF Printing
  <2>15. NoOrphanExchange' /\ CommittedIsCentral'
    BY <1>0, <2>2, <2>8 DEF ReconInv, NoOrphanExchange, CommittedIsCentral
  <2> QED
    BY <1>0, <2>1, <2>7, <2>10, <2>11, <2>12, <2>13, <2>14, <2>15 DEF ReconInv, ReconTypes, CentralGood
<1> QED
  BY <1>1, <1>2, <1>3 DEF _load_or_start

LEMMA ConfirmStep ==
  ASSUME ReconAssumption, ReconInv, _confirm_phs_reconciliation_ambiguous_reprint
  PROVE  ReconInv'
<1> DEFINE old == paper[C]
           sheets == [k \in Targets |-> IF Ambiguous(k) /\ old[k].asked < MaxAttempts
                                     THEN [old[k] EXCEPT !.asked = @ + 1] ELSE old[k]]
<1>1. /\ run.pc = "idle" /\ Ours /\ UNCHANGED <<ctx, journal, run, central, foreign>>
      /\ tick' = TRUE /\ paper' = [paper EXCEPT ![C] = sheets]
  <2>1. /\ run.pc = "idle" /\ Ours /\ UNCHANGED <<ctx, journal, run, central, foreign>>
        /\ tick' = TRUE
    BY DEF _confirm_phs_reconciliation_ambiguous_reprint
  <2>2. paper' = [paper EXCEPT ![C] = sheets]
    BY DEF _confirm_phs_reconciliation_ambiguous_reprint, C
  <2> QED
    BY <2>1, <2>2
<1>2. PICK a \in Targets : Ambiguous(a)
  BY DEF _confirm_phs_reconciliation_ambiguous_reprint
<1>3. /\ C \in Contexts /\ paper \in [Contexts -> [Targets -> Sheet]] /\ old \in [Targets -> Sheet]
  BY <1>1 DEF ReconInv, ReconTypes, JournalSound, Linking, Known, C
<1>4. ASSUME NEW k \in Targets
      PROVE  /\ sheets[k] \in Sheet /\ sheets[k].copies = old[k].copies
             /\ sheets[k].asked >= old[k].asked
             /\ Ambiguous(k) => sheets[k].asked > 0
  <2>1. old[k] \in Sheet /\ MaxAttempts \in Nat \ {0}
    BY <1>3, <1>4 DEF ReconAssumption
  <2>2. CASE Ambiguous(k) /\ old[k].asked < MaxAttempts
    <3>1. sheets[k] = [old[k] EXCEPT !.asked = @ + 1]
      BY <2>2
    <3> HIDE DEF sheets, old
    <3> QED
      BY <2>1, <3>1 DEF Sheet
  <2>3. CASE ~(Ambiguous(k) /\ old[k].asked < MaxAttempts)
    <3>1. sheets[k] = old[k]
      BY <2>3
    <3> HIDE DEF sheets, old
    <3> QED
      BY <2>1, <2>3, <3>1 DEF Sheet
  <2> QED
    BY <2>2, <2>3
<1>5. sheets \in [Targets -> Sheet]
  BY <1>4
<1> HIDE DEF sheets
<1>6. /\ paper' \in [Contexts -> [Targets -> Sheet]] /\ paper'[C] = sheets
      /\ \A c \in Contexts : c # C => paper'[c] = paper[c]
  BY <1>1, <1>3, <1>5
<1>7. \A c \in Contexts : \A k \in Targets : paper'[c][k].copies = paper[c][k].copies
  BY <1>3, <1>4, <1>6
<1>8. ~NoAsk'
  <2>1. paper'[C][a].asked > 0
    BY <1>2, <1>4, <1>6
  <2>2. ~(paper'[C][a].asked = 0)
    BY <2>1
  <2> QED
    BY <1>2, <1>3, <2>2 DEF NoAsk
<1>9. TaskSound'
  BY <1>1, Rests
<1>10. LedgerSound' /\ PaperSound' /\ Printing'
  BY <1>1, <1>3, <1>7, <1>8 DEF ReconInv, LedgerSound, PaperSound, Printing, Ours, Open, C
<1>11. /\ Linking' /\ JournalSound' /\ NoOrphanExchange' /\ CommittedIsCentral'
  BY <1>1 DEF ReconInv, Linking, Known, JournalSound, NoOrphanExchange, CommittedIsCentral, Ours, Open
<1> QED
  BY <1>1, <1>6, <1>9, <1>10, <1>11 DEF ReconInv, ReconTypes

LEMMA OtherStep ==
  ASSUME ReconAssumption, ReconInv, NEW c \in Contexts, OtherTerminal(c)
  PROVE  ReconInv'
<1>0. /\ central[c].st = "none" /\ foreign' = foreign \cup {c}
      /\ UNCHANGED <<ctx, tick, journal, run>>
      /\ central \in [Contexts -> Ledger] /\ paper \in [Contexts -> [Targets -> Sheet]]
      /\ 1 \in Targets
  BY DEF OtherTerminal, ReconInv, ReconTypes, Targets, ReconAssumption
<1>1. PICK s \in {"NONE", "FAILED", "SUCCEEDED"} :
        /\ central' = [central EXCEPT ![c].st = "open",
                         ![c].att[1] = IF s = "NONE" THEN @ ELSE [no |-> 1, st |-> s]]
        /\ paper' = [paper EXCEPT ![c][1].copies = IF s = "SUCCEEDED" THEN 1 ELSE 0]
  BY DEF OtherTerminal
<1> DEFINE e == central[c]
           t == IF s = "NONE" THEN e.att[1] ELSE [no |-> 1, st |-> s]
           f == [st |-> "open", att |-> [e.att EXCEPT ![1] = t]]
           n == IF s = "SUCCEEDED" THEN 1 ELSE 0
           sheets == [paper[c] EXCEPT ![1].copies = n]
<1>2. /\ e \in Ledger /\ e = [st |-> e.st, att |-> e.att] /\ e.att \in [Targets -> [no : Nat, st : AttemptStates]]
      /\ \A k \in Targets : e.att[k].st # "SUCCEEDED"
  BY <1>0 DEF Ledger, ReconInv, LedgerSound
<1>3. t \in [no : Nat, st : AttemptStates] /\ (t.st = "SUCCEEDED" => s = "SUCCEEDED")
      /\ (s = "SUCCEEDED" => t.st = "SUCCEEDED")
  BY <1>0, <1>2 DEF AttemptStates
<1>4. /\ f \in Ledger /\ f.st = "open" /\ f.att[1] = t
      /\ \A k \in Targets : k # 1 => f.att[k] = e.att[k]
  BY <1>0, <1>2, <1>3 DEF Ledger
<1>5. central' = [central EXCEPT ![c] = f]
  <2> DEFINE g == [central EXCEPT ![c].st = "open"]
  <2>1. central' = [g EXCEPT ![c].att[1] = IF s = "NONE" THEN @ ELSE [no |-> 1, st |-> s]]
    BY <1>1
  <2>2. /\ g[c].st = "open" /\ g[c].att = e.att /\ DOMAIN g = Contexts
        /\ g[c] = [st |-> "open", att |-> e.att]
        /\ \A d \in Contexts : d # c => g[d] = central[d]
    BY <1>0, <1>2
  <2> HIDE DEF g
  <2>3. central' = [g EXCEPT ![c] = [g[c] EXCEPT !.att = [e.att EXCEPT ![1] = t]]]
    BY <2>1, <2>2
  <2>4. [g[c] EXCEPT !.att = [e.att EXCEPT ![1] = t]] = f
    BY <2>2
  <2> HIDE DEF f, t
  <2> QED
    BY <1>0, <2>2, <2>3, <2>4
<1>6. n \in Nat /\ (s = "SUCCEEDED" => n = 1) /\ (s # "SUCCEEDED" => n = 0)
  OBVIOUS
<1>7. /\ paper' = [paper EXCEPT ![c] = sheets] /\ paper[c] \in [Targets -> Sheet]
  BY <1>0, <1>1
<1> HIDE DEF f, t, n
<1>8. /\ sheets \in [Targets -> Sheet] /\ sheets[1].copies = n /\ sheets[1].jams = paper[c][1].jams
      /\ sheets[1].asked = paper[c][1].asked /\ \A k \in Targets : k # 1 => sheets[k] = paper[c][k]
  BY <1>0, <1>6, <1>7 DEF Sheet
<1> HIDE DEF sheets
<1>9. /\ central' \in [Contexts -> Ledger] /\ central'[c] = f
      /\ \A d \in Contexts : d # c => central'[d] = central[d]
      /\ paper' \in [Contexts -> [Targets -> Sheet]] /\ paper'[c] = sheets
      /\ \A d \in Contexts : d # c => paper'[d] = paper[d]
  BY <1>0, <1>4, <1>5, <1>7, <1>8
<1>10. LedgerSound'
  <2>1. \A k \in Targets : f.att[k].st = "SUCCEEDED" => sheets[k].copies > 0
    BY <1>2, <1>3, <1>4, <1>6, <1>8
  <2> QED
    BY <1>4, <1>9, <2>1 DEF ReconInv, LedgerSound
<1>11. CentralGood
  <2>1. \A d \in Contexts : Moves(central[d], central'[d])
    BY <1>0, <1>2, <1>4, <1>9 DEF Moves
  <2> QED
    BY <1>0, <1>9, <1>10, <2>1 DEF CentralGood
<1>12. /\ Ours' = Ours /\ Linking' /\ ReconTypes'
  BY <1>0, <1>9, <1>11, LinkingKept DEF Ours, Open, NewContext, ReconInv, ReconTypes
<1>13. JournalSound'
  BY <1>0, <1>11, <1>12 DEF ReconInv, JournalSound, CentralGood, Moves, Linking, Known
<1>14. journal.ex => journal.ctx.c # c
  BY <1>0 DEF ReconInv, JournalSound
<1>15. TaskSound'
  <2>1. run.pc \in Work \ {"central"} => central'[C] = central[C]
    BY <1>9, <1>14, AtWork DEF ReconInv, TaskSound, JournalSound, C
  <2>2. run.pc \in Work \ {"central"} => ReadySet(central[C])' = ReadySet(central[C])
    BY <1>0, <2>1 DEF ReadySet, C
  <2> QED
    BY <1>0, <1>12, <2>1, <2>2 DEF ReconInv, TaskSound, Work, Cur, C, Tg
<1>16. PaperSound'
  <2> SUFFICES ASSUME Ours, NEW k \in Targets
               PROVE  /\ journal.tg[k].st \in OnPaper => paper'[C][k].copies > 0
                      /\ journal.tg[k].st = "PRINT_COMPLETED" => central'[C].att[k].st = "SUCCEEDED"
    BY <1>0, <1>12 DEF PaperSound, C
  <2>1. C \in Contexts
    BY DEF ReconInv, JournalSound, Linking, Known, C
  <2>2. CASE journal.ex
    BY <1>9, <1>14, <2>1, <2>2 DEF ReconInv, PaperSound, C
  <2>3. CASE ~journal.ex
    BY <2>3 DEF ReconInv, JournalSound, OnPaper
  <2> QED
    BY <2>2, <2>3
<1>17. Printing'
  <2> SUFFICES ASSUME NoAsk'
               PROVE  (~tick /\ ~run.confirm /\ \A d \in Contexts : \A k \in Targets : Copies(d, k))'
    BY DEF Printing
  <2>1. NoAsk
    <3>1. \A d \in Contexts : \A k \in Targets : paper[d][k].asked = paper'[d][k].asked
      BY <1>8, <1>9
    <3> QED
      BY <3>1 DEF NoAsk
  <2>2. ~tick' /\ ~run'.confirm
    BY <1>0, <2>1 DEF ReconInv, Printing
  <2>3. ASSUME NEW d \in Contexts, NEW k \in Targets PROVE Copies(d, k)'
    <3>1. CASE d = c /\ k = 1
      <4>1. /\ paper'[d][k].copies = n /\ paper'[d][k].jams \in Nat
            /\ Fresh(d, k)' => s # "SUCCEEDED"
        BY <1>0, <1>3, <1>4, <1>8, <1>9, <3>1 DEF Sheet, Fresh
      <4> QED
        BY <1>6, <4>1 DEF Copies
    <3>2. CASE d # c \/ k # 1
      <4>1. Fresh(d, k)' => Fresh(d, k)
        BY <1>0, <1>4, <1>9, <1>12, <3>2 DEF Fresh, Spent
      <4>2. paper'[d][k] = paper[d][k]
        BY <1>8, <1>9, <3>2
      <4> QED
        BY <2>1, <4>1, <4>2, CopiesKept
    <3> QED
      BY <3>1, <3>2
  <2> QED
    BY <2>2, <2>3
<1>18. NoOrphanExchange'
  BY <1>0, <1>9, <1>12 DEF ReconInv, NoOrphanExchange
<1>19. CommittedIsCentral'
  BY <1>0, <1>11 DEF ReconInv, CommittedIsCentral, CentralGood, Moves, Linking, Known
<1> QED
  BY <1>10, <1>12, <1>13, <1>15, <1>16, <1>17, <1>18, <1>19 DEF ReconInv

-----------------------------------------------------------------------------
LEMMA ReconInit == ASSUME ReconAssumption, Init PROVE ReconInv
<1>1. /\ ctx = NoCtx /\ tick = FALSE /\ run = IdleRun /\ IdleRun \in Tasks
      /\ central = [c \in Contexts |-> NoExchange(Targets)]
      /\ paper = [c \in Contexts |-> [k \in Targets |-> [copies |-> 0, jams |-> 0, asked |-> 0]]]
  BY IdleTask DEF Init
<1>2. /\ journal \in Journals /\ journal.ctx = NoCtx /\ ~journal.ex /\ ~journal.filled
      /\ ~Ours /\ journal.tg = NewTargets
  <2>1. NewTargets \in [Targets -> Labelled]
    BY DEF NewTargets, NewTarget, Labelled, TargetStates
  <2>2. PICK kind \in {"RECONCILIATION", "SINGLE"}, st \in {"CANCELLED", "PREPARED"} :
          /\ journal = [kind |-> kind, st |-> st, ctx |-> NoCtx, ex |-> FALSE,
                        filled |-> FALSE, tg |-> NewTargets]
          /\ kind = "SINGLE" \/ st = "CANCELLED"
    BY DEF Init, EmptyJournal
  <2>3. st \in Statuses
    BY <2>2 DEF Statuses, TargetStates, TerminalStates
  <2> QED
    BY <2>1, <2>2, <2>3 DEF Journals, Ours, Open, TerminalStates
<1>3. ReconTypes
  <2>1. NoExchange(Targets) \in Ledger
    BY DEF NoExchange, NewAttempt, Ledger, AttemptStates
  <2> QED
    BY <1>1, <1>2, <2>1 DEF ReconTypes, Sheet
<1>4. Linking /\ run.pc = "idle" /\ ~run.confirm
  BY <1>1, <1>2 DEF Linking, Known, IdleRun
<1>5. JournalSound
  BY <1>2 DEF JournalSound, NewTargets, NewTarget, Begun
<1>6. TaskSound
  BY <1>4 DEF TaskSound, Work, Cur
<1>7. \A c \in Contexts : central[c].st = "none" /\ \A k \in Targets : central[c].att[k].st = "NONE"
  BY <1>1 DEF NoExchange, NewAttempt
<1>8. LedgerSound /\ PaperSound /\ NoOrphanExchange /\ CommittedIsCentral
  BY <1>2, <1>7 DEF LedgerSound, PaperSound, NoOrphanExchange, CommittedIsCentral
<1>9. Printing
  BY <1>1, <1>4 DEF Printing, Copies
<1> QED
  BY <1>3, <1>4, <1>5, <1>6, <1>8, <1>9 DEF ReconInv

LEMMA ReconKeeps == ASSUME ReconAssumption, ReconInv, [Next]_vars PROVE ReconInv'
<1>1. ASSUME NEW c \in Contexts, _intercept_phs_reconciliation_scan(c) PROVE ReconInv'
  BY <1>1, ScanStep
<1>2. ASSUME NEW c \in Contexts, OtherTerminal(c) PROVE ReconInv'
  BY <1>2, OtherStep
<1>3. ASSUME NEW k \in Targets, DamageArtifact(k) PROVE ReconInv'
  BY <1>3, Rest DEF DamageArtifact
<1>4. CASE _confirm_phs_reconciliation_ambiguous_reprint
  BY <1>4, ConfirmStep
<1>5. CASE _execute_phs_reconciliation_exchange \/ Restart \/ Finish
  BY <1>5, FinishStep
<1>6. CASE SettleSingle
  BY <1>6, SingleStep
<1>7. CASE _load_or_start \/ PrepareReconciliation \/ GetExchange \/ Dispatch \/ BeginTarget
  BY <1>7, StartStep, PrepareStep, GetStep, DispatchStep, BeginTargetStep
<1>8. CASE RequestPrint \/ BeginPrint \/ PrintPng \/ SaveCompletePending \/ _record_print_failure
  BY <1>8, RequestStep, BeginPrintStep, PrintPngStep, SavePendingStep, FailureStep
<1>9. CASE CompletePrint \/ CheckReady \/ Activate
  BY <1>9, CompleteStep, CheckStep, ActivateStep
<1>10. CASE UNCHANGED vars
  BY <1>10, Rest DEF vars
<1> QED
  BY <1>1, <1>2, <1>3, <1>4, <1>5, <1>6, <1>7, <1>8, <1>9, <1>10 DEF Next, ExchangeStep

(* The labels of a reconciliation become active only when every one is on  *)
(* paper; none is printed twice without the operator's approval or a       *)
(* printer error; the exchanges this terminal opened are in its journal;   *)
(* and the journal closes as COMMITTED only after the centre.  For any     *)
(* number of reconciliations and labels, any faults and any interleaving   *)
(* with another terminal.                                                  *)
THEOREM LabelsReconciled == LabelsSpec => []ReconSound
<1>1. LabelsInit => ReconInv
  BY LabelsAssumption, ReconInit DEF LabelsInit, LabelsAssumption
<1>2. ReconInv /\ [LabelsNext]_labelsVars => ReconInv'
  <2> SUFFICES ASSUME ReconInv, [LabelsNext]_labelsVars PROVE ReconInv'
    OBVIOUS
  <2>1. [Next]_vars
    BY DEF LabelsNext, SwapStep, LegacyStep, PhsStep, ReconStep, GroupStep, labelsVars
  <2> QED
    BY <2>1, LabelsAssumption, ReconKeeps DEF LabelsAssumption
<1>3. ReconInv => ReconSound
  <2> SUFFICES ASSUME ReconInv PROVE ReconSound
    OBVIOUS
  <2>1. AllOnPaper
    BY DEF ReconInv, LedgerSound, AllOnPaper
  <2>2. NoSilentReprint
    <3>1. (\A c \in Contexts, k \in Targets : paper[c][k].asked = 0) => NoAsk
      BY DEF NoAsk
    <3> QED
      BY <3>1 DEF ReconInv, Printing, Copies, NoSilentReprint
  <2>3. ReconTypeOK
    BY DEF ReconInv, ReconTypes, ReconTypeOK, Journals, Labelled, Ledger, Tasks
  <2> QED
    BY <2>1, <2>2, <2>3 DEF ReconInv, ReconSound
<1> QED
  BY <1>1, <1>2, <1>3, PTL DEF LabelsSpec

(***************************************************************************)
(* The sealing of work groups.  The invariant says what the ledger holds,  *)
(* what a bound command may still assume of it, and what a committed one   *)
(* left there.                                                             *)
(***************************************************************************)
(* A bundle's id: its kind, its number, and what it was made of.           *)
BundleIds == {"src", "rem", "trf"} \X Nat \X SUBSET Units
Bundle == [members : SUBSET Units, ver : Nat \ {0}, live : BOOLEAN]
Version == [entity : Nat \ {0}, members : Nat \ {0}, label : Nat \ {0}]

(* Each unit is in one live bundle; a transfer stays as it was made; of a  *)
(* source and its remainders one is live, smaller than any before it, so   *)
(* no remainder's id is ever taken twice.                                  *)
HeldSound ==
  /\ held = [b \in DOMAIN held |-> held[b]]
  /\ \A b \in DOMAIN held :
       /\ b \in BundleIds /\ held[b] \in Bundle
       /\ held[b].members # {}
       /\ b[1] = "trf" => held[b].live /\ held[b].members = b[3]
  /\ \A u \in Units : \E b \in DOMAIN held : held[b].live /\ u \in held[b].members
  /\ \A b, c \in DOMAIN held : \A u \in Units :
       held[b].live /\ held[c].live /\ u \in held[b].members /\ u \in held[c].members => b = c
  /\ \A b, c \in DOMAIN held :
       held[b].live /\ b[1] # "trf" /\ c[1] # "trf" /\ c[2] = b[2] =>
         /\ held[c].live => c = b
         /\ c[1] = "rem" => Cardinality(held[b].members) <= Cardinality(c[3])

LabelSound ==
  /\ label \in [Units -> Groups] /\ ver \in [Groups -> Version]
  /\ roots = [g \in Groups |-> Group!RootsOf(g, label, held)]

(* Nobody changed the labels that a command was built from.                *)
AsRead(cmd) == \A h \in DOMAIN cmd.versions.group :
  ver[h].members = cmd.versions.group[h].members

(* What a command names partitions its sources, and it is what the ledger  *)
(* still holds if the versions are those the command expects.              *)
CommandSound(cmd) ==
  /\ cmd.kind \in {"group", "tag"} /\ cmd.g \in Groups
  /\ cmd.members # {} /\ cmd.members \subseteq Units
  /\ \E n \in Nat : cmd.transfer = Group!TransferId(n, cmd.members)
  /\ cmd.covers \subseteq Groups /\ cmd.g \notin cmd.covers
  /\ \A b \in DOMAIN cmd.sources : LET s == cmd.sources[b] IN
       /\ b \in DOMAIN held /\ b[1] # "trf"
       /\ s.selected # {} /\ s.selected \cap s.rest = {}
       /\ s.rest \subseteq Units /\ (s.rest # {} => s.restId = Group!RemainderId(b, s.rest))
       /\ b \in DOMAIN cmd.versions.bundle
       /\ cmd.versions.bundle[b] \in Nat /\ cmd.versions.bundle[b] <= held[b].ver
       /\ held[b].ver = cmd.versions.bundle[b] =>
            held[b].live /\ held[b].members = s.selected \cup s.rest
  /\ UNION {cmd.sources[b].selected : b \in DOMAIN cmd.sources} = cmd.members
  /\ cmd.kind = "tag" => \A b \in DOMAIN cmd.sources : cmd.sources[b].rest = {}
  /\ cmd.kind = "group" =>
       /\ DOMAIN cmd.versions.group = cmd.covers \cup {cmd.g}
       /\ \A h \in DOMAIN cmd.versions.group :
            /\ cmd.versions.group[h] \in Version
            /\ cmd.versions.group[h].members <= ver[h].members
       /\ AsRead(cmd) =>
            /\ cmd.members = Group!Labelled(cmd.g)
            /\ UNION {Group!Labelled(h) : h \in cmd.covers} = UNION {cmd.sources[b].rest : b \in DOMAIN cmd.sources}
            /\ \A b \in DOMAIN cmd.sources :
                 cmd.sources[b].covers = {h \in cmd.covers : Group!Labelled(h) \cap cmd.sources[b].rest # {}}

(* The receipt that the ledger writes, told from the command alone.        *)
Written(cmd) ==
  LET group == cmd.kind = "group" IN
  [kind |-> "receipt", header |-> TRUE, atomic |-> TRUE, transfer |-> cmd.transfer, members |-> cmd.members,
   versions |-> [b \in DOMAIN cmd.sources \cup {cmd.transfer} \cup {cmd.sources[c].restId : c \in Group!Rests(cmd)} |->
                   IF b \in DOMAIN cmd.sources THEN cmd.versions.bundle[b] + 1 ELSE 1],
   groups |-> IF group THEN [h \in cmd.covers \cup {cmd.g} |-> cmd.versions.group[h].entity + 1] ELSE [h \in {} |-> 0],
   moved |-> IF group THEN [b \in DOMAIN cmd.sources |->
                              [after |-> cmd.versions.bundle[b] + 1, selected |-> cmd.sources[b].selected,
                               rest |-> cmd.sources[b].rest]]
                      ELSE [b \in {} |-> 0],
   rests |-> Group!ExpectedRests(cmd),
   roots |-> IF group THEN {<<cmd.g, cmd.transfer>>} \cup
                           UNION {{<<h, cmd.sources[b].restId>> : h \in cmd.sources[b].covers} : b \in Group!Rests(cmd)}
                      ELSE {},
   seal |-> [bundle |-> cmd.transfer, members |-> cmd.members, qr |-> TRUE]]

(* A committed command's transfer holds what was scanned and what the      *)
(* label lists.                                                            *)
SealSound(st) ==
  LET cmd == client[st].cmd IN
  /\ cmd.transfer \in DOMAIN held /\ cmd.transfer[1] = "trf"
  /\ held[cmd.transfer].members = client[st].scans
  /\ client[st].paper.g \in Groups /\ Group!Labelled(client[st].paper.g) = client[st].scans
  /\ ledger[st] = Written(cmd)
  /\ cmd.kind \in {"group", "tag"}
  /\ \A b \in DOMAIN cmd.sources : cmd.sources[b].selected # {}
  /\ \A h \in cmd.covers \cup {cmd.g} : cmd.kind = "group" => cmd.versions.group[h].entity \in Nat
  /\ \A b \in DOMAIN cmd.sources : cmd.versions.bundle[b] \in Nat

StationSound(st) ==
  LET t == client[st] IN
  /\ t = [pc |-> t.pc, paper |-> t.paper, pre |-> t.pre, scans |-> t.scans, cmd |-> t.cmd,
          contract |-> t.contract]
  /\ t.pc \in {"idle", "scanning", "intent", "bound", "sealed", "review"}
  /\ t.pc # "idle" => t.paper.g \in Groups
  /\ t.pc \in {"bound", "sealed"} => t.cmd # Group!Nothing
  /\ t.pc = "sealed" <=> t.contract # Group!Nothing
  /\ t.pc = "sealed" => ledger[st] # Group!Nothing /\ t.contract = ledger[st]
  /\ t.pc = "bound" /\ ledger[st] = Group!Nothing =>
       CommandSound(t.cmd) /\ t.cmd.g = t.paper.g /\ t.cmd.members = t.scans
  /\ ledger[st] # Group!Nothing => t.pc \in {"bound", "sealed", "review"} /\ SealSound(st)

GroupInv ==
  /\ HeldSound /\ LabelSound
  /\ client = [st \in Stations |-> client[st]] /\ ledger = [st \in Stations |-> ledger[st]]
  /\ moves \in Nat /\ groupFaults \in Nat
  /\ \A st \in Stations : StationSound(st)
  /\ \A st, o \in Stations :
       ledger[st] # Group!Nothing /\ ledger[o] # Group!Nothing
         /\ client[st].cmd.transfer = client[o].cmd.transfer => st = o
(* The bundle a unit is in.                                                *)
LEMMA BundleFacts ==
  ASSUME HeldSound, NEW u \in Units
  PROVE  /\ Group!BundleOf(u) \in DOMAIN held /\ held[Group!BundleOf(u)].live
         /\ u \in held[Group!BundleOf(u)].members
         /\ \A b \in DOMAIN held : held[b].live /\ u \in held[b].members => b = Group!BundleOf(u)
<1>1. \E b \in DOMAIN held : held[b].live /\ u \in held[b].members
  BY DEF HeldSound
<1>2. Group!BundleOf(u) \in DOMAIN held /\ held[Group!BundleOf(u)].live /\ u \in held[Group!BundleOf(u)].members
  BY <1>1 DEF Group!BundleOf
<1> QED
  BY <1>2 DEF HeldSound

(* What an answer, one part of which may be wrong, still says truly.       *)
SourceRecord(s) == s = [full |-> s.full, selected |-> s.selected, rest |-> s.rest, ver |-> s.ver,
                        restId |-> s.restId, covers |-> s.covers]
ProofOf(h) == [members |-> Group!Labelled(h), label |-> ver[h].label, entity |-> ver[h].entity,
               membership |-> ver[h].members]
AnswerSound(g, a) ==
  /\ a.count = 1 => \A u \in Group!Labelled(g) : Group!BundleOf(u)[1] # "trf"
  /\ a.active.members = Group!Labelled(g)
  /\ DOMAIN a.sources \subseteq {Group!BundleOf(u) : u \in Group!Labelled(g)}
  /\ \A b \in DOMAIN a.sources :
       /\ a.sources[b].full = held[b].members /\ a.sources[b].ver = held[b].ver
       /\ SourceRecord(a.sources[b])
  /\ DOMAIN a.covers \subseteq Groups \ {g}
  /\ \A h \in DOMAIN a.covers : a.covers[h].proof = ProofOf(h)
  /\ a.group.entity = ver[g].entity /\ a.group.membership = ver[g].members
  /\ a.group.label = ver[g].label

LEMMA TrueAnswer ==
  ASSUME NEW sheet, sheet.g \in Groups
  PROVE  AnswerSound(sheet.g, Group!Answer(sheet))
<1> DEFINE a == Group!Answer(sheet)
           g == sheet.g
<1>1. a.count = 1 => \A u \in Group!Labelled(g) : Group!BundleOf(u)[1] # "trf"
  BY DEF Group!Answer, Group!Sealable
<1>2. a.active.members = Group!Labelled(g)
  BY DEF Group!Answer
<1>3. DOMAIN a.sources = {Group!BundleOf(u) : u \in Group!Labelled(g)}
  BY DEF Group!Answer
<1>4. ASSUME NEW b \in DOMAIN a.sources
      PROVE  /\ a.sources[b].full = held[b].members /\ a.sources[b].ver = held[b].ver
             /\ SourceRecord(a.sources[b])
  BY DEF Group!Answer, SourceRecord
<1>5. DOMAIN a.covers \subseteq Groups \ {g}
  BY DEF Group!Answer
<1>6. \A h \in DOMAIN a.covers : a.covers[h].proof = ProofOf(h)
  BY DEF Group!Answer, ProofOf
<1>7. a.group = ProofOf(g)
  BY DEF Group!Answer, ProofOf
<1> HIDE DEF a
<1> QED
  BY <1>1, <1>2, <1>3, <1>4, <1>5, <1>6, <1>7 DEF AnswerSound, ProofOf, a

(* The form of an answer.                                                  *)
Whole(a) ==
  /\ a = [count |-> a.count, basis |-> a.basis, item |-> a.item, anchor |-> a.anchor,
          complete |-> a.complete, kind |-> a.kind, active |-> a.active, group |-> a.group,
          rows |-> a.rows, good |-> a.good, sources |-> a.sources, covers |-> a.covers,
          tags |-> a.tags, transfer |-> a.transfer, versions |-> a.versions]
  /\ a.active = [number |-> a.active.number, label |-> a.active.label, members |-> a.active.members]
  /\ a.group = [members |-> a.group.members, label |-> a.group.label, entity |-> a.group.entity,
                membership |-> a.group.membership]
  /\ a.sources = [b \in DOMAIN a.sources |-> a.sources[b]]
  /\ \A b \in DOMAIN a.sources : SourceRecord(a.sources[b])
  /\ a.covers = [h \in DOMAIN a.covers |-> a.covers[h]]
  /\ \A h \in DOMAIN a.covers :
       a.covers[h] = [proof |-> a.covers[h].proof, covered |-> a.covers[h].covered]

LEMMA WholeAnswer == ASSUME NEW sheet PROVE Whole(Group!Answer(sheet))
BY DEF Group!Answer, Whole, SourceRecord

LEMMA DamageKeeps ==
  ASSUME NEW g, NEW x, Whole(x), AnswerSound(g, x), NEW a \in Group!DamagedAnswers(x)
  PROVE  AnswerSound(g, a) /\ a.basis = x.basis
<1> DEFINE Same(y) == /\ y.active.members = x.active.members /\ y.sources = x.sources
                      /\ y.covers = x.covers /\ y.group.entity = x.group.entity
                      /\ y.group.membership = x.group.membership
                      /\ y.group.label = x.group.label /\ y.basis = x.basis
<1>1. ASSUME Same(a), a.count = 1 => x.count = 1
      PROVE  AnswerSound(g, a) /\ a.basis = x.basis
  BY <1>1 DEF AnswerSound
<1>2. CASE a \in Group!DamagedFields(x)
  <2>1. a.count = 1 => x.count = 1
    BY <1>2 DEF Whole, Group!DamagedFields
  <2>2. Same(a)
    BY <1>2 DEF Whole, Group!DamagedFields
  <2> QED
    BY <1>1, <2>1, <2>2
<1>3. ASSUME NEW y \in SUBSET Units, a \in {[x EXCEPT !.group.members = y], [x EXCEPT !.rows = y]}
      PROVE  AnswerSound(g, a) /\ a.basis = x.basis
  <2>1. a.count = 1 => x.count = 1
    BY <1>3 DEF Whole
  <2>2. Same(a)
    BY <1>3 DEF Whole
  <2> QED
    BY <1>1, <2>1, <2>2
<1>4. ASSUME NEW v, a = [x EXCEPT !.versions = v]
      PROVE  AnswerSound(g, a) /\ a.basis = x.basis
  <2>1. a.count = 1 => x.count = 1
    BY <1>4 DEF Whole
  <2>2. Same(a)
    BY <1>4 DEF Whole
  <2> QED
    BY <1>1, <2>1, <2>2
<1>5. ASSUME NEW s, a = [x EXCEPT !.sources = s], DOMAIN s \subseteq DOMAIN x.sources,
             \A c \in DOMAIN s : s[c].full = x.sources[c].full /\ s[c].ver = x.sources[c].ver
                                 /\ SourceRecord(s[c])
      PROVE  AnswerSound(g, a) /\ a.basis = x.basis
  <2>1. a.count = x.count /\ a.active = x.active /\ a.sources = s /\ a.covers = x.covers
        /\ a.group = x.group /\ a.basis = x.basis
    BY <1>5 DEF Whole
  <2> QED
    BY <1>5, <2>1 DEF AnswerSound
<1>6. ASSUME NEW s, a = [x EXCEPT !.covers = s], DOMAIN s \subseteq DOMAIN x.covers,
             \A c \in DOMAIN s : s[c].proof = x.covers[c].proof
      PROVE  AnswerSound(g, a) /\ a.basis = x.basis
  <2>1. a.count = x.count /\ a.active = x.active /\ a.sources = x.sources /\ a.covers = s
        /\ a.group = x.group /\ a.basis = x.basis
    BY <1>6 DEF Whole
  <2> QED
    BY <1>6, <2>1 DEF AnswerSound
<1>7. ASSUME NEW b \in DOMAIN x.sources, NEW r, SourceRecord(r),
             r.full = x.sources[b].full, r.ver = x.sources[b].ver,
             a = [x EXCEPT !.sources = [x.sources EXCEPT ![b] = r]]
      PROVE  AnswerSound(g, a) /\ a.basis = x.basis
  <2> DEFINE s == [x.sources EXCEPT ![b] = r]
  <2>1. DOMAIN s = DOMAIN x.sources
    OBVIOUS
  <2>2. \A c \in DOMAIN s : s[c] = IF c = b THEN r ELSE x.sources[c]
    BY DEF Whole
  <2>3. \A c \in DOMAIN s : s[c].full = x.sources[c].full /\ s[c].ver = x.sources[c].ver
                            /\ SourceRecord(s[c])
    BY <1>7, <2>1, <2>2 DEF Whole
  <2> QED
    BY <1>5, <1>7, <2>1, <2>3
<1>8. ASSUME NEW b \in DOMAIN x.sources, NEW y, NEW z, a = Group!Split(x, b, y, z)
      PROVE  AnswerSound(g, a) /\ a.basis = x.basis
  <2> DEFINE r == [full |-> x.sources[b].full, selected |-> y, rest |-> z, ver |-> x.sources[b].ver,
                   restId |-> Group!RemainderId(b, z), covers |-> x.sources[b].covers]
  <2>1. a = [x EXCEPT !.sources = [x.sources EXCEPT ![b] = r]]
    BY <1>8 DEF Group!Split
  <2>2. SourceRecord(r) /\ r.full = x.sources[b].full /\ r.ver = x.sources[b].ver
    BY DEF SourceRecord
  <2> HIDE DEF r
  <2> QED
    BY <1>7, <2>1, <2>2
<1>9. ASSUME NEW b \in DOMAIN x.sources, NEW y \in SUBSET Groups,
             a = [x EXCEPT !.sources[b].covers = y]
      PROVE  AnswerSound(g, a) /\ a.basis = x.basis
  <2>1. SourceRecord(x.sources[b]) /\ Whole(x)
    BY <1>9 DEF Whole
  <2>2. a = [x EXCEPT !.sources = [x.sources EXCEPT ![b] = [x.sources[b] EXCEPT !.covers = y]]]
    BY <1>9, <2>1 DEF Whole
  <2> DEFINE r == [x.sources[b] EXCEPT !.covers = y]
  <2>3. SourceRecord(r) /\ r.full = x.sources[b].full /\ r.ver = x.sources[b].ver
    BY <2>1 DEF SourceRecord
  <2> QED
    BY <1>7, <2>2, <2>3
<1>10. ASSUME NEW b \in DOMAIN x.sources, a = [x EXCEPT !.sources = [c \in DOMAIN @ \ {b} |-> @[c]]]
       PROVE  AnswerSound(g, a) /\ a.basis = x.basis
  <2> DEFINE s == [c \in DOMAIN x.sources \ {b} |-> x.sources[c]]
  <2>1. a = [x EXCEPT !.sources = s]
    BY <1>10 DEF Whole
  <2>2. DOMAIN s \subseteq DOMAIN x.sources
    OBVIOUS
  <2>3. \A c \in DOMAIN s : s[c].full = x.sources[c].full /\ s[c].ver = x.sources[c].ver
                            /\ SourceRecord(s[c])
    BY DEF Whole
  <2> QED
    BY <1>5, <2>1, <2>2, <2>3
<1>11. ASSUME NEW h \in DOMAIN x.covers, a = [x EXCEPT !.covers = [c \in DOMAIN @ \ {h} |-> @[c]]]
       PROVE  AnswerSound(g, a) /\ a.basis = x.basis
  <2> DEFINE s == [c \in DOMAIN x.covers \ {h} |-> x.covers[c]]
  <2>1. a = [x EXCEPT !.covers = s]
    BY <1>11 DEF Whole
  <2>2. DOMAIN s \subseteq DOMAIN x.covers
    OBVIOUS
  <2>3. \A c \in DOMAIN s : s[c].proof = x.covers[c].proof
    OBVIOUS
  <2> QED
    BY <1>6, <2>1, <2>2, <2>3
<1>12. ASSUME NEW h \in DOMAIN x.covers, NEW y \in SUBSET Units, a = [x EXCEPT !.covers[h].covered = y]
       PROVE  AnswerSound(g, a) /\ a.basis = x.basis
  <2> DEFINE s == [x.covers EXCEPT ![h] = [x.covers[h] EXCEPT !.covered = y]]
  <2>1. a = [x EXCEPT !.covers = s]
    BY <1>12 DEF Whole
  <2>2. DOMAIN s = DOMAIN x.covers
    OBVIOUS
  <2>3. \A c \in DOMAIN s : s[c].proof = x.covers[c].proof
    BY DEF Whole
  <2> QED
    BY <1>6, <2>1, <2>2, <2>3
<1>13. ASSUME \/ \E b : a = [x EXCEPT !.versions.bundle = [c \in DOMAIN @ \ {b} |-> @[c]]]
              \/ \E h : a = [x EXCEPT !.versions.group = [c \in DOMAIN @ \ {h} |-> @[c]]]
              \/ \E h : a = [x EXCEPT !.versions.group[h].members = @ + 1]
       PROVE  \E v : a = [x EXCEPT !.versions = v]
  BY <1>13 DEF Whole
<1>14. CASE a \in Group!DamagedMembers(x)
  BY <1>3, <1>14 DEF Group!DamagedMembers
<1>15. CASE a \in Group!DamagedSources(x)
  <2> DEFINE E1(b) == {Group!Split(x, b, y, x.sources[b].rest) : y \in SUBSET Units}
             E2(b) == {Group!Split(x, b, x.sources[b].selected, y) : y \in SUBSET Units}
             E3(b) == {Group!Split(x, b, y, x.sources[b].full \ y) : y \in SUBSET x.sources[b].full}
             E4(b) == {[x EXCEPT !.sources[b].covers = y] : y \in SUBSET Groups}
             E5(b) == {[x EXCEPT !.sources = [c \in DOMAIN @ \ {b} |-> @[c]]]}
  <2>1. PICK b \in DOMAIN x.sources : a \in E1(b) \cup E2(b) \cup E3(b) \cup E4(b) \cup E5(b)
    BY <1>15, Zenon DEF Group!DamagedSources
  <2>2. CASE a \in E1(b) \cup E2(b) \cup E3(b)
    <3>1. \E y, z : a = Group!Split(x, b, y, z)
      BY <2>2
    <3> QED
      BY <1>8, <3>1
  <2>3. CASE a \in E4(b)
    BY <1>9, <2>3
  <2>4. CASE a \in E5(b)
    BY <1>10, <2>4
  <2> HIDE DEF E1, E2, E3, E4, E5
  <2> QED
    BY <2>1, <2>2, <2>3, <2>4
<1>16. CASE a \in Group!DamagedCovers(x)
  <2>1. PICK h \in DOMAIN x.covers :
          \/ \E y \in SUBSET Units : a = [x EXCEPT !.covers[h].covered = y]
          \/ a = [x EXCEPT !.covers = [c \in DOMAIN @ \ {h} |-> @[c]]]
    BY <1>16 DEF Group!DamagedCovers
  <2> QED
    BY <1>11, <1>12, <2>1
<1>17. CASE a \in Group!DamagedVersions(x)
  BY <1>4, <1>13, <1>17 DEF Group!DamagedVersions
<1> QED
  BY <1>2, <1>14, <1>15, <1>16, <1>17 DEF Group!DamagedAnswers
(* Every answer that a station may be given.                               *)
LEMMA AnswersSound ==
  ASSUME NEW sheet, sheet.g \in Groups, NEW a \in Group!Answers(sheet)
  PROVE  AnswerSound(sheet.g, a)
BY TrueAnswer, WholeAnswer, DamageKeeps DEF Group!Answers

LEMMA NotEmptyByCardinality == ASSUME NEW S, Cardinality(S) = 1 PROVE S # {}
BY FS_EmptySet

LEMMA SameCardinality == ASSUME NEW S PROVE Group!Cardinality(S) = Cardinality(S)
BY DEF Group!Cardinality, Cardinality

(* A command built from an accepted answer.                                *)
LEMMA GroupCommandSound ==
  ASSUME HeldSound, LabelSound, Group!WorkGroupAssumption, NEW sheet, sheet.g \in Groups,
         NEW a, AnswerSound(sheet.g, a), Group!GroupAccepted(sheet, a)
  PROVE  /\ CommandSound(Group!GroupCommand(sheet.g, a))
         /\ Group!GroupCommand(sheet.g, a).members = a.rows /\ Group!GroupCommand(sheet.g, a).g = sheet.g
<1> DEFINE g == sheet.g
           cmd == Group!GroupCommand(g, a)
<1>1. /\ cmd.kind = "group" /\ cmd.g = g /\ cmd.sources = a.sources /\ cmd.covers = DOMAIN a.covers
      /\ cmd.transfer = a.transfer /\ cmd.members = a.rows /\ cmd.versions = a.versions
  BY DEF Group!GroupCommand
<1>2. a.rows = Group!Labelled(g) /\ a.rows # {} /\ a.rows = a.group.members /\ a.rows \subseteq Units
  <2>1. a.rows = Group!Labelled(g) /\ a.rows # {} /\ a.rows = a.group.members
    BY DEF Group!GroupAccepted, Group!RowsExact, Group!GroupIsPaper, AnswerSound, Group!MembersOK
  <2> QED
    BY <2>1 DEF Group!Labelled
<1>3. a.transfer = Group!TransferId(g, a.rows) /\ g \in Nat
  BY <1>2 DEF Group!GroupAccepted, Group!TransferNamed, Group!WorkGroupAssumption
<1>4. ASSUME NEW b \in DOMAIN a.sources
      PROVE  /\ b \in DOMAIN held /\ b[1] # "trf" /\ held[b].live
             /\ a.sources[b].selected # {} /\ a.sources[b].selected \cap a.sources[b].rest = {}
             /\ a.sources[b].restId = Group!RemainderId(b, a.sources[b].rest)
             /\ a.sources[b].rest \subseteq Units
             /\ b \in DOMAIN a.versions.bundle /\ a.versions.bundle[b] = held[b].ver
             /\ held[b].members = a.sources[b].selected \cup a.sources[b].rest
             /\ held[b].ver \in Nat
  <2>1. PICK u \in Group!Labelled(g) : b = Group!BundleOf(u)
    BY DEF AnswerSound
  <2>2. b \in DOMAIN held /\ b[1] # "trf" /\ held[b].live
    <3>1. u \in Units
      BY DEF Group!Labelled
    <3>2. a.count = 1
      BY DEF Group!GroupAccepted, Group!OneTopology
    <3> QED
      BY <2>1, <3>1, <3>2, BundleFacts DEF AnswerSound
  <2>3. held[b] \in Bundle
    BY <2>2 DEF HeldSound
  <2>4. a.sources[b].full = held[b].members /\ a.sources[b].ver = held[b].ver
    BY DEF AnswerSound
  <2>5. /\ a.sources[b].selected # {} /\ a.sources[b].selected \cap a.sources[b].rest = {}
        /\ a.sources[b].restId = Group!RemainderId(b, a.sources[b].rest)
        /\ a.sources[b].full = a.sources[b].selected \cup a.sources[b].rest
    BY DEF Group!GroupAccepted, Group!SourcesPartition, Group!MembersOK
  <2>6. b # a.transfer
    BY <1>3, <2>2 DEF Group!TransferId
  <2>7. b \in DOMAIN a.versions.bundle /\ a.versions.bundle[b] = a.sources[b].ver
    BY <2>6 DEF Group!GroupAccepted, Group!VersionsExact
  <2> QED
    BY <2>2, <2>3, <2>4, <2>5, <2>7 DEF Bundle
<1>5. UNION {a.sources[b].selected : b \in DOMAIN a.sources} = a.rows
  BY <1>2 DEF Group!GroupAccepted, Group!SourcesCoverGroup
<1>6. DOMAIN a.covers \subseteq Groups \ {g}
  BY DEF AnswerSound
<1>7. \A h \in DOMAIN a.covers : a.covers[h].covered = Group!Labelled(h)
  <2> SUFFICES ASSUME NEW h \in DOMAIN a.covers PROVE a.covers[h].covered = Group!Labelled(h)
    OBVIOUS
  <2>1. a.covers[h].proof = ProofOf(h) /\ ProofOf(h).members = Group!Labelled(h)
    BY DEF AnswerSound, ProofOf
  <2>2. a.covers[h].covered = a.covers[h].proof.members
    BY DEF Group!GroupAccepted, Group!CoversWhole
  <2> QED
    BY <2>1, <2>2
<1>8. DOMAIN a.versions.group = DOMAIN a.covers \cup {g}
  BY DEF Group!GroupAccepted, Group!VersionsExact
<1>9. ASSUME NEW h \in DOMAIN a.versions.group
      PROVE  a.versions.group[h] \in Version /\ a.versions.group[h].members <= ver[h].members
  <2>1. ver[h] \in Version
    BY <1>6, <1>8 DEF LabelSound
  <2>2. a.versions.group[h] = [entity |-> ver[h].entity, members |-> ver[h].members, label |-> ver[h].label]
    <3>1. CASE h = g
      BY <3>1 DEF Group!GroupAccepted, Group!VersionsExact, AnswerSound
    <3>2. CASE h # g
      <4>1. h \in DOMAIN a.covers
        BY <3>2, <1>8
      <4>2. a.covers[h].proof = ProofOf(h)
        BY <4>1 DEF AnswerSound
      <4>3. a.versions.group[h] = [entity |-> a.covers[h].proof.entity,
                                   members |-> a.covers[h].proof.membership,
                                   label |-> a.covers[h].proof.label]
        BY <3>2 DEF Group!GroupAccepted, Group!VersionsExact
      <4> QED
        BY <4>2, <4>3 DEF ProofOf
    <3> QED
      BY <3>1, <3>2
  <2> QED
    BY <2>1, <2>2 DEF Version
<1>10. UNION {Group!Labelled(h) : h \in DOMAIN a.covers} = UNION {a.sources[b].rest : b \in DOMAIN a.sources}
  <2>1. UNION {a.covers[h].covered : h \in DOMAIN a.covers} = UNION {a.sources[b].rest : b \in DOMAIN a.sources}
    BY DEF Group!GroupAccepted, Group!CoversClose
  <2> QED
    BY <1>7, <2>1
<1>11. \A b \in DOMAIN a.sources :
         a.sources[b].covers = {h \in DOMAIN a.covers : Group!Labelled(h) \cap a.sources[b].rest # {}}
  <2>1. \A b \in DOMAIN a.sources :
         a.sources[b].covers = {h \in DOMAIN a.covers : a.covers[h].covered \cap a.sources[b].rest # {}}
    BY DEF Group!GroupAccepted, Group!CoversClose
  <2> QED
    BY <1>7, <2>1
<1> HIDE DEF cmd
<1>12. \A b \in DOMAIN cmd.sources : LET s == cmd.sources[b] IN
       /\ b \in DOMAIN held /\ b[1] # "trf"
       /\ s.selected # {} /\ s.selected \cap s.rest = {}
       /\ s.rest \subseteq Units /\ (s.rest # {} => s.restId = Group!RemainderId(b, s.rest))
       /\ b \in DOMAIN cmd.versions.bundle
       /\ cmd.versions.bundle[b] \in Nat /\ cmd.versions.bundle[b] <= held[b].ver
       /\ held[b].ver = cmd.versions.bundle[b] =>
            held[b].live /\ held[b].members = s.selected \cup s.rest
  BY <1>1, <1>4
<1>13. \E n \in Nat : cmd.transfer = Group!TransferId(n, cmd.members)
  BY <1>1, <1>3
<1>14. /\ DOMAIN cmd.versions.group = cmd.covers \cup {cmd.g}
       /\ \A h \in DOMAIN cmd.versions.group :
            cmd.versions.group[h] \in Version /\ cmd.versions.group[h].members <= ver[h].members
  BY <1>1, <1>8, <1>9
<1>15. /\ cmd.members = Group!Labelled(cmd.g)
       /\ UNION {Group!Labelled(h) : h \in cmd.covers} = UNION {cmd.sources[b].rest : b \in DOMAIN cmd.sources}
       /\ \A b \in DOMAIN cmd.sources :
            cmd.sources[b].covers = {h \in cmd.covers : Group!Labelled(h) \cap cmd.sources[b].rest # {}}
       /\ UNION {cmd.sources[b].selected : b \in DOMAIN cmd.sources} = cmd.members
  <2>1. cmd.members = Group!Labelled(cmd.g)
    BY <1>1, <1>2
  <2>2. UNION {cmd.sources[b].selected : b \in DOMAIN cmd.sources} = cmd.members
    BY <1>1, <1>5
  <2>3. UNION {Group!Labelled(h) : h \in cmd.covers} = UNION {cmd.sources[b].rest : b \in DOMAIN cmd.sources}
    BY <1>1, <1>10
  <2>4. \A b \in DOMAIN cmd.sources :
          cmd.sources[b].covers = {h \in cmd.covers : Group!Labelled(h) \cap cmd.sources[b].rest # {}}
    BY <1>1, <1>11
  <2> QED
    BY <2>1, <2>2, <2>3, <2>4
<1>16. cmd.kind = "group" /\ cmd.g \in Groups /\ cmd.members # {} /\ cmd.members \subseteq Units
       /\ cmd.covers \subseteq Groups /\ cmd.g \notin cmd.covers
  BY <1>1, <1>2, <1>6
<1>17. CommandSound(cmd)
  BY <1>12, <1>13, <1>14, <1>15, <1>16 DEF CommandSound
<1> QED
  BY <1>1, <1>17 DEF cmd

LEMMA TagCommandSound ==
  ASSUME HeldSound, LabelSound, Group!WorkGroupAssumption, NEW sheet, sheet.g \in Groups,
         NEW a, AnswerSound(sheet.g, a), Group!TagRegistered(sheet, a), Group!TagMembers(a)
  PROVE  /\ CommandSound(Group!TagCommand(sheet.g, a, a.rows))
         /\ Group!TagCommand(sheet.g, a, a.rows).members = a.rows
         /\ Group!TagCommand(sheet.g, a, a.rows).g = sheet.g
<1> DEFINE g == sheet.g
           scans == a.rows
           b == CHOOSE b \in DOMAIN a.sources : TRUE
           s == [a.sources[b] EXCEPT !.selected = scans, !.rest = a.sources[b].full \ scans, !.covers = {}]
           cmd == Group!TagCommand(g, a, scans)
<1>1. /\ cmd.kind = "tag" /\ cmd.g = g /\ cmd.sources = [c \in {b} |-> s] /\ cmd.covers = {}
      /\ cmd.transfer = Group!TransferId(b[2], scans) /\ cmd.members = scans
      /\ cmd.versions.group = [h \in {} |-> 0]
      /\ cmd.versions.bundle = [c \in {b} |-> a.sources[b].ver]
  BY DEF Group!TagCommand
<1>2. b \in DOMAIN a.sources
  <2>1. Cardinality(DOMAIN a.sources) = 1
    BY SameCardinality DEF Group!TagRegistered
  <2> QED
    BY <2>1, NotEmptyByCardinality
<1>3. PICK u \in Group!Labelled(g) : b = Group!BundleOf(u)
  BY <1>2 DEF AnswerSound
<1>4. b \in DOMAIN held /\ b[1] # "trf" /\ held[b].live
  <2>1. u \in Units
    BY DEF Group!Labelled
  <2>2. a.count = 1
    BY DEF Group!TagRegistered
  <2> QED
    BY <1>3, <2>1, <2>2, BundleFacts DEF AnswerSound
<1>5. held[b] \in Bundle /\ b \in BundleIds
  BY <1>4 DEF HeldSound
<1>6. a.sources[b].full = held[b].members /\ a.sources[b].ver = held[b].ver /\ a.sources[b].full = scans
      /\ scans # {}
  BY <1>2 DEF AnswerSound, Group!TagMembers, Group!MembersOK
<1>7. s.selected = scans /\ s.rest = {}
  <2>1. SourceRecord(a.sources[b])
    BY <1>2 DEF AnswerSound
  <2> DEFINE s1 == [a.sources[b] EXCEPT !.selected = scans]
  <2>2. s1.selected = scans /\ DOMAIN s1 = DOMAIN a.sources[b] /\ "rest" \in DOMAIN s1
    BY <2>1 DEF SourceRecord
  <2> DEFINE s2 == [s1 EXCEPT !.rest = a.sources[b].full \ scans]
  <2>3. s2.selected = scans /\ s2.rest = a.sources[b].full \ scans
    BY <2>2
  <2>4. s = [s2 EXCEPT !.covers = {}]
    OBVIOUS
  <2>5. s.selected = s2.selected /\ s.rest = s2.rest
    BY <2>4
  <2> QED
    BY <2>3, <2>5, <1>6
<1> HIDE DEF cmd, s, b
<1>8. \A c \in DOMAIN cmd.sources : LET t == cmd.sources[c] IN
       /\ c \in DOMAIN held /\ c[1] # "trf"
       /\ t.selected # {} /\ t.selected \cap t.rest = {}
       /\ t.rest \subseteq Units /\ (t.rest # {} => t.restId = Group!RemainderId(c, t.rest))
       /\ c \in DOMAIN cmd.versions.bundle
       /\ cmd.versions.bundle[c] \in Nat /\ cmd.versions.bundle[c] <= held[c].ver
       /\ held[c].ver = cmd.versions.bundle[c] =>
            held[c].live /\ held[c].members = t.selected \cup t.rest
  <2> SUFFICES ASSUME NEW c \in DOMAIN cmd.sources
               PROVE  LET t == cmd.sources[c] IN
                      /\ c \in DOMAIN held /\ c[1] # "trf"
                      /\ t.selected # {} /\ t.selected \cap t.rest = {}
                      /\ t.rest \subseteq Units /\ (t.rest # {} => t.restId = Group!RemainderId(c, t.rest))
                      /\ c \in DOMAIN cmd.versions.bundle
                      /\ cmd.versions.bundle[c] \in Nat /\ cmd.versions.bundle[c] <= held[c].ver
                      /\ held[c].ver = cmd.versions.bundle[c] =>
                           held[c].live /\ held[c].members = t.selected \cup t.rest
    OBVIOUS
  <2>1. c = b /\ cmd.sources[c] = s
    BY <1>1
  <2>2. b \in DOMAIN cmd.versions.bundle /\ cmd.versions.bundle[b] = held[b].ver
    BY <1>1, <1>6
  <2>3. held[b].ver \in Nat
    BY <1>5 DEF Bundle
  <2> QED
    BY <2>1, <2>2, <2>3, <1>4, <1>6, <1>7
<1>9. UNION {cmd.sources[c].selected : c \in DOMAIN cmd.sources} = cmd.members
  BY <1>1, <1>7
<1>10. \A c \in DOMAIN cmd.sources : cmd.sources[c].rest = {}
  BY <1>1, <1>7
<1>11. cmd.members # {} /\ cmd.members \subseteq Units /\ (\E n \in Nat : cmd.transfer = Group!TransferId(n, cmd.members))
  BY <1>1, <1>5, <1>6 DEF Bundle, BundleIds
<1>12. cmd.kind = "tag" /\ cmd.g \in Groups /\ cmd.covers = {}
  BY <1>1
<1>13. CommandSound(cmd)
  BY <1>8, <1>9, <1>10, <1>11, <1>12 DEF CommandSound
<1> QED
  BY <1>1, <1>13 DEF cmd
LEMMA GroupStart == ASSUME Group!WorkGroupAssumption, Group!Init PROVE GroupInv
<1>1. \A b \in DOMAIN held : \E u \in Units : b = Group!SourceId(Source[u])
  BY DEF Group!Init
<1>2. ASSUME NEW b \in DOMAIN held
      PROVE  /\ b \in BundleIds /\ b[1] = "src" /\ b[3] = {} /\ held[b].members # {} /\ held[b] \in Bundle
             /\ held[b].live /\ held[b].members = {u \in Units : Group!SourceId(Source[u]) = b}
  <2>1. PICK u \in Units : b = Group!SourceId(Source[u])
    BY <1>1
  <2>2. Source[u] \in Nat
    BY DEF Group!WorkGroupAssumption
  <2>3. b \in BundleIds /\ b[1] = "src" /\ b[3] = {}
    BY <2>1, <2>2 DEF Group!SourceId, BundleIds
  <2>4. held[b] = [members |-> {v \in Units : Group!SourceId(Source[v]) = b}, ver |-> 1, live |-> TRUE]
    BY DEF Group!Init
  <2> QED
    BY <2>1, <2>3, <2>4 DEF Bundle
<1>3. HeldSound
  <2>1. \A u \in Units : \E b \in DOMAIN held : held[b].live /\ u \in held[b].members
    BY <1>2 DEF Group!Init
  <2>2. \A b, c \in DOMAIN held : b[2] = c[2] => b = c
    BY <1>1 DEF Group!SourceId
  <2>3. held = [b \in DOMAIN held |-> held[b]]
    BY DEF Group!Init
  <2> QED
    BY <1>2, <2>1, <2>2, <2>3 DEF HeldSound
<1>4. LabelSound
  BY DEF Group!Init, LabelSound, Group!WorkGroupAssumption, Version
<1>5. moves \in Nat /\ groupFaults \in Nat
  BY DEF Group!Init, Group!WorkGroupAssumption
<1>6. /\ client = [st \in Stations |-> Group!NoTray] /\ ledger = [st \in Stations |-> Group!Nothing]
  BY DEF Group!Init
<1>7. ASSUME NEW st \in Stations PROVE StationSound(st)
  BY <1>6 DEF StationSound, Group!NoTray
<1> QED
  BY <1>3, <1>4, <1>5, <1>6, <1>7 DEF GroupInv

(* What every step leaves a command: a bundle or a label that is not as it *)
(* was has another version, a transfer and a label that is sealed stay.    *)
Onward ==
  /\ \A b \in DOMAIN held :
       /\ b \in DOMAIN held' /\ held[b].ver <= held'[b].ver
       /\ held'[b].ver = held[b].ver => held'[b] = held[b]
       /\ b[1] = "trf" => held'[b].members = held[b].members
  /\ \A h \in Groups :
       /\ ver[h].members <= ver'[h].members
       /\ ver'[h].members = ver[h].members => Group!Labelled(h)' = Group!Labelled(h)
  /\ \A h \in Groups :
       Group!Labelled(h) # {} /\ (\A u \in Group!Labelled(h) : Group!BundleOf(u)[1] = "trf") => Group!Labelled(h)' = Group!Labelled(h)

LEMMA CommandKept ==
  ASSUME HeldSound, HeldSound', LabelSound, LabelSound', Onward, NEW cmd, CommandSound(cmd)
  PROVE  CommandSound(cmd)'
<1>1. ASSUME NEW b \in DOMAIN cmd.sources
      PROVE  LET s == cmd.sources[b] IN
       /\ b \in DOMAIN held' /\ b[1] # "trf"
       /\ s.selected # {} /\ s.selected \cap s.rest = {}
       /\ s.rest \subseteq Units /\ (s.rest # {} => s.restId = Group!RemainderId(b, s.rest))
       /\ b \in DOMAIN cmd.versions.bundle
       /\ cmd.versions.bundle[b] \in Nat /\ cmd.versions.bundle[b] <= held'[b].ver
       /\ held'[b].ver = cmd.versions.bundle[b] =>
            held'[b].live /\ held'[b].members = s.selected \cup s.rest
  <2>1. /\ b \in DOMAIN held /\ b[1] # "trf"
        /\ cmd.sources[b].selected # {} /\ cmd.sources[b].selected \cap cmd.sources[b].rest = {}
        /\ cmd.sources[b].rest \subseteq Units
        /\ (cmd.sources[b].rest # {} => cmd.sources[b].restId = Group!RemainderId(b, cmd.sources[b].rest))
        /\ b \in DOMAIN cmd.versions.bundle
        /\ cmd.versions.bundle[b] \in Nat /\ cmd.versions.bundle[b] <= held[b].ver
        /\ held[b].ver = cmd.versions.bundle[b] =>
             held[b].live /\ held[b].members = cmd.sources[b].selected \cup cmd.sources[b].rest
    BY DEF CommandSound
  <2>2. b \in DOMAIN held' /\ held[b].ver <= held'[b].ver /\ (held'[b].ver = held[b].ver => held'[b] = held[b])
    BY <2>1 DEF Onward
  <2>3. held[b].ver \in Nat /\ held'[b].ver \in Nat
    BY <2>1, <2>2 DEF HeldSound, Bundle
  <2> QED
    BY <2>1, <2>2, <2>3
<1>2. CASE cmd.kind = "tag"
  BY <1>1, <1>2 DEF CommandSound
<1>3. CASE cmd.kind = "group"
  <2>1. /\ DOMAIN cmd.versions.group = cmd.covers \cup {cmd.g}
        /\ cmd.covers \subseteq Groups /\ cmd.g \in Groups
        /\ \A h \in DOMAIN cmd.versions.group :
             /\ cmd.versions.group[h] \in Version
             /\ cmd.versions.group[h].members <= ver[h].members
    BY <1>3 DEF CommandSound
  <2>2. ASSUME NEW h \in DOMAIN cmd.versions.group
        PROVE  /\ cmd.versions.group[h].members <= ver'[h].members
               /\ ver'[h].members = cmd.versions.group[h].members =>
                    ver[h].members = cmd.versions.group[h].members /\ Group!Labelled(h)' = Group!Labelled(h)
    <3>1. h \in Groups /\ ver[h] \in Version /\ ver'[h] \in Version /\ cmd.versions.group[h] \in Version
      BY <2>1 DEF LabelSound
    <3>2. ver[h].members <= ver'[h].members /\ (ver'[h].members = ver[h].members => Group!Labelled(h)' = Group!Labelled(h))
      BY <3>1 DEF Onward
    <3> QED
      BY <2>1, <3>1, <3>2 DEF Version
  <2>3. ASSUME AsRead(cmd)'
        PROVE  /\ cmd.members = Group!Labelled(cmd.g)'
               /\ UNION {Group!Labelled(h)' : h \in cmd.covers} = UNION {cmd.sources[b].rest : b \in DOMAIN cmd.sources}
               /\ \A b \in DOMAIN cmd.sources :
                    cmd.sources[b].covers = {h \in cmd.covers : Group!Labelled(h)' \cap cmd.sources[b].rest # {}}
    <3>1. AsRead(cmd) /\ \A h \in cmd.covers \cup {cmd.g} : Group!Labelled(h)' = Group!Labelled(h)
      BY <2>1, <2>2, <2>3 DEF AsRead
    <3>2. /\ cmd.members = Group!Labelled(cmd.g)
          /\ UNION {Group!Labelled(h) : h \in cmd.covers} = UNION {cmd.sources[b].rest : b \in DOMAIN cmd.sources}
          /\ \A b \in DOMAIN cmd.sources :
               cmd.sources[b].covers = {h \in cmd.covers : Group!Labelled(h) \cap cmd.sources[b].rest # {}}
      BY <1>3, <3>1 DEF CommandSound
    <3>3. {Group!Labelled(h)' : h \in cmd.covers} = {Group!Labelled(h) : h \in cmd.covers}
      BY <3>1
    <3>4. \A h \in cmd.covers : Group!Labelled(h)' = Group!Labelled(h)
      BY <3>1
    <3>5. cmd.members = Group!Labelled(cmd.g)'
      BY <3>1, <3>2
    <3>6. \A b \in DOMAIN cmd.sources : {h \in cmd.covers : Group!Labelled(h)' \cap cmd.sources[b].rest # {}}
                                      = {h \in cmd.covers : Group!Labelled(h) \cap cmd.sources[b].rest # {}}
      BY <3>4
    <3> QED
      BY <3>2, <3>3, <3>5, <3>6
  <2>4. /\ cmd.members # {} /\ cmd.members \subseteq Units
        /\ (\E n \in Nat : cmd.transfer = Group!TransferId(n, cmd.members))
        /\ cmd.g \notin cmd.covers
        /\ UNION {cmd.sources[b].selected : b \in DOMAIN cmd.sources} = cmd.members
    BY DEF CommandSound
  <2> QED
    BY <1>1, <1>3, <2>1, <2>2, <2>3, <2>4 DEF CommandSound
<1> QED
  BY <1>2, <1>3 DEF CommandSound

(* A committed command stays as it is.                                     *)
LEMMA SealKept ==
  ASSUME HeldSound, Onward, NEW st, SealSound(st), client'[st].cmd = client[st].cmd,
         client'[st].scans = client[st].scans, client'[st].paper = client[st].paper,
         ledger'[st] = ledger[st]
  PROVE  SealSound(st)'
<1> PICK cmd, g : cmd = client[st].cmd /\ g = client[st].paper.g
  OBVIOUS
<1>1. /\ cmd.transfer \in DOMAIN held /\ cmd.transfer[1] = "trf"
      /\ held[cmd.transfer].members = client[st].scans
      /\ g \in Groups /\ Group!Labelled(g) = client[st].scans
  BY DEF SealSound
<1>2. held[cmd.transfer].live /\ held[cmd.transfer].members # {}
  BY <1>1 DEF HeldSound
<1>3. \A u \in Group!Labelled(g) : Group!BundleOf(u) = cmd.transfer
  BY <1>1, <1>2, BundleFacts DEF Group!Labelled
<1>4. Group!Labelled(g)' = Group!Labelled(g)
  BY <1>1, <1>2, <1>3 DEF Onward
<1>5. cmd.transfer \in DOMAIN held' /\ held'[cmd.transfer].members = held[cmd.transfer].members
  BY <1>1 DEF Onward
<1>6. /\ ledger[st] = Written(cmd)
      /\ cmd.kind \in {"group", "tag"}
      /\ \A b \in DOMAIN cmd.sources : cmd.sources[b].selected # {}
      /\ \A h \in cmd.covers \cup {cmd.g} : cmd.kind = "group" => cmd.versions.group[h].entity \in Nat
      /\ \A b \in DOMAIN cmd.sources : cmd.versions.bundle[b] \in Nat
  BY DEF SealSound
<1>7. cmd = client'[st].cmd /\ g = client'[st].paper.g
  OBVIOUS
<1>8. Group!Labelled(client[st].paper.g)' = client[st].scans
  BY <1>1, <1>4, <1>7 DEF Group!Labelled
<1>9. Written(client[st].cmd)' = Written(cmd)
  BY <1>7 DEF Written, Group!Rests, Group!ExpectedRests
<1> QED
  BY <1>1, <1>5, <1>6, <1>7, <1>8, <1>9 DEF SealSound

LEMMA StationKept ==
  ASSUME HeldSound, HeldSound', LabelSound, LabelSound', Onward, NEW st, StationSound(st),
         client'[st] = client[st], ledger'[st] = ledger[st]
  PROVE  StationSound(st)'
<1>1. ASSUME client[st].pc = "bound", ledger[st] = Group!Nothing
      PROVE  CommandSound(client[st].cmd)'
  <2>1. PICK cmd : cmd = client[st].cmd
    OBVIOUS
  <2>2. CommandSound(cmd)'
    BY <1>1, <2>1, CommandKept DEF StationSound
  <2>3. client'[st].cmd = cmd
    BY <2>1
  <2> QED
    BY <2>2, <2>3 DEF CommandSound, AsRead, Group!Labelled
<1>2. ledger[st] # Group!Nothing => SealSound(st)'
  BY SealKept DEF StationSound
<1> QED
  BY <1>1, <1>2 DEF StationSound
LEMMA CentralSame ==
  ASSUME HeldSound, LabelSound, UNCHANGED Group!central
  PROVE  HeldSound' /\ LabelSound' /\ Onward
<1>1. held' = held /\ label' = label /\ ver' = ver /\ roots' = roots
  BY DEF Group!central
<1>2. \A h : Group!Labelled(h)' = Group!Labelled(h)
  BY <1>1 DEF Group!Labelled
<1>3. Onward
  <2>1. \A b \in DOMAIN held : held[b].ver \in Nat
    BY DEF HeldSound, Bundle
  <2>2. \A h \in Groups : ver[h].members \in Nat
    BY DEF LabelSound, Version
  <2> QED
    BY <1>1, <1>2, <2>1, <2>2 DEF Onward
<1>4. HeldSound'
  BY <1>1 DEF HeldSound
<1>5. LabelSound'
  BY <1>1 DEF LabelSound, Group!RootsOf
<1> QED
  BY <1>3, <1>4, <1>5

(* A station's own step changes its tray only.                             *)
LEMMA StationStep ==
  ASSUME GroupInv, NEW st \in Stations, NEW t, Group!Set(st, t), UNCHANGED <<Group!central, moves>>,
         groupFaults' \in Nat,
         StationSound(st)',
         ledger[st] # Group!Nothing => t.cmd = client[st].cmd
  PROVE  GroupInv'
<1>1. HeldSound' /\ LabelSound' /\ Onward
  BY CentralSame DEF GroupInv
<1>2. client' = [o \in Stations |-> IF o = st THEN t ELSE client[o]] /\ ledger' = ledger
  BY DEF GroupInv, Group!Set, Group!central
<1>3. ASSUME NEW o \in Stations PROVE StationSound(o)'
  <2>1. CASE o = st
    BY <2>1
  <2>2. CASE o # st
    <3>1. client'[o] = client[o] /\ ledger'[o] = ledger[o]
      BY <1>2, <2>2
    <3> QED
      BY <1>1, <3>1, StationKept DEF GroupInv
  <2> QED
    BY <2>1, <2>2
<1>4. \A o \in Stations : ledger'[o] # Group!Nothing => client'[o].cmd = client[o].cmd /\ ledger[o] # Group!Nothing
  BY <1>2
<1>5. \A p, o \in Stations :
        ledger'[p] # Group!Nothing /\ ledger'[o] # Group!Nothing
          /\ client'[p].cmd.transfer = client'[o].cmd.transfer => p = o
  BY <1>4 DEF GroupInv
<1>6. moves' \in Nat
  BY DEF GroupInv
<1>7. client' = [o \in Stations |-> client'[o]] /\ ledger' = [o \in Stations |-> ledger'[o]]
  BY <1>2 DEF GroupInv
<1> QED
  BY <1>1, <1>3, <1>5, <1>6, <1>7 DEF GroupInv

LEMMA FaultSpent ==
  ASSUME NEW fault, groupFaults \in Nat, fault => groupFaults > 0, Group!Fault(fault)
  PROVE  groupFaults' \in Nat
BY DEF Group!Fault

LEMMA TrayOf ==
  ASSUME GroupInv, NEW st \in Stations, NEW t, Group!Set(st, t)
  PROVE  client'[st] = t
BY DEF GroupInv, Group!Set

(* A damaged answer costs a fault.                                         *)
LEMMA DamageCosts ==
  ASSUME NEW sheet, NEW a \in Group!Answers(sheet), a # Group!Answer(sheet)
  PROVE  groupFaults > 0
BY DEF Group!Answers

LEMMA OpenTrayStep ==
  ASSUME GroupInv, NEW st \in Stations, NEW g \in Groups, NEW lbl,
         NEW a \in Group!Answers([g |-> g, lbl |-> lbl]), Group!OpenTray(st, g, lbl, a)
  PROVE  GroupInv'
<1> DEFINE t == [Group!NoTray EXCEPT !.pc = "scanning", !.paper = [g |-> g, lbl |-> lbl], !.pre = a.rows]
<1>1. Group!Set(st, t) /\ UNCHANGED <<Group!central, moves>> /\ client[st].pc = "idle"
      /\ Group!Fault(a # Group!Answer([g |-> g, lbl |-> lbl]))
  BY DEF Group!OpenTray
<1>2. groupFaults' \in Nat
  BY <1>1, FaultSpent, DamageCosts DEF GroupInv
<1>3. ledger[st] = Group!Nothing /\ ledger' = ledger
  BY <1>1 DEF GroupInv, StationSound, Group!central
<1>4. t = [pc |-> "scanning", paper |-> [g |-> g, lbl |-> lbl], pre |-> a.rows, scans |-> {},
           cmd |-> Group!Nothing, contract |-> Group!Nothing]
  <2> DEFINE t1 == [Group!NoTray EXCEPT !.pc = "scanning"]
             t2 == [t1 EXCEPT !.paper = [g |-> g, lbl |-> lbl]]
  <2>3. t = [t2 EXCEPT !.pre = a.rows] /\ t2 = [t1 EXCEPT !.paper = [g |-> g, lbl |-> lbl]]
    OBVIOUS
  <2>1. t1 = [pc |-> "scanning", paper |-> [g |-> 0, lbl |-> 0], pre |-> {}, scans |-> {},
              cmd |-> Group!Nothing, contract |-> Group!Nothing]
    BY DEF Group!NoTray
  <2> HIDE DEF t, t1, t2
  <2>2. t2 = [pc |-> "scanning", paper |-> [g |-> g, lbl |-> lbl], pre |-> {}, scans |-> {},
              cmd |-> Group!Nothing, contract |-> Group!Nothing]
    BY <2>1, <2>3
  <2> QED
    BY <2>2, <2>3
<1>5. client'[st] = t
  BY <1>1, TrayOf
<1> HIDE DEF t
<1>6. StationSound(st)'
  BY <1>3, <1>4, <1>5 DEF StationSound
<1> QED
  BY <1>1, <1>2, <1>3, <1>6, StationStep

LEMMA CompleteTrayStep ==
  ASSUME GroupInv, NEW st \in Stations, NEW scans, Group!CompleteTray(st, scans)
  PROVE  GroupInv'
<1> DEFINE t == [client[st] EXCEPT !.pc = "intent", !.scans = scans]
<1>1. Group!Set(st, t) /\ UNCHANGED <<Group!central, moves, groupFaults>> /\ client[st].pc = "scanning"
  BY DEF Group!CompleteTray
<1>2. groupFaults' \in Nat
  BY <1>1 DEF GroupInv
<1>3. ledger[st] = Group!Nothing /\ ledger' = ledger
  BY <1>1 DEF GroupInv, StationSound, Group!central
<1>4. t = [pc |-> "intent", paper |-> client[st].paper, pre |-> client[st].pre, scans |-> scans,
           cmd |-> client[st].cmd, contract |-> client[st].contract]
  <2> DEFINE t1 == [client[st] EXCEPT !.pc = "intent"]
  <2>2. t = [t1 EXCEPT !.scans = scans]
    OBVIOUS
  <2>1. t1 = [pc |-> "intent", paper |-> client[st].paper, pre |-> client[st].pre,
              scans |-> client[st].scans, cmd |-> client[st].cmd, contract |-> client[st].contract]
    BY DEF GroupInv, StationSound
  <2> HIDE DEF t, t1
  <2> QED
    BY <2>1, <2>2
<1>5. client'[st] = t
  BY <1>1, TrayOf
<1>6. t.pc = "intent" /\ t.paper = client[st].paper /\ t.contract = client[st].contract
      /\ t = [pc |-> t.pc, paper |-> t.paper, pre |-> t.pre, scans |-> t.scans, cmd |-> t.cmd,
              contract |-> t.contract]
  BY <1>4
<1>7. client[st].contract = Group!Nothing /\ client[st].paper.g \in Groups
  BY <1>1 DEF GroupInv, StationSound
<1> HIDE DEF t
<1>8. StationSound(st)'
  BY <1>3, <1>5, <1>6, <1>7 DEF StationSound
<1> QED
  BY <1>1, <1>2, <1>3, <1>8, StationStep

LEMMA BuildStep ==
  ASSUME GroupInv, Group!WorkGroupAssumption, NEW st \in Stations, client[st].pc = "intent",
         NEW a \in Group!Answers(client[st].paper), Group!Build(st, a)
  PROVE  GroupInv'
<1> DEFINE c == client[st]
           cmd == IF a.basis = "group" THEN Group!GroupCommand(c.paper.g, a)
                                       ELSE Group!TagCommand(c.paper.g, a, c.scans)
           ok == Group!Accepted(c.paper, a) /\ Group!ScansExact(c.scans, a)
           t == IF ok THEN [c EXCEPT !.pc = "bound", !.cmd = cmd] ELSE [c EXCEPT !.pc = "review"]
<1>1. Group!Set(st, t) /\ UNCHANGED <<Group!central, moves>> /\ Group!Fault(a # Group!Answer(c.paper))
  BY DEF Group!Build
<1>2. groupFaults' \in Nat
  BY <1>1, FaultSpent, DamageCosts DEF GroupInv
<1>3. ledger[st] = Group!Nothing /\ ledger' = ledger
  BY <1>1 DEF GroupInv, StationSound, Group!central
<1>4. c.paper.g \in Groups /\ c.contract = Group!Nothing
      /\ c = [pc |-> c.pc, paper |-> c.paper, pre |-> c.pre, scans |-> c.scans, cmd |-> c.cmd,
              contract |-> c.contract]
  BY DEF GroupInv, StationSound
<1>5. client'[st] = t
  BY <1>1, TrayOf
<1>6. CASE ~ok
  <2>1. t = [pc |-> "review", paper |-> c.paper, pre |-> c.pre, scans |-> c.scans,
             cmd |-> c.cmd, contract |-> c.contract]
    BY <1>4, <1>6
  <2> HIDE DEF t, ok, c
  <2>2. StationSound(st)'
    BY <1>3, <1>4, <1>5, <2>1 DEF StationSound
  <2> QED
    BY <1>1, <1>2, <1>3, <2>2, StationStep
<1>7. CASE ok
  <2>1. HeldSound /\ LabelSound
    BY DEF GroupInv
  <2>2. AnswerSound(c.paper.g, a)
    BY <1>4, AnswersSound
  <2>3. c.scans = a.rows
    BY <1>7 DEF Group!ScansExact
  <2>4. CommandSound(cmd) /\ cmd.g = c.paper.g /\ cmd.members = c.scans
    <3>1. CASE a.basis = "group"
      <4>1. Group!GroupAccepted(c.paper, a)
        BY <1>7, <3>1 DEF Group!Accepted
      <4> QED
        BY <1>4, <2>1, <2>2, <2>3, <3>1, <4>1, GroupCommandSound
    <3>2. CASE a.basis # "group"
      <4>1. Group!TagRegistered(c.paper, a) /\ Group!TagMembers(a)
        BY <1>7, <3>2 DEF Group!Accepted
      <4> QED
        BY <1>4, <2>1, <2>2, <2>3, <3>2, <4>1, TagCommandSound
    <3> QED
      BY <3>1, <3>2
  <2>5. PICK d : d = cmd
    OBVIOUS
  <2>6. CommandSound(d) /\ d.g = c.paper.g /\ d.members = c.scans
    BY <2>4, <2>5
  <2>7. t = [pc |-> "bound", paper |-> c.paper, pre |-> c.pre, scans |-> c.scans,
             cmd |-> d, contract |-> c.contract]
    BY <1>4, <1>7, <2>5
  <2>8. d # Group!Nothing
    BY <2>6 DEF CommandSound, Group!Nothing
  <2> HIDE DEF t, ok, c, cmd
  <2>9. CommandSound(d)'
    BY <1>1, <2>1, <2>6, CommandKept, CentralSame
  <2>10. client'[st].cmd = d
    BY <1>5, <2>7
  <2>11. CommandSound(client[st].cmd)'
    BY <2>9, <2>10 DEF CommandSound, AsRead, Group!Labelled
  <2>12. StationSound(st)'
    BY <1>3, <1>4, <1>5, <2>6, <2>7, <2>8, <2>10, <2>11 DEF StationSound
  <2> QED
    BY <1>1, <1>2, <1>3, <2>12, StationStep
<1> QED
  BY <1>6, <1>7
(* The form of a receipt.                                                  *)
ReceiptRecord(r) ==
  /\ r = [kind |-> r.kind, header |-> r.header, atomic |-> r.atomic, transfer |-> r.transfer,
          members |-> r.members, versions |-> r.versions, groups |-> r.groups, moved |-> r.moved,
          rests |-> r.rests, roots |-> r.roots, seal |-> r.seal]
  /\ r.seal = [bundle |-> r.seal.bundle, members |-> r.seal.members, qr |-> r.seal.qr]
  /\ r.versions = [b \in DOMAIN r.versions |-> r.versions[b]]
  /\ r.groups = [h \in DOMAIN r.groups |-> r.groups[h]]
  /\ r.moved = [b \in DOMAIN r.moved |-> r.moved[b]]
  /\ \A b \in DOMAIN r.moved :
       r.moved[b] = [after |-> r.moved[b].after, selected |-> r.moved[b].selected, rest |-> r.moved[b].rest]

(* What the ledger writes is such a record.                                *)
Shape(cmd, w) ==
  /\ ReceiptRecord(w)
  /\ \A b \in DOMAIN w.versions : w.versions[b] \in Nat
  /\ \A h \in DOMAIN w.groups : w.groups[h] \in Nat
  /\ \A b \in DOMAIN w.moved : w.moved[b].selected # {}
  /\ cmd.kind = "tag" => w.groups = [h \in {} |-> 0] /\ w.moved = [b \in {} |-> 0] /\ w.roots = {}
  /\ w.atomic = TRUE /\ w.header = TRUE /\ w.kind = "receipt"

LEMMA WrittenShape ==
  ASSUME NEW cmd, cmd.kind \in {"group", "tag"},
         \A b \in DOMAIN cmd.sources : cmd.sources[b].selected # {} /\ cmd.versions.bundle[b] \in Nat,
         \A h \in cmd.covers \cup {cmd.g} : cmd.kind = "group" => cmd.versions.group[h].entity \in Nat,
         NEW w, w = Written(cmd)
  PROVE  Shape(cmd, w)
<1>1. ReceiptRecord(w) /\ w.atomic = TRUE /\ w.header = TRUE /\ w.kind = "receipt"
  BY DEF Written, ReceiptRecord
<1>2. \A b \in DOMAIN w.versions : w.versions[b] \in Nat
  BY DEF Written
<1>3. CASE cmd.kind = "group"
  <2>1. w.groups = [h \in cmd.covers \cup {cmd.g} |-> cmd.versions.group[h].entity + 1]
        /\ w.moved = [b \in DOMAIN cmd.sources |->
                        [after |-> cmd.versions.bundle[b] + 1, selected |-> cmd.sources[b].selected,
                         rest |-> cmd.sources[b].rest]]
    BY <1>3 DEF Written
  <2>2. \A h \in DOMAIN w.groups : w.groups[h] \in Nat
    BY <1>3, <2>1
  <2>3. \A b \in DOMAIN w.moved : w.moved[b].selected # {}
    BY <2>1
  <2> QED
    BY <1>1, <1>2, <1>3, <2>2, <2>3 DEF Shape
<1>4. CASE cmd.kind = "tag"
  <2>1. w.groups = [h \in {} |-> 0] /\ w.moved = [b \in {} |-> 0] /\ w.roots = {}
    BY <1>4 DEF Written
  <2> QED
    BY <1>1, <1>2, <1>4, <2>1 DEF Shape
<1> QED
  BY <1>3, <1>4

(* What the checks of a receipt say of it.                                 *)
LEMMA ValidSays ==
  ASSUME NEW t, NEW r, Group!ReceiptValid(t, r), t.cmd.kind \in {"group", "tag"}
  PROVE  LET w == Written(t.cmd) IN
         /\ r.header /\ r.versions = w.versions /\ r.rests = w.rests
         /\ r.transfer = w.transfer /\ r.members = w.members /\ r.seal = w.seal
         /\ t.cmd.kind = "group" => r.moved = w.moved /\ r.roots = w.roots /\ r.groups = w.groups /\ r.atomic
<1> DEFINE w == Written(t.cmd)
<1>1. r.header /\ r.rests = w.rests /\ r.transfer = w.transfer /\ r.members = w.members /\ r.seal = w.seal
  BY DEF Group!ReceiptValid, Group!ReceiptHeader, Group!RestsExact, Group!MembersSealed, Group!SealExact, Written
<1>2. r.versions = w.versions
  <2>1. {x[1] : x \in Group!ExpectedRests(t.cmd)} = {t.cmd.sources[c].restId : c \in Group!Rests(t.cmd)}
    <3> DEFINE p(c) == <<t.cmd.sources[c].restId, t.cmd.sources[c].rest>>
    <3>1. \A c : p(c)[1] = t.cmd.sources[c].restId
      OBVIOUS
    <3>2. Group!ExpectedRests(t.cmd) = {p(c) : c \in Group!Rests(t.cmd)}
      BY DEF Group!ExpectedRests
    <3> HIDE DEF p
    <3> QED
      BY <3>1, <3>2
  <2> QED
    BY <2>1 DEF Group!ReceiptValid, Group!VersionsAfter, Written
<1>3. t.cmd.kind = "group" => r.moved = w.moved /\ r.roots = w.roots /\ r.groups = w.groups /\ r.atomic
  BY DEF Group!ReceiptValid, Group!Transitions, Group!RootProof, Group!GroupsAfter, Written
<1> QED
  BY <1>1, <1>2, <1>3

(* A receipt that passes the checks is the one the ledger wrote.           *)
LEMMA ReceiptTrue ==
  ASSUME GroupInv, NEW st \in Stations, ledger[st] # Group!Nothing,
         NEW r \in Group!Receipts(st), Group!ReceiptValid(client[st], r)
  PROVE  r = ledger[st]
<1> PICK w, cmd : w = ledger[st] /\ cmd = client[st].cmd
  OBVIOUS
<1>1. SealSound(st)
  BY DEF GroupInv, StationSound
<1>2. w = Written(cmd) /\ cmd.kind \in {"group", "tag"}
  BY <1>1 DEF SealSound
<1>3. /\ ReceiptRecord(w)
      /\ \A b \in DOMAIN w.versions : w.versions[b] \in Nat
      /\ \A h \in DOMAIN w.groups : w.groups[h] \in Nat
      /\ \A b \in DOMAIN w.moved : w.moved[b].selected # {}
      /\ cmd.kind = "tag" => w.groups = [h \in {} |-> 0] /\ w.moved = [b \in {} |-> 0] /\ w.roots = {}
      /\ w.atomic = TRUE /\ w.header = TRUE /\ w.kind = "receipt"
  <2>1. /\ \A b \in DOMAIN cmd.sources : cmd.sources[b].selected # {} /\ cmd.versions.bundle[b] \in Nat
        /\ \A h \in cmd.covers \cup {cmd.g} : cmd.kind = "group" => cmd.versions.group[h].entity \in Nat
    BY <1>1 DEF SealSound
  <2>2. Shape(cmd, w)
    BY <1>2, <2>1, WrittenShape, SMT
  <2> QED
    BY <2>2 DEF Shape
<1>4. /\ r.header /\ r.versions = w.versions /\ r.rests = w.rests
      /\ r.transfer = w.transfer /\ r.members = w.members /\ r.seal = w.seal
      /\ cmd.kind = "group" => r.moved = w.moved /\ r.roots = w.roots /\ r.groups = w.groups /\ r.atomic
  BY <1>2, ValidSays
<1>10. CASE r = [w EXCEPT !.atomic = (w.groups = [h \in {} |-> 0])]
  <2>1. r.atomic
    BY <1>2, <1>3, <1>4, <1>10 DEF ReceiptRecord
  <2>2. r.atomic = (w.groups = [h \in {} |-> 0])
    BY <1>3, <1>10 DEF ReceiptRecord
  <2>3. w.groups = [h \in {} |-> 0]
    BY <2>1, <2>2
  <2>4. r = [w EXCEPT !.atomic = TRUE]
    <3>1. (w.groups = [h \in {} |-> 0]) = TRUE
      BY <2>3, Zenon
    <3> QED
      BY <1>10, <3>1, Zenon
  <2> QED
    BY <1>3, <2>4 DEF ReceiptRecord
<1>5. CASE r \in {[w EXCEPT !.header = FALSE], [w EXCEPT !.seal.qr = FALSE],
                  [w EXCEPT !.transfer = Group!TransferId(0, {})], [w EXCEPT !.seal.bundle = Group!TransferId(0, {})],
                  [w EXCEPT !.atomic = (w.groups = [h \in {} |-> 0])]}
  <2>1. CASE r = [w EXCEPT !.header = FALSE]
    <3>1. r.header = FALSE
      BY <1>3, <2>1 DEF ReceiptRecord
    <3> QED
      BY <1>4, <3>1
  <2>2. CASE r = [w EXCEPT !.transfer = Group!TransferId(0, {})]
    BY <1>3, <1>4, <2>2 DEF ReceiptRecord
  <2>3. ASSUME NEW s, r = [w EXCEPT !.seal = s] PROVE r = w
    <3>1. r.seal = s /\ s = w.seal
      BY <1>3, <1>4, <2>3 DEF ReceiptRecord
    <3> QED
      BY <1>3, <2>3, <3>1 DEF ReceiptRecord
  <2>4. CASE r = [w EXCEPT !.atomic = (w.groups = [h \in {} |-> 0])]
    BY <1>10, <2>4
  <2> QED
    BY <1>5, <2>1, <2>2, <2>3, <2>4
<1>13. ASSUME NEW x, r = [w EXCEPT !.members = x] PROVE r = w
  BY <1>3, <1>4, <1>13 DEF ReceiptRecord
<1>14. ASSUME NEW x, r = [w EXCEPT !.seal.members = x] PROVE r = w
  <2>1. r.seal = [w.seal EXCEPT !.members = x] /\ r.seal = w.seal
    BY <1>3, <1>4, <1>14 DEF ReceiptRecord
  <2>2. r = [w EXCEPT !.seal = w.seal]
    BY <1>14, <2>1
  <2> QED
    BY <1>3, <2>2 DEF ReceiptRecord
<1>15. ASSUME NEW x, r = [w EXCEPT !.rests = w.rests \ {x}] PROVE r = w
  <2>1. w.rests \ {x} = w.rests
    BY <1>3, <1>4, <1>15 DEF ReceiptRecord
  <2>2. r = [w EXCEPT !.rests = w.rests]
    BY <1>15, <2>1
  <2> QED
    BY <1>3, <2>2 DEF ReceiptRecord
<1>16. ASSUME NEW x \in w.roots, r = [w EXCEPT !.roots = w.roots \ {x}] PROVE FALSE
  <2>1. r.roots = w.roots \ {x}
    BY <1>3, <1>16 DEF ReceiptRecord
  <2>2. cmd.kind = "group"
    BY <1>2, <1>3, <1>16
  <2> QED
    BY <1>4, <1>16, <2>1, <2>2
<1>7. ASSUME NEW b \in DOMAIN w.versions, r = [w EXCEPT !.versions[b] = @ + 1] PROVE FALSE
  <2>1. r.versions[b] = w.versions[b] + 1
    BY <1>3, <1>7 DEF ReceiptRecord
  <2> QED
    BY <1>3, <1>4, <2>1
<1>8. ASSUME NEW h \in DOMAIN w.groups, r = [w EXCEPT !.groups[h] = @ + 1] PROVE FALSE
  <2>1. r.groups[h] = w.groups[h] + 1
    BY <1>3, <1>8 DEF ReceiptRecord
  <2>2. cmd.kind = "group"
    BY <1>2, <1>3
  <2> QED
    BY <1>3, <1>4, <2>1, <2>2
<1>9. ASSUME NEW b \in DOMAIN w.moved, r = [w EXCEPT !.moved[b].selected = {}] PROVE FALSE
  <2>1. r.moved[b].selected = {}
    BY <1>3, <1>9 DEF ReceiptRecord
  <2>2. cmd.kind = "group"
    BY <1>2, <1>3
  <2> QED
    BY <1>3, <1>4, <2>1, <2>2
<1>11. ASSUME NEW o \in Stations, ledger[o] # Group!Nothing, r = ledger[o] PROVE r = w
  <2>1. SealSound(o)
    BY <1>11 DEF GroupInv, StationSound
  <2>2. r.transfer = client[o].cmd.transfer /\ w.transfer = cmd.transfer
    <3>1. ledger[o] = Written(client[o].cmd)
      BY <2>1 DEF SealSound
    <3>2. \A c : Written(c).transfer = c.transfer
      BY DEF Written
    <3> QED
      BY <1>2, <1>11, <3>1, <3>2
  <2>3. o = st
    BY <1>4, <1>11, <2>2 DEF GroupInv
  <2> QED
    BY <1>11, <2>3
<1>12. CASE r \in Group!DamagedReceipts(w)
  <2> DEFINE Field == {[w EXCEPT !.header = FALSE], [w EXCEPT !.seal.qr = FALSE],
                       [w EXCEPT !.transfer = Group!TransferId(0, {})], [w EXCEPT !.seal.bundle = Group!TransferId(0, {})],
                       [w EXCEPT !.atomic = (w.groups = [h \in {} |-> 0])]}
             D1 == {[w EXCEPT !.members = x] : x \in SUBSET Units}
             D2 == {[w EXCEPT !.seal.members = x] : x \in SUBSET Units}
             D3 == {[w EXCEPT !.versions[b] = @ + 1] : b \in DOMAIN w.versions}
             D4 == {[w EXCEPT !.groups[h] = @ + 1] : h \in DOMAIN w.groups}
             D5 == {[w EXCEPT !.moved[b].selected = {}] : b \in DOMAIN w.moved}
             D6 == {[w EXCEPT !.rests = @ \ {x}] : x \in w.rests}
             D7 == {[w EXCEPT !.roots = @ \ {x}] : x \in w.roots}
  <2>1. r \in Field \cup D1 \cup D2 \cup D3 \cup D4 \cup D5 \cup D6 \cup D7
    BY <1>12, Zenon DEF Group!DamagedReceipts
  <2>2. CASE r \in Field
    BY <1>5, <2>2
  <2>3. CASE r \in D1
    BY <1>13, <2>3
  <2>6. CASE r \in D2
    BY <1>14, <2>6
  <2>4. CASE r \in D3 \cup D4 \cup D5
    BY <1>7, <1>8, <1>9, <2>4
  <2>5. CASE r \in D6
    <3>1. PICK x \in w.rests : r = [w EXCEPT !.rests = w.rests \ {x}]
      BY <2>5
    <3> QED
      BY <1>15, <3>1
  <2>7. CASE r \in D7
    <3>1. PICK x \in w.roots : r = [w EXCEPT !.roots = w.roots \ {x}]
      BY <2>7
    <3> QED
      BY <1>16, <3>1
  <2> HIDE DEF Field, D1, D2, D3, D4, D5, D6, D7
  <2> QED
    BY <2>1, <2>2, <2>3, <2>4, <2>5, <2>6, <2>7
<1> QED
  BY <1>11, <1>12 DEF Group!Receipts

LEMMA TakeReceiptStep ==
  ASSUME GroupInv, NEW st \in Stations, ledger[st] # Group!Nothing, NEW r \in Group!Receipts(st),
         Group!TakeReceipt(st, r)
  PROVE  GroupInv'
<1> DEFINE c == client[st]
           ok == Group!ReceiptValid(c, r)
           t == IF ok THEN [c EXCEPT !.pc = "sealed", !.contract = r] ELSE [c EXCEPT !.pc = "review"]
<1>1. Group!Set(st, t) /\ UNCHANGED <<Group!central, moves>> /\ Group!Fault(r # ledger[st]) /\ c.pc = "bound"
  BY DEF Group!TakeReceipt
<1>2. groupFaults' \in Nat
  <2>1. r # ledger[st] => groupFaults > 0
    BY DEF Group!Receipts
  <2> QED
    BY <1>1, <2>1, FaultSpent DEF GroupInv
<1>3. ledger' = ledger
  BY <1>1 DEF Group!central
<1>4. c.paper.g \in Groups /\ c.contract = Group!Nothing /\ c.cmd # Group!Nothing /\ SealSound(st)
      /\ c = [pc |-> c.pc, paper |-> c.paper, pre |-> c.pre, scans |-> c.scans, cmd |-> c.cmd,
              contract |-> c.contract]
  BY <1>1 DEF GroupInv, StationSound
<1>5. client'[st] = t
  BY <1>1, TrayOf
<1>6. HeldSound /\ Onward
  BY <1>1, CentralSame DEF GroupInv
<1>7. CASE ~ok
  <2>1. t = [pc |-> "review", paper |-> c.paper, pre |-> c.pre, scans |-> c.scans,
             cmd |-> c.cmd, contract |-> c.contract]
    BY <1>4, <1>7
  <2>2. t.cmd = c.cmd /\ t.scans = c.scans /\ t.paper = c.paper
    BY <2>1
  <2> HIDE DEF t, ok
  <2>3. SealSound(st)'
    BY <1>3, <1>4, <1>5, <1>6, <2>2, SealKept
  <2> HIDE DEF c
  <2>4. StationSound(st)'
    BY <1>3, <1>4, <1>5, <2>1, <2>3 DEF StationSound
  <2> QED
    BY <1>1, <1>2, <2>2, <2>4, StationStep DEF c
<1>8. CASE ok
  <2>1. t = [pc |-> "sealed", paper |-> c.paper, pre |-> c.pre, scans |-> c.scans,
             cmd |-> c.cmd, contract |-> r]
    <3> DEFINE t1 == [c EXCEPT !.pc = "sealed"]
    <3>1. t = [t1 EXCEPT !.contract = r]
      BY <1>8
    <3>2. t1 = [pc |-> "sealed", paper |-> c.paper, pre |-> c.pre, scans |-> c.scans, cmd |-> c.cmd,
                contract |-> c.contract]
      BY <1>4
    <3> HIDE DEF t, t1
    <3> QED
      BY <3>1, <3>2
  <2>2. t.cmd = c.cmd /\ t.scans = c.scans /\ t.paper = c.paper
    BY <2>1
  <2>5. r = ledger[st]
    BY <1>8, ReceiptTrue
  <2> HIDE DEF t, ok
  <2>3. SealSound(st)'
    BY <1>3, <1>4, <1>5, <1>6, <2>2, SealKept
  <2> HIDE DEF c
  <2>4. StationSound(st)'
    BY <1>3, <1>4, <1>5, <2>1, <2>3, <2>5 DEF StationSound
  <2> QED
    BY <1>1, <1>2, <2>2, <2>4, StationStep DEF c
<1> QED
  BY <1>7, <1>8

LEMMA RecheckStep ==
  ASSUME GroupInv, NEW st \in Stations, Group!Recheck(st)
  PROVE  GroupInv'
<1> DEFINE c == client[st]
           t == [c EXCEPT !.pc = "bound"]
<1>1. Group!Set(st, t) /\ UNCHANGED <<Group!central, moves, groupFaults>> /\ c.pc = "review" /\ c.cmd # Group!Nothing
      /\ ledger[st] # Group!Nothing
  BY DEF Group!Recheck
<1>2. groupFaults' \in Nat
  BY <1>1 DEF GroupInv
<1>3. ledger' = ledger
  BY <1>1 DEF Group!central
<1>4. c.paper.g \in Groups /\ c.contract = Group!Nothing /\ SealSound(st)
      /\ c = [pc |-> c.pc, paper |-> c.paper, pre |-> c.pre, scans |-> c.scans, cmd |-> c.cmd,
              contract |-> c.contract]
  BY <1>1 DEF GroupInv, StationSound
<1>5. client'[st] = t
  BY <1>1, TrayOf
<1>6. HeldSound /\ Onward
  BY <1>1, CentralSame DEF GroupInv
<1>7. t = [pc |-> "bound", paper |-> c.paper, pre |-> c.pre, scans |-> c.scans,
           cmd |-> c.cmd, contract |-> c.contract]
  BY <1>4
<1>8. t.cmd = c.cmd /\ t.scans = c.scans /\ t.paper = c.paper
  BY <1>7
<1> HIDE DEF t
<1>9. SealSound(st)'
  BY <1>3, <1>4, <1>5, <1>6, <1>8, SealKept
<1> HIDE DEF c
<1>10. StationSound(st)'
  BY <1>1, <1>3, <1>4, <1>5, <1>7, <1>9 DEF StationSound
<1> QED
  BY <1>1, <1>2, <1>8, <1>10, StationStep DEF c

(* Steps of the central: the stations' trays and receipts stay.            *)
LEMMA CentralStep ==
  ASSUME GroupInv, HeldSound', LabelSound', Onward, UNCHANGED <<ledger, client, groupFaults>>, moves' \in Nat
  PROVE  GroupInv'
<1>1. ASSUME NEW st \in Stations PROVE StationSound(st)'
  BY StationKept DEF GroupInv
<1> QED
  BY <1>1 DEF GroupInv

LEMMA RelabelStep ==
  ASSUME GroupInv, NEW u \in Units, NEW g \in Groups, Group!Relabel(u, g)
  PROVE  GroupInv'
<1>1. /\ moves > 0 /\ label[u] # g /\ Group!BundleOf(u)[1] # "trf"
      /\ \A v \in Group!Labelled(g) : Group!BundleOf(v)[1] # "trf"
      /\ label' = [label EXCEPT ![u] = g]
      /\ ver' = [h \in Groups |-> IF h \in {g, label[u]}
                                THEN [ver[h] EXCEPT !.entity = @ + 1, !.members = @ + 1] ELSE ver[h]]
      /\ roots' = [h \in Groups |-> Group!RootsOf(h, label', held)]
      /\ moves' = moves - 1
      /\ UNCHANGED <<held, ledger, client, groupFaults>>
  BY DEF Group!Relabel
<1>2. label \in [Units -> Groups] /\ ver \in [Groups -> Version] /\ HeldSound
  BY DEF GroupInv, LabelSound
<1>0. held' = held /\ moves > 0 /\ moves' = moves - 1
  BY <1>1
<1>3. HeldSound'
  BY <1>0, <1>2 DEF HeldSound
<1>4. \A h \in Groups : ver'[h] \in Version
        /\ ver'[h].members = IF h \in {g, label[u]} THEN ver[h].members + 1 ELSE ver[h].members
  <2> SUFFICES ASSUME NEW h \in Groups
               PROVE  /\ ver'[h] \in Version
                      /\ ver'[h].members = IF h \in {g, label[u]} THEN ver[h].members + 1
                                                                  ELSE ver[h].members
    OBVIOUS
  <2>1. ver[h] \in Version
    BY <1>2
  <2>2. CASE h \in {g, label[u]}
    <3> DEFINE v1 == [ver[h] EXCEPT !.entity = @ + 1]
    <3>1. v1 = [entity |-> ver[h].entity + 1, members |-> ver[h].members, label |-> ver[h].label]
      BY <2>1 DEF Version
    <3>2. ver'[h] = [v1 EXCEPT !.members = @ + 1]
      BY <1>1, <2>2
    <3> HIDE DEF v1
    <3>3. ver'[h] = [entity |-> ver[h].entity + 1, members |-> ver[h].members + 1,
                     label |-> ver[h].label]
      BY <3>1, <3>2
    <3> QED
      BY <2>1, <2>2, <3>3 DEF Version
  <2>3. CASE h \notin {g, label[u]}
    BY <1>1, <2>1, <2>3
  <2> QED
    BY <2>2, <2>3
<1>5. ver' \in [Groups -> Version]
  BY <1>1, <1>4
<1>6. label' \in [Units -> Groups]
  BY <1>1, <1>2
<1>7. LabelSound'
  BY <1>1, <1>5, <1>6 DEF LabelSound, Group!RootsOf
<1>8. \A h \in Groups : h \notin {g, label[u]} => Group!Labelled(h)' = Group!Labelled(h)
  BY <1>1, <1>2 DEF Group!Labelled
<1>9. \A h \in Groups : h \in {g, label[u]} /\ Group!Labelled(h) # {} => \E v \in Group!Labelled(h) : Group!BundleOf(v)[1] # "trf"
  BY <1>1 DEF Group!Labelled
<1>10. Onward
  <2>1. \A b \in DOMAIN held : held[b].ver \in Nat
    BY <1>2 DEF HeldSound, Bundle
  <2>2. \A h \in Groups : /\ ver[h].members <= ver'[h].members
                          /\ ver'[h].members = ver[h].members => h \notin {g, label[u]}
    BY <1>2, <1>4 DEF Version
  <2>3. \A h \in Groups : Group!Labelled(h) # {} /\ (\A v \in Group!Labelled(h) : Group!BundleOf(v)[1] = "trf")
                           => h \notin {g, label[u]}
    BY <1>9
  <2> QED
    BY <1>0, <1>8, <2>1, <2>2, <2>3 DEF Onward
<1>11. moves' \in Nat
  BY <1>0 DEF GroupInv
<1> QED
  BY <1>1, <1>3, <1>7, <1>10, <1>11, CentralStep

LEMMA ReprintStep ==
  ASSUME GroupInv, NEW g \in Groups, Group!Reprint(g)
  PROVE  GroupInv'
<1>1. /\ moves > 0
      /\ ver' = [ver EXCEPT ![g].entity = @ + 1, ![g].label = @ + 1]
      /\ moves' = moves - 1
      /\ UNCHANGED <<held, label, roots, ledger, client, groupFaults>>
  BY DEF Group!Reprint
<1>2. label \in [Units -> Groups] /\ ver \in [Groups -> Version] /\ HeldSound /\ LabelSound
  BY DEF GroupInv, LabelSound
<1>0. held' = held /\ moves > 0 /\ moves' = moves - 1
  BY <1>1
<1>3. HeldSound'
  BY <1>0, <1>2 DEF HeldSound
<1>4. DOMAIN ver' = Groups /\ ver' = [h \in Groups |-> ver'[h]]
  BY <1>1, <1>2
<1>5. \A h \in Groups : ver'[h] \in Version /\ ver'[h].members = ver[h].members
  <2> SUFFICES ASSUME NEW h \in Groups
               PROVE  ver'[h] \in Version /\ ver'[h].members = ver[h].members
    OBVIOUS
  <2> DEFINE v0 == [ver EXCEPT ![g].entity = @ + 1]
  <2>1. ver' = [v0 EXCEPT ![g].label = @ + 1]
    BY <1>1
  <2>2. v0 = [k \in Groups |-> IF k = g THEN [ver[g] EXCEPT !.entity = @ + 1] ELSE ver[k]]
    BY <1>2
  <2>3. ver[g] \in Version /\ ver[h] \in Version
    BY <1>2
  <2>4. v0[g] = [entity |-> ver[g].entity + 1, members |-> ver[g].members, label |-> ver[g].label]
    BY <2>2, <2>3 DEF Version
  <2>5. h # g => v0[h] = ver[h]
    BY <2>2
  <2>6. DOMAIN v0 = Groups
    BY <2>2
  <2> HIDE DEF v0
  <2>7. ver'[g] = [v0[g] EXCEPT !.label = @ + 1]
    BY <2>1, <2>6
  <2>8. ver'[g] = [entity |-> ver[g].entity + 1, members |-> ver[g].members, label |-> ver[g].label + 1]
    BY <2>4, <2>7
  <2>9. h # g => ver'[h] = ver[h]
    BY <2>1, <2>5
  <2> QED
    BY <2>3, <2>8, <2>9 DEF Version
<1>6. ver' \in [Groups -> Version]
  BY <1>4, <1>5
<1>7. LabelSound'
  BY <1>1, <1>2, <1>6 DEF LabelSound, Group!RootsOf
<1>8. \A h \in Groups : Group!Labelled(h)' = Group!Labelled(h)
  BY <1>1 DEF Group!Labelled
<1>9. Onward
  <2>1. \A b \in DOMAIN held : held[b].ver \in Nat
    BY <1>2 DEF HeldSound, Bundle
  <2>2. \A h \in Groups : ver[h].members <= ver'[h].members
    BY <1>2, <1>5 DEF Version
  <2> QED
    BY <1>0, <1>8, <2>1, <2>2 DEF Onward
<1>10. moves' \in Nat
  BY <1>0 DEF GroupInv
<1> QED
  BY <1>1, <1>3, <1>7, <1>9, <1>10, CentralStep

LEMMA MembersFinite ==
  ASSUME Group!WorkGroupAssumption, NEW x \in SUBSET Units
  PROVE  IsFiniteSet(x) /\ Cardinality(x) \in Nat
<1>1. IsFiniteSet(Units)
  BY DEF Group!WorkGroupAssumption, Group!IsFiniteSet, IsFiniteSet
<1>2. IsFiniteSet(x)
  BY <1>1, FS_Subset
<1> QED
  BY <1>2, FS_CardinalityType

LEMMA SwapSize ==
  ASSUME Group!WorkGroupAssumption, NEW x \in SUBSET Units, NEW u \in x, NEW v \in Units, v \notin x
  PROVE  Cardinality((x \ {u}) \cup {v}) = Cardinality(x)
<1>1. IsFiniteSet(x) /\ Cardinality(x) \in Nat
  BY MembersFinite
<1>2. IsFiniteSet(x \ {u}) /\ Cardinality(x \ {u}) = Cardinality(x) - 1
  BY <1>1, FS_RemoveElement
<1>3. Cardinality((x \ {u}) \cup {v}) = Cardinality(x \ {u}) + 1
  BY <1>2, FS_AddElement
<1> QED
  BY <1>1, <1>2, <1>3

LEMMA ExchangeHeld ==
  ASSUME HeldSound, NEW b \in DOMAIN held, NEW c \in DOMAIN held, b # c, NEW u, NEW v,
         held' = [held EXCEPT ![b].members = (@ \ {u}) \cup {v}, ![b].ver = @ + 1,
                              ![c].members = (@ \ {v}) \cup {u}, ![c].ver = @ + 1]
  PROVE  /\ DOMAIN held' = DOMAIN held /\ held' = [x \in DOMAIN held |-> held'[x]]
         /\ held'[b] = [members |-> (held[b].members \ {u}) \cup {v}, ver |-> held[b].ver + 1,
                        live |-> held[b].live]
         /\ held'[c] = [members |-> (held[c].members \ {v}) \cup {u}, ver |-> held[c].ver + 1,
                        live |-> held[c].live]
         /\ \A x \in DOMAIN held : x \notin {b, c} => held'[x] = held[x]
<1> DEFINE h1 == [held EXCEPT ![b].members = (@ \ {u}) \cup {v}]
           h2 == [h1 EXCEPT ![b].ver = @ + 1]
           h3 == [h2 EXCEPT ![c].members = (@ \ {v}) \cup {u}]
<1>1. held' = [h3 EXCEPT ![c].ver = @ + 1]
  OBVIOUS
<1>2. held = [x \in DOMAIN held |-> held[x]] /\ held[b] \in Bundle /\ held[c] \in Bundle
  BY DEF HeldSound
<1>3. /\ h1 = [x \in DOMAIN held |-> h1[x]]
      /\ h1[b] = [members |-> (held[b].members \ {u}) \cup {v}, ver |-> held[b].ver, live |-> held[b].live]
      /\ \A x \in DOMAIN held : x # b => h1[x] = held[x]
  <2>1. h1[b] = [held[b] EXCEPT !.members = (@ \ {u}) \cup {v}]
    OBVIOUS
  <2> QED
    BY <1>2, <2>1 DEF Bundle
<1>4. h2 = [h1 EXCEPT ![b].ver = @ + 1]
  OBVIOUS
<1> HIDE DEF h1
<1>5. /\ h2 = [x \in DOMAIN held |-> h2[x]]
      /\ h2[b] = [members |-> (held[b].members \ {u}) \cup {v}, ver |-> held[b].ver + 1,
                  live |-> held[b].live]
      /\ \A x \in DOMAIN held : x # b => h2[x] = held[x]
  <2>1. h2[b] = [h1[b] EXCEPT !.ver = @ + 1]
    BY <1>3, <1>4
  <2> QED
    BY <1>3, <1>4, <2>1
<1>6. h3 = [h2 EXCEPT ![c].members = (@ \ {v}) \cup {u}]
  OBVIOUS
<1> HIDE DEF h2
<1>7. /\ h3 = [x \in DOMAIN held |-> h3[x]] /\ h3[b] = h2[b]
      /\ h3[c] = [members |-> (held[c].members \ {v}) \cup {u}, ver |-> held[c].ver, live |-> held[c].live]
      /\ \A x \in DOMAIN held : x \notin {b, c} => h3[x] = held[x]
  <2>1. h3[c] = [h2[c] EXCEPT !.members = (@ \ {v}) \cup {u}] /\ h2[c] = held[c]
    BY <1>5, <1>6
  <2>2. h3[c] = [members |-> (held[c].members \ {v}) \cup {u}, ver |-> held[c].ver, live |-> held[c].live]
    BY <1>2, <2>1 DEF Bundle
  <2> QED
    BY <1>5, <1>6, <2>2
<1> HIDE DEF h3
<1>8. held'[c] = [h3[c] EXCEPT !.ver = @ + 1]
  BY <1>1, <1>7
<1>9. held'[c] = [members |-> (held[c].members \ {v}) \cup {u}, ver |-> held[c].ver + 1,
                  live |-> held[c].live]
  BY <1>7, <1>8
<1>10. DOMAIN held' = DOMAIN held /\ held' = [x \in DOMAIN held |-> held'[x]]
  BY <1>1, <1>7
<1>11. held'[b] = h2[b] /\ \A x \in DOMAIN held : x \notin {b, c} => held'[x] = held[x]
  BY <1>1, <1>7
<1> QED
  BY <1>5, <1>9, <1>10, <1>11

LEMMA UnitsExchanged ==
  ASSUME GroupInv, Group!WorkGroupAssumption, NEW u \in Units, NEW v \in Units, Group!Exchange(u, v)
  PROVE  GroupInv'
<1> DEFINE b == Group!BundleOf(u)
           c == Group!BundleOf(v)
<1>1. /\ b # c /\ b[1] # "trf" /\ c[1] # "trf"
      /\ held' = [held EXCEPT ![b].members = (@ \ {u}) \cup {v}, ![b].ver = @ + 1,
                              ![c].members = (@ \ {v}) \cup {u}, ![c].ver = @ + 1]
      /\ roots' = [h \in Groups |-> Group!RootsOf(h, label, held')]
  BY DEF Group!Exchange
<1>2. /\ moves > 0 /\ moves' = moves - 1
      /\ label' = label /\ ver' = ver /\ ledger' = ledger /\ client' = client /\ groupFaults' = groupFaults
  BY DEF Group!Exchange
<1>3. HeldSound /\ LabelSound
  BY DEF GroupInv
<1>4. /\ b \in DOMAIN held /\ held[b].live /\ u \in held[b].members
      /\ \A x \in DOMAIN held : held[x].live /\ u \in held[x].members => x = b
      /\ c \in DOMAIN held /\ held[c].live /\ v \in held[c].members
      /\ \A x \in DOMAIN held : held[x].live /\ v \in held[x].members => x = c
  BY <1>3, BundleFacts
<1> HIDE DEF b, c
<1>5. /\ DOMAIN held' = DOMAIN held /\ held' = [x \in DOMAIN held |-> held'[x]]
      /\ held'[b] = [members |-> (held[b].members \ {u}) \cup {v}, ver |-> held[b].ver + 1,
                     live |-> held[b].live]
      /\ held'[c] = [members |-> (held[c].members \ {v}) \cup {u}, ver |-> held[c].ver + 1,
                     live |-> held[c].live]
      /\ \A x \in DOMAIN held : x \notin {b, c} => held'[x] = held[x]
  BY <1>1, <1>3, <1>4, ExchangeHeld
<1>6. \A x \in DOMAIN held : x \in BundleIds /\ held[x] \in Bundle /\ held[x].members # {}
                             /\ (x[1] = "trf" => held[x].live /\ held[x].members = x[3])
  BY <1>3 DEF HeldSound
<1>7. v \notin held[b].members /\ u \notin held[c].members
  BY <1>1, <1>4
<1>8. \A x \in DOMAIN held :
        /\ held'[x] \in Bundle /\ held'[x].members # {} /\ held'[x].live = held[x].live
        /\ x[1] = "trf" => held'[x] = held[x]
        /\ held'[x].ver = IF x \in {b, c} THEN held[x].ver + 1 ELSE held[x].ver
  <2> SUFFICES ASSUME NEW x \in DOMAIN held
               PROVE  /\ held'[x] \in Bundle /\ held'[x].members # {} /\ held'[x].live = held[x].live
                      /\ x[1] = "trf" => held'[x] = held[x]
                      /\ held'[x].ver = IF x \in {b, c} THEN held[x].ver + 1 ELSE held[x].ver
    OBVIOUS
  <2>1. held[b] \in Bundle /\ held[c] \in Bundle /\ held[x] \in Bundle /\ held[x].members # {}
    BY <1>4, <1>6
  <2>2. held[b].ver + 1 \in Nat \ {0} /\ held[c].ver + 1 \in Nat \ {0}
    BY <2>1 DEF Bundle
  <2>3. (held[b].members \ {u}) \cup {v} \in SUBSET Units /\ (held[c].members \ {v}) \cup {u} \in SUBSET Units
    BY <2>1 DEF Bundle
  <2>4. held[b].live \in BOOLEAN /\ held[c].live \in BOOLEAN
    BY <2>1 DEF Bundle
  <2>5. CASE x = b
    <3>1. held'[b] \in Bundle
      BY <1>5, <2>2, <2>3, <2>4 DEF Bundle
    <3>2. held'[b].members # {} /\ held'[b].live = held[b].live /\ held'[b].ver = held[b].ver + 1
      BY <1>5
    <3> QED
      BY <1>1, <2>5, <3>1, <3>2
  <2>6. CASE x = c
    <3>1. held'[c] \in Bundle
      BY <1>5, <2>2, <2>3, <2>4 DEF Bundle
    <3>2. held'[c].members # {} /\ held'[c].live = held[c].live /\ held'[c].ver = held[c].ver + 1
      BY <1>5
    <3> QED
      BY <1>1, <2>6, <3>1, <3>2
  <2>7. CASE x \notin {b, c}
    BY <1>5, <2>1, <2>7
  <2> QED
    BY <2>5, <2>6, <2>7
<1>9. \A x \in DOMAIN held : Cardinality(held'[x].members) = Cardinality(held[x].members)
  <2>1. held[b].members \in SUBSET Units /\ held[c].members \in SUBSET Units
    BY <1>4, <1>6 DEF Bundle
  <2>2. Cardinality(held'[b].members) = Cardinality(held[b].members)
    BY <1>4, <1>5, <1>7, <2>1, SwapSize
  <2>3. Cardinality(held'[c].members) = Cardinality(held[c].members)
    BY <1>4, <1>5, <1>7, <2>1, SwapSize
  <2> QED
    BY <1>5, <2>2, <2>3
<1>10. \A w \in Units : \E x \in DOMAIN held : held'[x].live /\ w \in held'[x].members
  <2> SUFFICES ASSUME NEW w \in Units
               PROVE  \E x \in DOMAIN held : held'[x].live /\ w \in held'[x].members
    OBVIOUS
  <2>1. PICK x \in DOMAIN held : held[x].live /\ w \in held[x].members
    BY <1>3 DEF HeldSound
  <2>2. CASE w = u
    BY <1>4, <1>5, <2>2
  <2>3. CASE w = v
    BY <1>4, <1>5, <2>3
  <2>4. CASE w \notin {u, v}
    <3>1. w \in held'[x].members /\ held'[x].live
      BY <1>5, <2>1, <2>4
    <3> QED
      BY <3>1
  <2> QED
    BY <2>2, <2>3, <2>4
<1>11. \A w \in Units : \A x, y \in DOMAIN held :
         held'[x].live /\ held'[y].live /\ w \in held'[x].members /\ w \in held'[y].members => x = y
  <2> SUFFICES ASSUME NEW w \in Units, NEW x \in DOMAIN held, NEW y \in DOMAIN held,
                      held'[x].live, held'[y].live, w \in held'[x].members, w \in held'[y].members
               PROVE  x = y
    OBVIOUS
  <2>1. held[x].live /\ held[y].live
    BY <1>8
  <2>2. CASE w = u
    <3>1. x = c /\ y = c
      BY <1>1, <1>4, <1>5, <1>7, <2>1, <2>2
    <3> QED
      BY <3>1
  <2>3. CASE w = v
    <3>1. x = b /\ y = b
      BY <1>1, <1>4, <1>5, <1>7, <2>1, <2>3
    <3> QED
      BY <3>1
  <2>4. CASE w \notin {u, v}
    <3>1. w \in held[x].members /\ w \in held[y].members
      BY <1>5, <2>4
    <3> QED
      BY <1>3, <2>1, <3>1 DEF HeldSound
  <2> QED
    BY <2>2, <2>3, <2>4
<1>12. HeldSound'
  <2>1. \A x, y \in DOMAIN held :
         held[x].live /\ x[1] # "trf" /\ y[1] # "trf" /\ y[2] = x[2] =>
           /\ held[y].live => y = x
           /\ y[1] = "rem" => Cardinality(held[x].members) <= Cardinality(y[3])
    BY <1>3 DEF HeldSound
  <2>2. \A x, y \in DOMAIN held :
         held'[x].live /\ x[1] # "trf" /\ y[1] # "trf" /\ y[2] = x[2] =>
           /\ held'[y].live => y = x
           /\ y[1] = "rem" => Cardinality(held'[x].members) <= Cardinality(y[3])
    BY <1>8, <1>9, <2>1
  <2>3. \A x \in DOMAIN held' :
          /\ x \in BundleIds /\ held'[x] \in Bundle /\ held'[x].members # {}
          /\ x[1] = "trf" => held'[x].live /\ held'[x].members = x[3]
    BY <1>5, <1>6, <1>8
  <2>4. DOMAIN held' = DOMAIN held /\ held' = [x \in DOMAIN held |-> held'[x]]
    BY <1>5
  <2> HIDE DEF b, c
  <2> QED
    BY <1>10, <1>11, <2>2, <2>3, <2>4 DEF HeldSound
<1>13. LabelSound'
  BY <1>1, <1>2, <1>3 DEF LabelSound, Group!RootsOf
<1>14. \A h : Group!Labelled(h)' = Group!Labelled(h)
  BY <1>2 DEF Group!Labelled
<1>15. Onward
  <2>1. \A x \in DOMAIN held : held[x].ver \in Nat
    BY <1>6 DEF Bundle
  <2>2. \A h \in Groups : ver[h].members \in Nat
    BY <1>3 DEF LabelSound, Version
  <2>3. \A x \in DOMAIN held :
         /\ x \in DOMAIN held' /\ held[x].ver <= held'[x].ver
         /\ held'[x].ver = held[x].ver => held'[x] = held[x]
         /\ x[1] = "trf" => held'[x].members = held[x].members
    BY <1>5, <1>8, <2>1
  <2> QED
    BY <1>2, <1>14, <2>2, <2>3 DEF Onward
<1>16. moves' \in Nat
  BY <1>2 DEF GroupInv
<1> QED
  BY <1>2, <1>12, <1>13, <1>15, <1>16, CentralStep

(* What the ledger finds when a command's versions are current.            *)
Splits(cmd) == \A b \in DOMAIN cmd.sources :
  /\ b \in DOMAIN held /\ b \in BundleIds /\ b[1] # "trf" /\ held[b].live
  /\ held[b].members = cmd.sources[b].selected \cup cmd.sources[b].rest
  /\ cmd.sources[b].selected # {} /\ cmd.sources[b].selected \cap cmd.sources[b].rest = {}
  /\ cmd.sources[b].rest # {} => cmd.sources[b].restId = Group!RemainderId(b, cmd.sources[b].rest)
Named(cmd) ==
  /\ cmd.kind \in {"group", "tag"} /\ cmd.g \in Groups
  /\ cmd.members # {} /\ cmd.members \subseteq Units /\ cmd.members = Group!Labelled(cmd.g)
  /\ \E n \in Nat : cmd.transfer = Group!TransferId(n, cmd.members)
  /\ UNION {cmd.sources[b].selected : b \in DOMAIN cmd.sources} = cmd.members
Covered(cmd) ==
  /\ UNION {Group!Labelled(h) : h \in cmd.covers} = UNION {cmd.sources[b].rest : b \in DOMAIN cmd.sources}
  /\ \A b \in DOMAIN cmd.sources :
       cmd.sources[b].covers = {h \in cmd.covers : Group!Labelled(h) \cap cmd.sources[b].rest # {}}
  /\ cmd.covers \subseteq Groups /\ cmd.g \notin cmd.covers

LEMMA CommitReady ==
  ASSUME HeldSound, LabelSound, NEW cmd, CommandSound(cmd), Group!Current(cmd)
  PROVE  Splits(cmd) /\ Named(cmd) /\ (cmd.kind = "group" => Covered(cmd))
<1>1. Splits(cmd)
  <2> SUFFICES ASSUME NEW b \in DOMAIN cmd.sources
               PROVE  /\ b \in DOMAIN held /\ b \in BundleIds /\ b[1] # "trf" /\ held[b].live
                      /\ held[b].members = cmd.sources[b].selected \cup cmd.sources[b].rest
                      /\ cmd.sources[b].selected # {}
                      /\ cmd.sources[b].selected \cap cmd.sources[b].rest = {}
                      /\ cmd.sources[b].rest # {} => cmd.sources[b].restId = Group!RemainderId(b, cmd.sources[b].rest)
    BY DEF Splits
  <2>1. /\ b \in DOMAIN held /\ b[1] # "trf" /\ b \in DOMAIN cmd.versions.bundle
        /\ cmd.sources[b].selected # {} /\ cmd.sources[b].selected \cap cmd.sources[b].rest = {}
        /\ cmd.sources[b].rest # {} => cmd.sources[b].restId = Group!RemainderId(b, cmd.sources[b].rest)
        /\ held[b].ver = cmd.versions.bundle[b] =>
             held[b].live /\ held[b].members = cmd.sources[b].selected \cup cmd.sources[b].rest
    BY DEF CommandSound
  <2>2. cmd.versions.bundle[b] = held[b].ver
    BY <2>1 DEF Group!Current
  <2>3. b \in BundleIds
    BY <2>1 DEF HeldSound
  <2> QED
    BY <2>1, <2>2, <2>3
<1>2. /\ cmd.kind \in {"group", "tag"} /\ cmd.g \in Groups
      /\ cmd.members # {} /\ cmd.members \subseteq Units
      /\ \E n \in Nat : cmd.transfer = Group!TransferId(n, cmd.members)
      /\ UNION {cmd.sources[b].selected : b \in DOMAIN cmd.sources} = cmd.members
  BY DEF CommandSound
<1>3. CASE cmd.kind = "tag"
  <2>1. cmd.members = Group!Labelled(cmd.g)
    BY <1>3 DEF Group!Current
  <2> QED
    BY <1>1, <1>2, <1>3, <2>1 DEF Named
<1>4. CASE cmd.kind = "group"
  <2>1. AsRead(cmd)
    BY DEF Group!Current, AsRead
  <2>2. /\ cmd.members = Group!Labelled(cmd.g)
        /\ UNION {Group!Labelled(h) : h \in cmd.covers} = UNION {cmd.sources[b].rest : b \in DOMAIN cmd.sources}
        /\ \A b \in DOMAIN cmd.sources :
             cmd.sources[b].covers = {h \in cmd.covers : Group!Labelled(h) \cap cmd.sources[b].rest # {}}
    BY <1>4, <2>1 DEF CommandSound
  <2>3. cmd.covers \subseteq Groups /\ cmd.g \notin cmd.covers
    BY DEF CommandSound
  <2>4. Covered(cmd)
    BY <2>2, <2>3 DEF Covered
  <2>5. Named(cmd)
    BY <1>2, <2>2 DEF Named
  <2> QED
    BY <1>1, <2>4, <2>5
<1> QED
  BY <1>2, <1>3, <1>4

(* Two sources are of different numbers, and no unit is in both.           *)
LEMMA SourcesApart ==
  ASSUME HeldSound, NEW cmd, Splits(cmd), NEW b \in DOMAIN cmd.sources
  PROVE  /\ \A c \in DOMAIN held : c[1] # "trf" /\ held[c].live /\ c[2] = b[2] => c = b
         /\ \A u \in held[b].members : u \in Units /\ Group!BundleOf(u) = b
<1>1. b \in DOMAIN held /\ held[b].live /\ b[1] # "trf" /\ held[b] \in Bundle
  BY DEF Splits, HeldSound
<1>2. \A c \in DOMAIN held : c[1] # "trf" /\ held[c].live /\ c[2] = b[2] => c = b
  BY <1>1 DEF HeldSound
<1>3. \A u \in held[b].members : u \in Units
  BY <1>1 DEF Bundle
<1>4. \A u \in held[b].members : Group!BundleOf(u) = b
  BY <1>1, <1>3, BundleFacts
<1> QED
  BY <1>2, <1>3, <1>4

(* The ids of a command's new bundles were never used.                     *)
LEMMA TransferFresh ==
  ASSUME HeldSound, NEW cmd, Splits(cmd), Named(cmd)
  PROVE  cmd.transfer \notin DOMAIN held /\ cmd.transfer \in BundleIds /\ cmd.transfer[1] = "trf"
         /\ cmd.transfer[3] = cmd.members
<1>1. PICK n \in Nat : cmd.transfer = Group!TransferId(n, cmd.members)
  BY DEF Named
<1>2. cmd.members # {} /\ cmd.members \subseteq Units
  BY DEF Named
<1>3. cmd.transfer \in BundleIds /\ cmd.transfer[1] = "trf" /\ cmd.transfer[3] = cmd.members
  BY <1>1, <1>2 DEF Group!TransferId, BundleIds
<1>4. ASSUME cmd.transfer \in DOMAIN held PROVE FALSE
  <2>1. PICK u : u \in cmd.members
    BY <1>2
  <2>2. PICK b \in DOMAIN cmd.sources : u \in cmd.sources[b].selected
    BY <2>1 DEF Named
  <2>3. u \in held[b].members
    BY <2>2 DEF Splits
  <2>4. Group!BundleOf(u) = b /\ u \in Units
    BY <2>3, SourcesApart
  <2>5. held[cmd.transfer].live /\ u \in held[cmd.transfer].members
    BY <1>3, <1>4, <2>1 DEF HeldSound
  <2>6. cmd.transfer = b
    BY <1>4, <2>4, <2>5, BundleFacts
  <2> QED
    BY <1>3, <2>6 DEF Splits
<1> QED
  BY <1>3, <1>4

LEMMA RestFresh ==
  ASSUME Group!WorkGroupAssumption, HeldSound, NEW cmd, Splits(cmd), NEW b \in Group!Rests(cmd)
  PROVE  /\ cmd.sources[b].restId \notin DOMAIN held
         /\ cmd.sources[b].restId = <<"rem", b[2], cmd.sources[b].rest>>
         /\ cmd.sources[b].restId \in BundleIds /\ cmd.sources[b].rest # {}
         /\ Cardinality(cmd.sources[b].rest) < Cardinality(held[b].members)
<1>1. b \in DOMAIN cmd.sources /\ cmd.sources[b].rest # {}
  BY DEF Group!Rests
<1>2. /\ b \in DOMAIN held /\ b \in BundleIds /\ b[1] # "trf" /\ held[b].live
      /\ held[b].members = cmd.sources[b].selected \cup cmd.sources[b].rest
      /\ cmd.sources[b].selected # {} /\ cmd.sources[b].selected \cap cmd.sources[b].rest = {}
      /\ cmd.sources[b].restId = <<"rem", b[2], cmd.sources[b].rest>>
  BY <1>1 DEF Splits, Group!RemainderId
<1>3. held[b].members \in SUBSET Units
  BY <1>2 DEF HeldSound, Bundle
<1>4. b[2] \in Nat
  BY <1>2 DEF BundleIds
<1>5. cmd.sources[b].restId \in BundleIds
  BY <1>2, <1>3, <1>4 DEF BundleIds
<1>6. Cardinality(cmd.sources[b].rest) < Cardinality(held[b].members)
  <2>1. IsFiniteSet(held[b].members) /\ Cardinality(held[b].members) \in Nat
    BY <1>3, MembersFinite
  <2>2. cmd.sources[b].rest \in SUBSET Units
    BY <1>2, <1>3
  <2>3. Cardinality(cmd.sources[b].rest) \in Nat
    BY <2>2, MembersFinite
  <2>4. cmd.sources[b].rest \in SUBSET held[b].members /\ held[b].members # cmd.sources[b].rest
    BY <1>2
  <2>5. /\ Cardinality(cmd.sources[b].rest) <= Cardinality(held[b].members)
        /\ Cardinality(cmd.sources[b].rest) # Cardinality(held[b].members)
    BY <2>1, <2>4, FS_Subset
  <2> QED
    BY <2>1, <2>3, <2>5
<1>7. ASSUME cmd.sources[b].restId \in DOMAIN held PROVE FALSE
  <2>1. PICK c \in DOMAIN held : c = cmd.sources[b].restId
    BY <1>7
  <2>2. c[1] = "rem" /\ c[2] = b[2] /\ c[3] = cmd.sources[b].rest
    BY <1>2, <2>1
  <2>3. Cardinality(held[b].members) <= Cardinality(c[3])
    BY <1>2, <2>2 DEF HeldSound
  <2>4. Cardinality(held[b].members) \in Nat /\ Cardinality(c[3]) \in Nat
    <3>1. c[3] \in SUBSET Units
      BY <1>2, <1>3, <2>2
    <3> QED
      BY <1>3, <3>1, MembersFinite
  <2> QED
    BY <1>6, <2>2, <2>3, <2>4
<1> QED
  BY <1>1, <1>2, <1>5, <1>6, <1>7

(* The bundles after the ledger applied a command.                         *)
NewIds(cmd) == {cmd.transfer} \cup {cmd.sources[b].restId : b \in Group!Rests(cmd)}
Applied(cmd) ==
  /\ held' = [b \in DOMAIN held' |-> held'[b]]
  /\ DOMAIN held' = DOMAIN held \cup NewIds(cmd)
  /\ \A b \in DOMAIN cmd.sources :
       held'[b] = [members |-> held[b].members, ver |-> held[b].ver + 1, live |-> FALSE]
  /\ held'[cmd.transfer] = [members |-> cmd.members, ver |-> 1, live |-> TRUE]
  /\ \A b \in Group!Rests(cmd) :
       held'[cmd.sources[b].restId] = [members |-> cmd.sources[b].rest, ver |-> 1, live |-> TRUE]
  /\ \A b \in DOMAIN held \ DOMAIN cmd.sources : held'[b] = held[b]

LEMMA Consumed ==
  ASSUME NEW r \in Bundle, NEW f
  PROVE  [r EXCEPT !.live = f, !.ver = @ + 1] = [members |-> r.members, ver |-> r.ver + 1, live |-> f]
<1> DEFINE t1 == [r EXCEPT !.live = f]
<1>1. t1 = [members |-> r.members, ver |-> r.ver, live |-> f]
  BY DEF Bundle
<1>2. [r EXCEPT !.live = f, !.ver = @ + 1] = [t1 EXCEPT !.ver = @ + 1]
  OBVIOUS
<1> HIDE DEF t1
<1> QED
  BY <1>1, <1>2

LEMMA AppliedHeld ==
  ASSUME Group!WorkGroupAssumption, HeldSound, NEW cmd, Splits(cmd), Named(cmd), Group!Apply(cmd)
  PROVE  Applied(cmd)
<1> DEFINE new == NewIds(cmd)
           next(b) == IF b \in DOMAIN cmd.sources THEN [held[b] EXCEPT !.live = FALSE, !.ver = @ + 1]
                      ELSE IF b = cmd.transfer
                           THEN [members |-> UNION {cmd.sources[c].selected : c \in DOMAIN cmd.sources},
                                 ver |-> 1, live |-> TRUE]
                      ELSE IF b \in new THEN [members |-> b[3], ver |-> 1, live |-> TRUE]
                      ELSE held[b]
<1>1. held' = [b \in DOMAIN held \cup new |-> next(b)]
  BY DEF Group!Apply, NewIds
<1>2. cmd.transfer \notin DOMAIN held
  BY TransferFresh
<1>3. \A b \in Group!Rests(cmd) : /\ cmd.sources[b].restId \notin DOMAIN held
                            /\ cmd.sources[b].restId = <<"rem", b[2], cmd.sources[b].rest>>
  BY RestFresh
<1>4. DOMAIN cmd.sources \subseteq DOMAIN held
  BY DEF Splits
<1>5. cmd.transfer[1] = "trf"
  BY TransferFresh
<1>6. ASSUME NEW b \in DOMAIN cmd.sources
      PROVE  held'[b] = [members |-> held[b].members, ver |-> held[b].ver + 1, live |-> FALSE]
  <2>1. held[b] \in Bundle /\ b \in DOMAIN held
    BY <1>4 DEF HeldSound
  <2>2. held'[b] = [held[b] EXCEPT !.live = FALSE, !.ver = @ + 1]
    BY <1>1, <2>1
  <2> QED
    BY <2>1, <2>2, Consumed, Zenon
<1>7. held'[cmd.transfer] = [members |-> cmd.members, ver |-> 1, live |-> TRUE]
  <2>1. cmd.transfer \in new /\ cmd.transfer \notin DOMAIN cmd.sources
    BY <1>2, <1>4 DEF NewIds
  <2>2. UNION {cmd.sources[c].selected : c \in DOMAIN cmd.sources} = cmd.members
    BY DEF Named
  <2> HIDE DEF new
  <2> QED
    BY <1>1, <2>1, <2>2
<1>8. ASSUME NEW b \in Group!Rests(cmd)
      PROVE  held'[cmd.sources[b].restId] = [members |-> cmd.sources[b].rest, ver |-> 1, live |-> TRUE]
  <2> DEFINE x == cmd.sources[b].restId
  <2>1. x \in new /\ x \notin DOMAIN cmd.sources /\ x # cmd.transfer /\ x[3] = cmd.sources[b].rest
    BY <1>3, <1>4, <1>5 DEF NewIds
  <2> HIDE DEF new, x
  <2>2. held'[x] = [members |-> x[3], ver |-> 1, live |-> TRUE]
    BY <1>1, <2>1
  <2> QED
    BY <2>1, <2>2 DEF x
<1>9. ASSUME NEW b \in DOMAIN held \ DOMAIN cmd.sources
      PROVE  held'[b] = held[b]
  <2>1. b \notin new
    BY <1>2, <1>3 DEF NewIds
  <2> HIDE DEF new
  <2> QED
    BY <1>1, <1>2, <2>1
<1>10. DOMAIN held' = DOMAIN held \cup new /\ held' = [b \in DOMAIN held' |-> held'[b]]
  BY <1>1
<1> QED
  BY <1>6, <1>7, <1>8, <1>9, <1>10 DEF Applied

(* Where a unit is after a command was applied.                            *)
Home(cmd, u) ==
  IF Group!BundleOf(u) \notin DOMAIN cmd.sources THEN Group!BundleOf(u)
  ELSE IF u \in cmd.sources[Group!BundleOf(u)].selected THEN cmd.transfer
  ELSE cmd.sources[Group!BundleOf(u)].restId

LEMMA HomeOf ==
  ASSUME Group!WorkGroupAssumption, HeldSound, NEW cmd, Splits(cmd), Named(cmd), Applied(cmd), NEW u \in Units
  PROVE  /\ Home(cmd, u) \in DOMAIN held' /\ held'[Home(cmd, u)].live
         /\ u \in held'[Home(cmd, u)].members
         /\ \A x \in DOMAIN held' : held'[x].live /\ u \in held'[x].members => x = Home(cmd, u)
<1> DEFINE b == Group!BundleOf(u)
<1>1. /\ b \in DOMAIN held /\ held[b].live /\ u \in held[b].members
      /\ \A x \in DOMAIN held : held[x].live /\ u \in held[x].members => x = b
  BY BundleFacts
<1>2. b \in DOMAIN cmd.sources =>
        /\ held[b].members = cmd.sources[b].selected \cup cmd.sources[b].rest
        /\ cmd.sources[b].selected \cap cmd.sources[b].rest = {}
  BY DEF Splits
<1>3. Home(cmd, u) = IF b \notin DOMAIN cmd.sources THEN b
                     ELSE IF u \in cmd.sources[b].selected THEN cmd.transfer ELSE cmd.sources[b].restId
  BY DEF Home
<1>4. \A c \in DOMAIN cmd.sources : c \in DOMAIN held /\ (u \in held[c].members => c = b)
  BY <1>1 DEF Splits
<1>5. u \in cmd.members <=> b \in DOMAIN cmd.sources /\ u \in cmd.sources[b].selected
  <2>1. ASSUME u \in cmd.members PROVE b \in DOMAIN cmd.sources /\ u \in cmd.sources[b].selected
    <3>1. PICK c \in DOMAIN cmd.sources : u \in cmd.sources[c].selected
      BY <2>1 DEF Named
    <3>2. u \in held[c].members
      BY <3>1 DEF Splits
    <3> QED
      BY <1>4, <3>1, <3>2
  <2>2. ASSUME b \in DOMAIN cmd.sources, u \in cmd.sources[b].selected PROVE u \in cmd.members
    <3>1. cmd.sources[b].selected \in {cmd.sources[c].selected : c \in DOMAIN cmd.sources}
      BY <2>2
    <3> HIDE DEF b
    <3> QED
      BY <2>2, <3>1 DEF Named
  <2> QED
    BY <2>1, <2>2
<1>6. \A c \in Group!Rests(cmd) : c \in DOMAIN cmd.sources /\ (u \in cmd.sources[c].rest => c = b)
  <2> SUFFICES ASSUME NEW c \in Group!Rests(cmd)
               PROVE  c \in DOMAIN cmd.sources /\ (u \in cmd.sources[c].rest => c = b)
    OBVIOUS
  <2>1. c \in DOMAIN cmd.sources
    BY DEF Group!Rests
  <2>2. u \in cmd.sources[c].rest => u \in held[c].members
    BY <2>1 DEF Splits
  <2> QED
    BY <1>4, <2>1, <2>2
<1> HIDE DEF b
<1>7. Home(cmd, u) \in DOMAIN held' /\ held'[Home(cmd, u)].live /\ u \in held'[Home(cmd, u)].members
  <2>1. CASE b \notin DOMAIN cmd.sources
    BY <1>1, <1>3, <2>1 DEF Applied
  <2>2. CASE b \in DOMAIN cmd.sources /\ u \in cmd.sources[b].selected
    <3>1. cmd.transfer \in DOMAIN held' /\ held'[cmd.transfer] = [members |-> cmd.members, ver |-> 1, live |-> TRUE]
      BY DEF Applied, NewIds
    <3> QED
      BY <1>3, <1>5, <2>2, <3>1
  <2>3. CASE b \in DOMAIN cmd.sources /\ u \notin cmd.sources[b].selected
    <3>1. u \in cmd.sources[b].rest /\ b \in Group!Rests(cmd)
      BY <1>1, <1>2, <2>3 DEF Group!Rests
    <3>2. /\ cmd.sources[b].restId \in DOMAIN held'
          /\ held'[cmd.sources[b].restId] = [members |-> cmd.sources[b].rest, ver |-> 1, live |-> TRUE]
      BY <3>1 DEF Applied, NewIds
    <3> QED
      BY <1>3, <2>3, <3>1, <3>2
  <2> QED
    BY <2>1, <2>2, <2>3
<1>8. ASSUME NEW x \in DOMAIN held', held'[x].live, u \in held'[x].members
      PROVE  x = Home(cmd, u)
  <2>1. x \in DOMAIN held \/ x \in NewIds(cmd)
    BY DEF Applied
  <2>2. CASE x \in DOMAIN held /\ x \notin DOMAIN cmd.sources
    <3>1. held'[x] = held[x]
      BY <2>2 DEF Applied
    <3> QED
      BY <1>1, <1>3, <1>8, <2>2, <3>1
  <2>3. x \notin DOMAIN cmd.sources
    <3>1. ASSUME x \in DOMAIN cmd.sources PROVE held'[x].live = FALSE
      <4>1. held'[x] = [members |-> held[x].members, ver |-> held[x].ver + 1, live |-> FALSE]
        BY <3>1 DEF Applied
      <4> QED
        BY <4>1
    <3> QED
      BY <1>8, <3>1
  <2>4. CASE x = cmd.transfer
    <3>1. u \in cmd.members
      BY <1>8, <2>4 DEF Applied
    <3> QED
      BY <1>3, <1>5, <2>4, <3>1
  <2>5. CASE x \in {cmd.sources[c].restId : c \in Group!Rests(cmd)}
    <3>1. PICK c \in Group!Rests(cmd) : x = cmd.sources[c].restId
      BY <2>5
    <3>4. held'[x] = [members |-> cmd.sources[c].rest, ver |-> 1, live |-> TRUE]
      BY <3>1 DEF Applied
    <3>2. u \in cmd.sources[c].rest
      BY <1>8, <3>4
    <3>3. c = b /\ b \in DOMAIN cmd.sources
      BY <1>6, <3>2
    <3> QED
      BY <1>2, <1>3, <3>1, <3>2, <3>3
  <2> QED
    BY <2>1, <2>2, <2>3, <2>4, <2>5 DEF NewIds
<1> QED
  BY <1>7, <1>8

LEMMA AppliedSound ==
  ASSUME Group!WorkGroupAssumption, HeldSound, NEW cmd, Splits(cmd), Named(cmd), Applied(cmd)
  PROVE  HeldSound'
<1>1. /\ held' = [b \in DOMAIN held' |-> held'[b]]
      /\ DOMAIN held' = DOMAIN held \cup NewIds(cmd)
  BY DEF Applied
<1>2. cmd.transfer \notin DOMAIN held /\ cmd.transfer \in BundleIds /\ cmd.transfer[1] = "trf"
      /\ cmd.transfer[3] = cmd.members /\ cmd.members # {} /\ cmd.members \subseteq Units
  BY TransferFresh DEF Named
<1>3. ASSUME NEW b \in Group!Rests(cmd)
      PROVE  /\ cmd.sources[b].restId \notin DOMAIN held
             /\ cmd.sources[b].restId[1] = "rem" /\ cmd.sources[b].restId[2] = b[2]
             /\ cmd.sources[b].restId[3] = cmd.sources[b].rest
             /\ cmd.sources[b].restId \in BundleIds /\ cmd.sources[b].rest # {}
             /\ cmd.sources[b].rest \subseteq Units
             /\ Cardinality(cmd.sources[b].rest) < Cardinality(held[b].members)
             /\ b \in DOMAIN cmd.sources /\ b \in DOMAIN held /\ b[1] # "trf" /\ held[b].live
  <2>1. b \in DOMAIN cmd.sources
    BY DEF Group!Rests
  <2>2. b \in DOMAIN held /\ b[1] # "trf" /\ held[b].live /\ cmd.sources[b].rest \subseteq held[b].members
    BY <2>1 DEF Splits
  <2>3. held[b].members \subseteq Units
    BY <2>2 DEF HeldSound, Bundle
  <2> QED
    BY <2>1, <2>2, <2>3, RestFresh
<1>4. ASSUME NEW x \in DOMAIN held'
      PROVE  \/ x \in DOMAIN held /\ x \notin DOMAIN cmd.sources /\ held'[x] = held[x]
             \/ x \in DOMAIN cmd.sources /\ x \in DOMAIN held /\ ~held'[x].live
                  /\ held'[x] = [members |-> held[x].members, ver |-> held[x].ver + 1, live |-> FALSE]
             \/ x = cmd.transfer /\ held'[x] = [members |-> cmd.members, ver |-> 1, live |-> TRUE]
             \/ \E b \in Group!Rests(cmd) : x = cmd.sources[b].restId
                  /\ held'[x] = [members |-> cmd.sources[b].rest, ver |-> 1, live |-> TRUE]
  <2>1. x \in DOMAIN held \/ x = cmd.transfer \/ \E b \in Group!Rests(cmd) : x = cmd.sources[b].restId
    BY <1>1 DEF NewIds
  <2>2. CASE x \in DOMAIN held /\ x \notin DOMAIN cmd.sources
    BY <2>2 DEF Applied
  <2>3. CASE x \in DOMAIN held /\ x \in DOMAIN cmd.sources
    <3>1. held'[x] = [members |-> held[x].members, ver |-> held[x].ver + 1, live |-> FALSE]
      BY <2>3 DEF Applied
    <3> QED
      BY <2>3, <3>1
  <2>4. CASE x = cmd.transfer
    BY <2>4 DEF Applied
  <2>5. CASE \E b \in Group!Rests(cmd) : x = cmd.sources[b].restId
    BY <2>5 DEF Applied
  <2> QED
    BY <2>1, <2>2, <2>3, <2>4, <2>5
<1>5. ASSUME NEW x \in DOMAIN held'
      PROVE  /\ x \in BundleIds /\ held'[x] \in Bundle /\ held'[x].members # {}
             /\ x[1] = "trf" => held'[x].live /\ held'[x].members = x[3]
  <2>1. \A c \in DOMAIN held : /\ c \in BundleIds /\ held[c] \in Bundle /\ held[c].members # {}
                               /\ c[1] = "trf" => held[c].live /\ held[c].members = c[3]
    BY DEF HeldSound
  <2>2. CASE x \in DOMAIN held /\ x \notin DOMAIN cmd.sources /\ held'[x] = held[x]
    BY <2>1, <2>2
  <2>3. CASE x \in DOMAIN cmd.sources /\ x \in DOMAIN held
               /\ held'[x] = [members |-> held[x].members, ver |-> held[x].ver + 1, live |-> FALSE]
    <3>1. held[x] \in Bundle /\ x \in BundleIds /\ held[x].members # {} /\ x[1] # "trf"
      BY <2>1, <2>3 DEF Splits
    <3>2. held'[x] \in Bundle
      BY <2>3, <3>1 DEF Bundle
    <3> QED
      BY <2>3, <3>1, <3>2
  <2>4. CASE x = cmd.transfer /\ held'[x] = [members |-> cmd.members, ver |-> 1, live |-> TRUE]
    BY <1>2, <2>4 DEF Bundle
  <2>5. ASSUME NEW b \in Group!Rests(cmd), x = cmd.sources[b].restId,
               held'[x] = [members |-> cmd.sources[b].rest, ver |-> 1, live |-> TRUE]
        PROVE  /\ x \in BundleIds /\ held'[x] \in Bundle /\ held'[x].members # {}
               /\ x[1] = "trf" => held'[x].live /\ held'[x].members = x[3]
    BY <1>3, <2>5 DEF Bundle
  <2> QED
    BY <1>4, <2>2, <2>3, <2>4, <2>5
<1>6. \A u \in Units : \E x \in DOMAIN held' : held'[x].live /\ u \in held'[x].members
  BY HomeOf
<1>7. \A x, y \in DOMAIN held' : \A u \in Units :
        held'[x].live /\ held'[y].live /\ u \in held'[x].members /\ u \in held'[y].members => x = y
  BY HomeOf
<1>8. ASSUME NEW x \in DOMAIN held', NEW y \in DOMAIN held',
             held'[x].live, x[1] # "trf", y[1] # "trf", y[2] = x[2]
      PROVE  /\ held'[y].live => y = x
             /\ y[1] = "rem" => Cardinality(held'[x].members) <= Cardinality(y[3])
  <2>1. PICK s \in DOMAIN held :
          /\ held[s].live /\ s[1] # "trf" /\ s[2] = x[2]
          /\ Cardinality(held'[x].members) <= Cardinality(held[s].members)
          /\ \/ x = s /\ s \notin DOMAIN cmd.sources /\ held'[x] = held[s]
             \/ s \in Group!Rests(cmd) /\ x = cmd.sources[s].restId
                  /\ held'[x] = [members |-> cmd.sources[s].rest, ver |-> 1, live |-> TRUE]
    <3>0. \A c \in DOMAIN held : Cardinality(held[c].members) \in Nat
      <4>1. \A c \in DOMAIN held : held[c].members \in SUBSET Units
        BY DEF HeldSound, Bundle
      <4> QED
        BY <4>1, MembersFinite
    <3>1. CASE x \in DOMAIN held /\ x \notin DOMAIN cmd.sources /\ held'[x] = held[x]
      BY <1>8, <3>0, <3>1
    <3>2. ASSUME NEW b \in Group!Rests(cmd), x = cmd.sources[b].restId,
                 held'[x] = [members |-> cmd.sources[b].rest, ver |-> 1, live |-> TRUE]
          PROVE  /\ b \in DOMAIN held /\ held[b].live /\ b[1] # "trf" /\ b[2] = x[2]
                 /\ Cardinality(held'[x].members) <= Cardinality(held[b].members)
      <4>1. cmd.sources[b].rest \in SUBSET Units /\ held'[x].members = cmd.sources[b].rest
        BY <1>3, <3>2
      <4>2. Cardinality(cmd.sources[b].rest) \in Nat
        BY <4>1, MembersFinite
      <4> QED
        BY <1>3, <3>0, <3>2, <4>1, <4>2
    <3>3. x # cmd.transfer
      BY <1>2, <1>8
    <3> QED
      BY <1>4, <1>8, <3>1, <3>2, <3>3
  <2>2. \A c \in DOMAIN held : c[1] # "trf" /\ c[2] = s[2] =>
          /\ held[c].live => c = s
          /\ c[1] = "rem" => Cardinality(held[s].members) <= Cardinality(c[3])
    BY <2>1 DEF HeldSound
  <2>3. CASE y \in DOMAIN held
    <3>1. held'[y].live => held[y].live /\ y \notin DOMAIN cmd.sources
      <4>1. ASSUME y \in DOMAIN cmd.sources PROVE held'[y].live = FALSE
        <5>1. held'[y] = [members |-> held[y].members, ver |-> held[y].ver + 1, live |-> FALSE]
          BY <4>1 DEF Applied
        <5> QED
          BY <5>1
      <4>2. y \notin DOMAIN cmd.sources => held'[y] = held[y]
        BY <2>3 DEF Applied
      <4> QED
        BY <4>1, <4>2
    <3>2. y[2] = s[2]
      BY <1>8, <2>1
    <3>3. held'[y].live => y = x
      <4>1. held'[y].live => y = s /\ s \notin DOMAIN cmd.sources
        BY <1>8, <2>2, <2>3, <3>1, <3>2
      <4>2. s \in Group!Rests(cmd) => s \in DOMAIN cmd.sources
        BY DEF Group!Rests
      <4> QED
        BY <2>1, <4>1, <4>2
    <3>4. ASSUME y[1] = "rem" PROVE Cardinality(held'[x].members) <= Cardinality(y[3])
      <4>1. Cardinality(held[s].members) <= Cardinality(y[3])
        BY <1>8, <2>2, <2>3, <3>2, <3>4
      <4>2. held'[x].members \in SUBSET Units /\ held[s].members \in SUBSET Units /\ y[3] \in SUBSET Units
        BY <1>5, <2>1 DEF BundleIds, Bundle, HeldSound
      <4>3. /\ Cardinality(held'[x].members) \in Nat /\ Cardinality(held[s].members) \in Nat
            /\ Cardinality(y[3]) \in Nat
        BY <4>2, MembersFinite
      <4> QED
        BY <2>1, <4>1, <4>3
    <3> QED
      BY <3>3, <3>4
  <2>4. ASSUME NEW b \in Group!Rests(cmd), y = cmd.sources[b].restId
        PROVE  x = y /\ Cardinality(held'[x].members) <= Cardinality(y[3])
    <3>1. b = s
      <4>1. b \in DOMAIN held /\ b[1] # "trf" /\ held[b].live /\ b[2] = s[2]
        BY <1>3, <1>8, <2>1, <2>4
      <4> QED
        BY <2>2, <4>1
    <3>2. b \in DOMAIN cmd.sources
      BY <1>3
    <3>3. x = y /\ held'[x].members = cmd.sources[b].rest /\ y[3] = cmd.sources[b].rest
      BY <1>3, <2>1, <2>4, <3>1, <3>2
    <3>4. Cardinality(cmd.sources[b].rest) \in Nat
      <4>1. cmd.sources[b].rest \in SUBSET Units
        BY <1>3
      <4> QED
        BY <4>1, MembersFinite
    <3> QED
      BY <3>3, <3>4
  <2>5. y # cmd.transfer
    BY <1>2, <1>8
  <2> QED
    BY <1>1, <2>3, <2>4, <2>5 DEF NewIds
<1> QED
  BY <1>1, <1>5, <1>6, <1>7, <1>8 DEF HeldSound

LEMMA RootsBefore ==
  ASSUME HeldSound, NEW h
  PROVE  Group!RootsOf(h, label, held) = {Group!BundleOf(u) : u \in Group!Labelled(h)}
<1>1. ASSUME NEW x \in Group!RootsOf(h, label, held) PROVE x \in {Group!BundleOf(u) : u \in Group!Labelled(h)}
  <2>1. x \in DOMAIN held /\ held[x].live /\ \E u \in held[x].members : label[u] = h
    BY DEF Group!RootsOf
  <2>2. PICK u \in held[x].members : label[u] = h
    BY <2>1
  <2>3. u \in Units
    BY <2>1, <2>2 DEF HeldSound, Bundle
  <2>4. x = Group!BundleOf(u)
    BY <2>1, <2>2, <2>3, BundleFacts
  <2> QED
    BY <2>2, <2>3, <2>4 DEF Group!Labelled
<1>2. ASSUME NEW u \in Group!Labelled(h) PROVE Group!BundleOf(u) \in Group!RootsOf(h, label, held)
  <2>1. u \in Units /\ label[u] = h
    BY DEF Group!Labelled
  <2> QED
    BY <2>1, BundleFacts DEF Group!RootsOf
<1> QED
  BY <1>1, <1>2

LEMMA RootsAfter ==
  ASSUME Group!WorkGroupAssumption, HeldSound, HeldSound', NEW cmd, Splits(cmd), Named(cmd), Applied(cmd), NEW h
  PROVE  Group!RootsOf(h, label, held') = {Home(cmd, u) : u \in Group!Labelled(h)}
<1>1. ASSUME NEW x \in Group!RootsOf(h, label, held') PROVE x \in {Home(cmd, u) : u \in Group!Labelled(h)}
  <2>1. x \in DOMAIN held' /\ held'[x].live /\ \E u \in held'[x].members : label[u] = h
    BY DEF Group!RootsOf
  <2>2. PICK u \in held'[x].members : label[u] = h
    BY <2>1
  <2>3. u \in Units
    <3>1. held'[x] \in Bundle
      BY <2>1 DEF HeldSound
    <3> QED
      BY <2>2, <3>1 DEF Bundle
  <2>4. x = Home(cmd, u)
    BY <2>1, <2>2, <2>3, HomeOf
  <2> QED
    BY <2>2, <2>3, <2>4 DEF Group!Labelled
<1>2. ASSUME NEW u \in Group!Labelled(h) PROVE Home(cmd, u) \in Group!RootsOf(h, label, held')
  <2>1. u \in Units /\ label[u] = h
    BY DEF Group!Labelled
  <2>2. /\ Home(cmd, u) \in DOMAIN held' /\ held'[Home(cmd, u)].live
        /\ u \in held'[Home(cmd, u)].members
    BY <2>1, HomeOf
  <2> QED
    BY <2>1, <2>2 DEF Group!RootsOf
<1> QED
  BY <1>1, <1>2

(* The roots the command gives its labels are where their units are.       *)
LEMMA AppliedRoots ==
  ASSUME Group!WorkGroupAssumption, HeldSound, LabelSound, HeldSound', NEW cmd, Splits(cmd), Named(cmd),
         Covered(cmd), Applied(cmd), NEW h \in Groups
  PROVE  Group!RootsOf(h, label, held') =
           IF h = cmd.g THEN {cmd.transfer}
           ELSE IF h \in cmd.covers
                THEN (roots[h] \ DOMAIN cmd.sources) \cup
                     {cmd.sources[b].restId : b \in {c \in Group!Rests(cmd) : h \in cmd.sources[c].covers}}
           ELSE roots[h]
<1> DEFINE S == DOMAIN cmd.sources
           homes == {Home(cmd, u) : u \in Group!Labelled(h)}
<1>1. Group!RootsOf(h, label, held') = homes
  BY RootsAfter
<1>2. roots[h] = {Group!BundleOf(u) : u \in Group!Labelled(h)}
  BY RootsBefore DEF LabelSound
<1>3. \A u \in Units : Group!BundleOf(u) \in S => u \in cmd.sources[Group!BundleOf(u)].selected \cup cmd.sources[Group!BundleOf(u)].rest
  BY BundleFacts DEF Splits
<1>4. \A b \in S : \A u : u \in cmd.sources[b].selected \cup cmd.sources[b].rest => Group!BundleOf(u) = b /\ u \in Units
  <2> SUFFICES ASSUME NEW b \in S, NEW u \in cmd.sources[b].selected \cup cmd.sources[b].rest
               PROVE  Group!BundleOf(u) = b /\ u \in Units
    OBVIOUS
  <2>1. u \in held[b].members
    BY DEF Splits
  <2> QED
    BY <2>1, SourcesApart
<1>5. \A b \in S : cmd.sources[b].selected \subseteq Group!Labelled(cmd.g)
  BY DEF Named
<1>6. CASE h = cmd.g
  <2>1. ASSUME NEW u \in Group!Labelled(h) PROVE Home(cmd, u) = cmd.transfer
    <3>1. PICK b \in S : u \in cmd.sources[b].selected
      BY <1>6 DEF Named
    <3>2. Group!BundleOf(u) = b
      BY <1>4, <3>1
    <3> QED
      BY <3>1, <3>2 DEF Home
  <2>2. Group!Labelled(h) # {}
    BY <1>6 DEF Named
  <2>3. homes = {cmd.transfer}
    BY <2>1, <2>2
  <2> QED
    BY <1>1, <1>6, <2>3
<1>7. CASE h # cmd.g /\ h \in cmd.covers
  <2>1. ASSUME NEW u \in Group!Labelled(h)
        PROVE  /\ Group!BundleOf(u) \in Group!Rests(cmd) /\ u \in cmd.sources[Group!BundleOf(u)].rest
               /\ h \in cmd.sources[Group!BundleOf(u)].covers
               /\ Home(cmd, u) = cmd.sources[Group!BundleOf(u)].restId
    <3>1. u \in UNION {Group!Labelled(k) : k \in cmd.covers}
      BY <1>7
    <3>2. PICK b \in S : u \in cmd.sources[b].rest
      BY <3>1 DEF Covered
    <3>3. Group!BundleOf(u) = b
      BY <1>4, <3>2
    <3>4. u \notin cmd.sources[b].selected
      BY <3>2 DEF Splits
    <3>5. h \in cmd.sources[b].covers
      BY <1>7, <3>2 DEF Covered
    <3> QED
      BY <3>2, <3>3, <3>4, <3>5 DEF Home, Group!Rests
  <2>2. roots[h] \ S = {}
    BY <1>2, <2>1 DEF Group!Rests
  <2> DEFINE rests == {cmd.sources[b].restId : b \in {c \in Group!Rests(cmd) : h \in cmd.sources[c].covers}}
  <2>3. homes \subseteq rests
    BY <2>1
  <2>4. ASSUME NEW b \in Group!Rests(cmd), h \in cmd.sources[b].covers PROVE cmd.sources[b].restId \in homes
    <3>1. b \in S
      BY DEF Group!Rests
    <3>2. PICK u \in Group!Labelled(h) : u \in cmd.sources[b].rest
      BY <2>4, <3>1 DEF Covered
    <3>3. Group!BundleOf(u) = b
      BY <1>4, <3>1, <3>2
    <3> QED
      BY <2>1, <3>2, <3>3
  <2>5. rests \subseteq homes
    BY <2>4
  <2> HIDE DEF homes, rests
  <2>6. homes = rests
    BY <2>3, <2>5
  <2> QED
    BY <1>1, <1>7, <2>2, <2>6 DEF rests
<1>8. CASE h # cmd.g /\ h \notin cmd.covers
  <2>1. ASSUME NEW u \in Group!Labelled(h) PROVE Home(cmd, u) = Group!BundleOf(u)
    <3>1. u \in Units /\ label[u] = h
      BY DEF Group!Labelled
    <3>2. u \notin Group!Labelled(cmd.g) /\ u \notin UNION {Group!Labelled(k) : k \in cmd.covers}
      BY <1>8, <3>1 DEF Group!Labelled
    <3>3. Group!BundleOf(u) \notin S
      <4>1. ASSUME Group!BundleOf(u) \in S PROVE FALSE
        <5>1. u \in cmd.sources[Group!BundleOf(u)].rest
          BY <1>3, <1>5, <3>1, <3>2, <4>1
        <5>2. u \in UNION {cmd.sources[b].rest : b \in DOMAIN cmd.sources}
          BY <4>1, <5>1
        <5> QED
          BY <3>2, <5>2 DEF Covered
      <4> QED
        BY <4>1
    <3> QED
      BY <3>3 DEF Home
  <2>2. homes = roots[h]
    BY <1>2, <2>1
  <2> QED
    BY <1>1, <1>8, <2>2
<1> QED
  BY <1>6, <1>7, <1>8

LEMMA AppliedLabels ==
  ASSUME Group!WorkGroupAssumption, HeldSound, LabelSound, HeldSound', NEW cmd, Splits(cmd), Named(cmd),
         cmd.kind = "group" => Covered(cmd), Applied(cmd), Group!Apply(cmd), label' = label
  PROVE  LabelSound' /\ \A h \in Groups : ver'[h].members = ver[h].members
<1>1. label \in [Units -> Groups] /\ ver \in [Groups -> Version]
      /\ roots = [g \in Groups |-> Group!RootsOf(g, label, held)]
  BY DEF LabelSound
<1>2. CASE cmd.kind # "group"
  <2>1. ver' = ver /\ roots' = [h \in Groups |-> Group!RootsOf(h, label, held')]
    BY <1>2 DEF Group!Apply
  <2> QED
    BY <1>1, <2>1 DEF LabelSound, Group!RootsOf
<1>3. CASE cmd.kind = "group"
  <2>1. /\ ver' = [h \in Groups |-> IF h \in cmd.covers \cup {cmd.g} THEN [ver[h] EXCEPT !.entity = @ + 1]
                                                                     ELSE ver[h]]
        /\ roots' = [h \in Groups |->
              IF h = cmd.g THEN {cmd.transfer}
              ELSE IF h \in cmd.covers
                   THEN (roots[h] \ DOMAIN cmd.sources) \cup
                        {cmd.sources[b].restId : b \in {c \in Group!Rests(cmd) : h \in cmd.sources[c].covers}}
              ELSE roots[h]]
    BY <1>3 DEF Group!Apply
  <2>2. \A h \in Groups : roots'[h] = Group!RootsOf(h, label, held')
    BY <1>3, <2>1, AppliedRoots
  <2>3. roots' = [h \in Groups |-> Group!RootsOf(h, label, held')]
    BY <2>1, <2>2
  <2>4. \A h \in Groups : ver'[h] \in Version /\ ver'[h].members = ver[h].members
    <3> SUFFICES ASSUME NEW h \in Groups PROVE ver'[h] \in Version /\ ver'[h].members = ver[h].members
      OBVIOUS
    <3>1. ver[h] \in Version
      BY <1>1
    <3>2. [ver[h] EXCEPT !.entity = @ + 1]
            = [entity |-> ver[h].entity + 1, members |-> ver[h].members, label |-> ver[h].label]
      BY <3>1 DEF Version
    <3>3. ver'[h] = IF h \in cmd.covers \cup {cmd.g} THEN [ver[h] EXCEPT !.entity = @ + 1] ELSE ver[h]
      BY <2>1
    <3>4. [entity |-> ver[h].entity + 1, members |-> ver[h].members, label |-> ver[h].label] \in Version
      BY <3>1 DEF Version
    <3> QED
      BY <3>1, <3>2, <3>3, <3>4
  <2>5. ver' \in [Groups -> Version]
    BY <2>1, <2>4
  <2> QED
    BY <1>1, <2>3, <2>4, <2>5 DEF LabelSound, Group!RootsOf
<1> QED
  BY <1>2, <1>3

LEMMA AppliedOnward ==
  ASSUME HeldSound, LabelSound, NEW cmd, Splits(cmd), Applied(cmd), label' = label,
         \A h \in Groups : ver'[h].members = ver[h].members
  PROVE  Onward
<1>1. ASSUME NEW b \in DOMAIN held
      PROVE  /\ b \in DOMAIN held' /\ held[b].ver <= held'[b].ver
             /\ held'[b].ver = held[b].ver => held'[b] = held[b]
             /\ b[1] = "trf" => held'[b].members = held[b].members
  <2>1. held[b].ver \in Nat /\ b \in DOMAIN held'
    BY DEF HeldSound, Bundle, Applied
  <2>2. CASE b \in DOMAIN cmd.sources
    <3>1. held'[b] = [members |-> held[b].members, ver |-> held[b].ver + 1, live |-> FALSE]
      BY <2>2 DEF Applied
    <3>2. held'[b].members = held[b].members /\ held'[b].ver = held[b].ver + 1
      BY <3>1
    <3> QED
      BY <2>1, <3>2
  <2>3. CASE b \notin DOMAIN cmd.sources
    BY <2>1, <2>3 DEF Applied
  <2> QED
    BY <2>2, <2>3
<1>2. \A h \in Groups : ver[h].members \in Nat
  BY DEF LabelSound, Version
<1>3. \A h : Group!Labelled(h)' = Group!Labelled(h)
  BY DEF Group!Labelled
<1> QED
  BY <1>1, <1>2, <1>3 DEF Onward

(* What the ledger reports is what the command says.                       *)
LEMMA ReceiptWritten ==
  ASSUME HeldSound, LabelSound, NEW cmd, CommandSound(cmd), Group!Current(cmd)
  PROVE  Group!Receipt(cmd) = Written(cmd) /\ Group!Receipt(cmd) # Group!Nothing
<1>1. \A b \in DOMAIN cmd.sources : held[b].ver = cmd.versions.bundle[b]
  BY DEF CommandSound, Group!Current
<1>2. cmd.kind = "group" => \A h \in cmd.covers \cup {cmd.g} : ver[h].entity = cmd.versions.group[h].entity
  BY DEF CommandSound, Group!Current
<1> DEFINE D == DOMAIN cmd.sources
           group == cmd.kind = "group"
           vs == [b \in D \cup {cmd.transfer} \cup {cmd.sources[c].restId : c \in Group!Rests(cmd)} |->
                    IF b \in D THEN held[b].ver + 1 ELSE 1]
           ws == [b \in D \cup {cmd.transfer} \cup {cmd.sources[c].restId : c \in Group!Rests(cmd)} |->
                    IF b \in D THEN cmd.versions.bundle[b] + 1 ELSE 1]
           vg == IF group THEN [h \in cmd.covers \cup {cmd.g} |-> ver[h].entity + 1] ELSE [h \in {} |-> 0]
           wg == IF group THEN [h \in cmd.covers \cup {cmd.g} |-> cmd.versions.group[h].entity + 1]
                          ELSE [h \in {} |-> 0]
           vm == IF group THEN [b \in D |-> [after |-> held[b].ver + 1, selected |-> cmd.sources[b].selected,
                                             rest |-> cmd.sources[b].rest]]
                          ELSE [b \in {} |-> 0]
           wm == IF group THEN [b \in D |-> [after |-> cmd.versions.bundle[b] + 1,
                                             selected |-> cmd.sources[b].selected, rest |-> cmd.sources[b].rest]]
                          ELSE [b \in {} |-> 0]
           rs == {<<cmd.sources[b].restId, cmd.sources[b].rest>> : b \in Group!Rests(cmd)}
           rt == IF group THEN {<<cmd.g, cmd.transfer>>} \cup
                               UNION {{<<h, cmd.sources[b].restId>> : h \in cmd.sources[b].covers} : b \in Group!Rests(cmd)}
                          ELSE {}
           seal == [bundle |-> cmd.transfer, members |-> cmd.members, qr |-> TRUE]
<1>3. vs = ws
  BY <1>1
<1>4. vg = wg
  BY <1>2
<1>5. vm = wm
  BY <1>1
<1>6. Group!Receipt(cmd) = [kind |-> "receipt", header |-> TRUE, atomic |-> TRUE, transfer |-> cmd.transfer,
                      members |-> cmd.members, versions |-> vs, groups |-> vg, moved |-> vm, rests |-> rs,
                      roots |-> rt, seal |-> seal]
  BY Zenon DEF Group!Receipt
<1>7. Written(cmd) = [kind |-> "receipt", header |-> TRUE, atomic |-> TRUE, transfer |-> cmd.transfer,
                      members |-> cmd.members, versions |-> ws, groups |-> wg, moved |-> wm, rests |-> rs,
                      roots |-> rt, seal |-> seal]
  BY Zenon DEF Written, Group!ExpectedRests
<1> HIDE DEF vs, ws, vg, wg, vm, wm, rs, rt, seal
<1>8. Group!Receipt(cmd) = Written(cmd)
  BY <1>3, <1>4, <1>5, <1>6, <1>7, Zenon
<1>9. Group!Receipt(cmd).kind = "receipt"
  BY <1>6
<1> QED
  BY <1>8, <1>9 DEF Group!Nothing

LEMMA CommitStep ==
  ASSUME Group!WorkGroupAssumption, GroupInv, NEW st \in Stations, Group!Commit(st)
  PROVE  GroupInv'
<1> DEFINE t == client[st]
<1> PICK cmd : cmd = client[st].cmd
  OBVIOUS
<1>1. t.pc = "bound" /\ ledger[st] = Group!Nothing /\ moves' = moves /\ groupFaults' = groupFaults
  BY DEF Group!Commit
<1>2. /\ CommandSound(cmd) /\ cmd.g = t.paper.g /\ cmd.members = t.scans
      /\ t.paper.g \in Groups /\ t.contract = Group!Nothing /\ cmd # Group!Nothing
      /\ t = [pc |-> t.pc, paper |-> t.paper, pre |-> t.pre, scans |-> t.scans, cmd |-> t.cmd,
              contract |-> t.contract]
  BY <1>1 DEF GroupInv, StationSound
<1>3. HeldSound /\ LabelSound
  BY DEF GroupInv
<1>4. CASE ~Group!Current(cmd)
  <2> DEFINE n == [t EXCEPT !.pc = "review"]
  <2>1. Group!Set(st, n) /\ UNCHANGED <<Group!central, moves>>
    BY <1>1, <1>4 DEF Group!Commit
  <2>2. n = [pc |-> "review", paper |-> t.paper, pre |-> t.pre, scans |-> t.scans, cmd |-> t.cmd,
             contract |-> t.contract]
    BY <1>2
  <2>3. client'[st] = n
    BY <2>1, TrayOf
  <2>4. ledger' = ledger /\ groupFaults' \in Nat
    BY <1>1, <2>1 DEF Group!central, GroupInv
  <2> HIDE DEF n, t
  <2>5. StationSound(st)'
    BY <1>1, <1>2, <2>2, <2>3, <2>4 DEF StationSound
  <2> QED
    BY <1>1, <2>1, <2>4, <2>5, StationStep
<1>5. CASE Group!Current(cmd)
  <2>1. Group!Apply(cmd) /\ ledger' = [ledger EXCEPT ![st] = Group!Receipt(cmd)] /\ label' = label /\ client' = client
    BY <1>5 DEF Group!Commit
  <2>2. Splits(cmd) /\ Named(cmd) /\ (cmd.kind = "group" => Covered(cmd))
    BY <1>2, <1>3, <1>5, CommitReady
  <2>3. Applied(cmd)
    BY <1>3, <2>1, <2>2, AppliedHeld
  <2>4. HeldSound'
    BY <1>3, <2>2, <2>3, AppliedSound
  <2>5. LabelSound' /\ \A h \in Groups : ver'[h].members = ver[h].members
    BY <1>3, <2>1, <2>2, <2>3, <2>4, AppliedLabels
  <2>6. Onward
    BY <1>3, <2>1, <2>2, <2>3, <2>5, AppliedOnward
  <2>7. Group!Receipt(cmd) = Written(cmd) /\ Group!Receipt(cmd) # Group!Nothing
    BY <1>2, <1>3, <1>5, ReceiptWritten
  <2>8. /\ ledger' = [o \in Stations |-> IF o = st THEN Written(cmd) ELSE ledger[o]]
        /\ Written(cmd) # Group!Nothing
    BY <2>1, <2>7 DEF GroupInv
  <2>9. cmd.transfer \notin DOMAIN held /\ cmd.transfer[1] = "trf"
    BY <1>3, <2>2, TransferFresh
  <2>10. SealSound(st)'
    <3>1. cmd.transfer \in DOMAIN held' /\ held'[cmd.transfer].members = cmd.members
      <4>1. cmd.transfer \in DOMAIN held'
        BY <2>3 DEF Applied, NewIds
      <4>2. held'[cmd.transfer] = [members |-> cmd.members, ver |-> 1, live |-> TRUE]
        BY <2>3 DEF Applied
      <4> QED
        BY <4>1, <4>2
    <3>2. Group!Labelled(t.paper.g)' = cmd.members /\ t.paper.g \in Groups
      <4>1. Group!Labelled(cmd.g) = cmd.members
        BY <2>2 DEF Named
      <4> QED
        BY <1>2, <2>1, <4>1 DEF Group!Labelled
    <3>3. cmd.kind \in {"group", "tag"}
      BY <2>2 DEF Named
    <3>4. \A b \in DOMAIN cmd.sources : cmd.sources[b].selected # {} /\ cmd.versions.bundle[b] \in Nat
      BY <1>2 DEF CommandSound
    <3>5. \A h \in cmd.covers \cup {cmd.g} : cmd.kind = "group" => cmd.versions.group[h].entity \in Nat
      BY <1>2 DEF CommandSound, Version
    <3>6. client'[st] = t /\ cmd = client'[st].cmd
      BY <2>1
    <3>7. ledger'[st] = Written(cmd)
      BY <2>8
    <3>8. Written(client[st].cmd)' = Written(cmd)
      BY <3>6 DEF Written, Group!Rests, Group!ExpectedRests
    <3> QED
      BY <1>2, <2>9, <3>1, <3>2, <3>3, <3>4, <3>5, <3>6, <3>7, <3>8 DEF SealSound
  <2>11. ASSUME NEW o \in Stations PROVE StationSound(o)'
    <3>1. CASE o = st
      <4>1. client'[st] = t /\ ledger'[st] # Group!Nothing
        BY <2>1, <2>8
      <4> QED
        BY <1>1, <1>2, <2>10, <3>1, <4>1 DEF StationSound
    <3>2. CASE o # st
      <4>1. client'[o] = client[o] /\ ledger'[o] = ledger[o]
        BY <2>1, <2>8, <3>2
      <4> QED
        BY <1>3, <2>4, <2>5, <2>6, <4>1, StationKept DEF GroupInv
    <3> QED
      BY <3>1, <3>2
  <2>12. ASSUME NEW o \in Stations, ledger[o] # Group!Nothing PROVE client[o].cmd.transfer # cmd.transfer
    <3>1. client[o].cmd.transfer \in DOMAIN held
      BY <2>12 DEF GroupInv, StationSound, SealSound
    <3> QED
      BY <2>9, <3>1
  <2>13. \A p, o \in Stations :
           ledger'[p] # Group!Nothing /\ ledger'[o] # Group!Nothing
             /\ client'[p].cmd.transfer = client'[o].cmd.transfer => p = o
    <3> SUFFICES ASSUME NEW p \in Stations, NEW o \in Stations, ledger'[p] # Group!Nothing, ledger'[o] # Group!Nothing,
                        client'[p].cmd.transfer = client'[o].cmd.transfer
                 PROVE  p = o
      OBVIOUS
    <3>1. /\ p # st => ledger[p] # Group!Nothing /\ client[p].cmd.transfer # cmd.transfer
          /\ o # st => ledger[o] # Group!Nothing /\ client[o].cmd.transfer # cmd.transfer
      BY <2>8, <2>12
    <3>2. client[p].cmd.transfer = client[o].cmd.transfer
      BY <2>1
    <3>3. CASE p # st /\ o # st
      BY <3>1, <3>2, <3>3 DEF GroupInv
    <3>4. CASE p = st \/ o = st
      BY <3>1, <3>2, <3>4
    <3> QED
      BY <3>3, <3>4
  <2>14. client' = [o \in Stations |-> client'[o]] /\ ledger' = [o \in Stations |-> ledger'[o]]
         /\ moves' \in Nat /\ groupFaults' \in Nat
    BY <1>1, <2>1, <2>8 DEF GroupInv
  <2> QED
    BY <2>4, <2>5, <2>11, <2>13, <2>14 DEF GroupInv
<1> QED
  BY <1>4, <1>5

LEMMA GroupNext ==
  ASSUME Group!WorkGroupAssumption, GroupInv, Group!Next
  PROVE  GroupInv'
<1>1. ASSUME NEW u \in Units, NEW g \in Groups, Group!Relabel(u, g) PROVE GroupInv'
  BY <1>1, RelabelStep
<1>2. ASSUME NEW g \in Groups, Group!Reprint(g) PROVE GroupInv'
  BY <1>2, ReprintStep
<1>3. ASSUME NEW u \in Units, NEW v \in Units, Group!Exchange(u, v) PROVE GroupInv'
  BY <1>3, UnitsExchanged
<1>4. ASSUME NEW st \in Stations, NEW g \in Groups, NEW lbl \in 1 .. ver[g].label,
             NEW a \in Group!Answers([g |-> g, lbl |-> lbl]), Group!OpenTray(st, g, lbl, a)
      PROVE  GroupInv'
  BY <1>4, OpenTrayStep
<1>5. ASSUME NEW st \in Stations, NEW scans \in SUBSET client[st].pre, Group!CompleteTray(st, scans)
      PROVE  GroupInv'
  BY <1>5, CompleteTrayStep
<1>6. ASSUME NEW st \in Stations, client[st].pc = "intent", NEW a \in Group!Answers(client[st].paper), Group!Build(st, a)
      PROVE  GroupInv'
  BY <1>6, BuildStep
<1>7. ASSUME NEW st \in Stations, Group!Commit(st) PROVE GroupInv'
  BY <1>7, CommitStep
<1>8. ASSUME NEW st \in Stations, ledger[st] # Group!Nothing, NEW r \in Group!Receipts(st), Group!TakeReceipt(st, r)
      PROVE  GroupInv'
  BY <1>8, TakeReceiptStep
<1>9. ASSUME NEW st \in Stations, Group!Recheck(st) PROVE GroupInv'
  BY <1>9, RecheckStep
<1> QED
  BY <1>1, <1>2, <1>3, <1>4, <1>5, <1>6, <1>7, <1>8, <1>9 DEF Group!Next

LEMMA GroupStutter ==
  ASSUME GroupInv, UNCHANGED Group!vars
  PROVE  GroupInv'
<1>1. UNCHANGED Group!central /\ client' = client /\ ledger' = ledger /\ moves' = moves /\ groupFaults' = groupFaults
  BY DEF Group!vars, Group!central
<1>2. HeldSound' /\ LabelSound' /\ Onward
  BY <1>1, CentralSame DEF GroupInv
<1> QED
  BY <1>1, <1>2, CentralStep DEF GroupInv

(* What the invariant says of each property.                               *)
LEMMA InvTypeOK == ASSUME GroupInv PROVE Group!WorkGroupTypeOK
<1>1. \A b \in DOMAIN held : held[b].members \subseteq Units /\ held[b].ver >= 1 /\ held[b].live \in BOOLEAN
  BY DEF GroupInv, HeldSound, Bundle
<1>2. label \in [Units -> Groups]
  BY DEF GroupInv, LabelSound
<1>3. \A g \in Groups : roots[g] \subseteq DOMAIN held
  BY DEF GroupInv, LabelSound, Group!RootsOf
<1>4. ASSUME NEW st \in Stations
      PROVE  LET t == client[st] IN
             /\ t.pc \in {"idle", "scanning", "intent", "bound", "sealed", "review"}
             /\ t.pc \in {"bound", "sealed"} => t.cmd # Group!Nothing
             /\ t.pc = "sealed" <=> t.contract # Group!Nothing
  BY DEF GroupInv, StationSound
<1> QED
  BY <1>1, <1>2, <1>3, <1>4 DEF Group!WorkGroupTypeOK

LEMMA InvUnitsOnce == ASSUME GroupInv PROVE Group!UnitsOnce
<1> SUFFICES ASSUME NEW u \in Units
             PROVE  Cardinality({b \in DOMAIN held : held[b].live /\ u \in held[b].members}) = 1
  BY SameCardinality DEF Group!UnitsOnce
<1>1. {b \in DOMAIN held : held[b].live /\ u \in held[b].members} = {Group!BundleOf(u)}
  BY BundleFacts DEF GroupInv
<1> QED
  BY <1>1, FS_Singleton

LEMMA InvSealed == ASSUME GroupInv PROVE Group!RootsRight /\ Group!SealedAsScanned /\ Group!ContractTrue
<1>1. Group!RootsRight
  BY DEF GroupInv, LabelSound, Group!RootsRight
<1>2. Group!SealedAsScanned
  BY DEF GroupInv, StationSound, SealSound, Group!SealedAsScanned
<1>3. Group!ContractTrue
  BY DEF GroupInv, StationSound, Group!ContractTrue
<1> QED
  BY <1>1, <1>2, <1>3

(* The true answer for a closed label passes every check of the group's    *)
(* route,                                                                  *)
LEMMA ClosedGroup ==
  ASSUME GroupInv, NEW g \in Groups, Group!Sealable(g), Group!Closed(g), NEW sheet, sheet.g = g,
         sheet.lbl = ver[g].label
  PROVE  Group!GroupAccepted(sheet, Group!Answer(sheet))
<1> DEFINE a == Group!Answer(sheet)
           group == Group!Labelled(g)
           sources == {Group!BundleOf(u) : u \in group}
           rest == UNION {held[b].members \ group : b \in sources}
           covers == {h \in Groups : h # g /\ Group!Labelled(h) \cap rest # {}}
           bvers == [b \in sources \cup {Group!TransferId(g, group)} |-> IF b \in sources THEN held[b].ver ELSE 0]
           gvers == [h \in covers \cup {g} |-> ver[h]]
           cvs == [h \in covers |-> [proof |-> ProofOf(h), covered |-> Group!Labelled(h) \cap rest]]
           src == [b \in sources |->
                        [full |-> held[b].members, selected |-> held[b].members \cap group,
                         rest |-> held[b].members \ group, ver |-> held[b].ver,
                         restId |-> Group!RemainderId(b, held[b].members \ group),
                         covers |-> {h \in covers : Group!Labelled(h) \cap (held[b].members \ group) # {}}]]
<1>1. /\ a.count = 1 /\ a.item = TRUE /\ a.anchor = g /\ a.complete = TRUE /\ a.kind = "ACTIVE"
      /\ a.active = [number |-> 1, label |-> ver[g].label, members |-> group]
      /\ a.group = ProofOf(g) /\ a.rows = group /\ a.good = TRUE /\ a.tags = sources
      /\ a.transfer = Group!TransferId(g, group)
  BY DEF Group!Answer, ProofOf
<1>2. a.sources = src
  BY DEF Group!Answer
<1>3. a.covers = cvs
  BY DEF Group!Answer, ProofOf
<1>4. a.versions = [group |-> gvers, bundle |-> bvers]
  BY DEF Group!Answer
<1> HIDE DEF a
<1>5. HeldSound /\ LabelSound /\ group \subseteq Units /\ group # {}
      /\ \A u \in group : Group!BundleOf(u)[1] # "trf"
  BY DEF GroupInv, Group!Sealable, Group!Labelled
<1>6. \A b \in sources : /\ b \in DOMAIN held /\ held[b].live /\ b[1] # "trf" /\ held[b] \in Bundle
                         /\ \E u \in group : u \in held[b].members
  <2> SUFFICES ASSUME NEW u \in group
               PROVE  /\ Group!BundleOf(u) \in DOMAIN held /\ held[Group!BundleOf(u)].live
                      /\ Group!BundleOf(u)[1] # "trf" /\ held[Group!BundleOf(u)] \in Bundle
                      /\ \E v \in group : v \in held[Group!BundleOf(u)].members
    OBVIOUS
  <2>1. /\ Group!BundleOf(u) \in DOMAIN held /\ held[Group!BundleOf(u)].live /\ u \in held[Group!BundleOf(u)].members
    BY <1>5, BundleFacts
  <2> QED
    BY <1>5, <2>1 DEF HeldSound
<1>7. label \in [Units -> Groups] /\ ver \in [Groups -> Version]
  BY <1>5 DEF LabelSound
<1>8. rest \subseteq Units
  BY <1>6 DEF Bundle
<1>9. \A h \in covers : Group!Labelled(h) \subseteq rest /\ Group!Labelled(h) # {}
  <2> SUFFICES ASSUME NEW h \in covers PROVE Group!Labelled(h) \subseteq rest /\ Group!Labelled(h) # {}
    OBVIOUS
  <2>1. PICK u : u \in Group!Labelled(h) /\ u \in rest
    OBVIOUS
  <2>2. label[u] = h
    BY <2>1 DEF Group!Labelled
  <2>3. {held[Group!BundleOf(v)].members \ group : v \in group} = {held[b].members \ group : b \in sources}
    OBVIOUS
  <2>4. rest = UNION {held[Group!BundleOf(v)].members \ group : v \in group}
    BY <2>3
  <2>5. Group!Labelled(label[u]) \subseteq rest
    BY <2>1, <2>4 DEF Group!Closed
  <2> QED
    BY <2>1, <2>2, <2>5
<1>10. \A h \in Groups : ver[h].entity >= 1 /\ ver[h].members >= 1 /\ ver[h].label >= 1
  BY <1>7 DEF Version
<1>11. \A h \in covers \cup {g} : Group!ProofOK(ProofOf(h))
  BY <1>5, <1>9, <1>10 DEF Group!ProofOK, ProofOf, Group!MembersOK, Group!VersionOK
<1>12. Group!OneTopology(a) /\ Group!AnchorMatches(sheet, a) /\ Group!LabelResolved(sheet, a)
  BY <1>1 DEF Group!OneTopology, Group!AnchorMatches, Group!LabelResolved
<1>13. Group!GroupIsPaper(sheet, a)
  BY <1>1, <1>11 DEF Group!GroupIsPaper, ProofOf
<1>14. Group!RowsExact(a)
  BY <1>1, <1>5 DEF Group!RowsExact, ProofOf, Group!MembersOK
<1>15. Group!SourcesPartition(a)
  <2>1. sources # {}
    BY <1>5
  <2>2. ASSUME NEW b \in sources
        PROVE  /\ held[b].ver >= 1 /\ held[b].members # {} /\ held[b].members \cap group # {}
               /\ \A c \in sources \ {b} : held[b].members \cap held[c].members = {}
    <3>1. /\ b \in DOMAIN held /\ held[b].live /\ held[b] \in Bundle
          /\ \E u \in group : u \in held[b].members
      BY <1>6
    <3>2. held[b].ver >= 1 /\ held[b].members # {} /\ held[b].members \cap group # {}
      BY <3>1 DEF Bundle
    <3>3. ASSUME NEW c \in sources \ {b}, NEW u, u \in held[b].members, u \in held[c].members PROVE FALSE
      <4>1. c \in DOMAIN held /\ held[c].live
        BY <1>6
      <4>2. u \in Units
        BY <3>1, <3>3 DEF Bundle
      <4> QED
        BY <1>5, <3>1, <3>3, <4>1, <4>2 DEF HeldSound
    <3> QED
      BY <3>2, <3>3
  <2>3. \A b \in sources :
          /\ src[b].ver = held[b].ver /\ src[b].full = held[b].members
          /\ src[b].selected = held[b].members \cap group /\ src[b].rest = held[b].members \ group
          /\ src[b].restId = Group!RemainderId(b, held[b].members \ group)
          /\ src[b].covers = {h \in covers : Group!Labelled(h) \cap (held[b].members \ group) # {}}
    OBVIOUS
  <2>4. DOMAIN a.sources = sources /\ a.sources = src
    BY <1>2
  <2> HIDE DEF src, sources, covers
  <2>5. ASSUME NEW b \in sources
        PROVE  LET s == a.sources[b] IN
          /\ Group!VersionOK(s.ver) /\ Group!MembersOK(s.full) /\ Group!MembersOK(s.selected)
          /\ s.full = s.selected \cup s.rest
          /\ s.selected \cap s.rest = {}
          /\ s.restId = Group!RemainderId(b, s.rest)
          /\ s.rest = {} => s.covers = {}
          /\ \A c \in DOMAIN a.sources \ {b} : s.full \cap a.sources[c].full = {}
    <3>0. /\ a.sources[b].ver = held[b].ver /\ a.sources[b].full = held[b].members
          /\ a.sources[b].selected = held[b].members \cap group
          /\ a.sources[b].rest = held[b].members \ group
          /\ a.sources[b].restId = Group!RemainderId(b, held[b].members \ group)
      BY <2>3, <2>4
    <3>4. a.sources[b].full = a.sources[b].selected \cup a.sources[b].rest
          /\ a.sources[b].selected \cap a.sources[b].rest = {}
      <4> HIDE DEF group
      <4> QED
        BY <3>0
    <3>1. /\ a.sources[b].ver >= 1 /\ a.sources[b].full # {} /\ a.sources[b].selected # {}
          /\ a.sources[b].full = a.sources[b].selected \cup a.sources[b].rest
          /\ a.sources[b].selected \cap a.sources[b].rest = {}
          /\ a.sources[b].restId = Group!RemainderId(b, a.sources[b].rest)
      BY <2>2, <3>0, <3>4
    <3>2. a.sources[b].rest = {} => a.sources[b].covers = {}
      BY <2>3, <2>4
    <3>3. \A c \in DOMAIN a.sources \ {b} : a.sources[b].full \cap a.sources[c].full = {}
      <4>1. \A c \in sources : a.sources[c].full = held[c].members
        BY <2>3, <2>4
      <4> HIDE DEF group
      <4> QED
        BY <2>2, <2>4, <4>1
    <3> QED
      BY <3>1, <3>2, <3>3 DEF Group!VersionOK, Group!MembersOK
  <2> QED
    BY <2>1, <2>4, <2>5 DEF Group!SourcesPartition
<1>16. Group!SourcesCoverGroup(a)
  <2>1. \A b \in sources : a.sources[b].selected = held[b].members \cap group
    BY <1>2
  <2>2. \A u \in group : Group!BundleOf(u) \in sources /\ u \in held[Group!BundleOf(u)].members
    BY <1>5, BundleFacts
  <2>3. DOMAIN a.sources = sources
    BY <1>2
  <2>4. a.group.members = group
    BY <1>1 DEF ProofOf
  <2> HIDE DEF sources, src
  <2> QED
    BY <2>1, <2>2, <2>3, <2>4 DEF Group!SourcesCoverGroup
<1>17. \A h \in covers : a.covers[h].proof = ProofOf(h) /\ a.covers[h].covered = Group!Labelled(h)
  BY <1>3, <1>9
<1>18. DOMAIN a.covers = covers
  BY <1>3
<1>19. Group!CoversWhole(sheet, a)
  <2>1. \A h, k \in covers : h # k => Group!Labelled(h) \cap Group!Labelled(k) = {}
    BY DEF Group!Labelled
  <2>2. \A h \in covers : h # g /\ Group!ProofOK(ProofOf(h)) /\ ProofOf(h).members = Group!Labelled(h) /\ Group!Labelled(h) # {}
    BY <1>9, <1>11 DEF ProofOf
  <2> HIDE DEF covers
  <2> QED
    BY <1>17, <1>18, <2>1, <2>2 DEF Group!CoversWhole, Group!MembersOK
<1>20. Group!CoversClose(a)
  <2>1. DOMAIN a.sources = sources /\ \A b \in sources : a.sources[b].rest = held[b].members \ group
    BY <1>2
  <2>2. UNION {a.sources[b].rest : b \in DOMAIN a.sources} = rest
    BY <2>1
  <2>3. \A u \in rest : label[u] \in covers /\ u \in Group!Labelled(label[u])
    <3> SUFFICES ASSUME NEW u \in rest PROVE label[u] \in covers /\ u \in Group!Labelled(label[u])
      OBVIOUS
    <3>1. u \in Units /\ u \notin group
      BY <1>8
    <3>2. u \in Group!Labelled(label[u]) /\ label[u] \in Groups /\ label[u] # g
      BY <1>7, <3>1 DEF Group!Labelled
    <3> QED
      BY <3>2
  <2>4. UNION {a.covers[h].covered : h \in DOMAIN a.covers} = rest
    <3> HIDE DEF rest, covers
    <3> QED
      BY <1>9, <1>17, <1>18, <2>3
  <2>5. \A b \in sources : a.sources[b].covers = {h \in covers : Group!Labelled(h) \cap (held[b].members \ group) # {}}
    BY <1>2
  <2> HIDE DEF sources, rest, covers, src
  <2>6. \A b \in DOMAIN a.sources :
          a.sources[b].covers = {h \in DOMAIN a.covers : a.covers[h].covered \cap a.sources[b].rest # {}}
    BY <1>17, <1>18, <2>1, <2>5
  <2> QED
    BY <2>2, <2>4, <2>6 DEF Group!CoversClose
<1>21. Group!TagsMatch(a) /\ Group!TransferNamed(sheet, a)
  BY <1>1, <1>2 DEF Group!TagsMatch, Group!TransferNamed, ProofOf
<1>22. Group!VersionsExact(sheet, a)
  <2>1. DOMAIN a.versions.group = covers \cup {g} /\ \A h \in covers \cup {g} : a.versions.group[h] = ver[h]
    BY <1>4
  <2>2. DOMAIN a.versions.bundle = sources \cup {a.transfer} /\ a.transfer \notin sources
    <3>1. a.transfer[1] = "trf"
      BY <1>1 DEF Group!TransferId
    <3>2. \A b \in sources : b[1] # "trf"
      BY <1>6
    <3>3. DOMAIN a.versions.bundle = sources \cup {a.transfer}
      BY <1>1, <1>4
    <3> QED
      BY <3>1, <3>2, <3>3
  <2>3. \A b \in DOMAIN a.versions.bundle : a.versions.bundle[b] = IF b \in sources THEN held[b].ver ELSE 0
    BY <1>4
  <2>4. \A b \in sources : a.sources[b].ver = held[b].ver
    BY <1>2
  <2>5. DOMAIN a.sources = sources
    BY <1>2
  <2>6. \A h \in covers \cup {g} : ver[h] = [entity |-> ProofOf(h).entity, members |-> ProofOf(h).membership,
                                            label |-> ProofOf(h).label]
    BY <1>7 DEF Version, ProofOf
  <2>7. \A h \in covers : h # g
    OBVIOUS
  <2> HIDE DEF covers, sources, gvers, bvers, src, cvs
  <2>8. \A h \in DOMAIN a.versions.group :
          LET p == IF h = sheet.g THEN a.group ELSE a.covers[h].proof IN
          a.versions.group[h] = [entity |-> p.entity, members |-> p.membership, label |-> p.label]
    <3> SUFFICES ASSUME NEW h \in DOMAIN a.versions.group
                 PROVE  LET p == IF h = sheet.g THEN a.group ELSE a.covers[h].proof IN
                        a.versions.group[h] = [entity |-> p.entity, members |-> p.membership, label |-> p.label]
      OBVIOUS
    <3>1. (IF h = sheet.g THEN a.group ELSE a.covers[h].proof) = ProofOf(h)
      BY <1>1, <1>17, <2>1
    <3>2. a.versions.group[h] = [entity |-> ProofOf(h).entity, members |-> ProofOf(h).membership,
                                 label |-> ProofOf(h).label]
      BY <2>1, <2>6
    <3> QED
      BY <3>1, <3>2
  <2>9. \A b \in DOMAIN a.versions.bundle :
          a.versions.bundle[b] = IF b = a.transfer THEN 0 ELSE a.sources[b].ver
    BY <2>2, <2>3, <2>4
  <2> QED
    BY <1>18, <2>1, <2>2, <2>5, <2>8, <2>9 DEF Group!VersionsExact
<1> QED
  BY <1>12, <1>13, <1>14, <1>15, <1>16, <1>19, <1>20, <1>21, <1>22 DEF Group!GroupAccepted, a

(* and, when one bundle that was never split holds the label, of its own.  *)
LEMMA ClosedTag ==
  ASSUME GroupInv, NEW g \in Groups, Group!Sealable(g), Group!Basis(g) # "group", NEW sheet, sheet.g = g,
         sheet.lbl = ver[g].label
  PROVE  LET a == Group!Answer(sheet) IN Group!TagRegistered(sheet, a) /\ Group!TagSource(sheet, a) /\ Group!TagMembers(a) /\ a.good
<1> DEFINE a == Group!Answer(sheet)
           group == Group!Labelled(g)
           sources == {Group!BundleOf(u) : u \in group}
<1>1. /\ a.count = 1 /\ a.item = TRUE /\ a.anchor = g /\ a.complete = TRUE /\ a.kind = "ACTIVE"
      /\ a.active = [number |-> 1, label |-> ver[g].label, members |-> group]
      /\ a.rows = group /\ a.good = TRUE /\ a.tags = sources
  BY DEF Group!Answer
<1>2. DOMAIN a.sources = sources /\ \A b \in sources : a.sources[b].full = held[b].members
  BY DEF Group!Answer
<1> HIDE DEF a
<1>3. PICK b \in DOMAIN held : held[b].live /\ held[b].members = group
  BY DEF Group!Basis
<1>4. group \subseteq Units /\ group # {}
  BY DEF Group!Sealable, Group!Labelled
<1>5. \A u \in group : Group!BundleOf(u) = b
  BY <1>3, <1>4, BundleFacts DEF GroupInv
<1>6. sources = {b}
  BY <1>4, <1>5
<1>7. Cardinality(DOMAIN a.sources) = 1
  BY <1>2, <1>6, FS_Singleton
<1>8. Group!TagRegistered(sheet, a)
  BY <1>1, <1>7, SameCardinality DEF Group!TagRegistered, Group!AnchorMatches
<1>9. Group!TagSource(sheet, a)
  BY <1>1, <1>2 DEF Group!TagSource, Group!LabelResolved, Group!TagsMatch
<1>10. Group!TagMembers(a)
  BY <1>1, <1>2, <1>3, <1>4, <1>6 DEF Group!TagMembers, Group!MembersOK
<1> QED
  BY <1>1, <1>8, <1>9, <1>10 DEF a

LEMMA InvClosed == ASSUME GroupInv PROVE Group!ClosedAccepted
<1> SUFFICES ASSUME NEW g \in Groups, Group!Sealable(g), Group!Closed(g)
             PROVE  LET sheet == [g |-> g, lbl |-> ver[g].label] IN Group!Accepted(sheet, Group!Answer(sheet))
  BY DEF Group!ClosedAccepted
<1> DEFINE sheet == [g |-> g, lbl |-> ver[g].label]
<1>1. sheet.g = g /\ sheet.lbl = ver[g].label
  OBVIOUS
<1>2. Group!Answer(sheet).basis = Group!Basis(g)
  BY <1>1 DEF Group!Answer
<1> HIDE DEF sheet
<1>3. CASE Group!Basis(g) = "group"
  BY <1>1, <1>2, <1>3, ClosedGroup DEF Group!Accepted, sheet
<1>4. CASE Group!Basis(g) # "group"
  BY <1>1, <1>2, <1>4, ClosedTag DEF Group!Accepted, sheet
<1> QED
  BY <1>3, <1>4

(* No unit is lost or sealed twice, a transfer bundle holds exactly the     *)
(* units that one label lists and one operator scanned, every label's roots *)
(* are where its units are, a contract is recorded only from the receipt    *)
(* the ledger wrote for it, and the checks refuse no closed label.  For any *)
(* number of stations, units, labels and sources, any number of damaged     *)
(* answers and receipts and any changes of labels, papers and bundles.      *)
THEOREM GroupsSealed == LabelsSpec => []GroupSound
<1>1. LabelsInit => GroupInv
  BY LabelsAssumption, GroupStart DEF LabelsInit, LabelsAssumption
<1>2. GroupInv /\ [LabelsNext]_labelsVars => GroupInv'
  <2> SUFFICES ASSUME GroupInv, [LabelsNext]_labelsVars PROVE GroupInv'
    OBVIOUS
  <2>1. Group!Next \/ UNCHANGED Group!vars
    BY DEF LabelsNext, SwapStep, LegacyStep, PhsStep, ReconStep, GroupStep, labelsVars, groupVars, Group!vars
  <2> QED
    BY <2>1, LabelsAssumption, GroupNext, GroupStutter DEF LabelsAssumption
<1>3. GroupInv => GroupSound
  BY InvTypeOK, InvUnitsOnce, InvSealed, InvClosed DEF GroupSound
<1> QED
  BY <1>1, <1>2, <1>3, PTL DEF LabelsSpec
=============================================================================
