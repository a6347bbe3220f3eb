---------------------------- MODULE Records_proofs ----------------------------
(***************************************************************************)
(* Proofs about what is written down on the PC before it is acted on: the  *)
(* outbox of the reviews and markers, and the paired handoff.              *)
(***************************************************************************)
EXTENDS Records, Sequences, FiniteSetTheorems, TLAPS

-----------------------------------------------------------------------------
(* The outbox of reviews and markers.                                      *)

Facts == Box!Facts
LanePcs == {"start", "append", "receipt", "drained", "done", Box!None}
Committed == {f \in Facts : path[f] # 0}
Sheet == [1..Days -> {0, 1}]
Lanes == [task : Box!Tasks \cup {Box!None}, pc : LanePcs, f : Facts \cup {Box!None, Box!Lost},
          todo : SUBSET Facts, bad : BOOLEAN, req : BOOLEAN, stale : BOOLEAN]

BoxTypes ==
  /\ day \in 1..Days /\ path \in [Facts -> 0..Days] /\ rows \in [Facts -> Sheet]
  /\ receipts \subseteq Facts /\ closed \subseteq linked /\ boxActive \subseteq Reviews
  /\ linked \subseteq Reviews
  /\ cases \subseteq Reviews /\ seen \subseteq Markers
  /\ lane \in Lanes /\ required \in BOOLEAN

(* A row is only in the log that its outbox row names, and a receipt       *)
(* follows its row.                                                        *)
RowsSound ==
  /\ \A f \in Facts : \A d \in 1..Days : rows[f][d] > 0 => path[f] = d
  /\ \A f \in receipts : path[f] # 0 /\ rows[f][path[f]] = 1
  /\ boxActive \subseteq Committed

(* The fact that the task works on is committed, its row is in the log     *)
(* before the receipt is, and a marker's task ends well only with one.     *)
LaneSound ==
  /\ lane.todo \subseteq Committed
  /\ lane.pc \in {"append", "receipt"} => lane.f \in Committed
  /\ lane.pc = "receipt" => rows[lane.f][path[lane.f]] = 1
  /\ lane.task \in {"complete", "mark"} => lane.todo = {}
  /\ lane.task = "complete" => lane.f \in Reviews /\ (lane.pc # "start" => lane.f \in linked)
  /\ lane.task = "mark" =>
       lane.f \in Markers /\ (lane.pc = "done" /\ ~lane.bad => lane.f \in receipts)

BoxInv == BoxTypes /\ RowsSound /\ LaneSound /\ seen \subseteq receipts

(* The first commit of a fact.                                             *)
LEMMA CommitKeeps ==
  ASSUME BoxTypes, RowsSound, NEW f \in Facts, Box!Commit(f), UNCHANGED <<rows, receipts>>,
         boxActive' = boxActive \/ boxActive' = boxActive \cup {f}
  PROVE  /\ path' \in [Facts -> 0..Days] /\ RowsSound'
         /\ f \in Committed' /\ Committed \subseteq Committed'
         /\ \A g \in Committed : path'[g] = path[g]
<1>1. CASE path' = path
  BY <1>1 DEF BoxTypes, RowsSound, Box!Commit, Box!NoDay, Committed
<1>2. CASE path[f] = 0 /\ path' = [path EXCEPT ![f] = day]
  <2>1. day \in 1..Days /\ path \in [Facts -> 0..Days] /\ day \in 0..Days /\ day # 0
    BY DEF BoxTypes
  <2>2. /\ path' \in [Facts -> 0..Days] /\ path'[f] = day
        /\ \A g \in Facts : g # f => path'[g] = path[g]
    BY <1>2, <2>1
  <2>3. \A d \in 1..Days : ~(rows[f][d] > 0)
    BY <1>2 DEF RowsSound
  <2>4. f \notin receipts
    BY <1>2 DEF RowsSound
  <2>5. RowsSound'
    BY <1>2, <2>1, <2>2, <2>3, <2>4 DEF RowsSound, BoxTypes, Committed
  <2> QED
    BY <1>2, <2>1, <2>2, <2>5 DEF Committed
<1> QED
  BY <1>1, <1>2 DEF Box!Commit, Box!NoDay

(* The append, whether or not the row is there already.                    *)
LEMMA AppendKeeps ==
  ASSUME BoxTypes, RowsSound, NEW f \in Committed, Box!AppendRow(f), UNCHANGED <<path, receipts, boxActive>>
  PROVE  rows' \in [Facts -> Sheet] /\ RowsSound' /\ rows'[f][path[f]] = 1
<1>1. /\ f \in Facts /\ path[f] \in 1..Days /\ rows \in [Facts -> Sheet] /\ rows[f] \in Sheet
      /\ receipts \subseteq Facts
  BY DEF Committed, BoxTypes
<1>2. CASE rows[f][path[f]] > 0 /\ rows' = rows
  <2>1. rows[f][path[f]] \in {0, 1}
    BY <1>1 DEF Sheet
  <2> QED
    BY <1>1, <1>2, <2>1 DEF RowsSound, Committed
<1>3. CASE rows' = [rows EXCEPT ![f][path[f]] = 1]
  <2>1. rows' = [rows EXCEPT ![f] = [rows[f] EXCEPT ![path[f]] = 1]]
    BY <1>1, <1>3
  <2>2. [rows[f] EXCEPT ![path[f]] = 1] \in Sheet
    BY <1>1 DEF Sheet
  <2>3. rows' \in [Facts -> Sheet] /\ rows'[f][path[f]] = 1
    BY <1>1, <2>1, <2>2 DEF Sheet
  <2>4. \A g \in Facts : \A d \in 1..Days : g # f \/ d # path[f] => rows'[g][d] = rows[g][d]
    BY <1>1, <2>1 DEF Sheet
  <2> QED
    BY <1>1, <2>3, <2>4 DEF RowsSound, BoxTypes, Committed
<1> QED
  BY <1>2, <1>3 DEF Box!AppendRow

(* The steps that leave the store alone.                                   *)
LEMMA StoreRests ==
  ASSUME BoxInv, UNCHANGED <<path, rows, receipts, linked, boxActive>>,
         day' \in 1..Days, required' \in BOOLEAN, closed' \subseteq linked,
         cases' \subseteq Reviews, seen' \subseteq Markers \cap receipts,
         lane' \in Lanes, LaneSound'
  PROVE  BoxInv'
  BY DEF BoxInv, BoxTypes, RowsSound, Committed

LEMMA NewTask ==
  ASSUME NEW t \in Box!Tasks, NEW f \in Facts \cup {Box!None}, NEW r \in BOOLEAN,
         lane' = Box!Task(t, f, r), t = "complete" => f \in Reviews, t = "mark" => f \in Markers
  PROVE  lane' \in Lanes /\ LaneSound'
<1>1. lane' = [task |-> t, pc |-> "start", f |-> f, todo |-> {}, bad |-> FALSE, req |-> r, stale |-> FALSE]
  BY DEF Box!Task, Box!Idle
<1>2. lane' \in Lanes
  BY <1>1 DEF Lanes, LanePcs
<1>3. lane'.task = t /\ lane'.pc = "start" /\ lane'.f = f /\ lane'.todo = {}
  BY <1>1
<1> QED
  BY <1>2, <1>3 DEF LaneSound

LEMMA NoTask == ASSUME lane' = Box!Idle PROVE lane' \in Lanes /\ LaneSound'
<1>1. lane' = [task |-> "none", pc |-> "none", f |-> "none", todo |-> {}, bad |-> FALSE,
               req |-> FALSE, stale |-> FALSE]
  BY DEF Box!Idle, Box!None
<1>2. lane' \in Lanes
  BY <1>1 DEF Lanes, LanePcs, Box!None
<1>3. lane'.task = "none" /\ lane'.pc = "none" /\ lane'.todo = {}
  BY <1>1
<1> QED
  BY <1>2, <1>3 DEF LaneSound

LEMMA SameLane ==
  ASSUME BoxInv, lane' = lane \/ lane' = [lane EXCEPT !.stale = TRUE],
         UNCHANGED <<path, rows, receipts, linked>>
  PROVE  lane' \in Lanes /\ LaneSound'
<1>1. /\ lane' \in Lanes /\ lane'.task = lane.task /\ lane'.pc = lane.pc /\ lane'.f = lane.f
      /\ lane'.todo = lane.todo /\ lane'.bad = lane.bad
  BY DEF BoxInv, BoxTypes, Lanes
<1> QED
  BY <1>1 DEF BoxInv, LaneSound, Committed

LEMMA Refreshes ==
  ASSUME BoxInv, NEW want, NEW free, Box!Refresh(want, free), UNCHANGED <<path, rows, receipts, linked>>
  PROVE  lane' \in Lanes /\ LaneSound'
<1>1. CASE lane' = Box!Task("refresh", Box!None, required)
  <2>1. "refresh" \in Box!Tasks /\ Box!None \in Facts \cup {Box!None} /\ required \in BOOLEAN
    BY DEF Box!Tasks, Box!Hooked, BoxInv, BoxTypes
  <2> QED
    BY <1>1, <2>1, NewTask
<1>2. CASE lane' = lane
  BY <1>2, SameLane
<1> QED
  BY <1>1, <1>2 DEF Box!Refresh

(* Logging in and out, the program's end and start, and the requests.      *)
SessionStep ==
  \/ Box!Login \/ Box!ChangeAsk \/ Box!ChangeWorker \/ Box!Exit \/ Box!Crash \/ Box!Admit
  \/ Box!ResumeRecovery \/ Box!StartWork \/ Box!RetryNone \/ Box!Acknowledge
LEMMA SessionSteps == ASSUME BoxInv, SessionStep PROVE BoxInv'
<1>1. UNCHANGED <<path, rows, receipts, linked, boxActive, closed>>
  BY DEF SessionStep, Box!Login, Box!ChangeAsk, Box!ChangeWorker, Box!Exit, Box!Crash, Box!Admit,
         Box!ResumeRecovery, Box!StartWork, Box!RetryNone, Box!Acknowledge, Box!Restarted, Box!store
<1>2. /\ day' \in 1..Days /\ required' \in BOOLEAN /\ cases' \subseteq Reviews
      /\ seen' \subseteq Markers \cap receipts
  BY DEF SessionStep, Box!Login, Box!ChangeAsk, Box!ChangeWorker, Box!Exit, Box!Crash, Box!Admit,
         Box!ResumeRecovery, Box!StartWork, Box!RetryNone, Box!Acknowledge, Box!Restarted,
         Box!flags, BoxInv, BoxTypes
<1>3. lane' \in Lanes /\ LaneSound'
  <2>0. {"recovery", "complete", "mark", "retry"} \subseteq Box!Tasks /\ FALSE \in BOOLEAN
    BY DEF Box!Tasks, Box!Hooked
  <2>1. CASE lane' = Box!Task("recovery", Box!None, FALSE)
    BY <2>0, <2>1, NewTask
  <2>2. CASE \E want : \E free : Box!Refresh(want, free)
    BY <1>1, <2>2, Refreshes
  <2>3. CASE lane' = lane \/ lane' = [lane EXCEPT !.stale = TRUE]
    BY <1>1, <2>3, SameLane
  <2>4. CASE lane' = Box!Idle
    BY <2>4, NoTask
  <2>5. CASE \E f \in Reviews \ closed : lane' = Box!Task("complete", f, FALSE)
    <3>1. PICK f \in Reviews : lane' = Box!Task("complete", f, FALSE)
      BY <2>5
    <3>2. f \in Facts \cup {Box!None} /\ "complete" # "mark"
      BY <3>1 DEF Facts, Box!Facts
    <3> QED
      BY <2>0, <3>1, <3>2, NewTask
  <2>6. CASE \E f \in Markers : lane' = Box!Task("mark", f, FALSE)
    <3>1. PICK f \in Markers : lane' = Box!Task("mark", f, FALSE)
      BY <2>6
    <3>2. f \in Facts \cup {Box!None} /\ "complete" # "mark"
      BY <3>1 DEF Facts, Box!Facts
    <3> QED
      BY <2>0, <3>1, <3>2, NewTask
  <2>7. CASE \E f \in cases : lane' = Box!Task("retry", f, FALSE)
    <3>1. PICK f \in cases : lane' = Box!Task("retry", f, FALSE)
      BY <2>7
    <3>2. f \in Facts \cup {Box!None} /\ "retry" # "mark" /\ "retry" # "complete"
      BY <3>1 DEF Facts, Box!Facts, BoxInv, BoxTypes
    <3> QED
      BY <2>0, <3>1, <3>2, NewTask
  <2>8. CASE Box!Login
    BY <2>1, <2>2, <2>8 DEF Box!Login
  <2>9. CASE Box!ChangeAsk \/ Box!ChangeWorker
    BY <2>3, <2>9 DEF Box!ChangeAsk, Box!ChangeWorker
  <2>10. CASE Box!Exit \/ Box!Crash
    BY <2>4, <2>10 DEF Box!Exit, Box!Crash, Box!Restarted
  <2>11. CASE Box!Admit \/ Box!RetryNone
    BY <2>2, <2>11 DEF Box!Admit, Box!RetryNone
  <2>12. CASE Box!ResumeRecovery \/ Box!Acknowledge
    BY <2>1, <2>3, <2>12 DEF Box!ResumeRecovery, Box!Acknowledge
  <2>13. CASE Box!StartWork
    BY <2>5, <2>6, <2>7, <2>13 DEF Box!StartWork
  <2> QED
    BY <2>8, <2>9, <2>10, <2>11, <2>12, <2>13 DEF SessionStep
<1> QED
  BY <1>1, <1>2, <1>3, StoreRests DEF BoxInv, BoxTypes

(* The worker's steps: the store grows, the flags stay.                    *)
LEMMA StoreGrows ==
  ASSUME BoxInv, UNCHANGED <<day, required, cases, seen, closed>>,
         path' \in [Facts -> 0..Days], rows' \in [Facts -> Sheet], RowsSound',
         receipts \subseteq receipts', receipts' \subseteq Facts, linked \subseteq linked',
         linked' \subseteq Reviews,
         boxActive' \subseteq Reviews, lane' \in Lanes, LaneSound'
  PROVE  BoxInv'
  BY DEF BoxInv, BoxTypes

(* Where the lane's record goes.                                           *)
LEMMA Steps ==
  ASSUME BoxInv, NEW p \in LanePcs, Box!Step(p)
  PROVE  /\ lane' \in Lanes /\ lane'.task = lane.task /\ lane'.pc = p /\ lane'.f = lane.f
         /\ lane'.todo = lane.todo /\ lane'.bad = lane.bad
  BY DEF BoxInv, BoxTypes, Lanes, Box!Step

LEMMA LinkStep == ASSUME BoxInv, Box!LinkTray PROVE BoxInv'
<1>1. /\ lane.task = "complete" /\ lane.pc = "start" /\ lane.f \in Reviews /\ lane.f \in Facts
      /\ linked' = linked \cup {lane.f} /\ lane.todo = {}
      /\ UNCHANGED <<day, required, cases, seen, closed, rows, receipts>>
  BY DEF Box!LinkTray, Box!Going, Box!Worker, Box!flags, BoxInv, LaneSound, Facts, Box!Facts
<1>2. {"append", "done"} \subseteq LanePcs
  BY DEF LanePcs
<1>3. CASE Box!Step("done") /\ UNCHANGED <<path, boxActive>>
  <2>1. /\ lane' \in Lanes /\ lane'.task = lane.task /\ lane'.pc = "done" /\ lane'.f = lane.f
        /\ lane'.todo = lane.todo /\ lane'.bad = lane.bad
    BY <1>2, <1>3, Steps
  <2>2. RowsSound' /\ LaneSound'
    BY <1>1, <1>3, <2>1 DEF BoxInv, RowsSound, LaneSound, Committed
  <2> QED
    BY <1>1, <1>3, <2>1, <2>2, StoreGrows DEF BoxInv, BoxTypes
<1>4. CASE lane.f \in boxActive /\ Box!Step("append") /\ UNCHANGED <<path, boxActive>>
  <2>1. /\ lane' \in Lanes /\ lane'.task = lane.task /\ lane'.pc = "append" /\ lane'.f = lane.f
        /\ lane'.todo = lane.todo /\ lane'.bad = lane.bad
    BY <1>2, <1>4, Steps
  <2>2. RowsSound' /\ LaneSound'
    BY <1>1, <1>4, <2>1 DEF BoxInv, RowsSound, LaneSound, Committed
  <2> QED
    BY <1>1, <1>4, <2>1, <2>2, StoreGrows DEF BoxInv, BoxTypes
<1>5. CASE Box!Commit(lane.f) /\ boxActive' = boxActive \cup {lane.f} /\ Box!Step("append")
  <2>1. /\ lane' \in Lanes /\ lane'.task = lane.task /\ lane'.pc = "append" /\ lane'.f = lane.f
        /\ lane'.todo = lane.todo /\ lane'.bad = lane.bad
    BY <1>2, <1>5, Steps
  <2>2. /\ path' \in [Facts -> 0..Days] /\ RowsSound'
        /\ lane.f \in Committed' /\ Committed \subseteq Committed'
        /\ \A g \in Committed : path'[g] = path[g]
    BY <1>1, <1>5, CommitKeeps DEF BoxInv
  <2>3. LaneSound'
    BY <1>1, <2>1, <2>2 DEF LaneSound
  <2> QED
    BY <1>1, <1>5, <2>1, <2>2, <2>3, StoreGrows DEF BoxInv, BoxTypes
<1> QED
  BY <1>3, <1>4, <1>5 DEF Box!LinkTray

LEMMA MarkStep == ASSUME BoxInv, Box!MarkWaiting PROVE BoxInv'
<1>1. /\ lane.task = "mark" /\ lane.pc = "start" /\ lane.f \in Markers /\ lane.f \in Facts
      /\ Box!Commit(lane.f) /\ Box!Step("append") /\ lane.todo = {}
      /\ UNCHANGED <<day, required, cases, seen, closed, rows, receipts, linked, boxActive>>
  BY DEF Box!MarkWaiting, Box!Going, Box!Worker, Box!flags, BoxInv, LaneSound, Facts, Box!Facts
<1>2. /\ lane' \in Lanes /\ lane'.task = lane.task /\ lane'.pc = "append" /\ lane'.f = lane.f
      /\ lane'.todo = lane.todo /\ lane'.bad = lane.bad
  BY <1>1, Steps DEF LanePcs
<1>3. /\ path' \in [Facts -> 0..Days] /\ RowsSound'
      /\ lane.f \in Committed' /\ Committed \subseteq Committed'
      /\ \A g \in Committed : path'[g] = path[g]
  BY <1>1, CommitKeeps DEF BoxInv
<1>4. LaneSound'
  BY <1>1, <1>2, <1>3 DEF LaneSound
<1> QED
  BY <1>1, <1>2, <1>3, <1>4, StoreGrows DEF BoxInv, BoxTypes

(* The lane moves over the same store.                                     *)
LEMMA LaneMoves ==
  ASSUME BoxInv, UNCHANGED <<day, required, cases, seen, closed, path, rows, receipts, linked>>,
         boxActive' \subseteq boxActive, lane' \in Lanes, LaneSound'
  PROVE  BoxInv'
  BY DEF BoxInv, BoxTypes, RowsSound, Committed

LEMMA Replays ==
  ASSUME BoxInv, lane.task \in {"recovery", "refresh"}, NEW kind \in SUBSET Facts,
         Box!Replay(Box!PendingRows(kind)), UNCHANGED <<path, rows, receipts, linked>>
  PROVE  lane' \in Lanes /\ LaneSound'
<1>0. Box!PendingRows(kind) \subseteq Committed /\ Committed \subseteq Facts
  BY DEF Box!PendingRows, Committed, Box!NoDay, Facts
<1>1. CASE Box!Step("drained")
  <2>1. /\ lane' \in Lanes /\ lane'.task = lane.task /\ lane'.pc = "drained" /\ lane'.f = lane.f
        /\ lane'.todo = lane.todo /\ lane'.bad = lane.bad
    BY <1>1, Steps DEF LanePcs
  <2> QED
    BY <2>1 DEF BoxInv, LaneSound, Committed
<1>2. ASSUME NEW f \in Box!First(Box!PendingRows(kind)),
             lane' = [lane EXCEPT !.pc = "append", !.todo = Box!PendingRows(kind), !.f = f]
      PROVE  lane' \in Lanes /\ LaneSound'
  <2>1. f \in Committed
    BY <1>0, <1>2 DEF Box!First
  <2>2. /\ lane' \in Lanes /\ lane'.task = lane.task /\ lane'.pc = "append" /\ lane'.f = f
        /\ lane'.todo = Box!PendingRows(kind)
    BY <1>0, <1>2, <2>1 DEF BoxInv, BoxTypes, Lanes, LanePcs
  <2> QED
    BY <1>0, <2>1, <2>2 DEF LaneSound, Committed
<1> QED
  BY <1>1, <1>2 DEF Box!Replay

LEMMA ReadStep == ASSUME BoxInv, Box!ReadMarkers \/ Box!ReadReviews PROVE BoxInv'
<1>1. /\ lane.task \in {"recovery", "refresh"}
      /\ UNCHANGED <<day, required, cases, seen, closed, path, rows, receipts, linked, boxActive>>
  BY DEF Box!ReadMarkers, Box!ReadReviews, Box!Going, Box!Worker, Box!flags, Box!store
<1>2. Markers \in SUBSET Facts /\ Reviews \in SUBSET Facts
  BY DEF Facts, Box!Facts
<1>3. CASE Box!Replay(Box!PendingRows(Markers)) \/ Box!Replay(Box!PendingRows(Reviews))
  BY <1>1, <1>2, <1>3, Replays, LaneMoves
<1>4. CASE lane' = [lane EXCEPT !.pc = "done", !.bad = TRUE]
  <2>1. lane' \in Lanes /\ lane'.task = lane.task /\ lane'.pc = "done" /\ lane'.todo = lane.todo
    BY <1>4 DEF BoxInv, BoxTypes, Lanes, LanePcs
  <2>2. LaneSound'
    BY <1>1, <2>1 DEF BoxInv, LaneSound, Committed
  <2> QED
    BY <1>1, <2>1, <2>2, LaneMoves
<1> QED
  BY <1>3, <1>4 DEF Box!ReadMarkers, Box!ReadReviews

(* A row that could not be projected ends the task's work on it.           *)
LEMMA Breaks ==
  ASSUME BoxInv, lane.pc \in {"append", "receipt"}, lane' = Box!Broken,
         UNCHANGED <<path, linked>>, receipts \subseteq receipts'
  PROVE  lane' \in Lanes /\ LaneSound'
<1>1. CASE lane.task = "refresh"
  <2>1. lane' = [lane EXCEPT !.todo = {}, !.bad = TRUE, !.f = Box!None, !.pc = "drained"]
    BY <1>1 DEF Box!Broken
  <2>2. /\ lane' \in Lanes /\ lane'.task = lane.task /\ lane'.pc = "drained" /\ lane'.todo = {}
    BY <2>1 DEF BoxInv, BoxTypes, Lanes, LanePcs
  <2> QED
    BY <1>1, <2>2 DEF LaneSound
<1>2. CASE lane.task # "refresh"
  <2>1. lane' = [lane EXCEPT !.todo = {}, !.bad = TRUE, !.pc = "done"]
    BY <1>2 DEF Box!Broken
  <2>2. /\ lane' \in Lanes /\ lane'.task = lane.task /\ lane'.pc = "done" /\ lane'.todo = {}
        /\ lane'.f = lane.f /\ lane'.bad
    BY <2>1 DEF BoxInv, BoxTypes, Lanes, LanePcs
  <2> QED
    BY <2>2 DEF BoxInv, LaneSound
<1> QED
  BY <1>1, <1>2

LEMMA AppendingStep == ASSUME BoxInv, Box!Appending PROVE BoxInv'
<1>1. /\ lane.pc = "append" /\ lane.f \in Committed /\ rows \in [Facts -> Sheet]
      /\ UNCHANGED <<day, required, cases, seen, closed, path, receipts, linked, boxActive>>
  BY DEF Box!Appending, Box!Worker, Box!flags, BoxInv, BoxTypes, LaneSound
<1>2. CASE lane' = Box!Broken /\ (Box!AppendRow(lane.f) \/ UNCHANGED rows)
  <2>1. lane' \in Lanes /\ LaneSound'
    BY <1>1, <1>2, Breaks
  <2>2. rows' \in [Facts -> Sheet] /\ RowsSound'
    <3>1. CASE UNCHANGED rows
      BY <1>1, <3>1 DEF BoxInv, RowsSound, Committed
    <3>2. CASE Box!AppendRow(lane.f)
      BY <1>1, <3>2, AppendKeeps DEF BoxInv
    <3> QED
      BY <1>2, <3>1, <3>2
  <2> QED
    BY <1>1, <2>1, <2>2, StoreGrows DEF BoxInv, BoxTypes
<1>3. CASE Box!AppendRow(lane.f) /\ Box!Step("receipt")
  <2>1. rows' \in [Facts -> Sheet] /\ RowsSound' /\ rows'[lane.f][path[lane.f]] = 1
    BY <1>1, <1>3, AppendKeeps DEF BoxInv
  <2>2. /\ lane' \in Lanes /\ lane'.task = lane.task /\ lane'.pc = "receipt" /\ lane'.f = lane.f
        /\ lane'.todo = lane.todo /\ lane'.bad = lane.bad
    BY <1>3, Steps DEF LanePcs
  <2>3. LaneSound'
    BY <1>1, <2>1, <2>2 DEF BoxInv, LaneSound, Committed
  <2> QED
    BY <1>1, <2>1, <2>2, <2>3, StoreGrows DEF BoxInv, BoxTypes
<1> QED
  BY <1>2, <1>3 DEF Box!Appending

LEMMA ReceiptingStep == ASSUME BoxInv, Box!Receipting PROVE BoxInv'
<1>1. /\ lane.pc = "receipt" /\ lane.f \in Committed /\ rows[lane.f][path[lane.f]] = 1
      /\ UNCHANGED <<day, required, cases, seen, closed, path, rows, linked, boxActive>>
  BY DEF Box!Receipting, Box!Worker, Box!flags, BoxInv, LaneSound
<1>2. /\ receipts \subseteq receipts' /\ receipts' \subseteq Facts /\ RowsSound'
  <2>1. receipts' = receipts \/ receipts' = receipts \cup {lane.f}
    BY DEF Box!Receipting
  <2> QED
    BY <1>1, <2>1 DEF BoxInv, BoxTypes, RowsSound, Committed
<1>3. CASE lane' = Box!Broken
  <2>1. lane' \in Lanes /\ LaneSound'
    BY <1>1, <1>2, <1>3, Breaks
  <2> QED
    BY <1>1, <1>2, <2>1, StoreGrows DEF BoxInv, BoxTypes
<1>4. CASE receipts' = receipts \cup {lane.f} /\ Box!AfterRow
  <2> DEFINE rest == lane.todo \ {lane.f}
  <2>1. /\ rest \subseteq Committed /\ rest \subseteq Facts /\ lane.f \in receipts'
        /\ (lane.task \in {"complete", "mark"} => rest = {})
    BY <1>4 DEF BoxInv, LaneSound, Committed
  <2> HIDE DEF rest
  <2>2. ASSUME NEW f \in Box!First(rest), lane' = [lane EXCEPT !.todo = rest, !.f = f, !.pc = "append"]
        PROVE  lane' \in Lanes /\ LaneSound'
    <3>1. f \in rest
      BY <2>2 DEF Box!First
    <3>2. /\ lane' \in Lanes /\ lane'.task = lane.task /\ lane'.pc = "append" /\ lane'.f = f
          /\ lane'.todo = rest
      BY <2>1, <2>2, <3>1 DEF BoxInv, BoxTypes, Lanes, LanePcs
    <3> QED
      BY <1>1, <2>1, <3>1, <3>2 DEF LaneSound, Committed
  <2>3. ASSUME rest = {}, lane.task \in {"recovery", "refresh"},
               lane' = [lane EXCEPT !.todo = {}, !.f = Box!None, !.pc = "drained"]
        PROVE  lane' \in Lanes /\ LaneSound'
    <3>1. lane' \in Lanes /\ lane'.task = lane.task /\ lane'.pc = "drained" /\ lane'.todo = {}
      BY <2>3 DEF BoxInv, BoxTypes, Lanes, LanePcs
    <3> QED
      BY <2>3, <3>1 DEF LaneSound
  <2>4. ASSUME rest = {}, lane' = [lane EXCEPT !.pc = "done"]
        PROVE  lane' \in Lanes /\ LaneSound'
    <3>1. /\ lane' \in Lanes /\ lane'.task = lane.task /\ lane'.pc = "done" /\ lane'.f = lane.f
          /\ lane'.todo = lane.todo
      BY <2>4 DEF BoxInv, BoxTypes, Lanes, LanePcs
    <3> QED
      BY <1>1, <2>1, <3>1 DEF BoxInv, LaneSound, Committed
  <2>5. lane' \in Lanes /\ LaneSound'
    BY <1>4, <2>2, <2>3, <2>4 DEF Box!AfterRow, rest
  <2> QED
    BY <1>1, <1>2, <2>5, StoreGrows DEF BoxInv, BoxTypes
<1> QED
  BY <1>3, <1>4 DEF Box!Receipting

LEMMA DrainStep == ASSUME BoxInv, Box!DrainSeals PROVE BoxInv'
<1>1. /\ lane.task = "recovery" /\ lane.pc = "drained"
      /\ UNCHANGED <<day, required, cases, seen, closed, rows, receipts, linked>>
  BY DEF Box!DrainSeals, Box!Going, Box!Worker, Box!flags
<1>2. ASSUME lane' \in Lanes, lane'.task = lane.task, lane'.pc \in {"done", "drained"},
             lane'.todo = lane.todo, Committed \subseteq Committed'
      PROVE  LaneSound'
  BY <1>1, <1>2 DEF BoxInv, LaneSound
<1>3. CASE UNCHANGED <<path, boxActive>> /\ Box!Step("done")
  <2>1. /\ lane' \in Lanes /\ lane'.task = lane.task /\ lane'.pc = "done" /\ lane'.todo = lane.todo
    BY <1>3, Steps DEF LanePcs
  <2> QED
    BY <1>1, <1>2, <1>3, <2>1, LaneMoves DEF Committed
<1>4. CASE /\ UNCHANGED <<path, boxActive>>
           /\ \/ lane' = [lane EXCEPT !.pc = "done", !.bad = TRUE]
              \/ lane' = [lane EXCEPT !.pc = "done", !.req = FALSE]
  <2>1. /\ lane' \in Lanes /\ lane'.task = lane.task /\ lane'.pc = "done" /\ lane'.todo = lane.todo
    BY <1>4 DEF BoxInv, BoxTypes, Lanes, LanePcs
  <2> QED
    BY <1>1, <1>2, <1>4, <2>1, LaneMoves DEF Committed
<1>5. ASSUME NEW f \in Reviews, Box!Commit(f), boxActive' = boxActive \cup {f},
             lane' = [lane EXCEPT !.req = TRUE]
      PROVE  BoxInv'
  <2>1. /\ lane' \in Lanes /\ lane'.task = lane.task /\ lane'.pc = lane.pc /\ lane'.todo = lane.todo
    BY <1>5 DEF BoxInv, BoxTypes, Lanes
  <2>2. /\ path' \in [Facts -> 0..Days] /\ RowsSound' /\ Committed \subseteq Committed'
    BY <1>1, <1>5, CommitKeeps DEF BoxInv, Facts, Box!Facts
  <2> QED
    BY <1>1, <1>2, <1>5, <2>1, <2>2, StoreGrows DEF BoxInv, BoxTypes
<1>6. linked \subseteq Reviews
  BY DEF BoxInv, BoxTypes
<1> QED
  BY <1>3, <1>4, <1>5, <1>6 DEF Box!DrainSeals

(* The refresh reads the cases, and the supervisor's retry settles one.    *)
LEMMA CaseStep == ASSUME BoxInv, Box!ReadCases \/ Box!RetryReview PROVE BoxInv'
<1>1. /\ lane.task \notin {"complete", "mark"} /\ boxActive' \subseteq boxActive
      /\ UNCHANGED <<day, required, cases, seen, closed, path, rows, receipts, linked>>
  BY DEF Box!ReadCases, Box!RetryReview, Box!Going, Box!Worker, Box!flags, Box!store
<1>2. /\ lane' \in Lanes /\ lane'.task = lane.task /\ lane'.pc = "done" /\ lane'.todo = lane.todo
  <2>1. CASE Box!Step("done")
    BY <2>1, Steps DEF LanePcs
  <2>2. CASE lane' = [lane EXCEPT !.pc = "done", !.f = Box!Lost, !.bad = TRUE]
    BY <2>2 DEF BoxInv, BoxTypes, Lanes, LanePcs
  <2> QED
    BY <2>1, <2>2 DEF Box!ReadCases, Box!RetryReview
<1>3. LaneSound'
  BY <1>1, <1>2 DEF BoxInv, LaneSound, Committed
<1> QED
  BY <1>1, <1>2, <1>3, LaneMoves

(* The results on the Tk thread: the lane rests, and what is reported as   *)
(* ended or marked is what the task has made durable.                      *)
LEMMA EndSteps == ASSUME BoxInv, Box!EndStep PROVE BoxInv'
<1>1. /\ lane.pc = "done" /\ lane' = Box!Idle
      /\ UNCHANGED <<day, path, rows, receipts, linked, boxActive>>
  BY DEF Box!EndStep, Box!EndStale, Box!EndRecovery, Box!EndRefresh, Box!EndComplete,
         Box!EndMark, Box!EndRetry, Box!EndTask
<1>2. lane' \in Lanes /\ LaneSound'
  BY <1>1, NoTask
<1>3. closed' \subseteq linked
  <2>1. CASE UNCHANGED closed
    BY <2>1 DEF BoxInv, BoxTypes
  <2>2. CASE Box!EndComplete
    BY <1>1, <2>2 DEF Box!EndComplete, BoxInv, BoxTypes, LaneSound
  <2> QED
    BY <2>1, <2>2 DEF Box!EndStep, Box!EndStale, Box!EndRecovery, Box!EndRefresh,
       Box!EndMark, Box!EndRetry, Box!flags
<1>4. seen' \subseteq Markers \cap receipts
  <2>1. CASE UNCHANGED seen
    BY <2>1 DEF BoxInv, BoxTypes
  <2>2. CASE Box!EndMark
    <3>1. lane.f \in Markers /\ (~lane.bad => lane.f \in receipts)
      BY <1>1, <2>2 DEF Box!EndMark, BoxInv, LaneSound
    <3>2. CASE lane.bad
      BY <2>2, <3>2 DEF Box!EndMark, BoxInv, BoxTypes
    <3>3. CASE ~lane.bad
      BY <2>2, <3>1, <3>3 DEF Box!EndMark, BoxInv, BoxTypes
    <3> QED
      BY <3>2, <3>3
  <2> QED
    BY <2>1, <2>2 DEF Box!EndStep, Box!EndStale, Box!EndRecovery, Box!EndRefresh,
       Box!EndComplete, Box!EndRetry, Box!flags
<1>5. cases' \subseteq Reviews
  BY DEF Box!EndStep, Box!EndStale, Box!EndRecovery, Box!EndRefresh, Box!EndComplete,
         Box!EndMark, Box!EndRetry, Box!flags, BoxInv, BoxTypes
<1>6. required' \in BOOLEAN
  BY Zenon DEF Box!EndStep, Box!EndStale, Box!EndRecovery, Box!EndRefresh, Box!EndComplete,
         Box!EndMark, Box!EndRetry, Box!flags, BoxInv, BoxTypes
<1>7. day' \in 1..Days
  BY <1>1 DEF BoxInv, BoxTypes
<1> QED
  BY <1>1, <1>2, <1>3, <1>4, <1>5, <1>6, <1>7, StoreRests

LEMMA BoxStart == ASSUME Box!OutboxAssumption, Box!Init PROVE BoxInv
<1>1. day \in 1..Days /\ Days \in Nat
  BY DEF Box!OutboxAssumption, Box!Init
<1>2. lane = Box!Idle
  BY DEF Box!Init
<1>3. lane \in Lanes /\ LaneSound
  <2>1. lane = [task |-> "none", pc |-> "none", f |-> "none", todo |-> {}, bad |-> FALSE,
                req |-> FALSE, stale |-> FALSE]
    BY <1>2 DEF Box!Idle, Box!None
  <2>2. lane \in Lanes
    BY <2>1 DEF Lanes, LanePcs, Box!None
  <2>3. lane.task = "none" /\ lane.pc = "none" /\ lane.todo = {}
    BY <2>1
  <2> QED
    BY <2>2, <2>3 DEF LaneSound
<1>4. path = [f \in Facts |-> 0] /\ rows = [f \in Facts |-> [d \in 1..Days |-> 0]]
  BY DEF Box!Init, Facts, Box!NoDay
<1>5. path \in [Facts -> 0..Days] /\ rows \in [Facts -> Sheet]
  BY <1>1, <1>4 DEF Sheet
<1>6. RowsSound
  BY <1>4 DEF Box!Init, RowsSound
<1> QED
  BY <1>1, <1>3, <1>5, <1>6 DEF Box!Init, BoxInv, BoxTypes

LEMMA BoxNext == ASSUME BoxInv, [Box!Next]_(Box!vars) PROVE BoxInv'
<1>1. CASE SessionStep
  BY <1>1, SessionSteps
<1>2. CASE Box!WorkerStep
  <2>1. CASE Box!Appending
    BY <2>1, AppendingStep
  <2>2. CASE Box!Receipting
    BY <2>2, ReceiptingStep
  <2> QED
    BY <1>2, <2>1, <2>2, LinkStep, MarkStep, ReadStep, DrainStep, CaseStep
       DEF Box!WorkerStep, Box!ProjectReview, Box!ReceiptReview, Box!ProjectMarker, Box!ReceiptMarker
<1>3. CASE Box!EndStep
  BY <1>3, EndSteps
<1>4. CASE UNCHANGED Box!vars
  BY <1>4 DEF Box!vars, BoxInv, BoxTypes, RowsSound, LaneSound, Committed
<1> QED
  BY <1>1, <1>2, <1>3, <1>4 DEF Box!Next, SessionStep

(* What the invariant says of the rows, receipts and markers.              *)
LEMMA BoxSays == ASSUME Box!OutboxAssumption, BoxInv PROVE Box!OutboxSound
<1>1. Box!TypeInv
  BY DEF BoxInv, BoxTypes, Lanes, Box!TypeInv, Facts
<1>2. ASSUME NEW f \in Box!Facts, NEW d \in 1..Days, NEW e \in 1..Days
      PROVE  rows[f][d] <= 1 /\ (rows[f][d] + rows[f][e] > 1 => d = e)
  <2>1. rows[f][d] \in {0, 1} /\ rows[f][e] \in {0, 1}
    BY <1>2 DEF BoxInv, BoxTypes, Sheet, Facts
  <2>2. (rows[f][d] > 0 => path[f] = d) /\ (rows[f][e] > 0 => path[f] = e)
    BY <1>2 DEF BoxInv, RowsSound, Facts
  <2> QED
    BY <2>1, <2>2
<1>3. Box!ReceiptProvesRow /\ Box!MarkedIsDurable
  BY DEF BoxInv, RowsSound, Box!ReceiptProvesRow, Box!MarkedIsDurable, Box!NoDay
<1> QED
  BY <1>1, <1>2, <1>3 DEF Box!OutboxSound, Box!RowOnce

(* For any reviews, markers, days and faults: a completed tray that needs  *)
(* a review and a label that awaits its replacement (transfer_store.py     *)
(* record_error, mark_phs_replacement_waiting) come into one event log     *)
(* only, once, and a receipt or a marker that the worker is shown as set   *)
(* means that the row is there, however often program, append and receipt  *)
(* fail and the replay runs again.                                         *)
THEOREM FactsProved == Spec => []OutboxSound
<1>1. Init => BoxInv
  BY BoxStart, RecordsAssumption DEF Init, RecordsAssumption
<1>2. BoxInv /\ [Next]_vars => BoxInv'
  <2> SUFFICES ASSUME BoxInv, [Next]_vars PROVE BoxInv'
    OBVIOUS
  <2>1. [Box!Next]_(Box!vars)
    BY DEF Next, PairStep, ProofStep, MendedStep, LogStep, TornStep, BoxStep, WinStep, vars,
           boxVars, Box!vars
  <2> QED
    BY <2>1, BoxNext
<1>3. BoxInv => OutboxSound
  BY BoxSays, RecordsAssumption DEF OutboxSound, RecordsAssumption
<1> QED
  BY <1>1, <1>2, <1>3, PTL DEF Spec

-----------------------------------------------------------------------------
(* The paired handoff.                                                     *)

Names == Pair!Names
Ids == Pair!Ids
Closed == {"REJECTED", "SUPERSEDED"}     \* a key that no state leaves again
Moves == {"hold", "rename_hold", "readback_hold", "current", "rename_current",
          "readback_current", "release"}
(* The steps of a handler that has a key, and those that come after it was *)
(* found to be consumed.                                                   *)
Keyed == Moves \cup {"verify", "redeem", "consume", "fingerprint", "event", "complete",
                     "held", "detach", "finish"}
PairPcs == Keyed \cup {"idle", "load", "supersede", "retire", "prepare", "approve"}
Intents == [st : Pair!IntentStates, id : Ids, snap : Ids, vid : BOOLEAN, held : BOOLEAN, epoch : Nat,
            moving : SUBSET Names]
Records_ == [st : {"none", "pending", "superseded", "released"},
             arch : [Names -> 0..Pair!Other], event : 0..MaxKeys]
Ops == [pc : PairPcs, via : {"fresh", "startup", "resume", "recheck"}, id : Ids, k : 0..MaxKeys]
Apps == [up : BOOLEAN, epoch : Nat, tray : {"none", "other", "pair"}, snap : BOOLEAN]

PairTypes ==
  /\ pairSlot \in [Names -> 0..Pair!Other] /\ bad \subseteq Pair!Contents
  /\ newest \in [Names -> 1..MaxVersions]
  /\ rec \in [Ids -> Records_]
  /\ intents \in Seq(Intents) /\ Len(intents) <= MaxKeys /\ consumed \subseteq DOMAIN intents
  /\ pairApp \in Apps
  /\ pairOp \in Ops

(* A key is only for a recorded pair, only a consumed one is CONSUMED or   *)
(* applied, and a pair has one key that is not closed.                     *)
KeySound ==
  /\ \A k \in DOMAIN intents :
       /\ rec[intents[k].id].st # "none"
       /\ intents[k].st \in {"CONSUMED", "APPLIED"} => k \in consumed
       /\ rec[intents[k].id].st = "released" /\ intents[k].st \notin Closed =>
            intents[k].snap = intents[k].id
       /\ intents[k].st = "APPLIED" => rec[intents[k].id].st = "released"
       /\ intents[k].st = "UNVERIFIED_DETACHING" => intents[k].held
  /\ \A k, j \in DOMAIN intents :
       intents[k].id = intents[j].id /\ intents[k].st \notin Closed
         /\ intents[j].st \notin Closed => k = j
  /\ \A a, b \in Pair!pending : a = b

(* What the handler knows of its key and its record, step by step.         *)
OpSound ==
  LET k == pairOp.k
      id == pairOp.id
      now == pairOp.pc IN
  /\ now \in {"supersede", "approve"} => rec[id].st = "pending"
  /\ now \in Keyed => k \in DOMAIN intents /\ intents[k].id = id
  /\ now = "verify" => intents[k].st \in {"PREPARED", "UNKNOWN"}
  /\ now \in {"redeem", "consume"} => intents[k].st = "VERIFIED"
  /\ now = "consume" => k \in consumed
  /\ now \in {"fingerprint", "event", "complete"} => intents[k].st = "CONSUMED"
  /\ now \in Moves => intents[k].st \in {"CONSUMED", "UNVERIFIED_DETACHING"}
  /\ now = "held" => intents[k].st = "UNVERIFIED_DETACHING"
  /\ pairOp.via = "resume" =>
       /\ now \in Moves \cup {"fingerprint", "event", "complete", "finish"}
       /\ now \in Moves => intents[k].st = "CONSUMED"
  /\ \A n \in Names :
       /\ now \in {Pair!Rename(n), Pair!Readback(n)} =>
            id[n] = intents[k].snap[n] /\ n \in intents[k].moving
       /\ now = Pair!Rename(n) => rec[id].arch[n] = Pair!Gone
  /\ now \in {"current", "rename_current", "readback_current", "release"} =>
       id["hold"] = intents[k].snap["hold"] /\ rec[id].arch["hold"] = id["hold"]
  /\ now = "release" => id["current"] = intents[k].snap["current"]

(* Where the originals are: the hold in one place, the current file in an  *)
(* archive only behind its hold, another tray in the slot or in an archive. *)
PlacesSound ==
  /\ \A a \in Ids :
       /\ pairSlot["hold"] # Pair!Gone => rec[a].arch["hold"] = Pair!Gone
       /\ rec[a].arch["current"] # Pair!Gone => rec[a].arch["hold"] = a["hold"]
       /\ \A b \in Ids : rec[a].arch["hold"] # Pair!Gone /\ rec[b].arch["hold"] # Pair!Gone => a = b
  /\ pairApp.tray = "other" =>
       \/ pairSlot["current"] = Pair!Other
       \/ /\ pairSlot["current"] = Pair!Gone
          /\ \E a \in Ids : rec[a].arch["current"] = Pair!Other
  /\ \A n \in Names :
       \/ pairSlot[n] = newest[n]
       \/ \E a \in Ids : rec[a].arch[n] = newest[n]
       \/ n = "current" /\ newest[n] \in bad

(* The first record is of the worker's own tray: until there is one the    *)
(* two originals are in their slots.                                       *)
FirstSound ==
  /\ (\A a \in Ids : rec[a].st = "none") => \A n \in Names : pairSlot[n] \in 1..MaxVersions
  /\ \A a \in Ids : rec[a].st # "none" =>
       \E b \in Ids : rec[b].st # "none" /\ b["current"] # Pair!Other
  /\ pairApp.tray = "pair" => pairApp.snap

PairInv ==
  PairTypes /\ KeySound /\ OpSound /\ PlacesSound /\ FirstSound /\ Pair!ReleasedUnderKey

LEMMA KeyFacts ==
  ASSUME PairInv, NEW k \in DOMAIN intents
  PROVE  /\ intents[k] \in Intents /\ intents[k].id \in Ids /\ intents[k].snap \in Ids
         /\ rec[intents[k].id] \in Records_ /\ k \in 1..Len(intents) /\ k \in Nat
<1>1. intents[k] \in Intents /\ k \in 1..Len(intents)
  BY DEF PairInv, PairTypes
<1> QED
  BY <1>1 DEF PairInv, PairTypes, Intents

(* A step that leaves the states of the records, and what is released.     *)
RecordsKept ==
  \A a \in Ids : /\ rec'[a].st = rec[a].st
                 /\ rec[a].st = "released" => rec'[a].arch = rec[a].arch

(* One key changes: it was open, and where it was consumed or held, it     *)
(* stays so.                                                               *)
HeldKept(k) ==
  /\ intents[k].held => intents'[k].held
  /\ intents'[k].st = "UNVERIFIED_DETACHING" => intents'[k].held
LEMMA KeyChange ==
  ASSUME PairInv, NEW k \in DOMAIN intents, NEW s,
         RecordsKept, consumed \subseteq consumed', DOMAIN intents' = DOMAIN intents,
         intents'[k].st = s,
         \A j \in DOMAIN intents :
           /\ intents'[j].id = intents[j].id /\ intents'[j].snap = intents[j].snap
           /\ j # k => intents'[j] = intents[j],
         intents[k].st \notin Closed \cup {"APPLIED"},
         s = "CONSUMED" => k \in consumed',
         s = "APPLIED" => k \in consumed' /\ rec[intents[k].id].st = "released",
         HeldKept(k)
  PROVE  KeySound' /\ Pair!ReleasedUnderKey'
<1>1. \A j \in DOMAIN intents : intents[j].id \in Ids /\ rec'[intents[j].id].st = rec[intents[j].id].st
  BY KeyFacts DEF RecordsKept
<1>2. \A j \in DOMAIN intents :
        /\ rec'[intents'[j].id].st # "none"
        /\ intents'[j].st \in {"CONSUMED", "APPLIED"} => j \in consumed'
        /\ rec'[intents'[j].id].st = "released" /\ intents'[j].st \notin Closed =>
             intents'[j].snap = intents'[j].id
        /\ intents'[j].st = "APPLIED" => rec'[intents'[j].id].st = "released"
        /\ intents'[j].st = "UNVERIFIED_DETACHING" => intents'[j].held
  BY <1>1 DEF PairInv, KeySound, Closed, HeldKept
<1>3. \A j, i \in DOMAIN intents :
        intents'[j].id = intents'[i].id /\ intents'[j].st \notin Closed
          /\ intents'[i].st \notin Closed => j = i
  BY DEF PairInv, KeySound, Closed
<1>4. \A a, b \in Pair!pending' : a = b
  BY DEF RecordsKept, PairInv, KeySound, Pair!pending, Ids
<1>5. Pair!ReleasedUnderKey'
  BY DEF RecordsKept, PairInv, Pair!ReleasedUnderKey, HeldKept, Ids
<1> QED
  BY <1>2, <1>3, <1>4, <1>5 DEF KeySound

(* One key changes its state.                                              *)
LEMMA StateSet ==
  ASSUME PairInv, NEW k \in DOMAIN intents, NEW s \in Pair!IntentStates, Pair!transition(k, s)
  PROVE  /\ intents' \in Seq(Intents) /\ Len(intents') = Len(intents)
         /\ DOMAIN intents' = DOMAIN intents
         /\ intents'[k].st = s
         /\ \A j \in DOMAIN intents :
              /\ intents'[j].id = intents[j].id /\ intents'[j].snap = intents[j].snap
              /\ j # k => intents'[j] = intents[j]
         /\ HeldKept(k)
<1> DEFINE b == intents[k].held \/ s = "UNVERIFIED_DETACHING"
<1>1. intents \in Seq(Intents) /\ intents[k] \in Intents /\ DOMAIN intents = 1..Len(intents)
  BY DEF PairInv, PairTypes
<1>2. intents' = [intents EXCEPT ![k] = [intents[k] EXCEPT !.st = s, !.held = b]]
  BY DEF Pair!transition
<1>3. b \in BOOLEAN /\ (intents[k].held => b) /\ (s = "UNVERIFIED_DETACHING" => b)
  BY <1>1 DEF Intents
<1> HIDE DEF b
<1>4. [intents[k] EXCEPT !.st = s, !.held = b] \in Intents
  BY <1>1, <1>3 DEF Intents
<1>5. /\ intents' \in Seq(Intents) /\ Len(intents') = Len(intents)
      /\ DOMAIN intents' = DOMAIN intents
  BY <1>1, <1>2, <1>4
<1>6. \A j \in DOMAIN intents :
        /\ intents'[j].id = intents[j].id /\ intents'[j].snap = intents[j].snap
        /\ j # k => intents'[j] = intents[j]
  <2> TAKE j \in DOMAIN intents
  <2>1. intents[j] \in Intents
    BY <1>1
  <2> QED
    BY <1>1, <1>2, <2>1 DEF Intents
<1>7. intents'[k].st = s /\ intents'[k].held = b
  BY <1>1, <1>2 DEF Intents
<1>8. HeldKept(k)
  BY <1>7, <1>3 DEF HeldKept
<1> QED
  BY <1>5, <1>6, <1>7, <1>8

LEMMA KeyStep ==
  ASSUME PairInv, NEW k \in DOMAIN intents, NEW s \in Pair!IntentStates, Pair!transition(k, s),
         UNCHANGED rec, consumed \subseteq consumed', consumed' \subseteq DOMAIN intents,
         intents[k].st \notin Closed \cup {"APPLIED"},
         s = "CONSUMED" => k \in consumed',
         s = "APPLIED" => k \in consumed' /\ rec[intents[k].id].st = "released"
  PROVE  /\ intents' \in Seq(Intents) /\ Len(intents') = Len(intents)
         /\ DOMAIN intents' = DOMAIN intents
         /\ intents'[k].st = s /\ intents'[k].id = intents[k].id
         /\ KeySound' /\ Pair!ReleasedUnderKey'
<1>1. RecordsKept
  BY DEF RecordsKept
<1>2. /\ intents' \in Seq(Intents) /\ Len(intents') = Len(intents)
      /\ DOMAIN intents' = DOMAIN intents
      /\ intents'[k].st = s
      /\ \A j \in DOMAIN intents :
           /\ intents'[j].id = intents[j].id /\ intents'[j].snap = intents[j].snap
           /\ j # k => intents'[j] = intents[j]
      /\ HeldKept(k)
  BY StateSet
<1>3. KeySound' /\ Pair!ReleasedUnderKey'
  BY <1>1, <1>2, KeyChange
<1> QED
  BY <1>2, <1>3

(* The handler gives way to the worker or to the rest of the login.        *)
LEMMA OpRests ==
  ASSUME Pair!PairedAssumption, PairTypes, NEW p \in {"idle", "load"},
         NEW v \in {"fresh", "startup", "resume", "recheck"}, v # "resume",
         pairOp' = [pc |-> p, via |-> v, id |-> Pair!NoId, k |-> 0]
  PROVE  pairOp' \in Ops /\ OpSound'
<1>1. Pair!NoId \in Ids
  BY DEF Pair!PairedAssumption, Pair!NoId, Ids, Pair!Ids, Pair!Contents, Pair!Other
<1>2. pairOp'.pc = p /\ pairOp'.via = v
  OBVIOUS
<1>3. pairOp' \in Ops
  BY <1>1 DEF Ops, PairPcs, Pair!PairedAssumption
<1>4. p \notin Keyed \cup {"supersede", "approve"}
  BY DEF Keyed, Moves
<1>5. \A n \in Names : Pair!Rename(n) \in Keyed /\ Pair!Readback(n) \in Keyed
  BY DEF Keyed, Moves, Pair!Rename, Pair!Readback
<1>6. OpSound'
  BY <1>2, <1>4, <1>5 DEF OpSound, Keyed, Moves
<1> QED
  BY <1>3, <1>6

LEMMA EndRests ==
  ASSUME Pair!PairedAssumption, PairTypes, Pair!End
  PROVE  pairOp' \in Ops /\ OpSound'
<1>1. CASE pairOp.via = "startup"
  <2>1. pairOp' = [pc |-> "load", via |-> "fresh", id |-> Pair!NoId, k |-> 0]
    BY <1>1 DEF Pair!End, Pair!Idle
  <2> QED
    BY <2>1, OpRests
<1>2. CASE pairOp.via # "startup"
  <2>1. pairOp' = [pc |-> "idle", via |-> "fresh", id |-> Pair!NoId, k |-> 0]
    BY <1>2 DEF Pair!End, Pair!Idle
  <2> QED
    BY <2>1, OpRests
<1> QED
  BY <1>1, <1>2

LEMMA IdleRests ==
  ASSUME Pair!PairedAssumption, PairTypes, pairOp' = Pair!Idle
  PROVE  pairOp' \in Ops /\ OpSound'
<1>1. pairOp' = [pc |-> "idle", via |-> "fresh", id |-> Pair!NoId, k |-> 0]
  BY DEF Pair!Idle
<1> QED
  BY <1>1, OpRests

(* A step that moves no file and writes no record.                         *)
LEMMA FilesRest ==
  ASSUME PairInv, UNCHANGED <<pairSlot, bad, rec, newest, pairApp>>,
         intents' \in Seq(Intents), Len(intents') <= MaxKeys, consumed' \subseteq DOMAIN intents',
         KeySound', Pair!ReleasedUnderKey', pairOp' \in Ops, OpSound'
  PROVE  PairInv'
BY DEF PairInv, PairTypes, PlacesSound, FirstSound

LEMMA OnlyOp ==
  ASSUME PairInv, UNCHANGED <<pairSlot, bad, rec, intents, consumed, newest, pairApp>>,
         pairOp' \in Ops, OpSound'
  PROVE  PairInv'
<1>1. KeySound' /\ Pair!ReleasedUnderKey'
  BY DEF PairInv, KeySound, Pair!ReleasedUnderKey, Pair!pending
<1> QED
  BY <1>1, FilesRest DEF PairInv, PairTypes

(* _admin_pin_failed, when the key is not one that a release stands under. *)
LEMMA FailedStep ==
  ASSUME Pair!PairedAssumption, PairInv, NEW k \in DOMAIN intents, Pair!Failed(k, pairOp), UNCHANGED rec,
         consumed \subseteq consumed', consumed' \subseteq DOMAIN intents,
         intents[k].st \notin Closed \cup {"APPLIED"},
         intents[k].id = pairOp.id, pairOp.via # "resume"
  PROVE  /\ intents' \in Seq(Intents) /\ Len(intents') = Len(intents)
         /\ DOMAIN intents' = DOMAIN intents
         /\ KeySound' /\ Pair!ReleasedUnderKey' /\ pairOp' \in Ops /\ OpSound'
<1>0. PairTypes /\ pairOp \in Ops
  BY DEF PairInv, PairTypes
<1>1. CASE /\ pairOp' = [Pair!Idle EXCEPT !.via = pairOp.via,
                           !.pc = IF pairOp.via = "startup" THEN "load" ELSE "idle"]
           /\ Pair!transition(k, "UNKNOWN")
  <2>1. pairOp' \in Ops /\ OpSound'
    <3> DEFINE p == IF pairOp.via = "startup" THEN "load" ELSE "idle"
    <3>1. p \in {"idle", "load"} /\ pairOp' = [pc |-> p, via |-> pairOp.via, id |-> Pair!NoId, k |-> 0]
      BY <1>1 DEF Pair!Idle
    <3>2. pairOp.via \in {"fresh", "startup", "resume", "recheck"}
      BY <1>0 DEF Ops
    <3> HIDE DEF p
    <3> QED
      BY <1>0, <3>1, <3>2, OpRests
  <2> QED
    BY <1>1, <2>1, KeyStep DEF Pair!IntentStates, Closed
<1>2. CASE /\ pairOp' = [pairOp EXCEPT !.pc = "detach", !.k = k]
           /\ Pair!transition(k, "UNVERIFIED_DETACHING")
  <2>1. /\ intents' \in Seq(Intents) /\ Len(intents') = Len(intents)
        /\ DOMAIN intents' = DOMAIN intents /\ intents'[k].id = intents[k].id
        /\ KeySound' /\ Pair!ReleasedUnderKey'
    BY <1>2, KeyStep DEF Pair!IntentStates
  <2>2. k \in 0..MaxKeys
    BY DEF PairInv, PairTypes, Pair!PairedAssumption
  <2>3. /\ pairOp'.pc = "detach" /\ pairOp'.k = k /\ pairOp'.id = pairOp.id
        /\ pairOp'.via = pairOp.via /\ pairOp' \in Ops
    BY <1>0, <1>2, <2>2 DEF Ops, PairPcs, Keyed
  <2>4. \A n \in Names : "detach" \notin {Pair!Rename(n), Pair!Readback(n)}
    BY DEF Pair!Rename, Pair!Readback
  <2>5. OpSound'
    BY <2>1, <2>3, <2>4 DEF OpSound, Moves
  <2> QED
    BY <2>1, <2>3, <2>5
<1> QED
  BY <1>1, <1>2 DEF Pair!Failed

LEMMA SupersedeStep ==
  ASSUME PairInv, Pair!supersede_changed_record PROVE PairInv'
<1>0. pairOp \in Ops /\ pairOp.id \in Ids /\ rec \in [Ids -> Records_] /\ pairOp.pc = "supersede"
  BY DEF PairInv, PairTypes, Ops, Pair!supersede_changed_record, Pair!At
<1>1. rec' = [rec EXCEPT ![pairOp.id] = [rec[pairOp.id] EXCEPT !.st = "superseded"]]
  BY DEF Pair!supersede_changed_record
<1>2. rec[pairOp.id].st = "pending"
  BY <1>0 DEF PairInv, OpSound
<1>3. /\ rec' \in [Ids -> Records_] /\ rec'[pairOp.id].st = "superseded"
      /\ \A a \in Ids : /\ a # pairOp.id => rec'[a] = rec[a]
                        /\ rec'[a].arch = rec[a].arch
  BY <1>0, <1>1 DEF Records_
<1>4. pairOp' \in Ops /\ pairOp'.pc = "retire" /\ pairOp'.via = pairOp.via
  BY <1>0 DEF Pair!supersede_changed_record, Pair!Go, Ops, PairPcs
<1>5. OpSound'
  <2>1. \A n \in Names : "retire" \notin {Pair!Rename(n), Pair!Readback(n)}
    BY DEF Pair!Rename, Pair!Readback
  <2>2. pairOp.via # "resume"
    BY <1>0 DEF PairInv, OpSound, Moves
  <2> QED
    BY <1>4, <2>1, <2>2 DEF OpSound, Keyed, Moves
<1>6. PairTypes'
  BY <1>3, <1>4 DEF PairInv, PairTypes, Pair!supersede_changed_record
<1>7. \A k \in DOMAIN intents : intents[k].id \in Ids
  BY KeyFacts
<1>8. KeySound'
  BY <1>2, <1>3, <1>7 DEF PairInv, KeySound, Pair!supersede_changed_record, Pair!pending, Ids
<1>9. PlacesSound' /\ Pair!ReleasedUnderKey'
  BY <1>2, <1>3 DEF PairInv, PlacesSound, Pair!ReleasedUnderKey, Pair!supersede_changed_record, Ids
<1>10. FirstSound'
  BY <1>0, <1>2, <1>3 DEF PairInv, FirstSound, Pair!supersede_changed_record
<1> QED
  BY <1>5, <1>6, <1>8, <1>9, <1>10 DEF PairInv

LEMMA PrepareStep ==
  ASSUME Pair!PairedAssumption, PairInv, Pair!prepare PROVE PairInv'
<1>0. /\ pairOp \in Ops /\ pairOp.id \in Ids /\ rec \in [Ids -> Records_]
      /\ pairOp.pc = "prepare" /\ PairTypes
  BY DEF PairInv, PairTypes, Ops, Pair!prepare, Pair!At
<1>1. CASE Pair!End /\ UNCHANGED rec
  BY <1>0, <1>1, EndRests, OnlyOp DEF Pair!prepare
<1>2. CASE /\ Pair!pending = {} /\ (\A n \in Names : pairSlot[n] # Pair!Gone) /\ rec[pairSlot].st = "none"
           /\ rec' = [rec EXCEPT ![pairSlot].st = "pending"]
           /\ pairOp' = [pairOp EXCEPT !.pc = "approve", !.id = pairSlot]
  <2>1. pairSlot \in Ids
    BY <1>2 DEF PairInv, PairTypes, Ids, Pair!Ids, Names, Pair!Contents, Pair!Gone
  <2>2. rec' = [rec EXCEPT ![pairSlot] = [rec[pairSlot] EXCEPT !.st = "pending"]]
    BY <1>2
  <2>3. /\ rec' \in [Ids -> Records_] /\ rec'[pairSlot].st = "pending"
        /\ \A a \in Ids : /\ a # pairSlot => rec'[a] = rec[a]
                          /\ rec'[a].arch = rec[a].arch
    BY <1>0, <2>1, <2>2 DEF Records_
  <2>4. /\ pairOp' \in Ops /\ pairOp'.pc = "approve" /\ pairOp'.via = pairOp.via
        /\ pairOp'.id = pairSlot
    BY <1>0, <1>2, <2>1 DEF Ops, PairPcs
  <2>5. OpSound'
    <3>1. \A n \in Names : "approve" \notin {Pair!Rename(n), Pair!Readback(n)}
      BY DEF Pair!Rename, Pair!Readback
    <3>2. pairOp.via # "resume"
      BY <1>0 DEF PairInv, OpSound, Moves
    <3> QED
      BY <2>3, <2>4, <3>1, <3>2 DEF OpSound, Keyed, Moves
  <2>6. PairTypes'
    BY <2>3, <2>4 DEF PairInv, PairTypes, Pair!prepare
  <2>7. \A k \in DOMAIN intents : intents[k].id \in Ids
    BY KeyFacts
  <2>8. KeySound'
    BY <1>2, <2>3, <2>7 DEF PairInv, KeySound, Pair!prepare, Pair!pending, Ids
  <2>9. PlacesSound' /\ Pair!ReleasedUnderKey'
    BY <2>3 DEF PairInv, PlacesSound, Pair!ReleasedUnderKey, Pair!prepare, Ids
  <2>10. FirstSound'
    <3>1. "current" \in Names
      BY DEF Names, Pair!Names
    <3>2. CASE \A a \in Ids : rec[a].st = "none"
      <4>1. pairSlot["current"] \in 1..MaxVersions
        BY <3>1, <3>2 DEF PairInv, FirstSound
      <4>2. pairSlot["current"] # Pair!Other
        BY <4>1 DEF Pair!Other, Pair!PairedAssumption
      <4> QED
        BY <2>1, <2>3, <4>2 DEF PairInv, FirstSound, Pair!prepare
    <3>3. CASE ~ \A a \in Ids : rec[a].st = "none"
      BY <2>1, <2>3, <3>3 DEF PairInv, FirstSound, Pair!prepare
    <3> QED
      BY <3>2, <3>3
  <2> QED
    BY <2>5, <2>6, <2>8, <2>9, <2>10 DEF PairInv
<1> QED
  BY <1>1, <1>2 DEF Pair!prepare, Names

(* Some keys are closed for good.                                          *)
CloseKeys(S) ==
  [k \in DOMAIN intents |-> IF k \in S THEN [intents[k] EXCEPT !.st = "SUPERSEDED"] ELSE intents[k]]

LEMMA ClosedKeys ==
  ASSUME PairInv, NEW S
  PROVE  /\ CloseKeys(S) \in Seq(Intents) /\ Len(CloseKeys(S)) = Len(intents)
         /\ DOMAIN CloseKeys(S) = DOMAIN intents
         /\ \A k \in DOMAIN intents :
              /\ CloseKeys(S)[k].id = intents[k].id /\ CloseKeys(S)[k].snap = intents[k].snap
              /\ CloseKeys(S)[k].held = intents[k].held
              /\ k \in S => CloseKeys(S)[k].st = "SUPERSEDED"
              /\ k \notin S => CloseKeys(S)[k] = intents[k]
<1>1. intents \in Seq(Intents) /\ DOMAIN intents = 1..Len(intents) /\ Len(intents) \in Nat
  BY DEF PairInv, PairTypes
<1>2. ASSUME NEW k \in DOMAIN intents
      PROVE  /\ CloseKeys(S)[k] \in Intents
             /\ CloseKeys(S)[k].id = intents[k].id /\ CloseKeys(S)[k].snap = intents[k].snap
             /\ CloseKeys(S)[k].held = intents[k].held
             /\ k \in S => CloseKeys(S)[k].st = "SUPERSEDED"
             /\ k \notin S => CloseKeys(S)[k] = intents[k]
  <2>1. intents[k] \in Intents
    BY <1>1
  <2>2. CASE k \in S
    BY <2>1, <2>2 DEF CloseKeys, Intents, Pair!IntentStates
  <2>3. CASE k \notin S
    BY <2>1, <2>3 DEF CloseKeys
  <2> QED
    BY <2>2, <2>3
<1>3. CloseKeys(S) \in [1..Len(intents) -> Intents]
  BY <1>1, <1>2 DEF CloseKeys
<1>4. CloseKeys(S) \in Seq(Intents) /\ Len(CloseKeys(S)) = Len(intents)
  BY <1>1, <1>3
<1> QED
  BY <1>2, <1>4 DEF CloseKeys

LEMMA RetireStep ==
  ASSUME PairInv, Pair!RetireChanged PROVE PairInv'
<1>0. pairOp \in Ops /\ pairOp.pc = "retire"
  BY DEF PairInv, PairTypes, Pair!RetireChanged, Pair!At
<1>1. PICK S : intents' = CloseKeys(S)
  BY DEF Pair!RetireChanged, CloseKeys
<1>2. KeySound' /\ Pair!ReleasedUnderKey'
  BY <1>1, ClosedKeys DEF PairInv, KeySound, Closed, Pair!ReleasedUnderKey, Pair!RetireChanged, Pair!pending
<1>3. pairOp' \in Ops /\ pairOp'.pc = "prepare" /\ pairOp'.via = pairOp.via
  BY <1>0 DEF Pair!RetireChanged, Pair!Go, Ops, PairPcs
<1>4. OpSound'
  <2>1. \A n \in Names : "prepare" \notin {Pair!Rename(n), Pair!Readback(n)}
    BY DEF Pair!Rename, Pair!Readback
  <2>2. pairOp.via # "resume"
    BY <1>0 DEF PairInv, OpSound, Moves
  <2> QED
    BY <1>3, <2>1, <2>2 DEF OpSound, Keyed, Moves
<1>5. intents' \in Seq(Intents) /\ Len(intents') <= MaxKeys /\ consumed' \subseteq DOMAIN intents'
  <2>1. /\ intents' \in Seq(Intents) /\ Len(intents') = Len(intents)
        /\ DOMAIN intents' = DOMAIN intents
    BY <1>1, ClosedKeys
  <2> QED
    BY <2>1 DEF PairInv, PairTypes, Pair!RetireChanged
<1> QED
  BY <1>2, <1>3, <1>4, <1>5, FilesRest DEF Pair!RetireChanged

(* A step of the PIN request moves on, with the same key.                  *)
LEMMA OpGoes ==
  ASSUME PairTypes, NEW p \in PairPcs, pairOp' = [pairOp EXCEPT !.pc = p]
  PROVE  /\ pairOp' \in Ops /\ pairOp'.pc = p /\ pairOp'.k = pairOp.k /\ pairOp'.id = pairOp.id
         /\ pairOp'.via = pairOp.via
BY DEF PairTypes, Ops

LEMMA DeferStep ==
  ASSUME Pair!PairedAssumption, PairInv, Pair!DeferStart PROVE PairInv'
<1>1. CASE \E id \in Pair!pending : \E p \in {"supersede", "approve"} :
             pairOp' = [Pair!Idle EXCEPT !.id = id, !.pc = p]
  <2>1. PICK id \in Pair!pending, p \in {"supersede", "approve"} :
          pairOp' = [Pair!Idle EXCEPT !.id = id, !.pc = p]
    BY <1>1
  <2>2. pairOp' = [pc |-> p, via |-> "fresh", id |-> id, k |-> 0]
    BY <2>1 DEF Pair!Idle
  <2>3. id \in Ids /\ rec[id].st = "pending"
    BY DEF Pair!pending, Ids
  <2>4. pairOp' \in Ops
    BY <2>2, <2>3 DEF Ops, PairPcs, Pair!PairedAssumption
  <2>5. \A n \in Names : {"supersede", "approve"} \cap {Pair!Rename(n), Pair!Readback(n)} = {}
    BY DEF Pair!Rename, Pair!Readback
  <2>6. rec' = rec
    BY DEF Pair!DeferStart
  <2>7. OpSound'
    BY <2>2, <2>3, <2>5, <2>6 DEF OpSound, Keyed, Moves
  <2> QED
    BY <2>4, <2>7, OnlyOp DEF Pair!DeferStart
<1>2. CASE pairOp' = [Pair!Idle EXCEPT !.pc = "prepare"]
  <2>1. pairOp' = [pc |-> "prepare", via |-> "fresh", id |-> Pair!NoId, k |-> 0]
    BY <1>2 DEF Pair!Idle
  <2>2. Pair!NoId \in Ids
    BY DEF Pair!PairedAssumption, Pair!NoId, Ids, Pair!Ids, Pair!Contents, Pair!Other
  <2>3. pairOp' \in Ops
    BY <2>1, <2>2 DEF Ops, PairPcs, Pair!PairedAssumption
  <2>4. \A n \in Names : "prepare" \notin {Pair!Rename(n), Pair!Readback(n)}
    BY DEF Pair!Rename, Pair!Readback
  <2>5. OpSound'
    BY <2>1, <2>4 DEF OpSound, Keyed, Moves
  <2> QED
    BY <2>3, <2>5, OnlyOp DEF Pair!DeferStart
<1> QED
  BY <1>1, <1>2 DEF Pair!DeferStart

(* At the prompt: the record waits, the key is one of its open keys.       *)
LEMMA Prompt ==
  ASSUME Pair!PairedAssumption, PairInv, Pair!At("approve")
  PROVE  /\ pairOp \in Ops /\ pairOp.pc = "approve" /\ pairOp.via # "resume" /\ pairOp.id \in Ids
         /\ rec[pairOp.id].st = "pending" /\ PairTypes /\ rec \in [Ids -> Records_]
         /\ \A k \in Pair!OpenKeys(pairOp.id) :
              /\ k \in DOMAIN intents /\ k \in 0..MaxKeys /\ intents[k].id = pairOp.id
              /\ intents[k].st \notin Closed \cup {"APPLIED"}
<1>1. pairOp \in Ops /\ pairOp.pc = "approve" /\ PairTypes /\ rec \in [Ids -> Records_]
  BY DEF PairInv, PairTypes, Pair!At
<1>2. pairOp.id \in Ids
  BY <1>1 DEF Ops
<1>3. pairOp.via # "resume" /\ rec[pairOp.id].st = "pending"
  BY <1>1 DEF PairInv, OpSound, Moves
<1>4. ASSUME NEW k \in Pair!OpenKeys(pairOp.id)
      PROVE  /\ k \in DOMAIN intents /\ k \in 0..MaxKeys /\ intents[k].id = pairOp.id
             /\ intents[k].st \notin Closed \cup {"APPLIED"}
  <2>1. k \in DOMAIN intents /\ intents[k].id = pairOp.id /\ intents[k].st \notin Pair!Closed
    BY DEF Pair!OpenKeys
  <2>2. k \in 0..MaxKeys
    <3>1. intents \in Seq(Intents) /\ Len(intents) <= MaxKeys /\ Len(intents) \in Nat
      BY <1>1 DEF PairTypes
    <3>2. k \in 1..Len(intents)
      BY <2>1, <3>1
    <3> QED
      BY <3>1, <3>2 DEF Pair!PairedAssumption
  <2> QED
    BY <2>1, <2>2 DEF Closed, Pair!Closed
<1> QED
  BY <1>1, <1>2, <1>3, <1>4

LEMMA CancelStep ==
  ASSUME Pair!PairedAssumption, PairInv, Pair!CancelPrompt PROVE PairInv'
BY EndRests, OnlyOp DEF Pair!CancelPrompt, PairInv

LEMMA KeptTypes ==
  ASSUME PairInv, Len(intents') = Len(intents), DOMAIN intents' = DOMAIN intents,
         consumed' \subseteq DOMAIN intents
  PROVE  Len(intents') <= MaxKeys /\ consumed' \subseteq DOMAIN intents'
BY DEF PairInv, PairTypes

LEMMA RetryStep ==
  ASSUME Pair!PairedAssumption, PairInv, Pair!RetryRequest PROVE PairInv'
<1>1. PICK k \in Pair!OpenKeys(pairOp.id) :
        /\ Pair!Unverified(k)
        /\ IF Pair!source(pairOp.id) = intents[k].snap
             THEN pairOp' = [pairOp EXCEPT !.pc = "verify", !.k = k] /\ UNCHANGED intents
             ELSE Pair!Failed(k, pairOp)
  BY DEF Pair!RetryRequest
<1>2. UNCHANGED <<pairSlot, bad, rec, consumed, newest, pairApp>> /\ Pair!At("approve")
  BY DEF Pair!RetryRequest
<1>3. /\ pairOp \in Ops /\ pairOp.via # "resume" /\ k \in DOMAIN intents /\ k \in 0..MaxKeys
      /\ intents[k].id = pairOp.id /\ intents[k].st \in {"PREPARED", "UNKNOWN"}
  BY <1>1, <1>2, Prompt DEF Pair!Unverified
<1>4. CASE pairOp' = [pairOp EXCEPT !.pc = "verify", !.k = k] /\ UNCHANGED intents
  <2>1. /\ pairOp' \in Ops /\ pairOp'.pc = "verify" /\ pairOp'.k = k /\ pairOp'.id = pairOp.id
        /\ pairOp'.via = pairOp.via
    BY <1>3, <1>4 DEF Ops, PairPcs, Keyed
  <2>2. \A n \in Names : "verify" \notin {Pair!Rename(n), Pair!Readback(n)}
    BY DEF Pair!Rename, Pair!Readback
  <2>3. OpSound'
    BY <1>3, <1>4, <2>1, <2>2 DEF OpSound, Moves
  <2> QED
    BY <1>2, <1>4, <2>1, <2>3, OnlyOp
<1>5. CASE Pair!Failed(k, pairOp)
  <2>1. consumed' \subseteq DOMAIN intents
    BY <1>2 DEF PairInv, PairTypes
  <2>2. /\ intents' \in Seq(Intents) /\ Len(intents') = Len(intents)
        /\ DOMAIN intents' = DOMAIN intents
        /\ KeySound' /\ Pair!ReleasedUnderKey' /\ pairOp' \in Ops /\ OpSound'
    BY <1>2, <1>3, <1>5, <2>1, FailedStep DEF Closed
  <2> QED
    BY <1>2, <2>1, <2>2, KeptTypes, FilesRest
<1> QED
  BY <1>1, <1>4, <1>5

LEMMA LostStep ==
  ASSUME Pair!PairedAssumption, PairInv, Pair!AskStatusLost PROVE PairInv'
<1>1. PICK k \in Pair!OpenKeys(pairOp.id) :
        intents[k].st \in {"VERIFIED", "UNKNOWN", "CONSUMED"} /\ Pair!Failed(k, pairOp)
  BY DEF Pair!AskStatusLost
<1>2. UNCHANGED <<pairSlot, bad, rec, consumed, newest, pairApp>> /\ Pair!At("approve")
  BY DEF Pair!AskStatusLost
<1>3. pairOp.via # "resume" /\ k \in DOMAIN intents /\ intents[k].id = pairOp.id
  BY <1>2, Prompt
<1>4. consumed' \subseteq DOMAIN intents
  BY <1>2 DEF PairInv, PairTypes
<1>5. /\ intents' \in Seq(Intents) /\ Len(intents') = Len(intents)
      /\ DOMAIN intents' = DOMAIN intents
      /\ KeySound' /\ Pair!ReleasedUnderKey' /\ pairOp' \in Ops /\ OpSound'
  BY <1>1, <1>2, <1>3, <1>4, FailedStep DEF Closed
<1> QED
  BY <1>2, <1>4, <1>5, KeptTypes, FilesRest

LEMMA CloseStep ==
  ASSUME Pair!PairedAssumption, PairInv, Pair!CloseRequest PROVE PairInv'
<1>1. UNCHANGED <<pairSlot, bad, rec, consumed, newest, pairApp>> /\ Pair!At("approve")
  BY DEF Pair!CloseRequest
<1>2. PICK k \in Pair!OpenKeys(pairOp.id) :
        \/ Pair!End /\ UNCHANGED intents
        \/ Pair!Unverified(k) /\ Pair!transition(k, "HANDED_OFF_UNKNOWN") /\ Pair!End
        \/ pairOp' = [pairOp EXCEPT !.pc = "detach", !.k = k] /\ UNCHANGED intents
  BY DEF Pair!CloseRequest
<1>3. /\ pairOp \in Ops /\ pairOp.via # "resume" /\ k \in DOMAIN intents /\ k \in 0..MaxKeys
      /\ intents[k].id = pairOp.id /\ PairTypes
  BY <1>1, Prompt
<1>4. CASE Pair!End /\ UNCHANGED intents
  BY <1>1, <1>3, <1>4, EndRests, OnlyOp
<1>5. CASE Pair!Unverified(k) /\ Pair!transition(k, "HANDED_OFF_UNKNOWN") /\ Pair!End
  <2>1. intents[k].st \in {"PREPARED", "UNKNOWN"}
    BY <1>5 DEF Pair!Unverified
  <2>2. consumed' \subseteq DOMAIN intents
    BY <1>1 DEF PairInv, PairTypes
  <2>3. /\ intents' \in Seq(Intents) /\ Len(intents') = Len(intents)
        /\ DOMAIN intents' = DOMAIN intents /\ KeySound' /\ Pair!ReleasedUnderKey'
    BY <1>1, <1>3, <1>5, <2>1, <2>2, KeyStep DEF Pair!IntentStates, Closed
  <2>4. pairOp' \in Ops /\ OpSound'
    BY <1>3, <1>5, EndRests
  <2> QED
    BY <1>1, <2>2, <2>3, <2>4, KeptTypes, FilesRest
<1>6. CASE pairOp' = [pairOp EXCEPT !.pc = "detach", !.k = k] /\ UNCHANGED intents
  <2>1. /\ pairOp' \in Ops /\ pairOp'.pc = "detach" /\ pairOp'.k = k /\ pairOp'.id = pairOp.id
        /\ pairOp'.via = pairOp.via
    BY <1>3, <1>6 DEF Ops, PairPcs, Keyed
  <2>2. \A n \in Names : "detach" \notin {Pair!Rename(n), Pair!Readback(n)}
    BY DEF Pair!Rename, Pair!Readback
  <2>3. OpSound'
    BY <1>3, <1>6, <2>1, <2>2 DEF OpSound, Moves
  <2> QED
    BY <1>1, <1>6, <2>1, <2>3, OnlyOp
<1> QED
  BY <1>2, <1>4, <1>5, <1>6

LEMMA ResumeStep ==
  ASSUME Pair!PairedAssumption, PairInv, Pair!ResumeConsumed PROVE PairInv'
<1>1. UNCHANGED <<pairSlot, bad, rec, intents, consumed, newest, pairApp>> /\ Pair!At("approve")
  BY DEF Pair!ResumeConsumed
<1>2. CASE Pair!End
  BY <1>1, <1>2, Prompt, EndRests, OnlyOp
<1>3. CASE ~Pair!End
  <2>1. PICK k \in Pair!OpenKeys(pairOp.id), v \in {pairOp.via, "resume"}, p \in {"complete", "hold"} :
          /\ intents[k].st = "CONSUMED"
          /\ pairOp' = [pairOp EXCEPT !.k = k, !.via = v, !.pc = p]
    BY <1>3 DEF Pair!ResumeConsumed
  <2>2. pairOp \in Ops /\ k \in DOMAIN intents /\ k \in 0..MaxKeys /\ intents[k].id = pairOp.id
    BY <1>1, Prompt
  <2>3. /\ pairOp' \in Ops /\ pairOp'.pc = p /\ pairOp'.k = k /\ pairOp'.id = pairOp.id
    BY <2>1, <2>2 DEF Ops, PairPcs, Keyed, Moves
  <2>4. \A n \in Names : {"complete", "hold"} \cap {Pair!Rename(n), Pair!Readback(n)} = {}
    BY DEF Pair!Rename, Pair!Readback
  <2>5. OpSound'
    BY <1>1, <2>1, <2>2, <2>3, <2>4 DEF OpSound, Moves
  <2> QED
    BY <1>1, <2>3, <2>5, OnlyOp
<1> QED
  BY <1>2, <1>3

(* The request is written for what the original files hold now.            *)
LEMMA NewKey ==
  ASSUME PairInv, pairOp.id \in Ids, Pair!Readable(pairOp.id)
  PROVE  /\ Pair!NewIntent \in Intents /\ Pair!NewIntent.st = "PREPARED"
         /\ Pair!NewIntent.id = pairOp.id
<1>1. /\ rec[pairOp.id].arch \in [Names -> 0..Pair!Other] /\ pairSlot \in [Names -> 0..Pair!Other]
      /\ pairApp.epoch \in Nat
  BY DEF PairInv, PairTypes, Records_, Apps
<1>2. ASSUME NEW n \in Names PROVE Pair!source(pairOp.id)[n] \in Pair!Contents
  <2>1. Pair!source(pairOp.id)[n] # Pair!Gone
    BY DEF Pair!Readable, Names
  <2>2. Pair!source(pairOp.id)[n] \in {rec[pairOp.id].arch[n], pairSlot[n]}
    BY DEF Pair!source, Names
  <2>3. rec[pairOp.id].arch[n] \in 0..Pair!Other /\ pairSlot[n] \in 0..Pair!Other
    BY <1>1
  <2> QED
    BY <2>1, <2>2, <2>3 DEF Pair!Contents, Pair!Gone
<1>3. Pair!source(pairOp.id) \in Ids
  <2>1. Pair!source(pairOp.id) = [n \in Names |-> Pair!source(pairOp.id)[n]]
    BY DEF Pair!source, Names
  <2> QED
    BY <1>2, <2>1 DEF Ids, Pair!Ids, Names
<1>4. "PREPARED" \in Pair!IntentStates
  BY DEF Pair!IntentStates
<1>5. Pair!NewIntent = [st |-> "PREPARED", id |-> pairOp.id, snap |-> Pair!source(pairOp.id),
        vid |-> FALSE, held |-> FALSE, epoch |-> pairApp.epoch, moving |-> {}]
  BY DEF Pair!NewIntent
<1> QED
  BY <1>1, <1>3, <1>4, <1>5 DEF Intents

LEMMA RequestStep ==
  ASSUME Pair!PairedAssumption, PairInv, Pair!NewRequest PROVE PairInv'
<1>1. UNCHANGED <<pairSlot, bad, rec, consumed, newest, pairApp>> /\ Pair!At("approve")
  BY DEF Pair!NewRequest
<1>2. /\ pairOp \in Ops /\ pairOp.pc = "approve" /\ pairOp.via # "resume" /\ pairOp.id \in Ids
      /\ rec[pairOp.id].st = "pending" /\ PairTypes /\ rec \in [Ids -> Records_]
  BY <1>1, Prompt
<1>3. CASE Pair!End /\ UNCHANGED intents
  BY <1>1, <1>2, <1>3, EndRests, OnlyOp
<1>4. CASE /\ Pair!Readable(pairOp.id) /\ Len(intents) < MaxKeys
           /\ intents' = Append(CloseKeys(Pair!OpenKeys(pairOp.id)), Pair!NewIntent)
           /\ pairOp' = [pairOp EXCEPT !.pc = "verify", !.k = Len(intents) + 1]
  <2> DEFINE S == Pair!OpenKeys(pairOp.id)
             old == CloseKeys(S)
             n == Len(intents) + 1
  <2>1. /\ Pair!NewIntent \in Intents /\ Pair!NewIntent.st = "PREPARED"
        /\ Pair!NewIntent.id = pairOp.id
    BY <1>2, <1>4, NewKey
  <2>2. /\ old \in Seq(Intents) /\ Len(old) = Len(intents) /\ DOMAIN old = DOMAIN intents
        /\ \A k \in DOMAIN intents :
              /\ old[k].id = intents[k].id /\ old[k].snap = intents[k].snap
              /\ old[k].held = intents[k].held
              /\ k \in S => old[k].st = "SUPERSEDED"
              /\ k \notin S => old[k] = intents[k]
    BY ClosedKeys
  <2>3. intents \in Seq(Intents) /\ Len(intents) \in Nat /\ DOMAIN intents = 1..Len(intents)
    BY <1>2 DEF PairTypes
  <2>4. intents' = Append(old, Pair!NewIntent)
    BY <1>4
  <2>5. \A k \in DOMAIN intents : k \notin S =>
          intents[k].id # pairOp.id \/ intents[k].st \in Closed \cup {"APPLIED"}
    BY DEF Pair!OpenKeys, Closed, Pair!Closed
  <2> HIDE DEF S, old
  <2>6. /\ intents' \in Seq(Intents) /\ Len(intents') = n /\ DOMAIN intents' = 1..n
        /\ intents'[n] = Pair!NewIntent
        /\ \A k \in DOMAIN intents : intents'[k] = old[k]
    BY <2>1, <2>2, <2>3, <2>4
  <2>7. /\ intents'[n].id = pairOp.id /\ intents'[n].st = "PREPARED"
        /\ \A k \in DOMAIN intents :
              /\ intents'[k].id = intents[k].id /\ intents'[k].snap = intents[k].snap
              /\ intents'[k].held = intents[k].held
              /\ k \in S => intents'[k].st = "SUPERSEDED"
              /\ k \notin S => intents'[k] = intents[k]
    BY <2>1, <2>2, <2>6
  <2>8. \A k \in DOMAIN intents : intents[k].id = pairOp.id => intents'[k].st \in Closed
    <3> TAKE k \in DOMAIN intents
    <3>1. intents[k].st = "APPLIED" => intents[k].id # pairOp.id
      BY <1>2 DEF PairInv, KeySound
    <3> QED
      BY <2>5, <2>7, <3>1 DEF Closed
  <2>9. DOMAIN intents' = DOMAIN intents \cup {n}
    BY <2>3, <2>6
  <2>10. KeySound'
    <3>1. ASSUME NEW k \in DOMAIN intents'
          PROVE  /\ rec[intents'[k].id].st # "none"
                 /\ intents'[k].st \in {"CONSUMED", "APPLIED"} => k \in consumed
                 /\ rec[intents'[k].id].st = "released" /\ intents'[k].st \notin Closed =>
                      intents'[k].snap = intents'[k].id
                 /\ intents'[k].st = "APPLIED" => rec[intents'[k].id].st = "released"
                 /\ intents'[k].st = "UNVERIFIED_DETACHING" => intents'[k].held
      <4>1. CASE k = n
        BY <1>2, <2>7, <4>1
      <4>2. CASE k \in DOMAIN intents
        BY <2>7, <4>2 DEF PairInv, KeySound, Closed
      <4> QED
        BY <2>9, <3>1, <4>1, <4>2
    <3>2. ASSUME NEW k \in DOMAIN intents', NEW j \in DOMAIN intents', intents'[k].id = intents'[j].id,
                 intents'[k].st \notin Closed, intents'[j].st \notin Closed
          PROVE  k = j
      <4>1. CASE k = n \/ j = n
        BY <2>7, <2>8, <2>9, <3>2, <4>1
      <4>2. CASE k \in DOMAIN intents /\ j \in DOMAIN intents
        BY <2>7, <3>2, <4>2 DEF PairInv, KeySound, Closed
      <4> QED
        BY <2>9, <4>1, <4>2
    <3>3. \A a, b \in Pair!pending' : a = b
      BY <1>1 DEF PairInv, KeySound, Pair!pending
    <3> QED
      BY <1>1, <3>1, <3>2, <3>3 DEF KeySound
  <2>11. Pair!ReleasedUnderKey'
    BY <1>1, <2>7, <2>9 DEF PairInv, Pair!ReleasedUnderKey
  <2>12. n \in 0..MaxKeys /\ Len(intents') <= MaxKeys
    BY <1>4, <2>3, <2>6 DEF Pair!PairedAssumption
  <2>13. /\ pairOp' \in Ops /\ pairOp'.pc = "verify" /\ pairOp'.k = n /\ pairOp'.id = pairOp.id
         /\ pairOp'.via = pairOp.via
    BY <1>2, <1>4, <2>12 DEF Ops, PairPcs, Keyed
  <2>14. OpSound'
    <3>1. \A m \in Names : "verify" \notin {Pair!Rename(m), Pair!Readback(m)}
      BY DEF Pair!Rename, Pair!Readback
    <3> QED
      BY <1>2, <2>7, <2>9, <2>13, <3>1 DEF OpSound, Moves
  <2>15. consumed' \subseteq DOMAIN intents'
    BY <1>1, <2>9 DEF PairInv, PairTypes
  <2> QED
    BY <1>1, <2>6, <2>10, <2>11, <2>12, <2>13, <2>14, <2>15, FilesRest
<1> QED
  BY <1>3, <1>4 DEF Pair!NewRequest, CloseKeys

(* The handler is at one of the steps that have a key.                     *)
LEMMA AtKey ==
  ASSUME PairInv, NEW p \in Keyed, Pair!At(p)
  PROVE  /\ pairOp \in Ops /\ pairOp.pc = p /\ pairOp.id \in Ids /\ pairOp.k \in DOMAIN intents
         /\ intents[pairOp.k].id = pairOp.id /\ PairTypes /\ rec \in [Ids -> Records_]
         /\ consumed \subseteq DOMAIN intents /\ rec[pairOp.id].st # "none"
<1>1. pairOp \in Ops /\ pairOp.pc = p /\ PairTypes /\ rec \in [Ids -> Records_]
  BY DEF PairInv, PairTypes, Pair!At
<1>2. pairOp.k \in DOMAIN intents /\ intents[pairOp.k].id = pairOp.id
  BY <1>1 DEF PairInv, OpSound
<1>3. rec[intents[pairOp.k].id].st # "none"
  BY <1>2 DEF PairInv, KeySound
<1> QED
  BY <1>1, <1>2, <1>3 DEF Ops, PairTypes

(* A request that was not consumed is verified, its hold stays marked.     *)
Verifies(k) == intents' = [intents EXCEPT ![k].st = "VERIFIED", ![k].vid = TRUE]

LEMMA VerifiedKey ==
  ASSUME PairInv, NEW k \in DOMAIN intents, UNCHANGED <<rec, consumed>>,
         intents[k].st \in {"PREPARED", "UNKNOWN", "UNVERIFIED_OPERATOR_HOLD"}, Verifies(k)
  PROVE  /\ intents' \in Seq(Intents) /\ Len(intents') = Len(intents)
         /\ DOMAIN intents' = DOMAIN intents /\ intents'[k].st = "VERIFIED"
         /\ intents'[k].id = intents[k].id
         /\ KeySound' /\ Pair!ReleasedUnderKey'
<1> DEFINE new == [intents[k] EXCEPT !.st = "VERIFIED", !.vid = TRUE]
<1>1. intents \in Seq(Intents) /\ intents[k] \in Intents /\ DOMAIN intents = 1..Len(intents)
  BY DEF PairInv, PairTypes
<1>2. /\ new \in Intents /\ new.st = "VERIFIED" /\ new.id = intents[k].id
      /\ new.snap = intents[k].snap /\ new.held = intents[k].held
  <2>1. "VERIFIED" \in Pair!IntentStates
    BY DEF Pair!IntentStates
  <2> QED
    BY <1>1, <2>1 DEF Intents
<1>3. intents' = [intents EXCEPT ![k] = new]
  BY DEF Verifies
<1> HIDE DEF new
<1>4. new \in Intents
  BY <1>2
<1>5. /\ intents' \in Seq(Intents) /\ Len(intents') = Len(intents)
      /\ DOMAIN intents' = DOMAIN intents
  BY <1>1, <1>3, <1>4
<1>6. intents'[k] = new /\ \A j \in DOMAIN intents : j # k => intents'[j] = intents[j]
  BY <1>1, <1>3
<1>7. /\ intents' \in Seq(Intents) /\ Len(intents') = Len(intents)
      /\ DOMAIN intents' = DOMAIN intents /\ intents'[k].st = "VERIFIED"
      /\ intents'[k].id = intents[k].id /\ intents'[k].held = intents[k].held
      /\ \A j \in DOMAIN intents :
           /\ intents'[j].id = intents[j].id /\ intents'[j].snap = intents[j].snap
           /\ j # k => intents'[j] = intents[j]
  BY <1>2, <1>5, <1>6
<1>8. KeySound' /\ Pair!ReleasedUnderKey'
  <2>1. RecordsKept /\ HeldKept(k)
    BY <1>7 DEF RecordsKept, HeldKept
  <2> QED
    BY <1>7, <2>1, KeyChange DEF Closed
<1> QED
  BY <1>7, <1>8

LEMMA VerifyStep ==
  ASSUME Pair!PairedAssumption, PairInv, Pair!verify PROVE PairInv'
<1>1. UNCHANGED <<pairSlot, bad, rec, consumed, newest, pairApp>> /\ Pair!At("verify")
  BY DEF Pair!verify
<1>2. /\ pairOp \in Ops /\ pairOp.pc = "verify" /\ pairOp.k \in DOMAIN intents
      /\ intents[pairOp.k].id = pairOp.id /\ PairTypes
      /\ intents[pairOp.k].st \in {"PREPARED", "UNKNOWN"} /\ pairOp.via # "resume"
      /\ consumed' \subseteq DOMAIN intents
  <2>1. "verify" \in Keyed
    BY DEF Keyed
  <2>2. /\ pairOp \in Ops /\ pairOp.pc = "verify" /\ pairOp.k \in DOMAIN intents
        /\ intents[pairOp.k].id = pairOp.id /\ PairTypes /\ consumed' \subseteq DOMAIN intents
    BY <1>1, <2>1, AtKey
  <2>3. intents[pairOp.k].st \in {"PREPARED", "UNKNOWN"} /\ pairOp.via # "resume"
    BY <2>2 DEF PairInv, OpSound, Moves
  <2> QED
    BY <2>2, <2>3
<1>3. CASE /\ Pair!Go("redeem")
           /\ intents' = [intents EXCEPT ![pairOp.k].st = "VERIFIED", ![pairOp.k].vid = TRUE]
  <2> DEFINE k == pairOp.k
  <2>4. /\ intents' \in Seq(Intents) /\ Len(intents') = Len(intents)
        /\ DOMAIN intents' = DOMAIN intents /\ intents'[k].st = "VERIFIED"
        /\ intents'[k].id = intents[k].id /\ KeySound' /\ Pair!ReleasedUnderKey'
    BY <1>1, <1>2, <1>3, VerifiedKey DEF Verifies
  <2>6. "redeem" \in PairPcs
    BY DEF PairPcs, Keyed
  <2>7. /\ pairOp' \in Ops /\ pairOp'.pc = "redeem" /\ pairOp'.k = k /\ pairOp'.id = pairOp.id
        /\ pairOp'.via = pairOp.via
    BY <1>2, <1>3, <2>6, OpGoes DEF Pair!Go
  <2>8. OpSound'
    <3>1. \A n \in Names : "redeem" \notin {Pair!Rename(n), Pair!Readback(n)}
      BY DEF Pair!Rename, Pair!Readback
    <3> QED
      BY <1>2, <2>4, <2>7, <3>1 DEF OpSound, Moves
  <2> QED
    BY <1>1, <1>2, <2>4, <2>7, <2>8, KeptTypes, FilesRest
<1>4. CASE Pair!End /\ Pair!transition(pairOp.k, "REJECTED")
  <2>1. /\ intents' \in Seq(Intents) /\ Len(intents') = Len(intents)
        /\ DOMAIN intents' = DOMAIN intents /\ KeySound' /\ Pair!ReleasedUnderKey'
    BY <1>1, <1>2, <1>4, KeyStep DEF Pair!IntentStates, Closed
  <2> QED
    BY <1>1, <1>2, <1>4, <2>1, EndRests, KeptTypes, FilesRest
<1>5. CASE Pair!Failed(pairOp.k, pairOp)
  <2>1. /\ intents' \in Seq(Intents) /\ Len(intents') = Len(intents)
        /\ DOMAIN intents' = DOMAIN intents
        /\ KeySound' /\ Pair!ReleasedUnderKey' /\ pairOp' \in Ops /\ OpSound'
    BY <1>1, <1>2, <1>5, FailedStep DEF Closed
  <2> QED
    BY <1>1, <1>2, <2>1, KeptTypes, FilesRest
<1> QED
  BY <1>3, <1>4, <1>5 DEF Pair!verify

LEMMA RedeemStep ==
  ASSUME Pair!PairedAssumption, PairInv, Pair!redeem PROVE PairInv'
<1>1. UNCHANGED <<pairSlot, bad, rec, newest, pairApp>> /\ Pair!At("redeem")
  BY DEF Pair!redeem
<1>2. /\ pairOp \in Ops /\ pairOp.pc = "redeem" /\ pairOp.k \in DOMAIN intents
      /\ intents[pairOp.k].id = pairOp.id /\ PairTypes
      /\ intents[pairOp.k].st = "VERIFIED" /\ pairOp.via # "resume"
      /\ consumed' \subseteq DOMAIN intents /\ consumed \subseteq consumed'
  <2>1. "redeem" \in Keyed
    BY DEF Keyed
  <2>2. /\ pairOp \in Ops /\ pairOp.pc = "redeem" /\ pairOp.k \in DOMAIN intents
        /\ intents[pairOp.k].id = pairOp.id /\ PairTypes /\ consumed \subseteq DOMAIN intents
    BY <1>1, <2>1, AtKey
  <2>3. intents[pairOp.k].st = "VERIFIED" /\ pairOp.via # "resume"
    BY <2>2 DEF PairInv, OpSound, Moves
  <2>4. consumed' \in {consumed, consumed \cup {pairOp.k}}
    BY DEF Pair!redeem
  <2> QED
    BY <2>2, <2>3, <2>4
<1>3. CASE Pair!Go("consume") /\ consumed' = consumed \cup {pairOp.k} /\ UNCHANGED intents
  <2>1. "consume" \in PairPcs
    BY DEF PairPcs, Keyed
  <2>2. /\ pairOp' \in Ops /\ pairOp'.pc = "consume" /\ pairOp'.k = pairOp.k /\ pairOp'.id = pairOp.id
        /\ pairOp'.via = pairOp.via
    BY <1>2, <1>3, <2>1, OpGoes DEF Pair!Go
  <2>3. OpSound'
    <3>1. \A n \in Names : "consume" \notin {Pair!Rename(n), Pair!Readback(n)}
      BY DEF Pair!Rename, Pair!Readback
    <3> QED
      BY <1>2, <1>3, <2>2, <3>1 DEF OpSound, Moves
  <2>4. KeySound' /\ Pair!ReleasedUnderKey'
    BY <1>1, <1>3 DEF PairInv, KeySound, Pair!ReleasedUnderKey, Pair!pending
  <2>5. intents' \in Seq(Intents) /\ Len(intents') <= MaxKeys /\ consumed' \subseteq DOMAIN intents'
    BY <1>2, <1>3 DEF PairTypes
  <2> QED
    BY <1>1, <2>2, <2>3, <2>4, <2>5, FilesRest
<1>4. CASE Pair!End /\ Pair!transition(pairOp.k, "REJECTED")
  <2>1. /\ intents' \in Seq(Intents) /\ Len(intents') = Len(intents)
        /\ DOMAIN intents' = DOMAIN intents /\ KeySound' /\ Pair!ReleasedUnderKey'
    BY <1>1, <1>2, <1>4, KeyStep DEF Pair!IntentStates, Closed
  <2> QED
    BY <1>1, <1>2, <1>4, <2>1, EndRests, KeptTypes, FilesRest
<1>5. CASE Pair!Failed(pairOp.k, pairOp)
  <2>1. /\ intents' \in Seq(Intents) /\ Len(intents') = Len(intents)
        /\ DOMAIN intents' = DOMAIN intents
        /\ KeySound' /\ Pair!ReleasedUnderKey' /\ pairOp' \in Ops /\ OpSound'
    BY <1>1, <1>2, <1>5, FailedStep DEF Closed
  <2> QED
    BY <1>1, <1>2, <2>1, KeptTypes, FilesRest
<1> QED
  BY <1>3, <1>4, <1>5 DEF Pair!redeem

LEMMA ConsumeStep ==
  ASSUME Pair!PairedAssumption, PairInv, Pair!Consume PROVE PairInv'
<1>1. /\ UNCHANGED <<pairSlot, bad, rec, consumed, newest, pairApp>> /\ Pair!At("consume")
      /\ Pair!Go("fingerprint") /\ Pair!transition(pairOp.k, "CONSUMED")
  BY DEF Pair!Consume
<1>2. "consume" \in Keyed /\ "fingerprint" \in PairPcs /\ "CONSUMED" \in Pair!IntentStates
  BY DEF Keyed, PairPcs, Pair!IntentStates
<1>3. /\ pairOp \in Ops /\ pairOp.pc = "consume" /\ pairOp.k \in DOMAIN intents
      /\ intents[pairOp.k].id = pairOp.id /\ PairTypes /\ consumed' \subseteq DOMAIN intents
  BY <1>1, <1>2, AtKey
<1>4. intents[pairOp.k].st = "VERIFIED" /\ pairOp.via # "resume" /\ pairOp.k \in consumed
  BY <1>3 DEF PairInv, OpSound, Moves
<1>5. /\ intents' \in Seq(Intents) /\ Len(intents') = Len(intents)
      /\ DOMAIN intents' = DOMAIN intents /\ KeySound' /\ Pair!ReleasedUnderKey'
      /\ intents'[pairOp.k].st = "CONSUMED" /\ intents'[pairOp.k].id = pairOp.id
  BY <1>1, <1>2, <1>3, <1>4, KeyStep DEF Closed
<1>6. /\ pairOp' \in Ops /\ pairOp'.pc = "fingerprint" /\ pairOp'.k = pairOp.k
      /\ pairOp'.id = pairOp.id /\ pairOp'.via = pairOp.via
  BY <1>1, <1>2, <1>3, OpGoes DEF Pair!Go
<1>7. OpSound'
  <2>1. \A n \in Names : "fingerprint" \notin {Pair!Rename(n), Pair!Readback(n)}
    BY DEF Pair!Rename, Pair!Readback
  <2> QED
    BY <1>3, <1>4, <1>5, <1>6, <2>1 DEF OpSound, Moves
<1> QED
  BY <1>1, <1>3, <1>5, <1>6, <1>7, KeptTypes, FilesRest

LEMMA TargetStep ==
  ASSUME Pair!PairedAssumption, PairInv, Pair!_admin_pin_target_changed PROVE PairInv'
<1>1. UNCHANGED <<pairSlot, bad, rec, consumed, newest, pairApp>> /\ Pair!At("fingerprint")
  BY DEF Pair!_admin_pin_target_changed
<1>2. "fingerprint" \in Keyed /\ "event" \in PairPcs /\ "TARGET_CHANGED" \in Pair!IntentStates
  BY DEF Keyed, PairPcs, Pair!IntentStates
<1>3. /\ pairOp \in Ops /\ pairOp.pc = "fingerprint" /\ pairOp.k \in DOMAIN intents
      /\ intents[pairOp.k].id = pairOp.id /\ PairTypes /\ consumed' \subseteq DOMAIN intents
  BY <1>1, <1>2, AtKey
<1>4. intents[pairOp.k].st = "CONSUMED" /\ pairOp.k \in consumed
  BY <1>3 DEF PairInv, OpSound, KeySound
<1>5. CASE Pair!Go("event") /\ UNCHANGED intents
  <2>1. /\ pairOp' \in Ops /\ pairOp'.pc = "event" /\ pairOp'.k = pairOp.k
        /\ pairOp'.id = pairOp.id /\ pairOp'.via = pairOp.via
    BY <1>2, <1>3, <1>5, OpGoes DEF Pair!Go
  <2>2. \A n \in Names : "event" \notin {Pair!Rename(n), Pair!Readback(n)}
    BY DEF Pair!Rename, Pair!Readback
  <2>3. OpSound'
    BY <1>3, <1>4, <1>5, <2>1, <2>2 DEF OpSound, Moves
  <2> QED
    BY <1>1, <1>5, <2>1, <2>3, OnlyOp
<1>6. CASE Pair!End /\ UNCHANGED intents
  BY <1>1, <1>3, <1>6, EndRests, OnlyOp
<1>7. CASE Pair!End /\ Pair!transition(pairOp.k, "TARGET_CHANGED")
  <2>1. /\ intents' \in Seq(Intents) /\ Len(intents') = Len(intents)
        /\ DOMAIN intents' = DOMAIN intents /\ KeySound' /\ Pair!ReleasedUnderKey'
    BY <1>1, <1>2, <1>3, <1>4, <1>7, KeyStep DEF Closed
  <2> QED
    BY <1>1, <1>3, <1>7, <2>1, EndRests, KeptTypes, FilesRest
<1> QED
  BY <1>5, <1>6, <1>7 DEF Pair!_admin_pin_target_changed

(* Only the audit event of a record is new.                                *)
LEMMA EventStep ==
  ASSUME Pair!PairedAssumption, PairInv, Pair!LogDeferred PROVE PairInv'
<1>1. UNCHANGED <<pairSlot, bad, intents, consumed, newest, pairApp>> /\ Pair!At("event")
  BY DEF Pair!LogDeferred
<1>2. "event" \in Keyed /\ "hold" \in PairPcs
  BY DEF Keyed, PairPcs, Moves
<1>3. /\ pairOp \in Ops /\ pairOp.pc = "event" /\ pairOp.id \in Ids /\ pairOp.k \in DOMAIN intents
      /\ intents[pairOp.k].id = pairOp.id /\ PairTypes /\ rec \in [Ids -> Records_]
  BY <1>1, <1>2, AtKey
<1>4. intents[pairOp.k].st = "CONSUMED" /\ pairOp.k \in 0..MaxKeys
  BY <1>3 DEF PairInv, OpSound, Ops
<1>5. CASE Pair!End /\ UNCHANGED rec
  BY <1>1, <1>3, <1>5, EndRests, OnlyOp
<1>6. CASE ~ (Pair!End /\ UNCHANGED rec)
  <2>1. /\ pairOp' = [pairOp EXCEPT !.pc = "hold", !.via = "fresh"]
        /\ rec' = [rec EXCEPT ![pairOp.id].event = IF @ = 0 THEN pairOp.k ELSE @]
    BY <1>6 DEF Pair!LogDeferred
  <2> DEFINE r == rec[pairOp.id]
             e == IF r.event = 0 THEN pairOp.k ELSE r.event
             new == [r EXCEPT !.event = e]
  <2>2. r \in Records_ /\ rec' = [rec EXCEPT ![pairOp.id] = new]
    BY <1>3, <2>1
  <2>3. e \in 0..MaxKeys
    BY <1>4, <2>2 DEF Records_
  <2>4. new \in Records_ /\ new.st = r.st /\ new.arch = r.arch
    BY <2>2, <2>3 DEF Records_
  <2> HIDE DEF new
  <2>5. /\ rec' \in [Ids -> Records_]
        /\ \A a \in Ids : rec'[a].st = rec[a].st /\ rec'[a].arch = rec[a].arch
    BY <1>3, <2>2, <2>4
  <2>6. /\ pairOp' \in Ops /\ pairOp'.pc = "hold" /\ pairOp'.k = pairOp.k
        /\ pairOp'.id = pairOp.id /\ pairOp'.via = "fresh"
    BY <1>2, <1>3, <2>1 DEF Ops
  <2>7. \A n \in Names : "hold" \notin {Pair!Rename(n), Pair!Readback(n)}
    BY DEF Pair!Rename, Pair!Readback
  <2>8. OpSound'
    BY <1>1, <1>3, <1>4, <2>6, <2>7 DEF OpSound, Moves
  <2>9. PairTypes'
    BY <1>1, <1>3, <2>5, <2>6 DEF PairTypes
  <2>10. \A k \in DOMAIN intents : intents[k].id \in Ids
    BY KeyFacts
  <2>11. KeySound'
    BY <1>1, <2>5, <2>10 DEF PairInv, KeySound, Pair!pending, Ids
  <2>12. PlacesSound' /\ Pair!ReleasedUnderKey'
    BY <1>1, <2>5 DEF PairInv, PlacesSound, Pair!ReleasedUnderKey, Ids
  <2>13. FirstSound'
    BY <1>1, <2>5 DEF PairInv, FirstSound
  <2> QED
    BY <2>8, <2>9, <2>11, <2>12, <2>13 DEF PairInv
<1> QED
  BY <1>5, <1>6

LEMMA ReleaseStep ==
  ASSUME Pair!PairedAssumption, PairInv, Pair!release PROVE PairInv'
<1>1. UNCHANGED <<pairSlot, bad, intents, consumed, newest, pairApp>> /\ Pair!At("release")
  BY DEF Pair!release
<1>2. "release" \in Keyed
  BY DEF Keyed, Moves
<1>3. /\ pairOp \in Ops /\ pairOp.pc = "release" /\ pairOp.id \in Ids /\ pairOp.k \in DOMAIN intents
      /\ intents[pairOp.k].id = pairOp.id /\ PairTypes /\ rec \in [Ids -> Records_]
      /\ rec[pairOp.id].st # "none"
  BY <1>1, <1>2, AtKey
<1>4. CASE Pair!End /\ UNCHANGED rec
  BY <1>1, <1>3, <1>4, EndRests, OnlyOp
<1>5. CASE ~ (Pair!End /\ UNCHANGED rec)
  <2>1. /\ Pair!originals_match(pairOp.id) /\ rec' = [rec EXCEPT ![pairOp.id].st = "released"]
        /\ IF Pair!AfterRelease = "idle" THEN pairOp' = Pair!Idle ELSE Pair!Go(Pair!AfterRelease)
    BY <1>5 DEF Pair!release
  <2>2. /\ intents[pairOp.k].st \in {"CONSUMED", "UNVERIFIED_DETACHING"}
        /\ pairOp.via = "resume" => intents[pairOp.k].st = "CONSUMED"
        /\ pairOp.id["hold"] = intents[pairOp.k].snap["hold"]
        /\ pairOp.id["current"] = intents[pairOp.k].snap["current"]
    BY <1>3 DEF PairInv, OpSound, Moves
  <2>3. pairOp.k \in consumed \/ intents[pairOp.k].held
    BY <1>3, <2>2 DEF PairInv, KeySound
  <2>4. intents[pairOp.k].snap = pairOp.id
    <3>1. intents[pairOp.k].snap \in Ids /\ \A n \in Names : n \in {"hold", "current"}
      BY <1>3, KeyFacts DEF Names, Pair!Names
    <3> QED
      BY <1>3, <2>2, <3>1 DEF Ids, Pair!Ids, Names
  <2>5. rec[pairOp.id].arch = pairOp.id
    BY <2>1 DEF Pair!originals_match
  <2>6. /\ rec' \in [Ids -> Records_] /\ rec'[pairOp.id].st = "released"
        /\ \A a \in Ids : /\ a # pairOp.id => rec'[a] = rec[a]
                          /\ rec'[a].arch = rec[a].arch
    <3>1. rec' = [rec EXCEPT ![pairOp.id] = [rec[pairOp.id] EXCEPT !.st = "released"]]
      BY <2>1
    <3> QED
      BY <1>3, <3>1 DEF Records_
  <2>7. pairOp' \in Ops /\ OpSound'
    <3>1. CASE Pair!AfterRelease = "idle"
      BY <1>3, <2>1, <3>1, IdleRests
    <3>2. CASE Pair!AfterRelease # "idle"
      <4>1. /\ Pair!AfterRelease \in {"held", "fingerprint", "complete"}
            /\ Pair!AfterRelease = "held" => intents[pairOp.k].st = "UNVERIFIED_DETACHING"
            /\ Pair!AfterRelease \in {"fingerprint", "complete"} =>
                 intents[pairOp.k].st # "UNVERIFIED_DETACHING"
        BY <3>2 DEF Pair!AfterRelease, Pair!Mine
      <4> DEFINE p == Pair!AfterRelease
      <4>2. p \in Keyed /\ p \in PairPcs
        BY <4>1 DEF Keyed, PairPcs
      <4>3. Pair!Go(p)
        BY <2>1, <3>2
      <4> HIDE DEF p
      <4>4. /\ pairOp' \in Ops /\ pairOp'.pc = p /\ pairOp'.k = pairOp.k
            /\ pairOp'.id = pairOp.id /\ pairOp'.via = pairOp.via
        BY <1>3, <4>2, <4>3, OpGoes DEF Pair!Go
      <4>5. \A n \in Names : {"held", "fingerprint", "complete"} \cap {Pair!Rename(n), Pair!Readback(n)} = {}
        BY DEF Pair!Rename, Pair!Readback
      <4>6. /\ p \in {"held", "fingerprint", "complete"}
            /\ p = "held" => intents[pairOp.k].st = "UNVERIFIED_DETACHING"
            /\ p \in {"fingerprint", "complete"} => intents[pairOp.k].st = "CONSUMED"
        BY <2>2, <4>1 DEF p
      <4>7. OpSound'
        BY <1>1, <1>3, <2>2, <4>4, <4>5, <4>6 DEF OpSound, Moves
      <4> QED
        BY <4>4, <4>7
    <3> QED
      BY <3>1, <3>2
  <2>8. PairTypes'
    BY <1>1, <1>3, <2>6, <2>7 DEF PairTypes
  <2>9. \A k \in DOMAIN intents : intents[k].id \in Ids
    BY KeyFacts
  <2>10. KeySound'
    BY <1>1, <1>3, <2>2, <2>4, <2>6, <2>9 DEF PairInv, KeySound, Closed, Pair!pending, Ids
  <2>11. PlacesSound'
    BY <1>1, <2>6 DEF PairInv, PlacesSound, Ids
  <2>12. Pair!ReleasedUnderKey'
    BY <1>1, <1>3, <2>2, <2>3, <2>4, <2>5, <2>6 DEF PairInv, Pair!ReleasedUnderKey, Ids
  <2>13. FirstSound'
    BY <1>1, <1>3, <2>6 DEF PairInv, FirstSound
  <2> QED
    BY <2>7, <2>8, <2>10, <2>11, <2>12, <2>13 DEF PairInv
<1> QED
  BY <1>4, <1>5

LEMMA CompleteStep ==
  ASSUME Pair!PairedAssumption, PairInv, Pair!_admin_pin_complete PROVE PairInv'
<1>1. UNCHANGED <<pairSlot, bad, rec, consumed, newest, pairApp>> /\ Pair!At("complete")
  BY DEF Pair!_admin_pin_complete
<1>2. "complete" \in Keyed /\ "finish" \in PairPcs /\ "APPLIED" \in Pair!IntentStates
  BY DEF Keyed, PairPcs, Pair!IntentStates
<1>3. /\ pairOp \in Ops /\ pairOp.pc = "complete" /\ pairOp.k \in DOMAIN intents
      /\ intents[pairOp.k].id = pairOp.id /\ PairTypes /\ consumed' \subseteq DOMAIN intents
  BY <1>1, <1>2, AtKey
<1>4. CASE Pair!End /\ UNCHANGED intents
  BY <1>1, <1>3, <1>4, EndRests, OnlyOp
<1>5. CASE /\ intents[pairOp.k].st = "CONSUMED" /\ rec[pairOp.id].st = "released"
           /\ Pair!transition(pairOp.k, "APPLIED") /\ Pair!Go("finish")
  <2>1. pairOp.k \in consumed
    BY <1>3, <1>5 DEF PairInv, KeySound
  <2>2. /\ intents' \in Seq(Intents) /\ Len(intents') = Len(intents)
        /\ DOMAIN intents' = DOMAIN intents /\ KeySound' /\ Pair!ReleasedUnderKey'
        /\ intents'[pairOp.k].id = pairOp.id
    BY <1>1, <1>2, <1>3, <1>5, <2>1, KeyStep DEF Closed
  <2>3. /\ pairOp' \in Ops /\ pairOp'.pc = "finish" /\ pairOp'.k = pairOp.k
        /\ pairOp'.id = pairOp.id /\ pairOp'.via = pairOp.via
    BY <1>2, <1>3, <1>5, OpGoes DEF Pair!Go
  <2>4. \A n \in Names : "finish" \notin {Pair!Rename(n), Pair!Readback(n)}
    BY DEF Pair!Rename, Pair!Readback
  <2>5. OpSound'
    BY <1>3, <2>2, <2>3, <2>4 DEF OpSound, Moves
  <2> QED
    BY <1>1, <1>3, <2>2, <2>3, <2>5, KeptTypes, FilesRest
<1> QED
  BY <1>4, <1>5 DEF Pair!_admin_pin_complete, Pair!Mine, Pair!Pair

(* The program drops its tray, or keeps it as it was.                      *)
LEMMA TrayDropped ==
  ASSUME PairInv, UNCHANGED <<pairSlot, bad, rec, newest>>,
         intents' \in Seq(Intents), Len(intents') <= MaxKeys, consumed' \subseteq DOMAIN intents',
         KeySound', Pair!ReleasedUnderKey', pairOp' \in Ops, OpSound',
         pairApp' \in Apps,
         \/ pairApp'.tray = "none"
         \/ (pairApp'.tray = pairApp.tray /\ (pairApp.snap => pairApp'.snap))
  PROVE  PairInv'
<1>1. PairTypes'
  BY DEF PairInv, PairTypes
<1>2. PlacesSound'
  BY DEF PairInv, PlacesSound
<1>3. FirstSound'
  <2>1. CASE pairApp'.tray = "none"
    BY <2>1 DEF PairInv, FirstSound
  <2>2. CASE pairApp'.tray = pairApp.tray /\ (pairApp.snap => pairApp'.snap)
    BY <2>2 DEF PairInv, FirstSound
  <2> QED
    BY <2>1, <2>2
<1> QED
  BY <1>1, <1>2, <1>3 DEF PairInv

LEMMA FinishStep ==
  ASSUME Pair!PairedAssumption, PairInv, Pair!_finish_preflight_handoff PROVE PairInv'
<1>1. UNCHANGED <<pairSlot, bad, rec, intents, consumed, newest>> /\ Pair!End /\ PairTypes
  BY DEF Pair!_finish_preflight_handoff, PairInv
<1>2. /\ pairApp' \in Apps
      /\ pairApp'.tray = "none"
  BY DEF Pair!_finish_preflight_handoff, PairInv, PairTypes, Apps
<1>3. KeySound' /\ Pair!ReleasedUnderKey'
  BY <1>1 DEF PairInv, KeySound, Pair!ReleasedUnderKey, Pair!pending
<1>4. intents' \in Seq(Intents) /\ Len(intents') <= MaxKeys /\ consumed' \subseteq DOMAIN intents'
  BY <1>1 DEF PairTypes
<1> QED
  BY <1>1, <1>2, <1>3, <1>4, EndRests, TrayDropped

LEMMA DetachStep ==
  ASSUME Pair!PairedAssumption, PairInv, Pair!_admin_pin_detach_unverified PROVE PairInv'
<1>1. UNCHANGED <<pairSlot, bad, rec, intents, consumed, newest, pairApp>> /\ Pair!At("detach")
  BY DEF Pair!_admin_pin_detach_unverified
<1>2. "detach" \in Keyed /\ "hold" \in PairPcs
  BY DEF Keyed, PairPcs, Moves
<1>3. /\ pairOp \in Ops /\ pairOp.pc = "detach" /\ pairOp.k \in DOMAIN intents
      /\ intents[pairOp.k].id = pairOp.id /\ PairTypes
  BY <1>1, <1>2, AtKey
<1>4. CASE Pair!End
  BY <1>1, <1>3, <1>4, EndRests, OnlyOp
<1>5. CASE intents[pairOp.k].st = "UNVERIFIED_DETACHING" /\ Pair!Go("hold")
  <2>1. /\ pairOp' \in Ops /\ pairOp'.pc = "hold" /\ pairOp'.k = pairOp.k
        /\ pairOp'.id = pairOp.id /\ pairOp'.via = pairOp.via
    BY <1>2, <1>3, <1>5, OpGoes DEF Pair!Go
  <2>2. \A n \in Names : "hold" \notin {Pair!Rename(n), Pair!Readback(n)}
    BY DEF Pair!Rename, Pair!Readback
  <2>3. pairOp.via # "resume"
    BY <1>3 DEF PairInv, OpSound, Moves
  <2>4. OpSound'
    BY <1>1, <1>3, <1>5, <2>1, <2>2, <2>3 DEF OpSound, Moves
  <2> QED
    BY <1>1, <2>1, <2>4, OnlyOp
<1> QED
  BY <1>4, <1>5 DEF Pair!_admin_pin_detach_unverified, Pair!Mine

LEMMA HeldStep ==
  ASSUME Pair!PairedAssumption, PairInv, Pair!FinishDetachment PROVE PairInv'
<1>1. /\ UNCHANGED <<pairSlot, bad, rec, consumed, newest>> /\ Pair!At("held") /\ Pair!End
      /\ Pair!transition(pairOp.k, "UNVERIFIED_OPERATOR_HOLD")
  BY DEF Pair!FinishDetachment
<1>2. "held" \in Keyed /\ "UNVERIFIED_OPERATOR_HOLD" \in Pair!IntentStates
  BY DEF Keyed, Pair!IntentStates
<1>3. /\ pairOp \in Ops /\ pairOp.pc = "held" /\ pairOp.k \in DOMAIN intents
      /\ intents[pairOp.k].id = pairOp.id /\ PairTypes /\ consumed' \subseteq DOMAIN intents
  BY <1>1, <1>2, AtKey
<1>4. intents[pairOp.k].st = "UNVERIFIED_DETACHING"
  BY <1>3 DEF PairInv, OpSound
<1>5. /\ intents' \in Seq(Intents) /\ Len(intents') = Len(intents)
      /\ DOMAIN intents' = DOMAIN intents /\ KeySound' /\ Pair!ReleasedUnderKey'
  BY <1>1, <1>2, <1>3, <1>4, KeyStep DEF Closed
<1>6. /\ pairApp' \in Apps
      /\ pairApp'.tray = "none"
  BY <1>3 DEF Pair!FinishDetachment, PairTypes, Apps
<1> QED
  BY <1>1, <1>3, <1>5, <1>6, EndRests, KeptTypes, TrayDropped

(* A handler that is resumed with a key that is on disk.                   *)
LEMMA ResumedOp ==
  ASSUME PairInv, Pair!PairedAssumption, NEW k \in DOMAIN intents, NEW p \in {"detach", "hold", "complete"},
         NEW v \in {"startup", "recheck"}, UNCHANGED <<intents, rec, consumed>>,
         p \in {"hold", "complete"} => intents[k].st = "CONSUMED",
         pairOp' = [pc |-> p, via |-> v, id |-> intents[k].id, k |-> k]
  PROVE  pairOp' \in Ops /\ OpSound'
<1>1. k \in 0..MaxKeys /\ intents[k].id \in Ids
  <2>1. intents[k].id \in Ids /\ k \in 1..Len(intents)
    BY KeyFacts
  <2>2. Len(intents) <= MaxKeys /\ Len(intents) \in Nat /\ MaxKeys \in Nat
    BY DEF PairInv, PairTypes, Pair!PairedAssumption
  <2> QED
    BY <2>1, <2>2
<1>2. p \in PairPcs /\ p \notin {"supersede", "approve", "verify", "redeem", "consume"}
  BY DEF PairPcs, Keyed, Moves
<1>3. pairOp' \in Ops
  BY <1>1, <1>2 DEF Ops
<1>4. /\ pairOp'.pc = p /\ pairOp'.k = k /\ pairOp'.id = intents[k].id /\ pairOp'.via = v
  OBVIOUS
<1>5. \A n \in Names : {"detach", "hold", "complete"} \cap {Pair!Rename(n), Pair!Readback(n)} = {}
  BY DEF Pair!Rename, Pair!Readback
<1>6. OpSound'
  BY <1>2, <1>4, <1>5 DEF OpSound, Moves
<1> QED
  BY <1>3, <1>6

LEMMA RecheckStep ==
  ASSUME Pair!PairedAssumption, PairInv, Pair!Recheck PROVE PairInv'
<1>1. UNCHANGED <<pairSlot, bad, rec, consumed, newest>> /\ pairOp.pc = "idle" /\ PairTypes
  BY DEF Pair!Recheck, Pair!At, PairInv
<1>2. PICK k \in DOMAIN intents :
        \/ /\ intents[k].st \in {"UNVERIFIED_DETACHING", "CONSUMED"} /\ UNCHANGED <<intents, pairApp>>
           /\ \E p \in {"detach", "hold", "complete"} :
                /\ p \in {"hold", "complete"} => intents[k].st = "CONSUMED"
                /\ pairOp' = [Pair!Idle EXCEPT !.id = intents[k].id, !.k = k, !.via = "recheck", !.pc = p]
        \/ /\ intents[k].st \in {"PREPARED", "UNKNOWN", "UNVERIFIED_OPERATOR_HOLD", "VERIFIED"}
           /\ Pair!transition(k, "SUPERSEDED") /\ UNCHANGED <<pairOp, pairApp>>
        \/ /\ intents[k].st \in {"PREPARED", "UNKNOWN", "UNVERIFIED_OPERATOR_HOLD"}
           /\ intents' = [intents EXCEPT ![k].st = "VERIFIED", ![k].vid = TRUE]
           /\ UNCHANGED <<pairOp, pairApp>>
        \/ /\ pairApp' = [pairApp EXCEPT !.snap = FALSE, !.tray = "none"] /\ UNCHANGED <<intents, pairOp>>
  <2> DEFINE Resumed(k) == [Pair!Idle EXCEPT !.id = intents[k].id, !.k = k, !.via = "recheck"]
  <2>1. \A k : \A p : [Resumed(k) EXCEPT !.pc = p] =
          [Pair!Idle EXCEPT !.id = intents[k].id, !.k = k, !.via = "recheck", !.pc = p]
    BY DEF Pair!Idle
  <2> QED
    BY <2>1 DEF Pair!Recheck
<1>3. CASE \E p \in {"detach", "hold", "complete"} :
             /\ UNCHANGED <<intents, pairApp>>
             /\ p \in {"hold", "complete"} => intents[k].st = "CONSUMED"
             /\ pairOp' = [Pair!Idle EXCEPT !.id = intents[k].id, !.k = k, !.via = "recheck", !.pc = p]
  <2>1. PICK p \in {"detach", "hold", "complete"} :
             /\ UNCHANGED <<intents, pairApp>>
             /\ p \in {"hold", "complete"} => intents[k].st = "CONSUMED"
             /\ pairOp' = [Pair!Idle EXCEPT !.id = intents[k].id, !.k = k, !.via = "recheck", !.pc = p]
    BY <1>3
  <2>2. pairOp' = [pc |-> p, via |-> "recheck", id |-> intents[k].id, k |-> k]
    BY <2>1 DEF Pair!Idle
  <2>3. pairOp' \in Ops /\ OpSound'
    BY <1>1, <2>1, <2>2, ResumedOp
  <2> QED
    BY <1>1, <2>1, <2>3, OnlyOp
<1>4. CASE /\ intents[k].st \in {"PREPARED", "UNKNOWN", "UNVERIFIED_OPERATOR_HOLD", "VERIFIED"}
           /\ \/ Pair!transition(k, "SUPERSEDED")
              \/ /\ intents[k].st # "VERIFIED"
                 /\ intents' = [intents EXCEPT ![k].st = "VERIFIED", ![k].vid = TRUE]
           /\ UNCHANGED <<pairOp, pairApp>>
  <2>1. consumed' \subseteq DOMAIN intents /\ "SUPERSEDED" \in Pair!IntentStates
    BY <1>1 DEF PairTypes, Pair!IntentStates
  <2>2. /\ intents' \in Seq(Intents) /\ Len(intents') = Len(intents)
        /\ DOMAIN intents' = DOMAIN intents /\ KeySound' /\ Pair!ReleasedUnderKey'
    <3>1. CASE Pair!transition(k, "SUPERSEDED")
      BY <1>1, <1>4, <2>1, <3>1, KeyStep DEF Closed
    <3>2. CASE /\ intents[k].st # "VERIFIED"
               /\ intents' = [intents EXCEPT ![k].st = "VERIFIED", ![k].vid = TRUE]
      BY <1>1, <1>4, <3>2, VerifiedKey DEF Verifies
    <3> QED
      BY <1>4, <3>1, <3>2
  <2>3. \A n \in Names : "idle" \notin {Pair!Rename(n), Pair!Readback(n)}
    BY DEF Pair!Rename, Pair!Readback
  <2>4. pairOp' \in Ops /\ OpSound'
    <3>1. pairOp.via # "resume" /\ pairOp \in Ops
      BY <1>1 DEF PairInv, OpSound, PairTypes, Moves
    <3> QED
      BY <1>1, <1>4, <2>3, <3>1 DEF OpSound, Keyed, Moves
  <2> QED
    BY <1>1, <1>4, <2>1, <2>2, <2>4, KeptTypes, FilesRest
<1>5. CASE pairApp' = [pairApp EXCEPT !.snap = FALSE, !.tray = "none"] /\ UNCHANGED <<intents, pairOp>>
  <2>1. /\ pairApp' \in Apps
        /\ pairApp'.tray = "none"
    BY <1>1, <1>5 DEF PairTypes, Apps
  <2>2. KeySound' /\ Pair!ReleasedUnderKey' /\ OpSound' /\ pairOp' \in Ops
    BY <1>1, <1>5 DEF PairInv, PairTypes, KeySound, Pair!ReleasedUnderKey, OpSound, Pair!pending
  <2>3. intents' \in Seq(Intents) /\ Len(intents') <= MaxKeys /\ consumed' \subseteq DOMAIN intents'
    BY <1>1, <1>5 DEF PairTypes
  <2> QED
    BY <1>1, <2>1, <2>2, <2>3, TrayDropped
<1> QED
  BY <1>2, <1>3, <1>4, <1>5

LEMMA CrashStep ==
  ASSUME Pair!PairedAssumption, PairInv, Pair!Crash PROVE PairInv'
<1>1. UNCHANGED <<pairSlot, bad, rec, intents, consumed, newest>> /\ pairOp' = Pair!Idle /\ PairTypes
  BY DEF Pair!Crash, PairInv
<1>2. /\ pairApp' \in Apps
      /\ pairApp'.tray = "none"
  BY DEF Pair!Crash, PairInv, PairTypes, Apps
<1>3. KeySound' /\ Pair!ReleasedUnderKey'
  BY <1>1 DEF PairInv, KeySound, Pair!ReleasedUnderKey, Pair!pending
<1>4. intents' \in Seq(Intents) /\ Len(intents') <= MaxKeys /\ consumed' \subseteq DOMAIN intents'
  BY <1>1 DEF PairTypes
<1> QED
  BY <1>1, <1>2, <1>3, <1>4, IdleRests, TrayDropped

LEMMA LoginStep ==
  ASSUME Pair!PairedAssumption, PairInv, Pair!start_work PROVE PairInv'
<1>1. /\ UNCHANGED <<pairSlot, bad, rec, intents, consumed, newest>> /\ PairTypes
      /\ pairApp' = [pairApp EXCEPT !.up = TRUE, !.epoch = @ + 1]
  BY DEF Pair!start_work, PairInv
<1>2. pairApp' \in Apps /\ pairApp'.tray = pairApp.tray /\ (pairApp.snap => pairApp'.snap)
  <2> DEFINE e == pairApp.epoch + 1
  <2>1. pairApp \in Apps /\ e \in Nat
    BY <1>1 DEF PairTypes, Apps
  <2> HIDE DEF e
  <2>2. pairApp' = [pairApp EXCEPT !.up = TRUE, !.epoch = e]
    BY <1>1 DEF e
  <2>3. pairApp' \in Apps
    BY <2>1, <2>2, Zenon DEF Apps
  <2>4. pairApp'.tray = pairApp.tray
    BY <2>1, <2>2 DEF Apps
  <2>5. pairApp.snap => pairApp'.snap
    BY <2>1, <2>2, Zenon DEF Apps
  <2> QED
    BY <2>3, <2>4, <2>5
<1>3. KeySound' /\ Pair!ReleasedUnderKey'
  BY <1>1 DEF PairInv, KeySound, Pair!ReleasedUnderKey, Pair!pending
<1>4. intents' \in Seq(Intents) /\ Len(intents') <= MaxKeys /\ consumed' \subseteq DOMAIN intents'
  BY <1>1 DEF PairTypes
<1>5. pairOp' \in Ops /\ OpSound'
  <2>1. CASE pairOp' = [Pair!Idle EXCEPT !.pc = "load"]
    <3>1. pairOp' = [pc |-> "load", via |-> "fresh", id |-> Pair!NoId, k |-> 0]
      BY <2>1 DEF Pair!Idle
    <3> QED
      BY <1>1, <3>1, OpRests
  <2>2. CASE \E k \in DOMAIN intents :
               pairOp' = [pc |-> "detach", via |-> "startup", id |-> intents[k].id, k |-> k]
    BY <1>1, <2>2, ResumedOp
  <2> QED
    BY <2>1, <2>2 DEF Pair!start_work
<1> QED
  BY <1>1, <1>2, <1>3, <1>4, <1>5, TrayDropped

LEMMA AppSet ==
  ASSUME PairTypes, NEW s \in BOOLEAN, NEW t \in {"none", "other", "pair"},
         pairApp' = [pairApp EXCEPT !.snap = s, !.tray = t]
  PROVE  pairApp' \in Apps /\ pairApp'.tray = t /\ (s => pairApp'.snap)
<1>1. pairApp \in Apps
  BY DEF PairTypes
<1>2. pairApp' \in Apps
  BY <1>1, Zenon DEF Apps
<1>3. pairApp'.tray = t
  BY <1>1 DEF Apps
<1>4. s => pairApp'.snap
  BY <1>1, Zenon DEF Apps
<1> QED
  BY <1>2, <1>3, <1>4

(* Only the slots and the program change.                                  *)
LEMMA SlotsMove ==
  ASSUME PairInv, UNCHANGED <<rec, intents, consumed>>,
         pairSlot' \in [Names -> 0..Pair!Other], bad' \subseteq Pair!Contents,
         newest' \in [Names -> 1..MaxVersions], pairApp' \in Apps, pairOp' \in Ops, OpSound',
         PlacesSound', FirstSound'
  PROVE  PairInv'
<1>1. PairTypes'
  BY DEF PairInv, PairTypes
<1>2. KeySound' /\ Pair!ReleasedUnderKey'
  BY DEF PairInv, KeySound, Pair!ReleasedUnderKey, Pair!pending
<1> QED
  BY <1>1, <1>2 DEF PairInv

LEMMA OtherNew ==
  ASSUME Pair!PairedAssumption
  PROVE  /\ Pair!Other \in Nat /\ Pair!Other # Pair!Gone /\ Pair!Other \notin 1..MaxVersions
         /\ Pair!Other \in Pair!Contents /\ Pair!Gone = 0 /\ MaxVersions \in Nat
         /\ "hold" \in Names /\ "current" \in Names
         /\ \A n \in Names : n \in {"hold", "current"}
         /\ Pair!Contents = 1..Pair!Other
BY DEF Pair!PairedAssumption, Pair!Other, Pair!Gone, Pair!Contents, Names, Pair!Names

LEMMA LoadStep ==
  ASSUME Pair!PairedAssumption, PairInv, Pair!_load_current_tray_state PROVE PairInv'
<1> DEFINE c == pairSlot["current"]
           barred == c # Pair!Gone /\ Pair!_paired_preflight_blocks_label("current", c)
           holdBarred == Pair!_paired_preflight_blocks_label("hold", pairSlot["hold"])
           s == pairSlot["hold"] # Pair!Gone /\ ~holdBarred
           t == IF c = Pair!Gone \/ barred THEN "none"
                ELSE IF c = Pair!Other THEN "other" ELSE "pair"
<1>1. /\ UNCHANGED <<rec, intents, consumed, newest>> /\ pairOp' = Pair!Idle /\ PairTypes
      /\ IF barred THEN bad' = bad \cup {c} /\ pairSlot' = [pairSlot EXCEPT !["current"] = Pair!Gone]
                   ELSE UNCHANGED <<bad, pairSlot>>
      /\ pairApp' = [pairApp EXCEPT !.snap = s, !.tray = t]
  BY DEF Pair!_load_current_tray_state, PairInv
<1>2. /\ c = Pair!Gone \/ barred => t = "none"
      /\ ~(c = Pair!Gone \/ barred) /\ c = Pair!Other => t = "other"
      /\ ~(c = Pair!Gone \/ barred) /\ c # Pair!Other => t = "pair"
  OBVIOUS
<1>3. pairOp' \in Ops /\ OpSound'
  BY <1>1, IdleRests
<1>4. /\ pairSlot \in [Names -> 0..Pair!Other] /\ bad \subseteq Pair!Contents
      /\ newest \in [Names -> 1..MaxVersions] /\ rec \in [Ids -> Records_]
  BY <1>1 DEF PairTypes
<1>5. barred => \E a \in Ids : rec[a].st # "none"
  BY DEF Pair!_paired_preflight_blocks_label, Ids
<1>6. (\A a \in Ids : rec[a].st = "none") => s
  <2>1. (\A a \in Ids : rec[a].st = "none") => pairSlot["hold"] \in 1..MaxVersions
    BY OtherNew DEF PairInv, FirstSound
  <2>2. (\A a \in Ids : rec[a].st = "none") => ~holdBarred
    BY DEF Pair!_paired_preflight_blocks_label, Ids
  <2> QED
    BY <2>1, <2>2, OtherNew
<1>7. c # Pair!Gone /\ c # Pair!Other /\ ~barred => \A a \in Ids : rec[a].st = "none"
  <2> SUFFICES ASSUME c # Pair!Gone, c # Pair!Other, ~barred, NEW a \in Ids, rec[a].st # "none"
               PROVE  FALSE
    OBVIOUS
  <2>1. PICK b \in Ids : rec[b].st # "none" /\ b["current"] # Pair!Other
    BY DEF PairInv, FirstSound
  <2>2. Pair!_paired_preflight_blocks_label("current", c)
    BY <2>1 DEF Pair!_paired_preflight_blocks_label, Pair!SameLabel, Ids
  <2> QED
    BY <2>2
<1>8. t \in {"none", "other", "pair"} /\ s \in BOOLEAN
  BY <1>2
<1> HIDE DEF s, t, barred
<1>9. pairApp' \in Apps /\ pairApp'.tray = t /\ (s => pairApp'.snap)
  BY <1>1, <1>8, AppSet
<1>10. CASE barred
  <2>1. /\ bad' = bad \cup {c} /\ pairSlot' = [pairSlot EXCEPT !["current"] = Pair!Gone]
        /\ t = "none" /\ \E a \in Ids : rec[a].st # "none"
    BY <1>1, <1>2, <1>5, <1>10
  <2>2. c # Pair!Gone
    BY <1>10 DEF barred
  <2>3. /\ pairSlot' \in [Names -> 0..Pair!Other] /\ pairSlot'["current"] = Pair!Gone
        /\ pairSlot'["hold"] = pairSlot["hold"]
    BY <1>4, <2>1, OtherNew
  <2>4. c \in Pair!Contents
    BY <1>4, <2>2, OtherNew
  <2>5. PlacesSound'
    <3>1. \A n \in Names :
            \/ pairSlot'[n] = newest[n]
            \/ \E a \in Ids : rec[a].arch[n] = newest[n]
            \/ (n = "current" /\ newest[n] \in bad')
      <4> TAKE n \in Names
      <4>1. CASE n = "hold"
        BY <2>3, <4>1 DEF PairInv, PlacesSound
      <4>2. CASE n = "current"
        BY <2>1, <4>2 DEF PairInv, PlacesSound
      <4> QED
        BY <4>1, <4>2, OtherNew
    <3> QED
      BY <1>1, <1>9, <2>1, <2>3, <3>1 DEF PairInv, PlacesSound
  <2>6. FirstSound'
    BY <1>1, <1>9, <2>1 DEF PairInv, FirstSound
  <2>7. bad' \subseteq Pair!Contents
    BY <1>4, <2>1, <2>4
  <2> QED
    BY <1>1, <1>3, <1>4, <1>9, <2>3, <2>5, <2>6, <2>7, SlotsMove
<1>11. CASE ~barred
  <2>1. UNCHANGED <<bad, pairSlot>>
    BY <1>1, <1>11
  <2>2. t = "other" => pairSlot["current"] = Pair!Other
    BY <1>2, <1>11
  <2>3. PlacesSound'
    BY <1>1, <1>9, <2>1, <2>2 DEF PairInv, PlacesSound
  <2>4. t = "pair" => pairApp'.snap
    <3>1. t = "pair" => c # Pair!Gone /\ c # Pair!Other
      BY <1>2, <1>11
    <3> QED
      BY <1>6, <1>7, <1>9, <1>11, <3>1
  <2>5. FirstSound'
    BY <1>1, <1>9, <2>1, <2>4 DEF PairInv, FirstSound
  <2> QED
    BY <1>1, <1>3, <1>4, <1>9, <2>1, <2>3, <2>5, SlotsMove
<1> QED
  BY <1>10, <1>11

(* The handler rests, and goes on resting.                                 *)
LEMMA StillIdle ==
  ASSUME PairInv, Pair!At("idle"), UNCHANGED pairOp
  PROVE  pairOp' \in Ops /\ OpSound'
<1>1. pairOp.pc = "idle" /\ pairOp \in Ops
  BY DEF Pair!At, PairInv, PairTypes
<1>2. pairOp.via # "resume"
  BY <1>1 DEF PairInv, OpSound, Moves
<1>3. \A n \in Names : "idle" \notin {Pair!Rename(n), Pair!Readback(n)}
  BY DEF Pair!Rename, Pair!Readback
<1> QED
  BY <1>1, <1>2, <1>3 DEF OpSound, Keyed, Moves

LEMMA TakeOtherStep ==
  ASSUME Pair!PairedAssumption, PairInv, Pair!StartOther PROVE PairInv'
<1>1. /\ UNCHANGED <<bad, rec, intents, consumed, pairOp, newest>> /\ Pair!At("idle") /\ PairTypes
      /\ ~Pair!_preflight_context_blocks_mutation /\ pairSlot["current"] = Pair!Gone
      /\ pairSlot' = [pairSlot EXCEPT !["current"] = Pair!Other]
      /\ pairApp' = [pairApp EXCEPT !.tray = "other"]
  BY DEF Pair!StartOther, PairInv
<1>2. /\ pairSlot \in [Names -> 0..Pair!Other] /\ bad \subseteq Pair!Contents
      /\ newest \in [Names -> 1..MaxVersions] /\ pairApp \in Apps
  BY <1>1 DEF PairTypes
<1>3. /\ pairSlot' \in [Names -> 0..Pair!Other] /\ pairSlot'["current"] = Pair!Other
      /\ pairSlot'["hold"] = pairSlot["hold"]
  BY <1>1, <1>2, OtherNew
<1>4. pairApp' \in Apps
  BY <1>1, <1>2, Zenon DEF Apps
<1>5. pairApp'.tray = "other"
  BY <1>1, <1>2 DEF Apps
<1>6. PlacesSound'
  <2>1. \A n \in Names :
          \/ pairSlot'[n] = newest[n]
          \/ \E a \in Ids : rec[a].arch[n] = newest[n]
          \/ (n = "current" /\ newest[n] \in bad)
    <3> TAKE n \in Names
    <3>1. CASE n = "hold"
      BY <1>3, <3>1 DEF PairInv, PlacesSound
    <3>2. CASE n = "current"
      BY <1>1, <1>2, <3>2, OtherNew DEF PairInv, PlacesSound
    <3> QED
      BY <3>1, <3>2, OtherNew
  <2> QED
    BY <1>1, <1>3, <2>1 DEF PairInv, PlacesSound
<1>7. FirstSound'
  <2>1. pairSlot["current"] \notin 1..MaxVersions
    BY <1>1, OtherNew
  <2> QED
    BY <1>1, <1>5, <2>1, OtherNew DEF PairInv, FirstSound
<1> QED
  BY <1>1, <1>2, <1>3, <1>4, <1>6, <1>7, StillIdle, SlotsMove

LEMMA DropOtherStep ==
  ASSUME Pair!PairedAssumption, PairInv, Pair!FinishOther PROVE PairInv'
<1>1. /\ UNCHANGED <<bad, rec, intents, consumed, pairOp, newest>> /\ Pair!At("idle") /\ PairTypes
      /\ pairApp.tray = "other"
      /\ pairSlot' = [pairSlot EXCEPT !["current"] = Pair!Gone]
      /\ pairApp' = [pairApp EXCEPT !.tray = "none"]
  BY DEF Pair!FinishOther, PairInv
<1>2. /\ pairSlot \in [Names -> 0..Pair!Other] /\ bad \subseteq Pair!Contents
      /\ newest \in [Names -> 1..MaxVersions] /\ pairApp \in Apps
  BY <1>1 DEF PairTypes
<1>3. /\ pairSlot' \in [Names -> 0..Pair!Other] /\ pairSlot'["current"] = Pair!Gone
      /\ pairSlot'["hold"] = pairSlot["hold"]
  BY <1>1, <1>2, OtherNew
<1>4. pairApp' \in Apps
  BY <1>1, <1>2, Zenon DEF Apps
<1>5. pairApp'.tray = "none"
  BY <1>1, <1>2 DEF Apps
<1>6. pairSlot["current"] \in {Pair!Other, Pair!Gone}
  BY <1>1 DEF PairInv, PlacesSound
<1>7. PlacesSound'
  <2>1. \A n \in Names :
          \/ pairSlot'[n] = newest[n]
          \/ \E a \in Ids : rec[a].arch[n] = newest[n]
          \/ (n = "current" /\ newest[n] \in bad)
    <3> TAKE n \in Names
    <3>1. CASE n = "hold"
      BY <1>3, <3>1 DEF PairInv, PlacesSound
    <3>2. CASE n = "current"
      BY <1>2, <1>6, <3>2, OtherNew DEF PairInv, PlacesSound
    <3> QED
      BY <3>1, <3>2, OtherNew
  <2> QED
    BY <1>1, <1>3, <1>5, <2>1 DEF PairInv, PlacesSound
<1>8. FirstSound'
  <2>1. pairSlot["current"] \notin 1..MaxVersions
    BY <1>6, OtherNew
  <2> QED
    BY <1>1, <1>5, <2>1, OtherNew DEF PairInv, FirstSound
<1> QED
  BY <1>1, <1>2, <1>3, <1>4, <1>7, <1>8, StillIdle, SlotsMove

LEMMA TouchStep ==
  ASSUME Pair!PairedAssumption, PairInv, NEW n \in Names, Pair!Touch(n) PROVE PairInv'
<1>1. /\ UNCHANGED <<bad, rec, intents, consumed, pairApp, pairOp>> /\ PairTypes
      /\ pairSlot[n] \in 1..(MaxVersions - 1)
      /\ pairSlot' = [pairSlot EXCEPT ![n] = pairSlot[n] + 1]
      /\ newest' = [newest EXCEPT ![n] = pairSlot[n] + 1]
  BY DEF Pair!Touch, PairInv
<1>2. /\ pairSlot \in [Names -> 0..Pair!Other] /\ bad \subseteq Pair!Contents
      /\ newest \in [Names -> 1..MaxVersions] /\ pairApp \in Apps /\ pairOp \in Ops
  BY <1>1 DEF PairTypes
<1>3. pairSlot[n] + 1 \in 1..MaxVersions /\ pairSlot[n] + 1 \in 0..Pair!Other
  BY <1>1, OtherNew DEF Pair!Other
<1>4. /\ pairSlot' \in [Names -> 0..Pair!Other] /\ newest' \in [Names -> 1..MaxVersions]
      /\ pairSlot'[n] = newest'[n] /\ pairSlot'[n] \in 1..MaxVersions
      /\ \A m \in Names : m # n => pairSlot'[m] = pairSlot[m] /\ newest'[m] = newest[m]
  BY <1>1, <1>2, <1>3
<1>5. pairSlot[n] # Pair!Gone /\ pairSlot[n] # Pair!Other
  BY <1>1, OtherNew DEF Pair!Other
<1>6. OpSound'
  BY <1>1 DEF PairInv, OpSound
<1>7. PlacesSound'
  <2>1. pairSlot'["hold"] # Pair!Gone => pairSlot["hold"] # Pair!Gone
    BY <1>4, <1>5, OtherNew
  <2>2. pairApp.tray = "other" => pairSlot'["current"] = pairSlot["current"]
    <3>1. pairApp.tray = "other" => pairSlot["current"] \in {Pair!Other, Pair!Gone}
      BY DEF PairInv, PlacesSound
    <3> QED
      BY <1>4, <1>5, <3>1, OtherNew
  <2>3. \A m \in Names :
          \/ pairSlot'[m] = newest'[m]
          \/ \E a \in Ids : rec[a].arch[m] = newest'[m]
          \/ (m = "current" /\ newest'[m] \in bad)
    BY <1>4 DEF PairInv, PlacesSound
  <2> QED
    BY <1>1, <2>1, <2>2, <2>3 DEF PairInv, PlacesSound
<1>8. FirstSound'
  BY <1>1, <1>4 DEF PairInv, FirstSound
<1> QED
  BY <1>1, <1>2, <1>4, <1>6, <1>7, <1>8, SlotsMove

LEMMA StepNames ==
  ASSUME NEW n \in Names
  PROVE  /\ n \in Moves /\ Pair!Rename(n) \in Moves /\ Pair!Readback(n) \in Moves
         /\ Pair!Next2(n) \in Moves /\ Pair!Rename(n) # Pair!Readback(n)
         /\ \A m \in Names :
              /\ Pair!Rename(m) # Pair!Readback(n) /\ Pair!Readback(m) # Pair!Rename(n)
              /\ Pair!Rename(m) = Pair!Rename(n) => m = n
              /\ Pair!Readback(m) = Pair!Readback(n) => m = n
              /\ Pair!Next2(n) \notin {Pair!Rename(m), Pair!Readback(m)}
              /\ n \notin {Pair!Rename(m), Pair!Readback(m)}
         /\ {Pair!Rename(n), Pair!Readback(n), n}
              \cap {"current", "rename_current", "readback_current", "release"} # {} => n = "current"
         /\ {Pair!Rename(n), Pair!Readback(n), n} \cap {"release"} = {}
         /\ n = "current" => {Pair!Rename(n), Pair!Readback(n), n} \subseteq
              {"current", "rename_current", "readback_current", "release"}
         /\ Pair!Next2(n) = "release" => n = "current"
BY DEF Names, Pair!Names, Moves, Pair!Rename, Pair!Readback, Pair!Next2

(* The steps of the moves are no others.                                   *)
LEMMA OnlyMoves ==
  ASSUME NEW p \in Moves
  PROVE  /\ p \in Keyed /\ p \in PairPcs
         /\ p \notin {"supersede", "approve", "verify", "redeem", "consume", "fingerprint",
                      "event", "complete", "held"}
BY DEF Moves, Keyed, PairPcs

(* What a handler that moves the files knows.                              *)
LEMMA AtMove ==
  ASSUME PairInv, NEW p \in Moves, Pair!At(p)
  PROVE  /\ pairOp \in Ops /\ pairOp.pc = p /\ pairOp.id \in Ids /\ pairOp.k \in DOMAIN intents
         /\ intents[pairOp.k].id = pairOp.id /\ PairTypes /\ rec \in [Ids -> Records_]
         /\ consumed \subseteq DOMAIN intents /\ rec[pairOp.id].st # "none"
         /\ intents[pairOp.k].st \in {"CONSUMED", "UNVERIFIED_DETACHING"}
         /\ pairOp.via = "resume" => intents[pairOp.k].st = "CONSUMED"
         /\ intents[pairOp.k].st = "CONSUMED" => pairOp.k \in consumed
<1>1. p \in Keyed
  BY OnlyMoves
<1>2. /\ pairOp \in Ops /\ pairOp.pc = p /\ pairOp.id \in Ids /\ pairOp.k \in DOMAIN intents
      /\ intents[pairOp.k].id = pairOp.id /\ PairTypes /\ rec \in [Ids -> Records_]
      /\ consumed \subseteq DOMAIN intents /\ rec[pairOp.id].st # "none"
  BY <1>1, AtKey
<1>3. /\ intents[pairOp.k].st \in {"CONSUMED", "UNVERIFIED_DETACHING"}
      /\ pairOp.via = "resume" => intents[pairOp.k].st = "CONSUMED"
  BY <1>2 DEF PairInv, OpSound
<1>4. intents[pairOp.k].st = "CONSUMED" => pairOp.k \in consumed
  BY <1>2 DEF PairInv, KeySound
<1> QED
  BY <1>2, <1>3, <1>4

(* One original is done with, up to where the handler has come.            *)
LEMMA MoveGoes ==
  ASSUME Pair!PairedAssumption, PairInv, NEW n \in Names, NEW q \in {n, Pair!Rename(n), Pair!Readback(n)},
         Pair!At(q), NEW p \in {Pair!Rename(n), Pair!Readback(n), Pair!Next2(n)}, Pair!Go(p),
         DOMAIN intents' = DOMAIN intents, intents'[pairOp.k].st = intents[pairOp.k].st,
         intents'[pairOp.k].id = intents[pairOp.k].id, intents'[pairOp.k].snap = intents[pairOp.k].snap,
         n \in intents'[pairOp.k].moving, pairOp.id[n] = intents[pairOp.k].snap[n],
         n = "current" => rec'[pairOp.id].arch["hold"] = rec[pairOp.id].arch["hold"],
         p = Pair!Rename(n) => rec'[pairOp.id].arch[n] = Pair!Gone,
         p = Pair!Next2(n) => rec'[pairOp.id].arch[n] = pairOp.id[n]
  PROVE  pairOp' \in Ops /\ OpSound'
<1> DEFINE k == pairOp.k
           Late == {"current", "rename_current", "readback_current", "release"}
<1>1. n \in {"hold", "current"} /\ q \in Moves /\ p \in Moves
  BY StepNames, OtherNew
<1>2. /\ pairOp \in Ops /\ pairOp.pc = q /\ pairOp.id \in Ids /\ k \in DOMAIN intents
      /\ intents[k].id = pairOp.id /\ PairTypes
      /\ intents[k].st \in {"CONSUMED", "UNVERIFIED_DETACHING"}
      /\ pairOp.via = "resume" => intents[k].st = "CONSUMED"
  BY <1>1, AtMove
<1>3. /\ p \in Keyed /\ p \in PairPcs
      /\ p \notin {"supersede", "approve", "verify", "redeem", "consume", "fingerprint",
                   "event", "complete", "held"}
  BY <1>1, OnlyMoves
<1>4. /\ pairOp' \in Ops /\ pairOp'.pc = p /\ pairOp'.k = k
      /\ pairOp'.id = pairOp.id /\ pairOp'.via = pairOp.via
  BY <1>2, <1>3, OpGoes DEF Pair!Go
<1>5. n = "current" => /\ pairOp.id["hold"] = intents[k].snap["hold"]
                       /\ rec[pairOp.id].arch["hold"] = pairOp.id["hold"]
  <2>1. n = "current" => q \in Late
    BY StepNames
  <2> QED
    BY <1>2, <2>1 DEF PairInv, OpSound
<1>6. p \in Late => /\ pairOp.id["hold"] = intents[k].snap["hold"]
                    /\ rec'[pairOp.id].arch["hold"] = pairOp.id["hold"]
  <2>1. p \in Late /\ n = "hold" => p = Pair!Next2(n)
    BY StepNames
  <2> QED
    BY <1>1, <1>5, <2>1
<1>7. p = "release" => n = "current"
  BY <1>1, StepNames
<1>8. \A m \in Names : p \in {Pair!Rename(m), Pair!Readback(m)} => m = n
  BY StepNames
<1>9. \A m \in Names : p = Pair!Rename(m) => m = n /\ p = Pair!Rename(n)
  BY <1>8
<1> QED
  BY <1>1, <1>2, <1>3, <1>4, <1>6, <1>7, <1>8, <1>9 DEF OpSound

LEMMA JournalStep ==
  ASSUME Pair!PairedAssumption, PairInv, NEW n \in Names, Pair!_admin_pin_journal_move(n) PROVE PairInv'
<1> DEFINE k == pairOp.k
<1>1. UNCHANGED <<pairSlot, bad, rec, consumed, newest, pairApp>> /\ Pair!At(n)
  BY DEF Pair!_admin_pin_journal_move
<1>2. /\ pairOp \in Ops /\ pairOp.pc = n /\ pairOp.id \in Ids /\ k \in DOMAIN intents
      /\ intents[k].id = pairOp.id /\ PairTypes /\ rec \in [Ids -> Records_]
      /\ consumed' \subseteq DOMAIN intents
      /\ intents[k].st \in {"CONSUMED", "UNVERIFIED_DETACHING"}
      /\ pairOp.via = "resume" => intents[k].st = "CONSUMED"
      /\ intents[k].st = "CONSUMED" => k \in consumed
  BY <1>1, AtMove, StepNames
<1>3. CASE Pair!End /\ UNCHANGED intents
  BY <1>1, <1>2, <1>3, EndRests, OnlyOp
<1>4. CASE pairOp.via = "resume" /\ pairOp' = [pairOp EXCEPT !.pc = "fingerprint", !.via = "fresh"] /\ UNCHANGED intents
  <2>1. "fingerprint" \in PairPcs
    BY DEF PairPcs, Keyed
  <2>2. /\ pairOp' \in Ops /\ pairOp'.pc = "fingerprint" /\ pairOp'.k = k
        /\ pairOp'.id = pairOp.id /\ pairOp'.via = "fresh"
    BY <1>2, <1>4, <2>1 DEF Ops
  <2>3. \A m \in Names : "fingerprint" \notin {Pair!Rename(m), Pair!Readback(m)}
    BY DEF Pair!Rename, Pair!Readback
  <2>4. OpSound'
    BY <1>1, <1>2, <1>4, <2>2, <2>3 DEF OpSound, Moves
  <2> QED
    BY <1>1, <1>4, <2>2, <2>4, OnlyOp
<1>5. CASE /\ pairOp.id[n] = intents[k].snap[n]
           /\ intents' = [intents EXCEPT ![k].moving = @ \cup {n}]
           /\ IF rec[pairOp.id].arch[n] = Pair!Gone THEN Pair!Go(Pair!Rename(n))
              ELSE IF rec[pairOp.id].arch[n] # intents[k].snap[n] THEN Pair!Go(Pair!Readback(n))
              ELSE IF pairSlot[n] # Pair!Gone THEN Pair!End ELSE Pair!Go(Pair!Next2(n))
  <2> DEFINE new == [intents[k] EXCEPT !.moving = @ \cup {n}]
  <2>1. intents \in Seq(Intents) /\ intents[k] \in Intents /\ DOMAIN intents = 1..Len(intents)
    BY <1>2 DEF PairTypes
  <2>2. intents' = [intents EXCEPT ![k] = new]
    BY <1>5
  <2>3. /\ new \in Intents /\ new.st = intents[k].st /\ new.id = intents[k].id
        /\ new.snap = intents[k].snap /\ new.held = intents[k].held /\ n \in new.moving
    BY <2>1 DEF Intents
  <2> HIDE DEF new
  <2>4. /\ intents' \in Seq(Intents) /\ Len(intents') = Len(intents)
        /\ DOMAIN intents' = DOMAIN intents /\ intents'[k].st = intents[k].st
        /\ n \in intents'[k].moving /\ intents'[k].held = intents[k].held
        /\ \A j \in DOMAIN intents :
             /\ intents'[j].id = intents[j].id /\ intents'[j].snap = intents[j].snap
             /\ j # k => intents'[j] = intents[j]
    BY <1>2, <2>1, <2>2, <2>3
  <2>5. KeySound' /\ Pair!ReleasedUnderKey'
    <3>1. /\ intents[k].st \notin Closed \cup {"APPLIED"}
          /\ intents[k].st = "CONSUMED" => k \in consumed'
          /\ intents[k].st # "APPLIED"
      BY <1>1, <1>2 DEF Closed
    <3>2. RecordsKept /\ HeldKept(k)
      <4>1. intents[k].st = "UNVERIFIED_DETACHING" => intents[k].held
        BY <1>2 DEF PairInv, KeySound
      <4> QED
        BY <1>1, <2>4, <4>1 DEF RecordsKept, HeldKept
    <3> QED
      BY <1>1, <1>2, <2>4, <3>1, <3>2, KeyChange
  <2>6. ASSUME NEW p \in Moves, Pair!Go(p), p \in {Pair!Rename(n), Pair!Readback(n), Pair!Next2(n)},
               p = Pair!Rename(n) => rec[pairOp.id].arch[n] = Pair!Gone,
               p = Pair!Next2(n) => rec[pairOp.id].arch[n] = pairOp.id[n]
        PROVE  pairOp' \in Ops /\ OpSound'
    BY <1>1, <1>2, <1>5, <2>4, <2>6, MoveGoes
  <2>7. pairOp' \in Ops /\ OpSound'
    <3>1. CASE Pair!End
      BY <1>2, <3>1, EndRests
    <3>2. CASE Pair!Go(Pair!Rename(n)) /\ rec[pairOp.id].arch[n] = Pair!Gone
      BY <2>6, <3>2, StepNames, OtherNew
    <3>3. CASE Pair!Go(Pair!Readback(n))
      BY <2>6, <3>3, StepNames, OtherNew
    <3>4. CASE Pair!Go(Pair!Next2(n)) /\ rec[pairOp.id].arch[n] = intents[k].snap[n]
      BY <1>5, <2>6, <3>4, StepNames, OtherNew
    <3> QED
      BY <1>5, <3>1, <3>2, <3>3, <3>4
  <2> QED
    BY <1>1, <1>2, <2>4, <2>5, <2>7, KeptTypes, FilesRest
<1> QED
  BY <1>2, <1>3, <1>4, <1>5 DEF Pair!_admin_pin_journal_move, Pair!Mine, Pair!Pair

(* The step has a record, and files move between it and the slots.         *)
LEMMA FilesMove ==
  ASSUME PairInv, UNCHANGED <<bad, newest, pairApp>>, pairOp.id \in Ids, rec[pairOp.id].st # "none",
         pairSlot' \in [Names -> 0..Pair!Other], rec' \in [Ids -> Records_], RecordsKept,
         intents' \in Seq(Intents), Len(intents') <= MaxKeys, consumed' \subseteq DOMAIN intents',
         KeySound', Pair!ReleasedUnderKey', PlacesSound', pairOp' \in Ops, OpSound'
  PROVE  PairInv'
<1>1. PairTypes'
  BY DEF PairInv, PairTypes
<1>2. FirstSound'
  BY DEF PairInv, FirstSound, RecordsKept
<1> QED
  BY <1>1, <1>2 DEF PairInv

LEMMA KeysRest ==
  ASSUME PairInv, RecordsKept, UNCHANGED <<intents, consumed>>
  PROVE  KeySound' /\ Pair!ReleasedUnderKey'
<1>1. \A j \in DOMAIN intents : intents[j].id \in Ids /\ rec'[intents[j].id].st = rec[intents[j].id].st
  BY KeyFacts DEF RecordsKept
<1>2. KeySound'
  BY <1>1 DEF RecordsKept, PairInv, KeySound, Pair!pending, Ids
<1>3. Pair!ReleasedUnderKey'
  BY DEF RecordsKept, PairInv, Pair!ReleasedUnderKey, Ids
<1> QED
  BY <1>2, <1>3

LEMMA IdFacts ==
  ASSUME Pair!PairedAssumption, PairInv, NEW a \in Ids
  PROVE  /\ a["hold"] # Pair!Gone /\ a["current"] # Pair!Gone
         /\ rec[a] \in Records_ /\ rec[a].arch \in [Names -> 0..Pair!Other]
         /\ rec[a].st = "released" => rec[a].arch = a
<1>1. a["hold"] \in Pair!Contents /\ a["current"] \in Pair!Contents
  BY OtherNew DEF Ids, Pair!Ids, Names
<1>2. rec[a] \in Records_
  BY DEF PairInv, PairTypes
<1>3. rec[a].st = "released" => rec[a].arch = a
  BY DEF PairInv, Pair!ReleasedUnderKey, Ids
<1> QED
  BY <1>1, <1>2, <1>3, OtherNew DEF Records_

LEMMA RenameStep ==
  ASSUME Pair!PairedAssumption, PairInv, NEW n \in Names, Pair!RenameOriginal(n) PROVE PairInv'
<1> DEFINE k == pairOp.k
           id == pairOp.id
<1>1. UNCHANGED <<bad, intents, consumed, newest, pairApp>> /\ Pair!At(Pair!Rename(n))
  BY DEF Pair!RenameOriginal
<1>2. /\ pairOp \in Ops /\ pairOp.pc = Pair!Rename(n) /\ id \in Ids /\ k \in DOMAIN intents
      /\ intents[k].id = id /\ PairTypes /\ rec \in [Ids -> Records_]
      /\ consumed \subseteq DOMAIN intents /\ rec[id].st # "none"
  BY <1>1, AtMove, StepNames
<1>3. /\ id[n] = intents[k].snap[n] /\ n \in intents[k].moving /\ rec[id].arch[n] = Pair!Gone
      /\ n = "current" => rec[id].arch["hold"] = id["hold"]
  <2>1. n = "current" => pairOp.pc = "rename_current"
    BY <1>2 DEF Pair!Rename
  <2>2. id[n] = intents[k].snap[n] /\ n \in intents[k].moving /\ rec[id].arch[n] = Pair!Gone
    BY <1>2 DEF PairInv, OpSound
  <2>3. n = "current" => rec[id].arch["hold"] = id["hold"]
    BY <2>1 DEF PairInv, OpSound
  <2> QED
    BY <2>2, <2>3
<1>4. CASE Pair!End /\ UNCHANGED <<pairSlot, rec>>
  BY <1>1, <1>2, <1>4, EndRests, OnlyOp
<1>5. CASE /\ pairSlot[n] # Pair!Gone /\ Pair!Go(Pair!Readback(n))
           /\ rec' = [rec EXCEPT ![id].arch[n] = pairSlot[n]]
           /\ pairSlot' = [pairSlot EXCEPT ![n] = Pair!Gone]
  <2> DEFINE arch == [rec[id].arch EXCEPT ![n] = pairSlot[n]]
             new == [rec[id] EXCEPT !.arch = arch]
  <2>1. /\ rec[id] \in Records_ /\ rec[id].arch \in [Names -> 0..Pair!Other]
        /\ pairSlot \in [Names -> 0..Pair!Other] /\ Pair!Gone \in 0..Pair!Other
    BY <1>2, IdFacts, OtherNew DEF PairTypes
  <2>2. /\ arch \in [Names -> 0..Pair!Other] /\ arch[n] = pairSlot[n]
        /\ \A m \in Names : m # n => arch[m] = rec[id].arch[m]
    BY <2>1
  <2> HIDE DEF arch
  <2>3. new \in Records_ /\ new.arch = arch /\ new.st = rec[id].st
    BY <2>1, <2>2 DEF Records_
  <2>4. rec' = [rec EXCEPT ![id] = new]
    BY <1>5 DEF arch
  <2> HIDE DEF new
  <2>5. /\ rec' \in [Ids -> Records_] /\ rec'[id].arch = arch
        /\ \A a \in Ids : rec'[a].st = rec[a].st /\ (a # id => rec'[a] = rec[a])
    BY <1>2, <2>3, <2>4
  <2>6. /\ pairSlot' \in [Names -> 0..Pair!Other] /\ pairSlot'[n] = Pair!Gone
        /\ \A m \in Names : m # n => pairSlot'[m] = pairSlot[m]
    BY <1>5, <2>1
  <2>7. rec[id].st # "released"
    <3>1. id[n] # Pair!Gone
      BY <1>2, IdFacts, OtherNew
    <3> QED
      BY <1>2, <1>3, <3>1, IdFacts
  <2>8. RecordsKept
    BY <1>2, <2>5, <2>7 DEF RecordsKept
  <2>9. KeySound' /\ Pair!ReleasedUnderKey'
    BY <1>1, <2>8, KeysRest
  <2>10. pairOp' \in Ops /\ OpSound'
    <3>1. n = "current" => arch["hold"] = rec[id].arch["hold"]
      BY <2>2, OtherNew
    <3>2. Pair!Readback(n) # Pair!Rename(n) /\ Pair!Readback(n) # Pair!Next2(n)
      BY StepNames
    <3> QED
      BY <1>1, <1>3, <1>5, <2>5, <3>1, <3>2, MoveGoes
  <2>11. PlacesSound'
    <3>1. CASE n = "hold"
      <4>1. \A a \in Ids : rec[a].arch["hold"] = Pair!Gone
        BY <1>5, <3>1 DEF PairInv, PlacesSound
      <4>2. \A a \in Ids : rec[a].arch["current"] = Pair!Gone
        BY <4>1, IdFacts DEF PairInv, PlacesSound
      <4>3. \A a \in Ids : /\ rec'[a].arch["current"] = Pair!Gone
                           /\ a # id => rec'[a].arch["hold"] = Pair!Gone
        BY <2>2, <2>5, <3>1, <4>1, <4>2, OtherNew
      <4>4. pairSlot'["hold"] = Pair!Gone /\ pairSlot'["current"] = pairSlot["current"]
        BY <2>6, <3>1, OtherNew
      <4>5. pairApp.tray = "other" => pairSlot["current"] = Pair!Other
        BY <4>2, OtherNew DEF PairInv, PlacesSound
      <4>6. \A m \in Names : \/ pairSlot'[m] = newest[m]
                             \/ \E a \in Ids : rec'[a].arch[m] = newest[m]
                             \/ (m = "current" /\ newest[m] \in bad)
        <5> TAKE m \in Names
        <5>1. CASE m = "hold"
          <6>1. newest[m] # Pair!Gone
            BY <1>2, OtherNew DEF PairTypes
          <6>2. pairSlot[m] = newest[m]
            BY <4>1, <5>1, <6>1 DEF PairInv, PlacesSound
          <6> QED
            BY <1>2, <2>2, <2>5, <3>1, <5>1, <6>2
        <5>2. CASE m = "current"
          <6>1. newest[m] # Pair!Gone
            BY <1>2, OtherNew DEF PairTypes
          <6> QED
            BY <4>2, <4>4, <5>2, <6>1 DEF PairInv, PlacesSound
        <5> QED
          BY <5>1, <5>2, OtherNew
      <4> QED
        BY <1>1, <4>3, <4>4, <4>5, <4>6 DEF PlacesSound
    <3>2. CASE n = "current"
      <4>1. \A a \in Ids : rec'[a].arch["hold"] = rec[a].arch["hold"]
        BY <2>2, <2>5, <3>2, OtherNew
      <4>2. \A a \in Ids : a # id => rec'[a].arch["current"] = rec[a].arch["current"]
        BY <2>5
      <4>3. /\ rec'[id].arch["current"] = pairSlot["current"] /\ pairSlot'["current"] = Pair!Gone
            /\ pairSlot'["hold"] = pairSlot["hold"] /\ rec[id].arch["current"] = Pair!Gone
        BY <1>3, <2>2, <2>5, <2>6, <3>2, OtherNew
      <4>4. pairApp.tray = "other" => pairSlot["current"] = Pair!Other
        BY <1>5, <3>2 DEF PairInv, PlacesSound
      <4>5. \A m \in Names : \/ pairSlot'[m] = newest[m]
                             \/ \E a \in Ids : rec'[a].arch[m] = newest[m]
                             \/ (m = "current" /\ newest[m] \in bad)
        <5> TAKE m \in Names
        <5>1. CASE m = "hold"
          BY <4>1, <4>3, <5>1 DEF PairInv, PlacesSound
        <5>2. CASE m = "current"
          <6>1. newest[m] # Pair!Gone
            BY <1>2, OtherNew DEF PairTypes
          <6> QED
            BY <1>2, <4>2, <4>3, <5>2, <6>1 DEF PairInv, PlacesSound
        <5> QED
          BY <5>1, <5>2, OtherNew
      <4> QED
        BY <1>1, <1>2, <1>3, <3>2, <4>1, <4>2, <4>3, <4>4, <4>5 DEF PairInv, PlacesSound
    <3> QED
      BY <3>1, <3>2, OtherNew
  <2>12. intents' \in Seq(Intents) /\ Len(intents') <= MaxKeys /\ consumed' \subseteq DOMAIN intents'
    BY <1>1, <1>2 DEF PairTypes
  <2> QED
    BY <1>1, <1>2, <2>5, <2>6, <2>8, <2>9, <2>10, <2>11, <2>12, FilesMove
<1> QED
  BY <1>4, <1>5 DEF Pair!RenameOriginal

(* What is put back comes from the record, into slots that are empty, and  *)
(* the hold not without what is behind it.                                 *)
LEMMA Restored ==
  ASSUME Pair!PairedAssumption, PairInv, NEW ns \in SUBSET Names, Pair!_admin_pin_restore_moves(ns),
         pairOp.id \in Ids, UNCHANGED <<bad, newest, pairApp>>,
         rec[pairOp.id].st # "released", \A m \in ns : pairSlot[m] = Pair!Gone,
         "hold" \in ns => "current" \in ns \/ rec[pairOp.id].arch["current"] = Pair!Gone
  PROVE  /\ pairSlot' \in [Names -> 0..Pair!Other] /\ rec' \in [Ids -> Records_]
         /\ RecordsKept /\ PlacesSound'
<1> DEFINE id == pairOp.id
           arch == [m \in Names |-> IF m \in ns THEN Pair!Gone ELSE rec[id].arch[m]]
           new == [rec[id] EXCEPT !.arch = arch]
<1>1. /\ rec \in [Ids -> Records_] /\ rec[id] \in Records_
      /\ rec[id].arch \in [Names -> 0..Pair!Other] /\ pairSlot \in [Names -> 0..Pair!Other]
      /\ newest \in [Names -> 1..MaxVersions] /\ Pair!Gone \in 0..Pair!Other
  BY IdFacts, OtherNew DEF PairInv, PairTypes
<1>2. /\ arch \in [Names -> 0..Pair!Other]
      /\ \A m \in Names : arch[m] = IF m \in ns THEN Pair!Gone ELSE rec[id].arch[m]
  BY <1>1
<1>3. rec' = [rec EXCEPT ![id] = new]
  BY DEF Pair!_admin_pin_restore_moves, Names
<1>4. pairSlot' = [m \in Names |-> IF m \in ns THEN rec[id].arch[m] ELSE pairSlot[m]]
  BY DEF Pair!_admin_pin_restore_moves, Pair!Pair, Names
<1> HIDE DEF arch
<1>5. new \in Records_ /\ new.arch = arch /\ new.st = rec[id].st
  BY <1>1, <1>2 DEF Records_
<1> HIDE DEF new
<1>6. /\ rec' \in [Ids -> Records_] /\ rec'[id].arch = arch
      /\ \A a \in Ids : rec'[a].st = rec[a].st /\ (a # id => rec'[a] = rec[a])
  BY <1>1, <1>3, <1>5
<1>7. pairSlot' \in [Names -> 0..Pair!Other]
  BY <1>1, <1>4
<1>8. RecordsKept
  BY <1>6 DEF RecordsKept
<1>9. \A m \in Names : /\ m \in ns => pairSlot'[m] = rec[id].arch[m] /\ rec'[id].arch[m] = Pair!Gone
                       /\ m \notin ns => pairSlot'[m] = pairSlot[m] /\ rec'[id].arch[m] = rec[id].arch[m]
  BY <1>2, <1>4, <1>6
<1>10. \A a \in Ids : pairSlot'["hold"] # Pair!Gone => rec'[a].arch["hold"] = Pair!Gone
  <2>1. CASE "hold" \in ns
    <3>1. rec[id].arch["hold"] # Pair!Gone => \A a \in Ids : a # id => rec[a].arch["hold"] = Pair!Gone
      BY DEF PairInv, PlacesSound
    <3> QED
      BY <1>6, <1>9, <2>1, <3>1, OtherNew
  <2>2. CASE "hold" \notin ns
    <3>1. pairSlot'["hold"] = pairSlot["hold"] /\ rec'[id].arch["hold"] = rec[id].arch["hold"]
      BY <1>9, <2>2, OtherNew
    <3> QED
      BY <1>6, <3>1 DEF PairInv, PlacesSound
  <2> QED
    BY <2>1, <2>2
<1>11. \A a \in Ids : rec'[a].arch["current"] # Pair!Gone => rec'[a].arch["hold"] = a["hold"]
  <2> TAKE a \in Ids
  <2>1. CASE a = id
    <3>1. rec'[id].arch["current"] # Pair!Gone =>
            "current" \notin ns /\ rec[id].arch["current"] # Pair!Gone
      BY <1>9, OtherNew
    <3>2. rec'[id].arch["current"] # Pair!Gone =>
            rec'[id].arch["hold"] = rec[id].arch["hold"] /\ rec[id].arch["current"] # Pair!Gone
      BY <1>9, <3>1, OtherNew
    <3> QED
      BY <2>1, <3>2 DEF PairInv, PlacesSound
  <2>2. CASE a # id
    BY <1>6, <2>2 DEF PairInv, PlacesSound
  <2> QED
    BY <2>1, <2>2
<1>12. \A a, b \in Ids : rec'[a].arch["hold"] # Pair!Gone /\ rec'[b].arch["hold"] # Pair!Gone => a = b
  <2>1. \A a \in Ids : rec'[a].arch["hold"] # Pair!Gone => rec[a].arch["hold"] # Pair!Gone
    BY <1>6, <1>9, OtherNew
  <2> QED
    BY <2>1 DEF PairInv, PlacesSound
<1>13. pairApp.tray = "other" =>
         \/ pairSlot'["current"] = Pair!Other
         \/ /\ pairSlot'["current"] = Pair!Gone
            /\ \E a \in Ids : rec'[a].arch["current"] = Pair!Other
  <2> SUFFICES ASSUME pairApp.tray = "other"
               PROVE  \/ pairSlot'["current"] = Pair!Other
                      \/ /\ pairSlot'["current"] = Pair!Gone
                         /\ \E a \in Ids : rec'[a].arch["current"] = Pair!Other
    OBVIOUS
  <2>1. CASE "current" \in ns
    <3>1. pairSlot["current"] # Pair!Other
      BY <2>1, OtherNew
    <3>2. PICK a \in Ids : rec[a].arch["current"] = Pair!Other
      BY <3>1 DEF PairInv, PlacesSound
    <3>3. CASE a = id
      BY <1>9, <2>1, <3>2, <3>3, OtherNew
    <3>4. CASE a # id
      <4>1. rec[a].arch["hold"] # Pair!Gone
        BY <3>2, IdFacts, OtherNew DEF PairInv, PlacesSound
      <4>2. rec[id].arch["current"] # Pair!Gone => rec[id].arch["hold"] # Pair!Gone
        BY IdFacts DEF PairInv, PlacesSound
      <4>3. rec[id].arch["current"] = Pair!Gone
        BY <3>4, <4>1, <4>2 DEF PairInv, PlacesSound
      <4> QED
        BY <1>6, <1>9, <2>1, <3>2, <3>4, <4>3, OtherNew
    <3> QED
      BY <3>3, <3>4
  <2>2. CASE "current" \notin ns
    <3>1. pairSlot'["current"] = pairSlot["current"] /\ rec'[id].arch["current"] = rec[id].arch["current"]
      BY <1>9, <2>2, OtherNew
    <3> QED
      BY <1>6, <3>1 DEF PairInv, PlacesSound
  <2> QED
    BY <2>1, <2>2
<1>14. \A m \in Names : \/ pairSlot'[m] = newest[m]
                        \/ \E a \in Ids : rec'[a].arch[m] = newest[m]
                        \/ (m = "current" /\ newest[m] \in bad)
  <2> TAKE m \in Names
  <2>1. newest[m] # Pair!Gone
    BY <1>1, OtherNew
  <2>2. CASE m \in ns
    <3>1. pairSlot[m] # newest[m]
      BY <2>1, <2>2
    <3>2. CASE m = "current" /\ newest[m] \in bad
      BY <3>2
    <3>3. CASE \E a \in Ids : rec[a].arch[m] = newest[m]
      BY <1>6, <1>9, <2>2, <3>3
    <3> QED
      BY <3>1, <3>2, <3>3 DEF PairInv, PlacesSound
  <2>3. CASE m \notin ns
    <3>1. pairSlot'[m] = pairSlot[m] /\ rec'[id].arch[m] = rec[id].arch[m]
      BY <1>9, <2>3
    <3> QED
      BY <1>6, <3>1 DEF PairInv, PlacesSound
  <2> QED
    BY <2>2, <2>3
<1>15. PlacesSound'
  BY <1>10, <1>11, <1>12, <1>13, <1>14 DEF PlacesSound
<1> QED
  BY <1>6, <1>7, <1>8, <1>15

LEMMA RecoverStep ==
  ASSUME Pair!PairedAssumption, PairInv, NEW n \in Names, Pair!recover_pinned_move(n) PROVE PairInv'
<1> DEFINE k == pairOp.k
           id == pairOp.id
<1>1. UNCHANGED <<bad, consumed, newest, pairApp>> /\ Pair!At(Pair!Readback(n))
  BY DEF Pair!recover_pinned_move
<1>2. /\ pairOp \in Ops /\ pairOp.pc = Pair!Readback(n) /\ id \in Ids /\ k \in DOMAIN intents
      /\ intents[k].id = id /\ PairTypes /\ rec \in [Ids -> Records_]
      /\ consumed \subseteq DOMAIN intents /\ rec[id].st # "none"
      /\ intents[k].st \in {"CONSUMED", "UNVERIFIED_DETACHING"}
      /\ intents[k].st = "CONSUMED" => k \in consumed
  BY <1>1, AtMove, StepNames
<1>3. id[n] = intents[k].snap[n] /\ n \in intents[k].moving
  BY <1>2 DEF PairInv, OpSound
<1>4. CASE /\ rec[id].arch[n] = intents[k].snap[n] /\ Pair!Go(Pair!Next2(n))
           /\ UNCHANGED <<pairSlot, rec, intents>>
  <2>1. Pair!Next2(n) # Pair!Rename(n)
    BY StepNames
  <2>2. pairOp' \in Ops /\ OpSound'
    BY <1>1, <1>2, <1>3, <1>4, <2>1, MoveGoes
  <2> QED
    BY <1>1, <1>4, <2>2, OnlyOp
<1>5. CASE Pair!End /\ UNCHANGED <<pairSlot, rec, intents>>
  BY <1>1, <1>2, <1>5, EndRests, OnlyOp
<1>6. ASSUME rec[id].arch[n] # intents[k].snap[n], Pair!End,
             NEW ns \in SUBSET Names, Pair!_admin_pin_restore_moves(ns),
             \A m \in ns : pairSlot[m] = Pair!Gone,
             n = "hold" \/ ns \subseteq {"current"} \/ "current" \in ns \/ rec[id].arch["current"] = Pair!Gone,
             \/ UNCHANGED intents
             \/ intents[k].st = "CONSUMED" /\ Pair!transition(k, "TARGET_CHANGED")
      PROVE  PairInv'
  <2>1. rec[id].arch # id
    BY <1>3, <1>6
  <2>2. rec[id].st # "released"
    BY <1>2, <2>1, IdFacts
  <2>3. n = "hold" => rec[id].arch["current"] = Pair!Gone
    BY <1>2, <1>3, <1>6 DEF PairInv, PlacesSound
  <2>4. "hold" \in ns => "current" \in ns \/ rec[id].arch["current"] = Pair!Gone
    BY <1>6, <2>3
  <2>5. /\ pairSlot' \in [Names -> 0..Pair!Other] /\ rec' \in [Ids -> Records_]
        /\ RecordsKept /\ PlacesSound'
    BY <1>1, <1>2, <1>6, <2>2, <2>4, Restored
  <2>6. /\ intents' \in Seq(Intents) /\ Len(intents') = Len(intents)
        /\ DOMAIN intents' = DOMAIN intents /\ KeySound' /\ Pair!ReleasedUnderKey'
    <3>1. CASE UNCHANGED intents
      BY <1>1, <1>2, <2>5, <3>1, KeysRest DEF PairTypes
    <3>2. CASE intents[k].st = "CONSUMED" /\ Pair!transition(k, "TARGET_CHANGED")
      <4>1. "TARGET_CHANGED" \in Pair!IntentStates
        BY DEF Pair!IntentStates
      <4>2. /\ intents' \in Seq(Intents) /\ Len(intents') = Len(intents)
            /\ DOMAIN intents' = DOMAIN intents
            /\ intents'[k].st = "TARGET_CHANGED"
            /\ \A j \in DOMAIN intents :
                 /\ intents'[j].id = intents[j].id /\ intents'[j].snap = intents[j].snap
                 /\ j # k => intents'[j] = intents[j]
            /\ HeldKept(k)
        BY <1>2, <3>2, <4>1, StateSet
      <4> QED
        BY <1>1, <1>2, <2>5, <3>2, <4>2, KeyChange DEF Closed
    <3> QED
      BY <1>6, <3>1, <3>2
  <2>7. Len(intents') <= MaxKeys /\ consumed' \subseteq DOMAIN intents'
    BY <1>1, <1>2, <2>6, KeptTypes
  <2>8. pairOp' \in Ops /\ OpSound'
    BY <1>2, <1>6, EndRests
  <2> QED
    BY <1>1, <1>2, <2>5, <2>6, <2>7, <2>8, FilesMove
<1>7. CASE /\ rec[id].arch[n] # intents[k].snap[n] /\ Pair!End /\ pairSlot[n] = Pair!Gone
           /\ Pair!_admin_pin_restore_moves({n}) /\ UNCHANGED intents
  <2>1. {n} \in SUBSET Names /\ (\A m \in {n} : pairSlot[m] = Pair!Gone)
        /\ (n = "hold" \/ {n} \subseteq {"current"})
    BY <1>7, OtherNew
  <2> QED
    BY <1>6, <1>7, <2>1
<1>8. CASE /\ rec[id].arch[n] # intents[k].snap[n] /\ Pair!End /\ ~Pair!RestoreConflict
           /\ Pair!_admin_pin_restore_moves(Pair!Restorable) /\ intents[k].st = "CONSUMED"
           /\ Pair!transition(k, "TARGET_CHANGED")
  <2> DEFINE ns == Pair!Restorable
  <2>1. ns = {m \in intents[k].moving : rec[id].arch[m] # Pair!Gone}
    BY DEF Pair!Restorable, Pair!Mine, Pair!Pair
  <2>2. intents[k].moving \subseteq Names
    BY <1>2, KeyFacts DEF Intents
  <2>3. \A m \in ns : pairSlot[m] = Pair!Gone
    BY <1>8 DEF Pair!RestoreConflict
  <2>4. n = "hold" \/ "current" \in ns \/ rec[id].arch["current"] = Pair!Gone
    BY <1>3, <2>1, OtherNew
  <2> HIDE DEF ns
  <2>5. ns \in SUBSET Names /\ Pair!_admin_pin_restore_moves(ns)
    BY <1>8, <2>1, <2>2 DEF ns
  <2> QED
    BY <1>6, <1>8, <2>3, <2>4, <2>5
<1> QED
  BY <1>4, <1>5, <1>7, <1>8 DEF Pair!recover_pinned_move, Pair!Mine, Pair!Pair

LEMMA PairStart == ASSUME Pair!PairedAssumption, Pair!Init PROVE PairInv
<1>1. /\ pairSlot = [n \in Names |-> 1] /\ newest = pairSlot /\ bad = {}
      /\ rec = [id \in Ids |-> Pair!NoRec] /\ intents = <<>> /\ consumed = {}
      /\ pairApp = [up |-> TRUE, epoch |-> 0, tray |-> "pair", snap |-> TRUE]
      /\ pairOp = [pc |-> "idle", via |-> "fresh", id |-> Pair!NoId, k |-> 0]
  BY DEF Pair!Init, Names, Ids, Pair!Idle
<1>2. 1 \in 1..MaxVersions /\ 1 \in 0..Pair!Other /\ 1 \in Pair!Contents /\ 0 \in 0..MaxKeys
  BY DEF Pair!PairedAssumption, Pair!Other, Pair!Contents
<1>3. Pair!NoRec \in Records_ /\ Pair!NoRec.st = "none" /\ Pair!NoRec.arch = [n \in Names |-> Pair!Gone]
  <2>1. Pair!NoRec = [st |-> "none", arch |-> [n \in Names |-> Pair!Gone], event |-> 0]
    BY DEF Pair!NoRec, Names
  <2>2. [n \in Names |-> Pair!Gone] \in [Names -> 0..Pair!Other]
    BY OtherNew
  <2> QED
    BY <1>2, <2>1, <2>2 DEF Records_
<1>4. Pair!NoId \in Ids
  BY <1>2 DEF Pair!NoId, Ids, Pair!Ids, Names
<1>5. pairOp \in Ops /\ pairOp.pc = "idle" /\ pairOp.via = "fresh"
  BY <1>1, <1>2, <1>4 DEF Ops, PairPcs
<1>6. pairApp \in Apps /\ pairApp.tray = "pair" /\ pairApp.snap
  BY <1>1 DEF Apps
<1>7. rec \in [Ids -> Records_] /\ \A a \in Ids : rec[a] = Pair!NoRec
  BY <1>1, <1>3
<1>8. intents \in Seq(Intents) /\ Len(intents) = 0 /\ DOMAIN intents = {}
  BY <1>1
<1>9. PairTypes
  BY <1>1, <1>2, <1>5, <1>6, <1>7, <1>8 DEF PairTypes, Pair!PairedAssumption
<1>10. KeySound /\ Pair!ReleasedUnderKey
  BY <1>3, <1>7, <1>8 DEF KeySound, Pair!ReleasedUnderKey, Pair!pending, Ids
<1>11. OpSound
  <2>1. \A n \in Names : "idle" \notin {Pair!Rename(n), Pair!Readback(n)}
    BY DEF Pair!Rename, Pair!Readback
  <2> QED
    BY <1>5, <2>1 DEF OpSound, Keyed, Moves
<1>12. PlacesSound
  <2>1. \A a \in Ids : \A n \in Names : rec[a].arch[n] = Pair!Gone
    BY <1>3, <1>7
  <2> QED
    BY <1>1, <1>6, <2>1, OtherNew DEF PlacesSound
<1>13. FirstSound
  BY <1>1, <1>2, <1>3, <1>6, <1>7 DEF FirstSound
<1> QED
  BY <1>9, <1>10, <1>11, <1>12, <1>13 DEF PairInv

LEMMA PairNext ==
  ASSUME Pair!PairedAssumption, PairInv, [Pair!Next]_(Pair!vars) PROVE PairInv'
<1>1. CASE \E n \in Names : \/ Pair!_admin_pin_journal_move(n) \/ Pair!RenameOriginal(n)
                            \/ Pair!recover_pinned_move(n) \/ Pair!Touch(n)
  BY <1>1, JournalStep, RenameStep, RecoverStep, TouchStep
<1>2. CASE \/ Pair!supersede_changed_record \/ Pair!RetireChanged \/ Pair!prepare
           \/ Pair!NewRequest \/ Pair!RetryRequest \/ Pair!CloseRequest \/ Pair!ResumeConsumed
           \/ Pair!DeferStart \/ Pair!CancelPrompt \/ Pair!AskStatusLost
  BY <1>2, SupersedeStep, RetireStep, PrepareStep, RequestStep, RetryStep, CloseStep, ResumeStep,
     DeferStep, CancelStep, LostStep
<1>3. CASE \/ Pair!verify \/ Pair!redeem \/ Pair!Consume \/ Pair!_admin_pin_target_changed
           \/ Pair!LogDeferred \/ Pair!release \/ Pair!_admin_pin_complete
           \/ Pair!_finish_preflight_handoff
  BY <1>3, VerifyStep, RedeemStep, ConsumeStep, TargetStep, EventStep, ReleaseStep, CompleteStep,
     FinishStep
<1>4. CASE \/ Pair!_admin_pin_detach_unverified \/ Pair!FinishDetachment \/ Pair!Recheck
           \/ Pair!Crash \/ Pair!start_work \/ Pair!_load_current_tray_state
           \/ Pair!StartOther \/ Pair!FinishOther
  BY <1>4, DetachStep, HeldStep, RecheckStep, CrashStep, LoginStep, LoadStep, TakeOtherStep,
     DropOtherStep
<1>5. CASE UNCHANGED Pair!vars
  BY <1>5 DEF Pair!vars, PairInv, PairTypes, KeySound, OpSound, PlacesSound, FirstSound,
     Pair!ReleasedUnderKey, Pair!pending
<1> QED
  BY <1>1, <1>2, <1>3, <1>4, <1>5 DEF Pair!Next, Pair!Steps, Names

LEMMA AtMostOne ==
  ASSUME NEW S, \A a, b \in S : a = b PROVE Cardinality(S) <= 1
<1>1. CASE S = {}
  BY <1>1, FS_EmptySet
<1>2. CASE S # {}
  <2>1. PICK a \in S : S = {a}
    BY <1>2
  <2> QED
    BY <2>1, FS_Singleton
<1> QED
  BY <1>1, <1>2

(* The component's cardinality is the one the library speaks of.           *)
LEMMA SameCardinality == ASSUME NEW S PROVE Pair!Cardinality(S) = Cardinality(S)
BY DEF Pair!Cardinality, Cardinality

LEMMA PairSays ==
  ASSUME Pair!PairedAssumption, PairInv
  PROVE  /\ Pair!PairTypeOK /\ Pair!OriginalsKept /\ Pair!ReleasedUnderKey
         /\ Pair!AppliedOnce /\ Pair!ReleasedNotWorked
<1>1. Pair!PairTypeOK
  <2>1. \A k \in DOMAIN intents : intents[k] \in Intents
    BY KeyFacts
  <2>2. PairTypes
    BY DEF PairInv
  <2>3. ASSUME NEW k \in DOMAIN intents
        PROVE  intents[k] \in [st : Pair!IntentStates, id : Pair!Ids,
                               snap : [Pair!Names -> 0..Pair!Other], vid : BOOLEAN, held : BOOLEAN, epoch : Nat,
                               moving : SUBSET Pair!Names]
    <3>1. intents[k] \in Intents
      BY <2>1
    <3>2. Ids \subseteq [Pair!Names -> 0..Pair!Other]
      BY DEF Ids, Pair!Ids, Pair!Contents, Pair!Other, Pair!PairedAssumption
    <3> QED
      BY <3>1, <3>2 DEF Intents, Names, Ids
  <2>4. /\ pairSlot \in [Pair!Names -> 0..Pair!Other] /\ bad \subseteq Pair!Contents
        /\ newest \in [Pair!Names -> 1..MaxVersions]
        /\ consumed \subseteq DOMAIN intents
    BY <2>2 DEF PairTypes, Names
  <2>5. rec \in [Pair!Ids -> [st : {"none", "pending", "superseded", "released"},
                             arch : [Pair!Names -> 0..Pair!Other], event : 0..MaxKeys]]
    BY <2>2 DEF PairTypes, Records_, Names, Ids
  <2> QED
    BY <2>3, <2>4, <2>5 DEF Pair!PairTypeOK
<1>2. Pair!OriginalsKept
  BY DEF PairInv, PlacesSound, Pair!OriginalsKept, Names, Ids
<1>3. Pair!AppliedOnce
  <2>1. \A k \in DOMAIN intents : intents[k].st = "APPLIED" =>
          k \in consumed /\ rec[intents[k].id].st = "released" /\ intents[k].snap = intents[k].id
    BY DEF PairInv, KeySound, Closed
  <2>2. ASSUME NEW id \in Pair!Ids
        PROVE  /\ Pair!Cardinality(Pair!OpenKeys(id)) <= 1
               /\ Pair!Cardinality({k \in DOMAIN intents : intents[k].id = id /\ intents[k].st = "APPLIED"}) <= 1
    <3>1. \A a, b \in Pair!OpenKeys(id) : a = b
      BY DEF PairInv, KeySound, Closed, Pair!Closed, Pair!OpenKeys
    <3>2. \A a, b \in {k \in DOMAIN intents : intents[k].id = id /\ intents[k].st = "APPLIED"} : a = b
      BY DEF PairInv, KeySound, Closed
    <3> QED
      BY <3>1, <3>2, AtMostOne, SameCardinality
  <2>3. Pair!Cardinality(Pair!pending) <= 1
    BY AtMostOne, SameCardinality DEF PairInv, KeySound
  <2> QED
    BY <2>1, <2>2, <2>3 DEF Pair!AppliedOnce
<1>4. Pair!ReleasedNotWorked
  BY DEF PairInv, FirstSound, Pair!ReleasedNotWorked
<1> QED
  BY <1>1, <1>2, <1>3, <1>4 DEF PairInv

(* For any number of contents, operation keys and faults: a DRAINING hold  *)
(* and the current tray that a login finds together                        *)
(* (_defer_paired_preflight_from_operations, pin_file_move.py) are never   *)
(* lost in their last version, whatever PIN answer, audit entry or restart *)
(* is missed between two moves; the pair is released only as recorded and  *)
(* under a key consumed for these bytes or held by the operator; one key   *)
(* is applied for it; and a released tray is not worked on.                *)
THEOREM OriginalsSafe == Spec => []PairKept
<1>1. Init => PairInv
  BY PairStart, RecordsAssumption DEF Init, RecordsAssumption
<1>2. PairInv /\ [Next]_vars => PairInv'
  <2> SUFFICES ASSUME PairInv, [Next]_vars PROVE PairInv'
    OBVIOUS
  <2>1. [Pair!Next]_(Pair!vars)
    BY DEF Next, PairStep, ProofStep, MendedStep, LogStep, TornStep, BoxStep, WinStep, vars,
           pairVars, Pair!vars
  <2> QED
    BY <2>1, PairNext, RecordsAssumption DEF RecordsAssumption
<1>3. PairInv => PairKept
  BY PairSays, RecordsAssumption DEF PairKept, RecordsAssumption
<1> QED
  BY <1>1, <1>2, <1>3, PTL DEF Spec
=============================================================================
