--------------------------- MODULE TrayFiles_proofs ---------------------------
(***************************************************************************)
(* Theorem about the preflight hold: what was scanned while the server is  *)
(* asked is in a file or judged, whatever the window, the writer thread    *)
(* and the lane do in between.  The files say what has been judged; the    *)
(* window, the queue and the lane say which file is meant.                 *)
(***************************************************************************)
EXTENDS TrayFiles, Sequences, NaturalsInduction, WellFoundedInduction, FiniteSetTheorems, TLAPS

Receipts == [hold : Nat, seq : Nat]
Products == [code : Codes, receipt : Receipts]
TrayStates == [label : Labels \cup {none}, scanned : Seq(Products)]
Scans == [id : Receipts, code : Codes, meant : Labels, label : Labels]
Windows == [snap : Hold!Holds, label : Labels \cup {none}, pending : BOOLEAN, draining : BOOLEAN,
            locked : BOOLEAN, offline : BOOLEAN, notice : BOOLEAN, append : BOOLEAN,
            switching : BOOLEAN, due : BOOLEAN, out : BOOLEAN, retry : Labels \cup {none},
            replay : Labels \cup {none}]
Lanes == [task : {"none", "lookup", "drain"}, step : {"idle", "hold", "ask", "got", "save", "log", "ack"},
          label : Labels \cup {none}, snap : Hold!Holds,
          res : {"none", "fail", "ok", "offline", "old", "reject", "new"}, fresh : BOOLEAN]
Tasks == [op : {"append", "offline", "fail", "settle", "drain", "switch"}, label : Labels \cup {none},
          code : Codes \cup {none}, id : Nat, fresh : BOOLEAN, done : {"no", "ok", "err"},
          snap : Hold!Holds]

(***************************************************************************)
(* The files.                                                              *)
(***************************************************************************)
FileTypes ==
  /\ hold \in Hold!Holds /\ quarantined \subseteq Hold!Holds \ {Hold!NoHold}
  /\ trayFile \in TrayStates /\ Len(trayFile.scanned) <= TraySize
  /\ trayFile.label = none => trayFile = Hold!NoTray
  /\ completed = [l \in DOMAIN completed |-> completed[l]] /\ DOMAIN completed \subseteq Labels
  /\ \A l \in DOMAIN completed : completed[l] \in Seq(Products)
  /\ log \in Seq({"SCAN_OK", "SCAN_FAIL"} \X Receipts)
  /\ admitted \subseteq Scans /\ ids \in 0..MaxHolds

(* Where a scan's receipt has come to: the log, the open tray, a completed *)
(* one.                                                                    *)
Logged(id) == \E k \in DOMAIN log : log[k][2] = id
Saved(id) == \E k \in DOMAIN trayFile.scanned : trayFile.scanned[k].receipt = id
Done(id) == \E l \in DOMAIN completed : \E k \in DOMAIN completed[l] : completed[l][k].receipt = id
Unjudged(id) == ~Logged(id) /\ ~Saved(id) /\ ~Done(id)

Files == {hold} \cup quarantined
ItemId(h, k) == Hold!ScanId(h, h.items[k])

(* Each hold has an identity and a label of its own.                       *)
IdsSound ==
  /\ hold # Hold!NoHold => hold.id <= ids
  /\ \A q \in quarantined : q.id <= ids /\ q.id # hold.id /\ q.label # hold.label /\ q.state # "DRAINING"
  /\ \A p, q \in quarantined : p.id = q.id \/ p.label = q.label => p = q

(* The scans of a hold are those it accepted and has not let go, in order. *)
Increasing(h) == \A j, k \in DOMAIN h.items : j < k => h.items[j].seq < h.items[k].seq
FromFirst(h) == \A k \in DOMAIN h.items : h.items[k].seq = k /\ Unjudged(ItemId(h, k))
AcceptedSound ==
  /\ \A a \in admitted : a.id.hold \in 1..ids /\ a.meant = a.label
  /\ \A a, b \in admitted : a.id = b.id => a = b
LastSound == \A h \in Files : \A a \in admitted : a.id.hold = h.id =>
  a.label = h.label /\ h.items # <<>> /\ a.id.seq <= h.items[Len(h.items)].seq
ItemsSound == \A h \in Files : \A k \in DOMAIN h.items :
  \E a \in admitted : a.id = ItemId(h, k) /\ a.code = h.items[k].code
OrderSound == Increasing(hold) /\ \A q \in quarantined : FromFirst(q)
ScansSound == AcceptedSound /\ LastSound /\ ItemsSound /\ OrderSound

(* Only the head of the hold may be judged, and only of a hold whose tray  *)
(* is open.                                                                *)
HeadSound ==
  /\ hold.state = "LOOKUP" \/ trayFile = Hold!NoTray => FromFirst(hold)
  /\ \A k \in DOMAIN hold.items :
       /\ ~Done(ItemId(hold, k))
       /\ k > 1 => Unjudged(ItemId(hold, k))
       /\ (\E j \in DOMAIN log : log[j] = <<"SCAN_FAIL", ItemId(hold, k)>>) =>
            \/ hold.items[k].code \in BadCodes
            \/ \E j \in DOMAIN trayFile.scanned : trayFile.scanned[j].code = hold.items[k].code
            \/ Len(trayFile.scanned) >= TraySize
  /\ hold # Hold!NoHold /\ trayFile # Hold!NoTray =>
       /\ trayFile.label = hold.label
       /\ \A k \in DOMAIN trayFile.scanned :
            /\ trayFile.scanned[k].receipt.hold = hold.id
            /\ hold.items # <<>> /\ trayFile.scanned[k].receipt.seq <= hold.items[1].seq

(* What a tray has was accepted for its label, and is in order.            *)
TraySound(l, s) ==
  /\ \A k \in DOMAIN s : s[k].receipt # Hold!LiveScan =>
       \E a \in admitted : a.id = s[k].receipt /\ a.code = s[k].code /\ a.label = l
  /\ \A j, k \in DOMAIN s : j < k /\ s[k].receipt # Hold!LiveScan =>
       /\ s[j].receipt # Hold!LiveScan
       /\ s[j].receipt.hold = s[k].receipt.hold => s[j].receipt.seq < s[k].receipt.seq
TraysSound ==
  /\ TraySound(trayFile.label, trayFile.scanned)
  /\ \A l \in DOMAIN completed : TraySound(l, completed[l])
  /\ trayFile.label \notin DOMAIN completed
VerdictsSound ==
  /\ \A k \in DOMAIN log : \E a \in admitted : a.id = log[k][2]
  /\ \A j, k \in DOMAIN log : log[j][2] = log[k][2] => j = k
  /\ \A k \in DOMAIN log : log[k][1] = "SCAN_OK" <=> Saved(log[k][2]) \/ Done(log[k][2])
KeptSound == \A a \in admitted :
  Logged(a.id) \/ \E h \in Files : \E k \in DOMAIN h.items : ItemId(h, k) = a.id
LogSound == TraysSound /\ VerdictsSound /\ KeptSound

FilesInv == FileTypes /\ IdsSound /\ ScansSound /\ HeadSound /\ LogSound

(***************************************************************************)
(* The window, the writer's queue and the lane.                            *)
(***************************************************************************)
ControlTypes ==
  /\ tray \in TrayStates /\ holdMem \in Windows /\ lane \in Lanes /\ writer \in Seq(Tasks)
  /\ holdFaults \in 0..MaxHoldFaults

(* A snapshot of a hold is of that hold's label.                           *)
Taken(s) == s # Hold!NoHold => s.id <= ids /\ \A h \in Files : h.id = s.id => h.label = s.label
Found(s) == s # Hold!NoHold => \E h \in Files : h.id = s.id

(* The writer works its queue in order.                                    *)
Queued(kind) == \E k \in DOMAIN writer : writer[k].op = kind
InOrder == \A j, k \in DOMAIN writer : j < k /\ writer[k].done # "no" => writer[j].done # "no"

(* What the writer kept is a snapshot of a hold that is there, or the      *)
(* window will hear later that it was removed.                             *)
Removed(i) == \E j \in DOMAIN writer : j > i /\ writer[j].op \in {"drain", "switch"} /\ writer[j].done = "ok"
ResultsSound == \A k \in DOMAIN writer :
  /\ writer[k].done # "ok" => writer[k].snap = Hold!NoHold
  /\ writer[k].done = "ok" /\ writer[k].op \notin {"drain", "switch"} => writer[k].snap # Hold!NoHold
  /\ writer[k].op # "drain" => writer[k].snap.state # "DRAINING"
  /\ Taken(writer[k].snap) /\ (Found(writer[k].snap) \/ Removed(k))
  /\ writer[k].op = "offline" /\ writer[k].fresh => writer[k].label = holdMem.label

(* A product is queued for the label that is looked up.                    *)
AppendSound == \A k \in DOMAIN writer : writer[k].op = "append" =>
  /\ holdMem.append /\ holdMem.replay = none /\ writer[k].label = holdMem.label
  /\ writer[k].label \in Labels /\ writer[k].code \in Codes
  /\ hold # Hold!NoHold => hold.label = holdMem.label
  /\ \A j \in DOMAIN writer : writer[j].op = "append" => j = k

(* While a hold is being set aside no label is looked up.                  *)
SwitchSound == \A k \in DOMAIN writer : writer[k].op = "switch" =>
  /\ holdMem.switching /\ ~holdMem.pending /\ lane.task # "lookup"
  /\ trayFile = Hold!NoTray /\ ~Queued("append") /\ writer[k].label \in Labels
  /\ writer[k].done = "ok" => hold = Hold!NoHold
  /\ \A j \in DOMAIN writer : writer[j].op = "switch" => j = k

(* Until the window hears of the drain, nothing is drained; behind it only *)
(* the mark of a failed lookup can follow.                                 *)
DrainSound == \A k \in DOMAIN writer : writer[k].op = "drain" =>
  /\ tray # Hold!NoTray /\ holdMem.snap # Hold!NoHold
  /\ ~holdMem.due /\ lane.task = "none" /\ holdMem.snap.state # "DRAINING"
  /\ \A j \in DOMAIN writer : j > k => writer[j].op = "fail"
  /\ writer[k].done = "ok" /\ writer[k].snap # Hold!NoHold =>
       /\ writer[k].snap.label = hold.label /\ writer[k].snap.items # <<>>
       /\ hold.state \in {"DRAINING", "LOOKUP_FAILED"}
       /\ \A j \in DOMAIN writer : j >= k /\ writer[j].done = "ok" =>
            writer[j].snap.id = hold.id /\ writer[j].snap.items = hold.items

(* A hold that drains takes no more scans, and nothing was kept since.     *)
DrainingSound == hold.state = "DRAINING" =>
  /\ tray.label = hold.label /\ hold.items # <<>>
  /\ \A k \in DOMAIN writer :
       /\ writer[k].done = "no" => writer[k].op = "fail"
       /\ writer[k].done = "ok" => \E j \in DOMAIN writer : j >= k /\ writer[j].op = "drain"

QueueInv == InOrder /\ ResultsSound /\ AppendSound /\ SwitchSound /\ DrainSound /\ DrainingSound

(* The tray on the screen is the saved one, but for one that was opened    *)
(* without the window knowing.                                             *)
ScreenSound ==
  /\ tray = trayFile \/ (holdMem.out /\ tray = Hold!NoTray /\ trayFile.scanned = <<>>)
  /\ holdMem.out => lane.task = "none" /\ ~holdMem.pending /\ tray = Hold!NoTray
  /\ holdMem.due => tray # Hold!NoTray /\ holdMem.snap # Hold!NoHold

SnapSound == Taken(holdMem.snap) /\ (Found(holdMem.snap) \/ Removed(0))

(* What is looked up has no other hold and no completed tray.              *)
PendingSound ==
  holdMem.pending =>
    /\ trayFile = Hold!NoTray /\ holdMem.replay = none /\ ~holdMem.switching
    /\ holdMem.label \in Labels \ DOMAIN completed
    /\ hold # Hold!NoHold => hold.label = holdMem.label
    /\ \A q \in quarantined : q.label # holdMem.label
AgainSound ==
  /\ holdMem.retry # none => holdMem.retry = holdMem.label
  /\ holdMem.replay # none => \/ hold = Hold!NoHold \/ hold.label = holdMem.replay
                              \/ \E q \in quarantined : q.label = holdMem.replay

(* The hold that is drained is the one the window has read.                *)
ReadSound == holdMem.snap.state = "DRAINING" \/ lane.task = "drain" =>
  /\ hold.id = holdMem.snap.id /\ hold.items = holdMem.snap.items /\ hold.items # <<>>
  /\ tray.label = hold.label /\ hold.label = holdMem.snap.label
  /\ hold.state \in {"DRAINING", "LOOKUP_FAILED"}
  /\ \A k \in DOMAIN writer : writer[k].done = "ok" =>
       writer[k].snap.id = hold.id /\ writer[k].snap.items = hold.items

WindowInv == ScreenSound /\ SnapSound /\ PendingSound /\ AgainSound /\ ReadSound

LookupSound ==
  /\ lane.task = "none" => lane.step = "idle"
  /\ lane.task = "lookup" =>
       /\ lane.step \in {"hold", "ask", "got"} /\ lane.label \in Labels \ DOMAIN completed
       /\ lane.label = holdMem.label /\ trayFile = Hold!NoTray /\ ~holdMem.switching
       /\ Taken(lane.snap) /\ Found(lane.snap)
       /\ lane.snap # Hold!NoHold => lane.snap.label = lane.label
       /\ lane.snap.state # "DRAINING"
       /\ lane.step \in {"hold", "got"} => holdMem.replay = none
       /\ lane.step = "ask" \/ (lane.step = "got" /\ lane.res \in {"ok", "offline"}) => lane.snap # Hold!NoHold
       /\ lane.step = "hold" => /\ lane.snap = Hold!NoHold
                                /\ \A q \in quarantined : q.label # lane.label
                                /\ hold # Hold!NoHold => hold.label = lane.label

(* What was decided of the head stays true until it is let go.             *)
HeadDecided ==
  IF lane.res = "reject"
  THEN /\ ~Saved(ItemId(hold, 1))
       /\ \/ hold.items[1].code \in BadCodes
          \/ \E j \in DOMAIN tray.scanned : tray.scanned[j].code = hold.items[1].code
          \/ Len(tray.scanned) >= TraySize
  ELSE Saved(ItemId(hold, 1))
HeadTold == \E k \in DOMAIN log :
  log[k] = <<IF lane.res = "reject" THEN "SCAN_FAIL" ELSE "SCAN_OK", ItemId(hold, 1)>>
HeadJudged == lane.task = "drain" =>
  /\ lane.step \in {"save", "log", "ack"} /\ lane.res \in {"old", "reject", "new"}
  /\ lane.step = "save" => lane.res = "new" /\ Unjudged(ItemId(hold, 1)) /\ Len(tray.scanned) < TraySize
  /\ lane.step \in {"log", "ack"} => HeadDecided
  /\ lane.step = "ack" => HeadTold

ControlInv == ControlTypes /\ QueueInv /\ WindowInv /\ LookupSound /\ HeadJudged
HoldInv == FilesInv /\ ControlInv

-----------------------------------------------------------------------------
(* Sequences.                                                              *)
LEMMA Appended ==
  ASSUME NEW S, NEW s \in Seq(S), NEW e \in S
  PROVE  /\ Append(s, e) \in Seq(S) /\ Len(Append(s, e)) = Len(s) + 1
         /\ DOMAIN Append(s, e) = 1..(Len(s) + 1) /\ DOMAIN s = 1..Len(s) /\ Len(s) \in Nat
         /\ Append(s, e)[Len(s) + 1] = e /\ \A i \in 1..Len(s) : Append(s, e)[i] = s[i]
         /\ Append(s, e) # <<>>
OBVIOUS

LEMMA Element == ASSUME NEW S, NEW s \in Seq(S), NEW k \in DOMAIN s PROVE s[k] \in S
OBVIOUS

LEMMA Shortened ==
  ASSUME NEW S, NEW s \in Seq(S), s # <<>>
  PROVE  /\ Tail(s) \in Seq(S) /\ Len(Tail(s)) = Len(s) - 1 /\ Len(s) \in Nat \ {0}
         /\ DOMAIN Tail(s) = 1..(Len(s) - 1) /\ DOMAIN s = 1..Len(s)
         /\ Head(s) = s[1] /\ \A i \in 1..(Len(s) - 1) : Tail(s)[i] = s[i + 1]
OBVIOUS

(* A hold file.                                                            *)
LEMMA HoldShape ==
  ASSUME TrayFilesAssumption, NEW h \in Hold!Holds
  PROVE  /\ Hold!NoHold \in Hold!Holds /\ Hold!NoHold.id = 0 /\ Hold!NoHold.label = none
         /\ Hold!NoHold.items = <<>> /\ Hold!NoHold.state = "NONE" /\ DOMAIN Hold!NoHold.items = {}
         /\ h # Hold!NoHold => /\ h.label \in Labels /\ h.label # none /\ h.id \in 1..MaxHolds /\ h.id # 0
                               /\ h.state \in {"LOOKUP", "LOOKUP_FAILED", "DRAINING"}
         /\ h.items \in Seq([seq : 1..HoldCapacity, code : Codes])
         /\ h.id \in Nat
         /\ DOMAIN h.items = 1..Len(h.items) /\ Len(h.items) \in Nat
<1>1. none \notin Labels
  BY DEF TrayFilesAssumption, Hold!HoldAssumption
<1>2. Hold!NoHold \in Hold!Holds
  BY DEF Hold!Holds
<1>3. /\ Hold!NoHold.id = 0 /\ Hold!NoHold.label = none
      /\ Hold!NoHold.items = <<>> /\ Hold!NoHold.state = "NONE"
  BY DEF Hold!NoHold
<1>4. h = Hold!NoHold \/ h \in [label : Labels, id : 1..MaxHolds, state : {"LOOKUP", "LOOKUP_FAILED", "DRAINING"},
                               offline : BOOLEAN, items : Seq([seq : 1..HoldCapacity, code : Codes])]
  BY DEF Hold!Holds, Hold!Items, Hold!States
<1>5. DOMAIN <<>> = {}
  OBVIOUS
<1>6. h # Hold!NoHold => /\ h.label \in Labels /\ h.label # none /\ h.id \in 1..MaxHolds /\ h.id # 0
                         /\ h.state \in {"LOOKUP", "LOOKUP_FAILED", "DRAINING"}
  BY <1>1, <1>4
<1>7. h.items \in Seq([seq : 1..HoldCapacity, code : Codes]) /\ h.id \in Nat
  <2>1. MaxHolds \in Nat
    BY DEF TrayFilesAssumption, Hold!HoldAssumption
  <2>2. <<>> \in Seq([seq : 1..HoldCapacity, code : Codes])
    OBVIOUS
  <2>3. CASE h = Hold!NoHold
    <3>1. h.items = <<>> /\ h.id = 0
      BY <1>3, <2>3
    <3> QED
      BY <2>2, <3>1
  <2>4. CASE h # Hold!NoHold
    BY <1>4, <2>1, <2>4
  <2> QED
    BY <2>3, <2>4
<1>8. DOMAIN h.items = 1..Len(h.items) /\ Len(h.items) \in Nat
  BY <1>7
<1> QED
  BY <1>2, <1>3, <1>5, <1>6, <1>7, <1>8

-----------------------------------------------------------------------------
(* What the steps do to the files.                                         *)
LEMMA FileFacts ==
  ASSUME TrayFilesAssumption, FilesInv
  PROVE  /\ ids \in Nat /\ MaxHolds \in Nat
         /\ \A h \in Files : /\ h \in Hold!Holds /\ DOMAIN h.items = 1..Len(h.items) /\ Len(h.items) \in Nat
                             /\ h.id \in Nat /\ (h # Hold!NoHold => h.id # 0 /\ h.label # none)
         /\ hold \in Files /\ \A q \in quarantined : q \in Files /\ q # Hold!NoHold
         /\ \A a \in admitted : a.id.hold \in Nat /\ a.id.hold # 0 /\ a.id.hold <= ids
         /\ hold = Hold!NoHold => hold.items = <<>> /\ DOMAIN hold.items = {} /\ hold.id = 0 /\ hold.label = none
         /\ Hold!NoHold \in Hold!Holds /\ Hold!NoHold.id = 0 /\ Hold!NoHold.label = none
         /\ Hold!NoHold.items = <<>> /\ Hold!NoHold.state = "NONE" /\ DOMAIN Hold!NoHold.items = {}
<1>1. MaxHolds \in Nat /\ ids \in Nat
  BY DEF TrayFilesAssumption, Hold!HoldAssumption, FilesInv, FileTypes
<1>2. hold \in Files /\ (\A q \in quarantined : q \in Files /\ q # Hold!NoHold) /\ \A h \in Files : h \in Hold!Holds
  BY DEF FilesInv, FileTypes, Files
<1>3. \A a \in admitted : a.id.hold \in Nat /\ a.id.hold # 0 /\ a.id.hold <= ids
  BY <1>1 DEF FilesInv, ScansSound, AcceptedSound
<1> QED
  BY <1>1, <1>2, <1>3, HoldShape


(* A hold is marked, its scans stay as they are.                           *)
LEMMA HoldMarked ==
  ASSUME TrayFilesAssumption, FilesInv, hold # Hold!NoHold, hold' \in Hold!Holds, hold' # Hold!NoHold,
         hold'.id = hold.id, hold'.label = hold.label, hold'.items = hold.items,
         hold'.state = "LOOKUP" => hold.state = "LOOKUP" \/ trayFile = Hold!NoTray,
         UNCHANGED <<quarantined, trayFile, completed, log, admitted, ids>>
  PROVE  FilesInv'
<1>1. FileTypes'
  BY DEF FilesInv, FileTypes
<1>2. IdsSound'
  BY DEF FilesInv, IdsSound
<1>4. ScansSound'
  <2>1. AcceptedSound'
    BY DEF FilesInv, ScansSound, AcceptedSound
  <2>2. LastSound'
    BY DEF FilesInv, ScansSound, LastSound, Files
  <2>3. ItemsSound'
    BY DEF FilesInv, ScansSound, ItemsSound, Files, ItemId, Hold!ScanId
  <2>4. OrderSound'
    BY DEF FilesInv, ScansSound, OrderSound, HeadSound, Increasing, FromFirst, ItemId, Hold!ScanId, Unjudged, Logged, Saved, Done
  <2> QED
    BY <2>1, <2>2, <2>3, <2>4 DEF ScansSound
<1>5. HeadSound'
  BY DEF FilesInv, HeadSound, ItemId, FromFirst, Unjudged, Logged, Saved, Done, Hold!ScanId
<1>6. LogSound'
  <2>1. TraysSound'
    BY DEF FilesInv, LogSound, TraysSound, TraySound
  <2>2. VerdictsSound'
    BY DEF FilesInv, LogSound, VerdictsSound, Saved, Done
  <2>3. KeptSound'
    BY DEF FilesInv, LogSound, KeptSound, Files, ItemId, Hold!ScanId, Logged
  <2> QED
    BY <2>1, <2>2, <2>3 DEF LogSound
<1> QED
  BY <1>1, <1>2, <1>4, <1>5, <1>6 DEF FilesInv

(* A hold without scans, or with none left, goes.                          *)
LEMMA HoldEmptied ==
  ASSUME TrayFilesAssumption, FilesInv, hold.items = <<>>, hold' = Hold!NoHold,
         UNCHANGED <<quarantined, trayFile, completed, log, admitted, ids>>
  PROVE  FilesInv'
<1>0. /\ hold'.items = <<>> /\ hold'.id = 0 /\ hold'.label = none /\ hold'.state = "NONE" /\ DOMAIN hold'.items = {}
      /\ hold' \in Hold!Holds /\ DOMAIN hold.items = {}
      /\ \A q \in quarantined : q.id # 0 /\ q.label # none
      /\ \A a \in admitted : a.id.hold # 0
  BY FileFacts
<1>1. FileTypes'
  BY <1>0 DEF FilesInv, FileTypes
<1>2. IdsSound'
  BY <1>0, HoldShape DEF FilesInv, IdsSound
<1>4. ScansSound'
  <2>1. AcceptedSound'
    BY <1>0 DEF FilesInv, ScansSound, AcceptedSound
  <2>2. LastSound'
    BY <1>0 DEF FilesInv, ScansSound, LastSound, Files
  <2>3. ItemsSound'
    BY <1>0 DEF FilesInv, ScansSound, ItemsSound, Files, ItemId, Hold!ScanId
  <2>4. OrderSound'
    BY <1>0 DEF FilesInv, ScansSound, OrderSound, HeadSound, Increasing, FromFirst, ItemId, Hold!ScanId, Unjudged, Logged, Saved, Done
  <2> QED
    BY <2>1, <2>2, <2>3, <2>4 DEF ScansSound
<1>5. HeadSound'
  BY <1>0 DEF FilesInv, HeadSound, ItemId, FromFirst, Unjudged, Logged, Saved, Done, Hold!ScanId
<1>6. LogSound'
  <2>1. TraysSound'
    BY <1>0 DEF FilesInv, LogSound, TraysSound, TraySound
  <2>2. VerdictsSound'
    BY <1>0 DEF FilesInv, LogSound, VerdictsSound, Saved, Done
  <2>3. KeptSound'
    BY <1>0 DEF FilesInv, LogSound, KeptSound, Files, ItemId, Hold!ScanId, Logged
  <2> QED
    BY <2>1, <2>2, <2>3 DEF LogSound
<1> QED
  BY <1>1, <1>2, <1>4, <1>5, <1>6 DEF FilesInv

(* prepare_hold begins a hold for a label that has none.                   *)
LEMMA HoldBegun ==
  ASSUME TrayFilesAssumption, FilesInv, NEW l \in Labels, hold = Hold!NoHold, trayFile = Hold!NoTray,
         \A q \in quarantined : q.label # l, ids < MaxHolds, ids' = ids + 1,
         hold' = [label |-> l, id |-> ids + 1, state |-> "LOOKUP", offline |-> FALSE, items |-> <<>>],
         UNCHANGED <<quarantined, trayFile, completed, log, admitted>>
  PROVE  FilesInv'
<1>0. /\ ids \in Nat /\ MaxHolds \in Nat /\ hold' # Hold!NoHold /\ DOMAIN hold.items = {} /\ hold.id = 0
      /\ \A q \in quarantined : q.id <= ids /\ q.id \in Nat
      /\ \A a \in admitted : a.id.hold # ids + 1
      /\ hold'.label = l /\ hold'.id = ids + 1 /\ hold'.items = <<>> /\ DOMAIN hold'.items = {}
      /\ hold'.state = "LOOKUP" /\ hold' \in Hold!Holds
  <2>1. \A q \in quarantined : q.id <= ids
    BY DEF FilesInv, IdsSound
  <2>2. hold' \in Hold!Holds
    BY FileFacts DEF Hold!Holds, Hold!States, Hold!Items
  <2>3. hold' # Hold!NoHold
    BY FileFacts
  <2> QED
    BY <2>1, <2>2, <2>3, FileFacts
<1>1. FileTypes'
  BY <1>0 DEF FilesInv, FileTypes
<1>2. IdsSound'
  BY <1>0 DEF FilesInv, IdsSound
<1>4. ScansSound'
  <2>1. AcceptedSound'
    BY <1>0 DEF FilesInv, ScansSound, AcceptedSound
  <2>2. LastSound'
    BY <1>0 DEF FilesInv, ScansSound, LastSound, Files
  <2>3. ItemsSound'
    BY <1>0 DEF FilesInv, ScansSound, ItemsSound, Files, ItemId, Hold!ScanId
  <2>4. OrderSound'
    BY <1>0 DEF FilesInv, ScansSound, OrderSound, HeadSound, Increasing, FromFirst, ItemId, Hold!ScanId, Unjudged, Logged, Saved, Done
  <2> QED
    BY <2>1, <2>2, <2>3, <2>4 DEF ScansSound
<1>5. HeadSound'
  BY <1>0 DEF FilesInv, HeadSound, ItemId, FromFirst
<1>6. LogSound'
  <2>1. TraysSound'
    BY <1>0 DEF FilesInv, LogSound, TraysSound, TraySound
  <2>2. VerdictsSound'
    BY <1>0 DEF FilesInv, LogSound, VerdictsSound, Saved, Done
  <2>3. KeptSound'
    BY <1>0 DEF FilesInv, LogSound, KeptSound, Files, ItemId, Hold!ScanId, Logged
  <2> QED
    BY <2>1, <2>2, <2>3 DEF LogSound
<1> QED
  BY <1>1, <1>2, <1>4, <1>5, <1>6 DEF FilesInv

(* A hold is set aside in the quarantine directory.                        *)
LEMMA HoldSetAside ==
  ASSUME TrayFilesAssumption, FilesInv, hold # Hold!NoHold, hold.state # "DRAINING",
         hold.state = "LOOKUP" \/ trayFile = Hold!NoTray,
         hold' = Hold!NoHold, quarantined' = quarantined \cup {hold},
         UNCHANGED <<trayFile, completed, log, admitted, ids>>
  PROVE  FilesInv'
<1>0. /\ hold \in Hold!Holds /\ hold.id # 0 /\ hold.label # none
      /\ hold'.items = <<>> /\ hold'.id = 0 /\ hold'.label = none /\ hold'.state = "NONE" /\ DOMAIN hold'.items = {}
      /\ hold' \in Hold!Holds /\ \A q \in quarantined : q.id # 0 /\ q.label # none
      /\ \A a \in admitted : a.id.hold # 0
  BY FileFacts
<1>1. FileTypes'
  BY <1>0 DEF FilesInv, FileTypes
<1>2. IdsSound'
  BY <1>0 DEF FilesInv, IdsSound
<1>4. ScansSound'
  <2>1. AcceptedSound'
    BY <1>0 DEF FilesInv, ScansSound, AcceptedSound
  <2>2. LastSound'
    BY <1>0 DEF FilesInv, ScansSound, LastSound, Files
  <2>3. ItemsSound'
    BY <1>0 DEF FilesInv, ScansSound, ItemsSound, Files, ItemId, Hold!ScanId
  <2>4. OrderSound'
    <3>1. Increasing(hold)'
      BY <1>0 DEF Increasing
    <3>2. ASSUME NEW p \in quarantined' PROVE FromFirst(p)'
      <4>1. FromFirst(p)
        BY <3>2 DEF FilesInv, ScansSound, OrderSound, HeadSound
      <4> QED
        BY <4>1 DEF FromFirst, ItemId, Hold!ScanId, Unjudged, Logged, Saved, Done
    <3> QED
      BY <3>1, <3>2 DEF OrderSound
  <2> QED
    BY <2>1, <2>2, <2>3, <2>4 DEF ScansSound
<1>5. HeadSound'
  BY <1>0 DEF FilesInv, HeadSound, ItemId, FromFirst
<1>6. LogSound'
  <2>1. TraysSound'
    BY <1>0 DEF FilesInv, LogSound, TraysSound, TraySound
  <2>2. VerdictsSound'
    BY <1>0 DEF FilesInv, LogSound, VerdictsSound, Saved, Done
  <2>3. KeptSound'
    BY <1>0 DEF FilesInv, LogSound, KeptSound, Files, ItemId, Hold!ScanId, Logged
  <2> QED
    BY <2>1, <2>2, <2>3 DEF LogSound
<1> QED
  BY <1>1, <1>2, <1>4, <1>5, <1>6 DEF FilesInv

(* A hold comes back from there.                                           *)
LEMMA HoldBack ==
  ASSUME TrayFilesAssumption, FilesInv, hold = Hold!NoHold, trayFile = Hold!NoTray, NEW q \in quarantined,
         hold' = q, quarantined' = quarantined \ {q},
         UNCHANGED <<trayFile, completed, log, admitted, ids>>
  PROVE  FilesInv'
<1>0. /\ hold.items = <<>> /\ DOMAIN hold.items = {} /\ hold.id = 0
      /\ q # Hold!NoHold /\ \A p \in quarantined : p \in Hold!Holds /\ p.id # 0 /\ p.label # none
      /\ DOMAIN q.items = 1..Len(q.items) /\ Len(q.items) \in Nat
      /\ \A a \in admitted : a.id.hold # 0
  BY FileFacts
<1>1. FileTypes'
  BY <1>0 DEF FilesInv, FileTypes
<1>2. IdsSound'
  BY <1>0 DEF FilesInv, IdsSound
<1>4. ScansSound'
  <2>1. AcceptedSound'
    BY <1>0 DEF FilesInv, ScansSound, AcceptedSound
  <2>2. LastSound'
    BY <1>0 DEF FilesInv, ScansSound, LastSound, Files
  <2>3. ItemsSound'
    BY <1>0 DEF FilesInv, ScansSound, ItemsSound, Files, ItemId, Hold!ScanId
  <2>4. OrderSound'
    <3>1. Increasing(hold)'
      BY <1>0 DEF FilesInv, ScansSound, OrderSound, Increasing, FromFirst
    <3>2. ASSUME NEW p \in quarantined' PROVE FromFirst(p)'
      <4>1. FromFirst(p)
        BY <3>2 DEF FilesInv, ScansSound, OrderSound, HeadSound
      <4> QED
        BY <4>1 DEF FromFirst, ItemId, Hold!ScanId, Unjudged, Logged, Saved, Done
    <3> QED
      BY <3>1, <3>2 DEF OrderSound
  <2> QED
    BY <2>1, <2>2, <2>3, <2>4 DEF ScansSound
<1>5. HeadSound'
  <2>1. FromFirst(q)
    BY DEF FilesInv, ScansSound, OrderSound
  <2>2. FromFirst(hold)'
    BY <2>1 DEF FromFirst, ItemId, Hold!ScanId, Unjudged, Logged, Saved, Done
  <2>3. \A k \in DOMAIN hold'.items : Unjudged(ItemId(hold, k))'
    BY <2>2 DEF FromFirst
  <2>4. \A k \in DOMAIN hold'.items : ~(\E j \in DOMAIN log : log[j] = <<"SCAN_FAIL", ItemId(hold, k)'>>)
    BY <2>3 DEF Unjudged, Logged
  <2> QED
    BY <2>2, <2>3, <2>4 DEF HeadSound, Unjudged
<1>6. LogSound'
  <2>1. TraysSound'
    BY <1>0 DEF FilesInv, LogSound, TraysSound, TraySound
  <2>2. VerdictsSound'
    BY <1>0 DEF FilesInv, LogSound, VerdictsSound, Saved, Done
  <2>3. KeptSound'
    BY <1>0 DEF FilesInv, LogSound, KeptSound, Files, ItemId, Hold!ScanId, Logged
  <2> QED
    BY <2>1, <2>2, <2>3 DEF LogSound
<1> QED
  BY <1>1, <1>2, <1>4, <1>5, <1>6 DEF FilesInv

(* A scan that is new to the hold is new everywhere.                       *)
LEMMA NewScan ==
  ASSUME TrayFilesAssumption, FilesInv, hold.state = "LOOKUP"
  PROVE  LET id == [hold |-> hold.id, seq |-> Len(hold.items) + 1] IN
         /\ Hold!NextSeq(hold) = Len(hold.items) + 1
         /\ Unjudged(id) /\ \A a \in admitted : a.id # id
         /\ \A a \in admitted : a.id.hold = hold.id => a.id.seq <= Len(hold.items)
<1> DEFINE n == Len(hold.items)
           id == [hold |-> hold.id, seq |-> n + 1]
<1>1. /\ n \in Nat /\ DOMAIN hold.items = 1..n /\ hold.id \in Nat \ {0}
      /\ \A k \in 1..n : hold.items[k].seq = k
      /\ hold.items \in Seq([seq : 1..HoldCapacity, code : Codes])
  <2>1. hold # Hold!NoHold /\ hold \in Hold!Holds
    BY FileFacts
  <2> QED
    BY <2>1, FileFacts, HoldShape DEF FilesInv, HeadSound, FromFirst
<1>2. hold.items = <<>> <=> n = 0
  BY <1>1
<1>3. Hold!NextSeq(hold) = n + 1
  BY <1>1, <1>2 DEF Hold!NextSeq, Hold!Last
<1>4. \A a \in admitted : a.id.hold = hold.id => a.id.seq <= n
  BY <1>1, <1>2 DEF FilesInv, ScansSound, LastSound, Files
<1>5. \A a \in admitted : a.id.seq \in Nat
  BY DEF FilesInv, FileTypes, Scans, Receipts
<1>6. \A a \in admitted : a.id # id
  BY <1>1, <1>4, <1>5
<1>7. id # Hold!LiveScan
  BY <1>1 DEF Hold!LiveScan
<1>8. ~Logged(id)
  BY <1>6 DEF Logged, FilesInv, LogSound, VerdictsSound
<1>9. ~Saved(id) /\ ~Done(id)
  BY <1>6, <1>7 DEF Saved, Done, FilesInv, LogSound, TraysSound, TraySound
<1> QED
  BY <1>3, <1>4, <1>6, <1>8, <1>9 DEF Unjudged

(* append: the hold takes a scan.                                          *)
LEMMA ScanTaken ==
  ASSUME TrayFilesAssumption, FilesInv, hold.state = "LOOKUP", Len(hold.items) < HoldCapacity,
         NEW c \in Codes, NEW n, n = Len(hold.items),
         hold' = [hold EXCEPT !.items = Append(hold.items, [seq |-> n + 1, code |-> c])],
         admitted' = admitted \cup {[id |-> [hold |-> hold.id, seq |-> n + 1],
                                     code |-> c, meant |-> hold.label, label |-> hold.label]},
         UNCHANGED <<quarantined, trayFile, completed, log, ids>>
  PROVE  FilesInv' /\ hold' # Hold!NoHold
<1> DEFINE id == [hold |-> hold.id, seq |-> n + 1]
           new == [id |-> id, code |-> c, meant |-> hold.label, label |-> hold.label]
           item == [seq |-> n + 1, code |-> c]
<1>1. /\ Unjudged(id) /\ \A a \in admitted : a.id # id
      /\ \A a \in admitted : a.id.hold = hold.id => a.id.seq <= n
  BY NewScan
<1>2. /\ n \in Nat /\ hold.id \in Nat \ {0} /\ hold \in Hold!Holds /\ hold # Hold!NoHold
      /\ hold.items \in Seq([seq : 1..HoldCapacity, code : Codes]) /\ HoldCapacity \in Nat
      /\ hold.label \in Labels /\ item \in [seq : 1..HoldCapacity, code : Codes]
      /\ hold.id <= ids /\ ids \in Nat
  <2>1. HoldCapacity \in Nat
    BY DEF TrayFilesAssumption, Hold!HoldAssumption
  <2>2. hold # Hold!NoHold /\ hold \in Hold!Holds /\ ids \in Nat /\ n \in Nat
    BY FileFacts
  <2>3. hold.id <= ids
    BY <2>2 DEF FilesInv, IdsSound
  <2>4. item \in [seq : 1..HoldCapacity, code : Codes]
    BY <2>1, <2>2
  <2>5. /\ hold.label \in Labels /\ hold.id \in Nat \ {0}
        /\ hold.items \in Seq([seq : 1..HoldCapacity, code : Codes])
    BY <2>2, HoldShape, FileFacts
  <2> QED
    BY <2>1, <2>2, <2>3, <2>4, <2>5
<1>3. /\ hold'.id = hold.id /\ hold'.label = hold.label /\ hold'.state = "LOOKUP"
      /\ hold'.items = Append(hold.items, item)
      /\ hold' \in Hold!Holds /\ hold' # Hold!NoHold
  <2>1. hold \in [label : Labels, id : 1..MaxHolds, state : {"LOOKUP", "LOOKUP_FAILED", "DRAINING"},
                  offline : BOOLEAN, items : Seq([seq : 1..HoldCapacity, code : Codes])]
    BY <1>2 DEF Hold!Holds, Hold!States, Hold!Items
  <2>2. Append(hold.items, item) \in Seq([seq : 1..HoldCapacity, code : Codes])
    BY <1>2
  <2>3. hold' \in [label : Labels, id : 1..MaxHolds, state : {"LOOKUP", "LOOKUP_FAILED", "DRAINING"},
                   offline : BOOLEAN, items : Seq([seq : 1..HoldCapacity, code : Codes])]
        /\ hold'.id = hold.id /\ hold'.label = hold.label /\ hold'.state = "LOOKUP"
        /\ hold'.items = Append(hold.items, item)
    BY <2>1, <2>2
  <2> QED
    BY <1>2, <2>3, FileFacts DEF Hold!Holds, Hold!States, Hold!Items
<1>4. /\ DOMAIN hold'.items = 1..(n + 1) /\ DOMAIN hold.items = 1..n /\ Len(hold'.items) = n + 1
      /\ hold'.items[n + 1] = item /\ hold'.items # <<>>
      /\ \A k \in 1..n : hold'.items[k] = hold.items[k]
  BY <1>2, <1>3, Appended
<1> HIDE DEF item
<1>5. \A a \in admitted' : a \in admitted \/ a = new
  OBVIOUS
<1>6. /\ new.id = id /\ new.code = c /\ new.label = hold.label /\ new.meant = hold.label /\ id.hold = hold.id
      /\ id.seq = n + 1 /\ new \in Scans /\ admitted \subseteq admitted' /\ new \in admitted'
  BY <1>2 DEF Scans, Receipts
<1> HIDE DEF new
<1>7. FileTypes'
  BY <1>3, <1>5, <1>6 DEF FilesInv, FileTypes
<1>8. IdsSound'
  BY <1>2, <1>3 DEF FilesInv, IdsSound
<1>9. item.seq = n + 1 /\ item.code = c
  BY DEF item
<1>10. \A k \in 1..n : hold.items[k].seq = k /\ Unjudged(ItemId(hold, k))
  BY <1>4 DEF FilesInv, HeadSound, FromFirst
<1>11. \A k \in 1..(n + 1) : hold'.items[k].seq = k
  BY <1>2, <1>4, <1>9, <1>10
<1>12. \A k \in 1..n : ItemId(hold, k) = [hold |-> hold.id, seq |-> k]
  BY <1>10 DEF ItemId, Hold!ScanId
<1>13. \A k \in 1..(n + 1) : Unjudged([hold |-> hold.id, seq |-> k])
  <2>1. \A k \in 1..n : Unjudged([hold |-> hold.id, seq |-> k])
    BY <1>10, <1>12
  <2> QED
    BY <1>1, <1>2, <2>1
<1>18. FromFirst(hold)' /\ \A k \in DOMAIN hold'.items : Unjudged(ItemId(hold, k))'
  BY <1>3, <1>4, <1>11, <1>13 DEF FromFirst, Unjudged, Logged, Saved, Done, ItemId, Hold!ScanId
<1>14. ScansSound'
  <2>1. AcceptedSound'
    BY <1>1, <1>2, <1>5, <1>6, FileFacts DEF FilesInv, ScansSound, AcceptedSound
  <2>2. LastSound'
    <3> SUFFICES ASSUME NEW h \in Files', NEW a \in admitted', a.id.hold = h.id
                 PROVE  a.label = h.label /\ h.items # <<>> /\ a.id.seq <= h.items[Len(h.items)].seq
      BY DEF LastSound
    <3>1. CASE h = hold'
      <4>1. a \in admitted => a.label = hold.label
        BY <1>3, <3>1 DEF FilesInv, ScansSound, LastSound, Files
      <4> QED
        BY <1>1, <1>2, <1>3, <1>4, <1>5, <1>6, <1>9, <3>1, <4>1, FileFacts DEF FilesInv, FileTypes, Scans, Receipts
    <3>2. CASE h \in quarantined
      BY <1>5, <1>6, <3>2 DEF FilesInv, ScansSound, LastSound, Files, IdsSound
    <3> QED
      BY <3>1, <3>2 DEF Files
  <2>3. ItemsSound'
    <3>1. \A k \in 1..n : \E a \in admitted : a.id = ItemId(hold, k) /\ a.code = hold.items[k].code
      BY <1>4 DEF FilesInv, ScansSound, ItemsSound, Files
    <3>2. ASSUME NEW k \in 1..n
          PROVE  \E a \in admitted' : a.id = [hold |-> hold'.id, seq |-> hold'.items[k].seq] /\ a.code = hold'.items[k].code
      <4>1. PICK a \in admitted : a.id = ItemId(hold, k) /\ a.code = hold.items[k].code
        BY <3>1
      <4>2. a \in admitted' /\ hold'.items[k] = hold.items[k] /\ hold'.id = hold.id
        BY <1>3, <1>4, <1>6
      <4> QED
        BY <4>1, <4>2 DEF ItemId, Hold!ScanId
    <3>5. \E a \in admitted' : a.id = [hold |-> hold'.id, seq |-> hold'.items[n + 1].seq] /\ a.code = hold'.items[n + 1].code
      BY <1>3, <1>4, <1>6, <1>9
    <3>3. \A k \in DOMAIN hold'.items :
            \E a \in admitted' : a.id = [hold |-> hold'.id, seq |-> hold'.items[k].seq] /\ a.code = hold'.items[k].code
      <4>1. \A k \in DOMAIN hold'.items : k \in 1..n \/ k = n + 1
        BY <1>2, <1>4
      <4> QED
        BY <4>1, <3>2, <3>5
    <3>4. \A q \in quarantined : \A k \in DOMAIN q.items : \E a \in admitted' : a.id = ItemId(q, k) /\ a.code = q.items[k].code
      BY <1>6 DEF FilesInv, ScansSound, ItemsSound, Files
    <3> SUFFICES ASSUME NEW h \in Files', NEW k \in DOMAIN h.items
                 PROVE  \E a \in admitted' : a.id = ItemId(h, k) /\ a.code = h.items[k].code
      BY DEF ItemsSound, ItemId, Hold!ScanId
    <3>6. CASE h = hold'
      BY <3>3, <3>6 DEF ItemId, Hold!ScanId
    <3>7. CASE h \in quarantined
      BY <3>4, <3>7
    <3> QED
      BY <3>6, <3>7 DEF Files
  <2>4. OrderSound'
    <3>1. Increasing(hold)'
      BY <1>4, <1>11 DEF Increasing
    <3>2. ASSUME NEW p \in quarantined' PROVE FromFirst(p)'
      <4>1. FromFirst(p)
        BY <3>2 DEF FilesInv, ScansSound, OrderSound
      <4> QED
        BY <4>1 DEF FromFirst, ItemId, Hold!ScanId, Unjudged, Logged, Saved, Done
    <3> QED
      BY <3>1, <3>2 DEF OrderSound
  <2> QED
    BY <2>1, <2>2, <2>3, <2>4 DEF ScansSound
<1>15. HeadSound'
  <2>2. \A k \in 1..(n + 1) : ~(\E j \in DOMAIN log : log[j] = <<"SCAN_FAIL", [hold |-> hold.id, seq |-> k]>>)
    BY <1>13 DEF Unjudged, Logged
  <2>3. hold' # Hold!NoHold /\ trayFile' # Hold!NoTray =>
          /\ trayFile'.label = hold'.label
          /\ \A k \in DOMAIN trayFile'.scanned :
               /\ trayFile'.scanned[k].receipt.hold = hold'.id
               /\ hold'.items # <<>> /\ trayFile'.scanned[k].receipt.seq <= hold'.items[1].seq
    <3>1. trayFile # Hold!NoTray =>
            /\ trayFile.label = hold.label
            /\ \A k \in DOMAIN trayFile.scanned :
                 /\ trayFile.scanned[k].receipt.hold = hold.id
                 /\ hold.items # <<>> /\ trayFile.scanned[k].receipt.seq <= hold.items[1].seq
      BY <1>2 DEF FilesInv, HeadSound
    <3>2. hold.items # <<>> => hold'.items[1] = hold.items[1]
      BY <1>2, <1>4
    <3> QED
      BY <1>3, <1>4, <3>1, <3>2
  <2> QED
    BY <1>3, <1>4, <1>11, <1>18, <2>2, <2>3 DEF HeadSound, Unjudged, ItemId, Hold!ScanId
<1>16. LogSound'
  <2>1. TraysSound'
    BY <1>6 DEF FilesInv, LogSound, TraysSound, TraySound
  <2>2. VerdictsSound'
    BY <1>6 DEF FilesInv, LogSound, VerdictsSound, Saved, Done
  <2>3. KeptSound'
    <3>1. \A a \in admitted : Logged(a.id) \/ (\E h \in quarantined : \E k \in DOMAIN h.items : ItemId(h, k) = a.id)
                             \/ \E k \in 1..n : ItemId(hold, k) = a.id
      BY <1>4, Zenon DEF FilesInv, LogSound, KeptSound, Files
    <3>2. \A a \in admitted' : Logged(a.id) \/ (\E h \in quarantined : \E k \in DOMAIN h.items : ItemId(h, k) = a.id)
                             \/ \E k \in 1..(n + 1) : [hold |-> hold.id, seq |-> k] = a.id
      <4>1. \A k \in 1..n : k \in 1..(n + 1)
        BY <1>2
      <4>2. n + 1 \in 1..(n + 1)
        BY <1>2
      <4> QED
        BY <1>5, <1>6, <1>12, <3>1, <4>1, <4>2
    <3>4. ASSUME NEW a \in admitted'
          PROVE  \/ Logged(a.id) \/ \E h \in quarantined : \E k \in DOMAIN h.items : ItemId(h, k) = a.id
                 \/ \E k \in DOMAIN hold'.items : [hold |-> hold'.id, seq |-> hold'.items[k].seq] = a.id
      <4>1. ASSUME NEW k \in 1..(n + 1), [hold |-> hold.id, seq |-> k] = a.id
            PROVE  \E j \in DOMAIN hold'.items : [hold |-> hold'.id, seq |-> hold'.items[j].seq] = a.id
        BY <1>3, <1>4, <1>11, <4>1
      <4> QED
        BY <3>2, <4>1
    <3> SUFFICES ASSUME NEW a \in admitted'
                 PROVE  Logged(a.id)' \/ \E h \in Files' : \E k \in DOMAIN h.items : ItemId(h, k) = a.id
      BY DEF KeptSound, ItemId, Hold!ScanId
    <3>5. CASE Logged(a.id)
      BY <3>5 DEF Logged
    <3>6. CASE \E h \in quarantined : \E k \in DOMAIN h.items : ItemId(h, k) = a.id
      BY <3>6 DEF Files
    <3>7. CASE \E k \in DOMAIN hold'.items : [hold |-> hold'.id, seq |-> hold'.items[k].seq] = a.id
      BY <3>7 DEF Files, ItemId, Hold!ScanId
    <3> QED
      BY <3>4, <3>5, <3>6, <3>7
  <2> QED
    BY <2>1, <2>2, <2>3 DEF LogSound
<1> QED
  BY <1>3, <1>7, <1>8, <1>14, <1>15, <1>16 DEF FilesInv

(* What the tray file, a completed tray or the log gains is told of its    *)
(* receipt alone.                                                          *)
LEMMA OtherScans ==
  ASSUME TrayFilesAssumption, FilesInv
  PROVE  /\ \A q \in quarantined : \A k \in DOMAIN q.items : q.id # 0 /\ Unjudged(ItemId(q, k))
         /\ \A q \in quarantined : \A k \in DOMAIN q.items : q.items[k].seq = k
         /\ \A q \in quarantined : \A k \in DOMAIN q.items :
              ItemId(q, k) # Hold!LiveScan /\ \A j \in DOMAIN hold.items : ItemId(q, k) # ItemId(hold, j)
         /\ \A j, k \in DOMAIN hold.items : j < k => ItemId(hold, j) # ItemId(hold, k)
         /\ \A k \in DOMAIN log : log[k][2] # Hold!LiveScan
<1>1. \A q \in quarantined : q.id # 0 /\ q.id # hold.id /\ FromFirst(q)
  BY FileFacts DEF FilesInv, IdsSound, ScansSound, OrderSound
<1>2. \A q \in quarantined : \A k \in DOMAIN q.items :
        ItemId(q, k) # Hold!LiveScan /\ \A j \in DOMAIN hold.items : ItemId(q, k) # ItemId(hold, j)
  BY <1>1 DEF ItemId, Hold!ScanId, Hold!LiveScan
<1>3. \A j, k \in DOMAIN hold.items : j < k => ItemId(hold, j) # ItemId(hold, k)
  <2>1. ASSUME NEW j \in DOMAIN hold.items PROVE hold.items[j].seq \in Nat
    <3>1. HoldCapacity \in Nat
      BY DEF TrayFilesAssumption, Hold!HoldAssumption
    <3>2. hold \in Hold!Holds
      BY FileFacts
    <3>3. hold.items \in Seq([seq : 1..HoldCapacity, code : Codes]) /\ DOMAIN hold.items = 1..Len(hold.items)
      BY <3>2, HoldShape
    <3>4. hold.items[j] \in [seq : 1..HoldCapacity, code : Codes]
      BY <3>3, Element
    <3> QED
      BY <3>1, <3>4
  <2> QED
    BY <2>1 DEF FilesInv, ScansSound, OrderSound, Increasing, ItemId, Hold!ScanId
<1>4. \A k \in DOMAIN log : log[k][2] # Hold!LiveScan
  BY FileFacts DEF FilesInv, LogSound, VerdictsSound, Hold!LiveScan
<1> QED
  BY <1>1, <1>2, <1>3, <1>4 DEF FromFirst

LEMMA TrayShape ==
  ASSUME TrayFilesAssumption, FilesInv
  PROVE  /\ trayFile.scanned \in Seq(Products) /\ DOMAIN trayFile.scanned = 1..Len(trayFile.scanned)
         /\ Len(trayFile.scanned) \in Nat /\ trayFile.label \in Labels \cup {none} /\ TraySize \in Nat
         /\ trayFile = [label |-> trayFile.label, scanned |-> trayFile.scanned]
         /\ trayFile # Hold!NoTray => trayFile.label \in Labels /\ trayFile.label # none
         /\ Hold!NoTray.label = none /\ Hold!NoTray.scanned = <<>> /\ none \notin Labels
<1>1. TraySize \in Nat /\ none \notin Labels
  BY DEF TrayFilesAssumption, Hold!HoldAssumption
<1>2. trayFile.scanned \in Seq(Products) /\ trayFile.label \in Labels \cup {none}
      /\ trayFile = [label |-> trayFile.label, scanned |-> trayFile.scanned]
  BY DEF FilesInv, FileTypes, TrayStates
<1>3. trayFile # Hold!NoTray => trayFile.label # none
  BY DEF FilesInv, FileTypes
<1>4. Hold!NoTray.label = none /\ Hold!NoTray.scanned = <<>>
  BY DEF Hold!NoTray
<1> QED
  BY <1>1, <1>2, <1>3, <1>4

(* A tray gains a product.                                                 *)
LEMMA TrayGains ==
  ASSUME TrayFilesAssumption, FilesInv, trayFile # Hold!NoTray, NEW x \in Products,
         NEW n, n = Len(trayFile.scanned),
         trayFile' = [trayFile EXCEPT !.scanned = Append(@, x)]
  PROVE  /\ trayFile'.label = trayFile.label /\ trayFile'.scanned \in Seq(Products)
         /\ trayFile' \in TrayStates /\ trayFile'.label # none /\ Len(trayFile'.scanned) = n + 1
         /\ DOMAIN trayFile'.scanned = 1..(n + 1) /\ DOMAIN trayFile.scanned = 1..n
         /\ trayFile'.scanned[n + 1] = x
         /\ \A k \in 1..n : trayFile'.scanned[k] = trayFile.scanned[k]
<1>1. trayFile' = [label |-> trayFile.label, scanned |-> Append(trayFile.scanned, x)]
  BY TrayShape
<1>2. trayFile'.label = trayFile.label /\ trayFile'.scanned = Append(trayFile.scanned, x)
  BY <1>1
<1>3. trayFile.scanned \in Seq(Products) /\ trayFile.label \in Labels /\ trayFile.label # none
  BY TrayShape
<1>4. /\ Append(trayFile.scanned, x) \in Seq(Products) /\ Len(Append(trayFile.scanned, x)) = n + 1
      /\ DOMAIN Append(trayFile.scanned, x) = 1..(n + 1) /\ DOMAIN trayFile.scanned = 1..n
      /\ Append(trayFile.scanned, x)[n + 1] = x
      /\ \A k \in 1..n : Append(trayFile.scanned, x)[k] = trayFile.scanned[k]
  BY <1>3, Appended
<1>5. trayFile' \in TrayStates
  BY <1>1, <1>3, <1>4 DEF TrayStates
<1> QED
  BY <1>2, <1>3, <1>4, <1>5

(* A tray is opened, without a scan yet.                                   *)
LEMMA TrayOpened ==
  ASSUME TrayFilesAssumption, FilesInv, trayFile = Hold!NoTray, NEW l \in Labels \ DOMAIN completed,
         hold # Hold!NoHold => hold.label = l, trayFile' = [label |-> l, scanned |-> <<>>],
         UNCHANGED <<hold, quarantined, completed, log, admitted, ids>>
  PROVE  FilesInv' /\ trayFile' # Hold!NoTray
<1>1. /\ trayFile'.label = l /\ trayFile'.scanned = <<>> /\ DOMAIN trayFile'.scanned = {}
      /\ trayFile.scanned = <<>> /\ DOMAIN trayFile.scanned = {} /\ trayFile' # Hold!NoTray /\ l # none
  BY TrayShape
<1>2. FileTypes'
  <2>1. trayFile' \in TrayStates /\ Len(trayFile'.scanned) <= TraySize
    BY <1>1, TrayShape DEF TrayStates
  <2> QED
    BY <1>1, <2>1 DEF FilesInv, FileTypes
<1>3. IdsSound'
  BY DEF FilesInv, IdsSound
<1>4. ScansSound'
  <2>1. AcceptedSound'
    BY DEF FilesInv, ScansSound, AcceptedSound
  <2>2. LastSound'
    BY DEF FilesInv, ScansSound, LastSound, Files
  <2>3. ItemsSound'
    BY DEF FilesInv, ScansSound, ItemsSound, Files, ItemId, Hold!ScanId
  <2>4. OrderSound'
    BY <1>1 DEF FilesInv, ScansSound, OrderSound, Increasing, FromFirst, ItemId, Hold!ScanId, Unjudged, Logged, Saved, Done
  <2> QED
    BY <2>1, <2>2, <2>3, <2>4 DEF ScansSound
<1>5. HeadSound'
  BY <1>1 DEF FilesInv, HeadSound, ItemId, Hold!ScanId, FromFirst, Unjudged, Logged, Saved, Done
<1>6. LogSound'
  <2>1. TraysSound'
    BY <1>1 DEF FilesInv, LogSound, TraysSound, TraySound
  <2>2. VerdictsSound'
    BY <1>1 DEF FilesInv, LogSound, VerdictsSound, Saved, Done
  <2>3. KeptSound'
    BY DEF FilesInv, LogSound, KeptSound, Files, ItemId, Hold!ScanId, Logged
  <2> QED
    BY <2>1, <2>2, <2>3 DEF LogSound
<1> QED
  BY <1>1, <1>2, <1>3, <1>4, <1>5, <1>6 DEF FilesInv

(* A product without a receipt is saved in the open tray.                  *)
LEMMA LiveSaved ==
  ASSUME TrayFilesAssumption, FilesInv, hold = Hold!NoHold, trayFile # Hold!NoTray, NEW c \in Codes,
         Len(trayFile.scanned) < TraySize,
         trayFile' = [trayFile EXCEPT !.scanned = Append(@, [code |-> c, receipt |-> Hold!LiveScan])],
         UNCHANGED <<hold, quarantined, completed, log, admitted, ids>>
  PROVE  FilesInv'
<1>1. PICK n \in Nat : n = Len(trayFile.scanned)
  BY TrayShape
<1>2. [code |-> c, receipt |-> Hold!LiveScan] \in Products
  BY DEF Products, Receipts, Hold!LiveScan
<1>3. /\ trayFile'.label = trayFile.label /\ trayFile'.scanned \in Seq(Products)
      /\ trayFile' \in TrayStates /\ trayFile'.label # none /\ Len(trayFile'.scanned) = n + 1
      /\ DOMAIN trayFile'.scanned = 1..(n + 1) /\ DOMAIN trayFile.scanned = 1..n
      /\ trayFile'.scanned[n + 1] = [code |-> c, receipt |-> Hold!LiveScan]
      /\ \A k \in 1..n : trayFile'.scanned[k] = trayFile.scanned[k]
  <2>1. PICK x \in Products : x = [code |-> c, receipt |-> Hold!LiveScan]
    BY <1>2
  <2>2. trayFile' = [trayFile EXCEPT !.scanned = Append(@, x)]
    BY <2>1
  <2> QED
    BY <1>1, <2>1, <2>2, TrayGains
<1>4. trayFile'.scanned[n + 1].receipt = Hold!LiveScan
  BY <1>3
<1>5. \A id : id # Hold!LiveScan => (Saved(id)' <=> Saved(id))
  BY <1>3, <1>4 DEF Saved
<1>6. hold.items = <<>> /\ DOMAIN hold.items = {}
  BY FileFacts
<1>7. FileTypes'
  BY <1>1, <1>3, TrayShape DEF FilesInv, FileTypes
<1>8. IdsSound'
  BY DEF FilesInv, IdsSound
<1>9. ScansSound'
  <2>1. AcceptedSound' /\ LastSound' /\ ItemsSound'
    BY DEF FilesInv, ScansSound, AcceptedSound, LastSound, ItemsSound, Files, ItemId, Hold!ScanId
  <2>2. OrderSound'
    <3>1. \A q \in quarantined : \A k \in DOMAIN q.items : ~Saved(ItemId(q, k))'
      BY <1>5, OtherScans DEF Unjudged, ItemId, Hold!ScanId
    <3> QED
      BY <3>1, OtherScans DEF FilesInv, ScansSound, OrderSound, Increasing, FromFirst, Unjudged, Logged, Done, ItemId, Hold!ScanId
  <2> QED
    BY <2>1, <2>2 DEF ScansSound
<1>10. HeadSound'
  BY <1>6 DEF HeadSound, FromFirst
<1>11. LogSound'
  <2>1. TraySound(trayFile.label, trayFile.scanned)'
    <3>1. TraySound(trayFile.label, trayFile.scanned)
      BY DEF FilesInv, LogSound, TraysSound
    <3> QED
      BY <1>3, <1>4, <3>1 DEF TraySound
  <2>5. \A l \in DOMAIN completed : TraySound(l, completed[l])'
    BY DEF FilesInv, LogSound, TraysSound, TraySound
  <2>2. TraysSound'
    <3>1. trayFile'.label \notin DOMAIN completed'
      BY <1>3 DEF FilesInv, LogSound, TraysSound
    <3> QED
      BY <2>1, <2>5, <3>1 DEF TraysSound
  <2>3. VerdictsSound'
    <3>1. \A k \in DOMAIN log : Saved(log[k][2])' <=> Saved(log[k][2])
      BY <1>5, OtherScans DEF Saved
    <3> QED
      BY <3>1 DEF FilesInv, LogSound, VerdictsSound, Done
  <2>4. KeptSound'
    BY DEF FilesInv, LogSound, KeptSound, Files, ItemId, Hold!ScanId, Logged
  <2> QED
    BY <2>2, <2>3, <2>4 DEF LogSound
<1> QED
  BY <1>7, <1>8, <1>9, <1>10, <1>11 DEF FilesInv

(* The head of the hold.                                                   *)
LEMMA HeadShape ==
  ASSUME TrayFilesAssumption, FilesInv, hold.items # <<>>
  PROVE  /\ hold \in Hold!Holds /\ hold # Hold!NoHold /\ hold.id \in Nat \ {0}
         /\ hold.items \in Seq([seq : 1..HoldCapacity, code : Codes]) /\ HoldCapacity \in Nat
         /\ Len(hold.items) \in Nat \ {0} /\ DOMAIN hold.items = 1..Len(hold.items)
         /\ 1 \in DOMAIN hold.items /\ hold.items[1] = Head(hold.items)
         /\ hold.items[1].code \in Codes /\ hold.items[1].seq \in Nat
         /\ ItemId(hold, 1) = [hold |-> hold.id, seq |-> hold.items[1].seq]
         /\ ItemId(hold, 1) \in Receipts /\ ItemId(hold, 1) # Hold!LiveScan
         /\ ~Done(ItemId(hold, 1))
         /\ \E a \in admitted : a.id = ItemId(hold, 1) /\ a.code = hold.items[1].code /\ a.label = hold.label
<1>1. HoldCapacity \in Nat
  BY DEF TrayFilesAssumption, Hold!HoldAssumption
<1>2. hold \in Hold!Holds /\ hold # Hold!NoHold
  BY FileFacts
<1>3. hold.id \in Nat \ {0} /\ hold.items \in Seq([seq : 1..HoldCapacity, code : Codes])
  BY <1>2, HoldShape
<1>4. Len(hold.items) \in Nat \ {0} /\ DOMAIN hold.items = 1..Len(hold.items) /\ hold.items[1] = Head(hold.items)
  BY <1>3
<1>5. 1 \in DOMAIN hold.items
  BY <1>4
<1>6. hold.items[1] \in [seq : 1..HoldCapacity, code : Codes]
  BY <1>3, <1>5, Element
<1>7. hold.items[1].code \in Codes /\ hold.items[1].seq \in Nat
  BY <1>1, <1>6
<1>8. ItemId(hold, 1) = [hold |-> hold.id, seq |-> hold.items[1].seq]
  BY DEF ItemId, Hold!ScanId
<1>9. ItemId(hold, 1) \in Receipts /\ ItemId(hold, 1) # Hold!LiveScan
  BY <1>3, <1>7, <1>8 DEF Receipts, Hold!LiveScan
<1>10. ~Done(ItemId(hold, 1))
  BY <1>5 DEF FilesInv, HeadSound
<1>11. PICK a \in admitted : a.id = ItemId(hold, 1) /\ a.code = hold.items[1].code
  BY <1>5 DEF FilesInv, ScansSound, ItemsSound, Files
<1>12. a.id.hold = hold.id
  BY <1>8, <1>11
<1>13. a.label = hold.label
  BY <1>12 DEF FilesInv, ScansSound, LastSound, Files
<1> QED
  BY <1>1, <1>2, <1>3, <1>4, <1>5, <1>7, <1>8, <1>9, <1>10, <1>11, <1>13

(* The drain saves the head in the open tray.                              *)
LEMMA HeadSaved ==
  ASSUME TrayFilesAssumption, FilesInv, hold.items # <<>>, hold.state # "LOOKUP", trayFile # Hold!NoTray,
         Unjudged(ItemId(hold, 1)), Len(trayFile.scanned) < TraySize,
         NEW id, id = ItemId(hold, 1), NEW c, c = hold.items[1].code,
         trayFile' = [trayFile EXCEPT !.scanned = Append(@, [code |-> c, receipt |-> id])],
         UNCHANGED <<hold, quarantined, completed, log, admitted, ids>>
  PROVE  FilesInv' /\ Saved(id)' /\ trayFile' # Hold!NoTray
<1>1. PICK n \in Nat : n = Len(trayFile.scanned)
  BY TrayShape
<1>2. /\ [code |-> c, receipt |-> id] \in Products /\ id \in Receipts /\ id # Hold!LiveScan
      /\ id = [hold |-> hold.id, seq |-> hold.items[1].seq] /\ hold.id \in Nat \ {0} /\ hold.items[1].seq \in Nat
  BY HeadShape DEF Products
<1>3. /\ trayFile'.label = trayFile.label /\ trayFile' \in TrayStates /\ trayFile'.label # none
      /\ Len(trayFile'.scanned) = n + 1
      /\ DOMAIN trayFile'.scanned = 1..(n + 1) /\ DOMAIN trayFile.scanned = 1..n
      /\ trayFile'.scanned[n + 1].receipt = id /\ trayFile'.scanned[n + 1].code = c
      /\ \A k \in 1..n : trayFile'.scanned[k] = trayFile.scanned[k]
  <2>1. PICK x \in Products : x = [code |-> c, receipt |-> id]
    BY <1>2
  <2>2. x.receipt = id /\ x.code = c /\ trayFile' = [trayFile EXCEPT !.scanned = Append(@, x)]
    BY <2>1
  <2> QED
    BY <1>1, <2>2, TrayGains
<1>4. \A i : Saved(i)' <=> Saved(i) \/ i = id
  <2>1. \A k \in 1..(n + 1) : k \in 1..n \/ k = n + 1
    OBVIOUS
  <2>2. n + 1 \in 1..(n + 1) /\ \A k \in 1..n : k \in 1..(n + 1)
    OBVIOUS
  <2> QED
    BY <1>3, <2>1, <2>2 DEF Saved
<1>5. trayFile' # Hold!NoTray
  BY <1>3, TrayShape
<1>6. trayFile.label = hold.label
  BY HeadShape DEF FilesInv, HeadSound
<1>7. FileTypes'
  BY <1>1, <1>3, TrayShape DEF FilesInv, FileTypes
<1>8. IdsSound'
  BY DEF FilesInv, IdsSound
<1>9. ScansSound'
  <2>1. AcceptedSound'
    BY DEF FilesInv, ScansSound, AcceptedSound
  <2>2. LastSound'
    BY DEF FilesInv, ScansSound, LastSound, Files
  <2>3. ItemsSound'
    BY DEF FilesInv, ScansSound, ItemsSound, Files, ItemId, Hold!ScanId
  <2>4. OrderSound'
    <3>1. Increasing(hold)'
      BY DEF FilesInv, ScansSound, OrderSound, Increasing
    <3>2. ASSUME NEW q \in quarantined PROVE FromFirst(q)'
      <4>1. FromFirst(q)
        BY DEF FilesInv, ScansSound, OrderSound
      <4>2. \A k \in DOMAIN q.items : ItemId(q, k) # id
        BY HeadShape, OtherScans
      <4>3. \A k \in DOMAIN q.items : Unjudged(ItemId(q, k))'
        <5>1. ASSUME NEW k \in DOMAIN q.items PROVE ~Saved(ItemId(q, k))'
          BY <1>4, <4>1, <4>2 DEF FromFirst, Unjudged, ItemId, Hold!ScanId
        <5> QED
          BY <4>1, <5>1 DEF FromFirst, Unjudged, Logged, Done, ItemId, Hold!ScanId
      <4> QED
        BY <4>1, <4>3 DEF FromFirst, ItemId, Hold!ScanId
    <3> QED
      BY <3>1, <3>2 DEF OrderSound
  <2> QED
    BY <2>1, <2>2, <2>3, <2>4 DEF ScansSound
<1>10. HeadSound'
  <2>1. ASSUME NEW k \in DOMAIN hold.items, NEW i, i = ItemId(hold, k)
        PROVE  /\ ~Done(i) /\ (k > 1 => Unjudged(i)')
               /\ (\E j \in DOMAIN log : log[j] = <<"SCAN_FAIL", i>>) =>
                     \/ hold.items[k].code \in BadCodes
                     \/ \E j \in DOMAIN trayFile'.scanned : trayFile'.scanned[j].code = hold.items[k].code
    <3>1. ~Done(i) /\ (k > 1 => Unjudged(i))
      BY <2>1 DEF FilesInv, HeadSound
    <3>2. k > 1 => i # id
      BY <2>1, HeadShape, OtherScans
    <3>3. k > 1 => ~Saved(i)'
      BY <1>4, <3>1, <3>2 DEF Unjudged
    <3>4. (\E j \in DOMAIN log : log[j] = <<"SCAN_FAIL", i>>) =>
                     \/ hold.items[k].code \in BadCodes
                     \/ \E j \in DOMAIN trayFile.scanned : trayFile.scanned[j].code = hold.items[k].code
                     \/ Len(trayFile.scanned) >= TraySize
      BY <2>1 DEF FilesInv, HeadSound
    <3>5. ~(Len(trayFile.scanned) >= TraySize)
      BY TrayShape
    <3>6. (\E j \in DOMAIN trayFile.scanned : trayFile.scanned[j].code = hold.items[k].code) =>
            \E j \in DOMAIN trayFile'.scanned : trayFile'.scanned[j].code = hold.items[k].code
      BY <1>3
    <3>7. k > 1 => Unjudged(i)'
      BY <3>1, <3>3 DEF Unjudged, Logged, Done
    <3> QED
      BY <3>1, <3>4, <3>5, <3>6, <3>7
  <2>2. \A k \in DOMAIN trayFile'.scanned :
           trayFile'.scanned[k].receipt.hold = hold.id /\ trayFile'.scanned[k].receipt.seq <= hold.items[1].seq
    <3>1. \A k \in 1..n : trayFile.scanned[k].receipt.hold = hold.id /\ trayFile.scanned[k].receipt.seq <= hold.items[1].seq
      BY <1>3, HeadShape DEF FilesInv, HeadSound
    <3>2. trayFile'.scanned[n + 1].receipt.hold = hold.id /\ trayFile'.scanned[n + 1].receipt.seq <= hold.items[1].seq
      BY <1>2, <1>3
    <3>3. \A k \in 1..(n + 1) : k \in 1..n \/ k = n + 1
      OBVIOUS
    <3> QED
      BY <1>3, <3>1, <3>2, <3>3
  <2>3. \A k \in DOMAIN hold.items :
          /\ ~Done(ItemId(hold, k))'
          /\ k > 1 => Unjudged(ItemId(hold, k))'
          /\ (\E j \in DOMAIN log : log[j] = <<"SCAN_FAIL", ItemId(hold, k)>>) =>
                     \/ hold.items[k].code \in BadCodes
                     \/ \E j \in DOMAIN trayFile'.scanned : trayFile'.scanned[j].code = hold.items[k].code
    <3> TAKE k \in DOMAIN hold.items
    <3>1. PICK i : i = ItemId(hold, k)
      OBVIOUS
    <3>2. i = ItemId(hold, k)'
      BY <3>1 DEF ItemId, Hold!ScanId
    <3>3. Done(i)' <=> Done(i)
      BY DEF Done
    <3> QED
      BY <2>1, <3>1, <3>2, <3>3 DEF Unjudged, Logged, Saved, Done
  <2>4. /\ ~(hold'.state = "LOOKUP" \/ trayFile' = Hold!NoTray)
        /\ trayFile'.label = hold'.label /\ hold'.items # <<>>
    BY <1>3, <1>5, <1>6
  <2>5. (hold.state = "LOOKUP" \/ trayFile = Hold!NoTray => FromFirst(hold))'
    BY <2>4
  <2>6. (\A k \in DOMAIN hold.items :
          /\ ~Done(ItemId(hold, k))
          /\ k > 1 => Unjudged(ItemId(hold, k))
          /\ (\E j \in DOMAIN log : log[j] = <<"SCAN_FAIL", ItemId(hold, k)>>) =>
                     \/ hold.items[k].code \in BadCodes
                     \/ \E j \in DOMAIN trayFile.scanned : trayFile.scanned[j].code = hold.items[k].code
                     \/ Len(trayFile.scanned) >= TraySize)'
    BY <2>3 DEF ItemId, Hold!ScanId
  <2>7. (hold # Hold!NoHold /\ trayFile # Hold!NoTray =>
          /\ trayFile.label = hold.label
          /\ \A k \in DOMAIN trayFile.scanned :
               /\ trayFile.scanned[k].receipt.hold = hold.id
               /\ hold.items # <<>> /\ trayFile.scanned[k].receipt.seq <= hold.items[1].seq)'
    BY <2>2, <2>4
  <2> QED
    BY <2>5, <2>6, <2>7 DEF HeadSound
<1>11. LogSound'
  <2>1. TraySound(trayFile.label, trayFile.scanned)'
    <3>1. TraySound(trayFile.label, trayFile.scanned)
      BY DEF FilesInv, LogSound, TraysSound
    <3>2. \A k \in 1..(n + 1) : trayFile'.scanned[k].receipt # Hold!LiveScan =>
            \E a \in admitted : /\ a.id = trayFile'.scanned[k].receipt /\ a.code = trayFile'.scanned[k].code
                                /\ a.label = trayFile.label
      <4>1. \E a \in admitted : a.id = id /\ a.code = c /\ a.label = trayFile.label
        BY <1>6, HeadShape
      <4>2. \A k \in 1..n : trayFile.scanned[k].receipt # Hold!LiveScan =>
              \E a \in admitted : /\ a.id = trayFile.scanned[k].receipt /\ a.code = trayFile.scanned[k].code
                                  /\ a.label = trayFile.label
        BY <1>3, <3>1 DEF TraySound
      <4>3. \A k \in 1..(n + 1) : k \in 1..n \/ k = n + 1
        OBVIOUS
      <4> QED
        BY <1>3, <4>1, <4>2, <4>3
    <3>3. ASSUME NEW j \in 1..n
          PROVE  /\ trayFile.scanned[j].receipt # Hold!LiveScan
                 /\ trayFile.scanned[j].receipt.hold = id.hold => trayFile.scanned[j].receipt.seq < id.seq
      <4>1. trayFile.scanned[j].receipt.hold = hold.id /\ trayFile.scanned[j].receipt.seq <= hold.items[1].seq
        BY <1>3, HeadShape DEF FilesInv, HeadSound
      <4>2. trayFile.scanned[j].receipt # id
        BY <1>3 DEF Unjudged, Saved
      <4>3. trayFile.scanned[j].receipt \in Receipts
        <5>1. trayFile.scanned[j] \in Products
          BY <1>3, TrayShape
        <5> QED
          BY <5>1 DEF Products
      <4> QED
        BY <1>2, <4>1, <4>2, <4>3 DEF Receipts, Hold!LiveScan
    <3>4. \A j, k \in 1..n : j < k /\ trayFile.scanned[k].receipt # Hold!LiveScan =>
            /\ trayFile.scanned[j].receipt # Hold!LiveScan
            /\ trayFile.scanned[j].receipt.hold = trayFile.scanned[k].receipt.hold =>
                 trayFile.scanned[j].receipt.seq < trayFile.scanned[k].receipt.seq
      BY <1>3, <3>1 DEF TraySound
    <3>5. \A j, k \in 1..(n + 1) : j < k /\ trayFile'.scanned[k].receipt # Hold!LiveScan =>
            /\ trayFile'.scanned[j].receipt # Hold!LiveScan
            /\ trayFile'.scanned[j].receipt.hold = trayFile'.scanned[k].receipt.hold =>
                 trayFile'.scanned[j].receipt.seq < trayFile'.scanned[k].receipt.seq
      <4>1. \A j, k \in 1..(n + 1) : j < k => j \in 1..n /\ (k \in 1..n \/ k = n + 1)
        OBVIOUS
      <4> QED
        BY <1>3, <3>3, <3>4, <4>1
    <3> QED
      BY <1>3, <3>2, <3>5 DEF TraySound
  <2>2. \A l \in DOMAIN completed : TraySound(l, completed[l])'
    BY DEF FilesInv, LogSound, TraysSound, TraySound
  <2>3. TraysSound'
    <3>1. trayFile'.label \notin DOMAIN completed'
      BY <1>3 DEF FilesInv, LogSound, TraysSound
    <3> QED
      BY <2>1, <2>2, <3>1 DEF TraysSound
  <2>4. VerdictsSound'
    <3>1. \A k \in DOMAIN log : log[k][2] # id
      BY DEF Unjudged, Logged
    <3>2. \A k \in DOMAIN log : Saved(log[k][2])' <=> Saved(log[k][2])
      BY <1>4, <3>1 DEF Saved
    <3> QED
      BY <3>2 DEF FilesInv, LogSound, VerdictsSound, Done
  <2>5. KeptSound'
    BY DEF FilesInv, LogSound, KeptSound, Files, ItemId, Hold!ScanId, Logged
  <2> QED
    BY <2>3, <2>4, <2>5 DEF LogSound
<1>12. Saved(id)'
  BY <1>4
<1> QED
  BY <1>5, <1>7, <1>8, <1>9, <1>10, <1>11, <1>12 DEF FilesInv

(* The verdict on the head is logged.                                      *)
LEMMA HeadLogged ==
  ASSUME TrayFilesAssumption, FilesInv, hold.items # <<>>, hold.state # "LOOKUP", trayFile # Hold!NoTray,
         NEW id, id = ItemId(hold, 1), NEW v \in {"SCAN_OK", "SCAN_FAIL"}, v = "SCAN_OK" <=> Saved(id),
         v = "SCAN_FAIL" => \/ hold.items[1].code \in BadCodes
                            \/ \E j \in DOMAIN trayFile.scanned : trayFile.scanned[j].code = hold.items[1].code
                            \/ Len(trayFile.scanned) >= TraySize,
         \A k \in DOMAIN log : log[k] # <<v, id>>,
         log' = Append(log, <<v, id>>),
         UNCHANGED <<hold, quarantined, trayFile, completed, admitted, ids>>
  PROVE  FilesInv'
<1>1. PICK n \in Nat : n = Len(log) /\ DOMAIN log = 1..n
  BY DEF FilesInv, FileTypes
<1>2. /\ id \in Receipts /\ id # Hold!LiveScan /\ ~Done(id) /\ \E a \in admitted : a.id = id
      /\ \A q \in quarantined : \A k \in DOMAIN q.items : ItemId(q, k) # id
      /\ \A k \in DOMAIN hold.items : k > 1 => ItemId(hold, k) # id
  BY HeadShape, OtherScans
<1>3. /\ log' \in Seq({"SCAN_OK", "SCAN_FAIL"} \X Receipts) /\ DOMAIN log' = 1..(n + 1)
      /\ log'[n + 1] = <<v, id>> /\ \A k \in 1..n : log'[k] = log[k]
  <2>1. log \in Seq({"SCAN_OK", "SCAN_FAIL"} \X Receipts) /\ <<v, id>> \in {"SCAN_OK", "SCAN_FAIL"} \X Receipts
    BY <1>2 DEF FilesInv, FileTypes
  <2> QED
    BY <1>1, <2>1, Appended
<1>4. log'[n + 1][1] = v /\ log'[n + 1][2] = id
  BY <1>3
<1>5. \A k \in 1..(n + 1) : k \in 1..n \/ k = n + 1
  OBVIOUS
<1>6. n + 1 \in 1..(n + 1) /\ \A k \in 1..n : k \in 1..(n + 1)
  OBVIOUS
<1>7. \A k \in DOMAIN log : log[k][2] # id
  <2> SUFFICES ASSUME NEW k \in DOMAIN log, log[k][2] = id PROVE FALSE
    OBVIOUS
  <2>1. log[k][1] = "SCAN_OK" <=> Saved(id)
    BY <1>2 DEF FilesInv, LogSound, VerdictsSound
  <2>2. log[k] \in {"SCAN_OK", "SCAN_FAIL"} \X Receipts
    BY <1>1 DEF FilesInv, FileTypes
  <2>3. log[k] = <<log[k][1], log[k][2]>> /\ log[k][1] \in {"SCAN_OK", "SCAN_FAIL"}
    BY <2>2
  <2>4. log[k][1] = v
    BY <2>1, <2>3
  <2> QED
    BY <2>3, <2>4
<1>8. \A i : Logged(i)' <=> Logged(i) \/ i = id
  BY <1>1, <1>3, <1>4, <1>5, <1>6 DEF Logged
<1>9. \A i : i # id => (Unjudged(i)' <=> Unjudged(i))
  BY <1>8 DEF Unjudged, Saved, Done
<1>10. FileTypes'
  BY <1>3 DEF FilesInv, FileTypes
<1>11. IdsSound'
  BY DEF FilesInv, IdsSound
<1>12. ScansSound'
  <2>1. AcceptedSound'
    BY DEF FilesInv, ScansSound, AcceptedSound
  <2>2. LastSound'
    BY DEF FilesInv, ScansSound, LastSound, Files
  <2>3. ItemsSound'
    BY DEF FilesInv, ScansSound, ItemsSound, Files, ItemId, Hold!ScanId
  <2>4. OrderSound'
    <3>1. Increasing(hold)'
      BY DEF FilesInv, ScansSound, OrderSound, Increasing
    <3>2. ASSUME NEW q \in quarantined PROVE FromFirst(q)'
      <4>1. FromFirst(q)
        BY DEF FilesInv, ScansSound, OrderSound
      <4>2. ASSUME NEW k \in DOMAIN q.items PROVE Unjudged(ItemId(q, k))'
        <5>1. Unjudged(ItemId(q, k)) /\ ItemId(q, k) # id
          BY <1>2, <4>1 DEF FromFirst
        <5> QED
          BY <1>9, <5>1 DEF ItemId, Hold!ScanId
      <4> QED
        BY <4>1, <4>2 DEF FromFirst, ItemId, Hold!ScanId
    <3> QED
      BY <3>1, <3>2 DEF OrderSound
  <2> QED
    BY <2>1, <2>2, <2>3, <2>4 DEF ScansSound
<1>13. HeadSound'
  <2>1. ASSUME NEW k \in DOMAIN hold.items, NEW i, i = ItemId(hold, k)
        PROVE  /\ ~Done(i)' /\ (k > 1 => Unjudged(i)')
               /\ (\E j \in DOMAIN log' : log'[j] = <<"SCAN_FAIL", i>>) =>
                     \/ hold.items[k].code \in BadCodes
                     \/ \E j \in DOMAIN trayFile.scanned : trayFile.scanned[j].code = hold.items[k].code
                     \/ Len(trayFile.scanned) >= TraySize
    <3>1. ~Done(i) /\ (k > 1 => Unjudged(i))
      BY <2>1 DEF FilesInv, HeadSound
    <3>2. k > 1 => i # id
      BY <2>1, <1>2
    <3>3. k > 1 => Unjudged(i)'
      BY <1>9, <3>1, <3>2
    <3>4. (\E j \in DOMAIN log : log[j] = <<"SCAN_FAIL", i>>) =>
                     \/ hold.items[k].code \in BadCodes
                     \/ \E j \in DOMAIN trayFile.scanned : trayFile.scanned[j].code = hold.items[k].code
                     \/ Len(trayFile.scanned) >= TraySize
      BY <2>1 DEF FilesInv, HeadSound
    <3>5. (\E j \in DOMAIN log' : log'[j] = <<"SCAN_FAIL", i>>) =>
             \/ \E j \in DOMAIN log : log[j] = <<"SCAN_FAIL", i>>
             \/ v = "SCAN_FAIL" /\ i = id
      BY <1>1, <1>3, <1>5
    <3>6. i = id => k = 1
      BY <3>2, HeadShape
    <3>7. ~Done(i)'
      BY <3>1 DEF Done
    <3> QED
      BY <3>3, <3>4, <3>5, <3>6, <3>7
  <2>2. \A k \in DOMAIN hold.items :
          /\ ~Done(ItemId(hold, k))'
          /\ k > 1 => Unjudged(ItemId(hold, k))'
          /\ (\E j \in DOMAIN log' : log'[j] = <<"SCAN_FAIL", ItemId(hold, k)>>) =>
                     \/ hold.items[k].code \in BadCodes
                     \/ \E j \in DOMAIN trayFile.scanned : trayFile.scanned[j].code = hold.items[k].code
                     \/ Len(trayFile.scanned) >= TraySize
    <3> TAKE k \in DOMAIN hold.items
    <3>1. PICK i : i = ItemId(hold, k)
      OBVIOUS
    <3>2. i = ItemId(hold, k)'
      BY <3>1 DEF ItemId, Hold!ScanId
    <3> QED
      BY <2>1, <3>1, <3>2 DEF Unjudged, Logged, Saved, Done
  <2>3. hold # Hold!NoHold /\ trayFile # Hold!NoTray =>
          /\ trayFile.label = hold.label
          /\ \A k \in DOMAIN trayFile.scanned :
               /\ trayFile.scanned[k].receipt.hold = hold.id
               /\ hold.items # <<>> /\ trayFile.scanned[k].receipt.seq <= hold.items[1].seq
    BY DEF FilesInv, HeadSound
  <2> QED
    BY <2>2, <2>3 DEF HeadSound, ItemId, Hold!ScanId
<1>14. LogSound'
  <2>1. TraysSound'
    BY DEF FilesInv, LogSound, TraysSound, TraySound
  <2>2. VerdictsSound'
    <3>1. \A k \in 1..(n + 1) : \E a \in admitted : a.id = log'[k][2]
      <4>1. \A k \in 1..n : \E a \in admitted : a.id = log[k][2]
        BY <1>1 DEF FilesInv, LogSound, VerdictsSound
      <4> QED
        BY <1>2, <1>3, <1>4, <1>5, <4>1
    <3>2. \A j, k \in 1..(n + 1) : log'[j][2] = log'[k][2] => j = k
      <4>1. \A j, k \in 1..n : log[j][2] = log[k][2] => j = k
        BY <1>1 DEF FilesInv, LogSound, VerdictsSound
      <4> QED
        BY <1>1, <1>3, <1>4, <1>5, <1>7, <4>1
    <3>3. \A k \in 1..(n + 1) : log'[k][1] = "SCAN_OK" <=> Saved(log'[k][2]) \/ Done(log'[k][2])
      <4>1. \A k \in 1..n : log[k][1] = "SCAN_OK" <=> Saved(log[k][2]) \/ Done(log[k][2])
        BY <1>1 DEF FilesInv, LogSound, VerdictsSound
      <4> QED
        BY <1>2, <1>3, <1>4, <1>5, <4>1
    <3> QED
      BY <1>3, <3>1, <3>2, <3>3 DEF VerdictsSound, Saved, Done
  <2>3. KeptSound'
    <3> SUFFICES ASSUME NEW a \in admitted'
                 PROVE  Logged(a.id)' \/ \E h \in Files' : \E k \in DOMAIN h.items : ItemId(h, k) = a.id
      BY DEF KeptSound, ItemId, Hold!ScanId
    <3>1. Logged(a.id) \/ \E h \in Files : \E k \in DOMAIN h.items : ItemId(h, k) = a.id
      BY DEF FilesInv, LogSound, KeptSound
    <3>2. Files' = Files
      BY DEF Files
    <3> QED
      BY <1>8, <3>1, <3>2
  <2> QED
    BY <2>1, <2>2, <2>3 DEF LogSound
<1> QED
  BY <1>10, <1>11, <1>12, <1>13, <1>14 DEF FilesInv

(* The head is let go, with the hold if it was the last.                   *)
LEMMA LastGone ==
  ASSUME TrayFilesAssumption, FilesInv, hold.items # <<>>, Logged(ItemId(hold, 1)), Len(hold.items) = 1,
         hold' = Hold!NoHold, UNCHANGED <<quarantined, trayFile, completed, log, admitted, ids>>
  PROVE  FilesInv'
<1>0. /\ hold'.items = <<>> /\ hold'.id = 0 /\ hold'.label = none /\ hold'.state = "NONE" /\ DOMAIN hold'.items = {}
      /\ hold' \in Hold!Holds /\ DOMAIN hold.items = 1..1
      /\ \A q \in quarantined : q.id # 0 /\ q.label # none
      /\ \A a \in admitted : a.id.hold # 0
  BY FileFacts
<1>1. FileTypes'
  BY <1>0 DEF FilesInv, FileTypes
<1>2. IdsSound'
  BY <1>0, HoldShape DEF FilesInv, IdsSound
<1>4. ScansSound'
  <2>1. AcceptedSound'
    BY <1>0 DEF FilesInv, ScansSound, AcceptedSound
  <2>2. LastSound'
    BY <1>0 DEF FilesInv, ScansSound, LastSound, Files
  <2>3. ItemsSound'
    BY <1>0 DEF FilesInv, ScansSound, ItemsSound, Files, ItemId, Hold!ScanId
  <2>4. OrderSound'
    <3>1. Increasing(hold)'
      BY <1>0 DEF Increasing
    <3>2. ASSUME NEW p \in quarantined' PROVE FromFirst(p)'
      <4>1. FromFirst(p)
        BY <3>2 DEF FilesInv, ScansSound, OrderSound
      <4> QED
        BY <4>1 DEF FromFirst, ItemId, Hold!ScanId, Unjudged, Logged, Saved, Done
    <3> QED
      BY <3>1, <3>2 DEF OrderSound
  <2> QED
    BY <2>1, <2>2, <2>3, <2>4 DEF ScansSound
<1>5. HeadSound'
  BY <1>0 DEF HeadSound, ItemId, FromFirst
<1>6. LogSound'
  <2>1. TraysSound'
    BY DEF FilesInv, LogSound, TraysSound, TraySound
  <2>2. VerdictsSound'
    BY DEF FilesInv, LogSound, VerdictsSound, Saved, Done
  <2>3. KeptSound'
    <3> SUFFICES ASSUME NEW a \in admitted'
                 PROVE  Logged(a.id)' \/ \E h \in Files' : \E k \in DOMAIN h.items : ItemId(h, k) = a.id
      BY DEF KeptSound, ItemId, Hold!ScanId
    <3>1. Logged(a.id) \/ \E h \in Files : \E k \in DOMAIN h.items : ItemId(h, k) = a.id
      BY DEF FilesInv, LogSound, KeptSound
    <3>2. (\E k \in DOMAIN hold.items : ItemId(hold, k) = a.id) => Logged(a.id)
      BY <1>0
    <3>3. Logged(a.id) \/ \E h \in quarantined : \E k \in DOMAIN h.items : ItemId(h, k) = a.id
      BY <3>1, <3>2 DEF Files
    <3>4. Logged(a.id)' <=> Logged(a.id)
      BY DEF Logged
    <3> QED
      BY <3>3, <3>4 DEF Files
  <2> QED
    BY <2>1, <2>2, <2>3 DEF LogSound
<1> QED
  BY <1>1, <1>2, <1>4, <1>5, <1>6 DEF FilesInv

LEMMA HeadGone ==
  ASSUME TrayFilesAssumption, FilesInv, hold.items # <<>>, Logged(ItemId(hold, 1)), Len(hold.items) # 1,
         hold.state # "LOOKUP", trayFile # Hold!NoTray,
         hold' = [hold EXCEPT !.items = Tail(@)],
         UNCHANGED <<quarantined, trayFile, completed, log, admitted, ids>>
  PROVE  FilesInv' /\ hold' # Hold!NoHold /\ hold'.items # <<>>
<1>1. PICK n \in Nat \ {0} : n + 1 = Len(hold.items)
  <2>1. Len(hold.items) - 1 \in Nat \ {0} /\ (Len(hold.items) - 1) + 1 = Len(hold.items)
    BY HeadShape
  <2> QED
    BY <2>1
<1>2. hold \in [label : Labels, id : 1..MaxHolds, state : {"LOOKUP", "LOOKUP_FAILED", "DRAINING"},
                offline : BOOLEAN, items : Seq([seq : 1..HoldCapacity, code : Codes])]
  BY HeadShape DEF Hold!Holds, Hold!States, Hold!Items
<1>3. /\ Tail(hold.items) \in Seq([seq : 1..HoldCapacity, code : Codes]) /\ Tail(hold.items) # <<>>
      /\ Len(Tail(hold.items)) = n /\ DOMAIN Tail(hold.items) = 1..n /\ DOMAIN hold.items = 1..(n + 1)
      /\ \A k \in 1..n : Tail(hold.items)[k] = hold.items[k + 1]
  BY <1>1, <1>2, Shortened
<1>4. /\ hold' \in [label : Labels, id : 1..MaxHolds, state : {"LOOKUP", "LOOKUP_FAILED", "DRAINING"},
                    offline : BOOLEAN, items : Seq([seq : 1..HoldCapacity, code : Codes])]
      /\ hold'.id = hold.id /\ hold'.label = hold.label /\ hold'.state = hold.state /\ hold'.items = Tail(hold.items)
  BY <1>2, <1>3
<1>5. /\ hold'.items # <<>> /\ Len(hold'.items) = n /\ DOMAIN hold'.items = 1..n
      /\ \A k \in 1..n : hold'.items[k] = hold.items[k + 1]
  BY <1>3, <1>4
<1>6. hold' \in Hold!Holds /\ hold' # Hold!NoHold
  BY <1>4, <1>5, FileFacts DEF Hold!Holds, Hold!States, Hold!Items
<1>7. \A k \in 1..n : k + 1 \in DOMAIN hold.items /\ k + 1 > 1
  BY <1>3
<1>8. \A j, k \in 1..n : j < k => j + 1 < k + 1
  OBVIOUS
<1>9. FileTypes'
  BY <1>6 DEF FilesInv, FileTypes
<1>10. IdsSound'
  BY <1>4, <1>6, HeadShape DEF FilesInv, IdsSound
<1>11. ScansSound'
  <2>1. AcceptedSound'
    BY DEF FilesInv, ScansSound, AcceptedSound
  <2>2. LastSound'
    <3>1. \A a \in admitted : a.id.hold = hold.id => a.label = hold.label /\ a.id.seq <= hold.items[n + 1].seq
      BY <1>1 DEF FilesInv, ScansSound, LastSound, Files
    <3>2. \A a \in admitted : a.id.hold = hold'.id =>
            a.label = hold'.label /\ hold'.items # <<>> /\ a.id.seq <= hold'.items[Len(hold'.items)].seq
      BY <1>1, <1>4, <1>5, <3>1
    <3> QED
      BY <3>2 DEF FilesInv, ScansSound, LastSound, Files
  <2>3. ItemsSound'
    <3>1. \A k \in DOMAIN hold'.items : \E a \in admitted :
            a.id = [hold |-> hold'.id, seq |-> hold'.items[k].seq] /\ a.code = hold'.items[k].code
      <4>1. \A k \in DOMAIN hold.items : \E a \in admitted :
              a.id = [hold |-> hold.id, seq |-> hold.items[k].seq] /\ a.code = hold.items[k].code
        BY DEF FilesInv, ScansSound, ItemsSound, Files, ItemId, Hold!ScanId
      <4> QED
        BY <1>4, <1>5, <1>7, <4>1
    <3>2. \A q \in quarantined : \A k \in DOMAIN q.items : \E a \in admitted : a.id = ItemId(q, k) /\ a.code = q.items[k].code
      BY DEF FilesInv, ScansSound, ItemsSound, Files
    <3> SUFFICES ASSUME NEW h \in Files', NEW k \in DOMAIN h.items
                 PROVE  \E a \in admitted' : a.id = ItemId(h, k) /\ a.code = h.items[k].code
      BY DEF ItemsSound, ItemId, Hold!ScanId
    <3>3. CASE h = hold'
      BY <3>1, <3>3 DEF ItemId, Hold!ScanId
    <3>4. CASE h \in quarantined
      BY <3>2, <3>4
    <3> QED
      BY <3>3, <3>4 DEF Files
  <2>4. OrderSound'
    <3>1. Increasing(hold)'
      <4>1. \A j, k \in DOMAIN hold.items : j < k => hold.items[j].seq < hold.items[k].seq
        BY DEF FilesInv, ScansSound, OrderSound, Increasing
      <4> QED
        BY <1>5, <1>7, <1>8, <4>1 DEF Increasing
    <3>2. ASSUME NEW p \in quarantined' PROVE FromFirst(p)'
      <4>1. FromFirst(p)
        BY <3>2 DEF FilesInv, ScansSound, OrderSound
      <4> QED
        BY <4>1 DEF FromFirst, ItemId, Hold!ScanId, Unjudged, Logged, Saved, Done
    <3> QED
      BY <3>1, <3>2 DEF OrderSound
  <2> QED
    BY <2>1, <2>2, <2>3, <2>4 DEF ScansSound
<1>12. HeadSound'
  <2>1. ASSUME NEW k \in DOMAIN hold'.items, NEW i, i = [hold |-> hold'.id, seq |-> hold'.items[k].seq]
        PROVE  Unjudged(i)' /\ ~(\E j \in DOMAIN log : log[j] = <<"SCAN_FAIL", i>>)
    <3>1. i = ItemId(hold, k + 1)
      BY <1>4, <1>5, <2>1 DEF ItemId, Hold!ScanId
    <3>2. Unjudged(i)
      BY <1>5, <1>7, <3>1 DEF FilesInv, HeadSound
    <3> QED
      BY <3>2 DEF Unjudged, Logged, Saved, Done
  <2>2. \A k \in DOMAIN trayFile.scanned : trayFile.scanned[k].receipt.hold = hold'.id
                                          /\ trayFile.scanned[k].receipt.seq <= hold'.items[1].seq
    <3>1. \A k \in DOMAIN trayFile.scanned : trayFile.scanned[k].receipt.hold = hold.id
                                            /\ trayFile.scanned[k].receipt.seq <= hold.items[1].seq
      BY HeadShape DEF FilesInv, HeadSound
    <3>2. hold.items[1].seq < hold.items[2].seq /\ hold'.items[1] = hold.items[2]
      <4>1. 1 \in DOMAIN hold.items /\ 2 \in DOMAIN hold.items /\ 1 \in 1..n
        BY <1>3
      <4> QED
        BY <1>5, <4>1 DEF FilesInv, ScansSound, OrderSound, Increasing
    <3>3. hold.items[1].seq \in Nat /\ hold.items[2].seq \in Nat
      <4>1. hold.items[1] \in [seq : 1..HoldCapacity, code : Codes] /\ hold.items[2] \in [seq : 1..HoldCapacity, code : Codes]
        <5>1. 1 \in DOMAIN hold.items /\ 2 \in DOMAIN hold.items
          BY <1>3
        <5>2. hold.items \in Seq([seq : 1..HoldCapacity, code : Codes])
          BY <1>2
        <5> QED
          BY <5>1, <5>2, Element
      <4> QED
        BY <4>1, HeadShape
    <3>4. \A k \in DOMAIN trayFile.scanned : trayFile.scanned[k].receipt.seq \in Nat
      <4>1. \A k \in DOMAIN trayFile.scanned : trayFile.scanned[k] \in Products
        BY TrayShape
      <4> QED
        BY <4>1 DEF Products, Receipts
    <3> SUFFICES ASSUME NEW k \in DOMAIN trayFile.scanned
                 PROVE  trayFile.scanned[k].receipt.hold = hold'.id /\ trayFile.scanned[k].receipt.seq <= hold'.items[1].seq
      OBVIOUS
    <3>5. hold'.items[1].seq = hold.items[2].seq
      BY <3>2
    <3>6. PICK a \in Nat, b \in Nat, d \in Nat : a = trayFile.scanned[k].receipt.seq /\ b = hold.items[1].seq /\ d = hold.items[2].seq
      BY <3>3, <3>4
    <3>7. a <= b /\ b < d
      BY <3>1, <3>2, <3>6
    <3>8. a <= d
      BY <3>7
    <3> QED
      BY <1>4, <3>1, <3>5, <3>6, <3>8
  <2>3. trayFile.label = hold'.label
    BY <1>4, HeadShape DEF FilesInv, HeadSound
  <2>4. ~(hold.state = "LOOKUP" \/ trayFile = Hold!NoTray)
    OBVIOUS
  <2>5. \A k \in DOMAIN hold'.items :
          /\ Unjudged(ItemId(hold, k))'
          /\ ~(\E j \in DOMAIN log : log[j] = <<"SCAN_FAIL", ItemId(hold, k)'>>)
    <3> TAKE k \in DOMAIN hold'.items
    <3>1. PICK i : i = [hold |-> hold'.id, seq |-> hold'.items[k].seq]
      OBVIOUS
    <3>2. ItemId(hold, k)' = i
      BY <3>1 DEF ItemId, Hold!ScanId
    <3> QED
      BY <2>1, <3>1, <3>2 DEF Unjudged, Logged, Saved, Done
  <2> QED
    BY <1>4, <1>5, <2>2, <2>3, <2>4, <2>5 DEF HeadSound, Unjudged
<1>13. LogSound'
  <2>1. TraysSound'
    BY DEF FilesInv, LogSound, TraysSound, TraySound
  <2>2. VerdictsSound'
    BY DEF FilesInv, LogSound, VerdictsSound, Saved, Done
  <2>3. KeptSound'
    <3> SUFFICES ASSUME NEW a \in admitted'
                 PROVE  Logged(a.id)' \/ \E h \in Files' : \E k \in DOMAIN h.items : ItemId(h, k) = a.id
      BY DEF KeptSound, ItemId, Hold!ScanId
    <3>1. Logged(a.id) \/ \E h \in Files : \E k \in DOMAIN h.items : ItemId(h, k) = a.id
      BY DEF FilesInv, LogSound, KeptSound
    <3>2. ASSUME NEW k \in DOMAIN hold.items, ItemId(hold, k) = a.id
          PROVE  Logged(a.id) \/ \E j \in DOMAIN hold'.items : [hold |-> hold'.id, seq |-> hold'.items[j].seq] = a.id
      <4>1. CASE k = 1
        BY <3>2, <4>1
      <4>2. CASE k # 1
        <5>1. k - 1 \in 1..n /\ (k - 1) + 1 = k
          BY <1>3, <4>2
        <5>2. [hold |-> hold'.id, seq |-> hold'.items[k - 1].seq] = a.id
          BY <1>4, <1>5, <3>2, <5>1 DEF ItemId, Hold!ScanId
        <5> QED
          BY <1>5, <5>1, <5>2
      <4> QED
        BY <4>1, <4>2
    <3>3. Logged(a.id)' <=> Logged(a.id)
      BY DEF Logged
    <3>4. (\E j \in DOMAIN hold'.items : [hold |-> hold'.id, seq |-> hold'.items[j].seq] = a.id) =>
            \E h \in Files' : \E k \in DOMAIN h.items : ItemId(h, k) = a.id
      BY DEF Files, ItemId, Hold!ScanId
    <3>5. (\E h \in quarantined : \E k \in DOMAIN h.items : ItemId(h, k) = a.id) =>
            \E h \in Files' : \E k \in DOMAIN h.items : ItemId(h, k) = a.id
      BY DEF Files
    <3>6. \/ Logged(a.id) \/ \E k \in DOMAIN hold.items : ItemId(hold, k) = a.id
          \/ \E h \in quarantined : \E k \in DOMAIN h.items : ItemId(h, k) = a.id
      BY <3>1 DEF Files
    <3> QED
      BY <3>2, <3>3, <3>4, <3>5, <3>6
  <2> QED
    BY <2>1, <2>2, <2>3 DEF LogSound
<1> QED
  BY <1>5, <1>6, <1>9, <1>10, <1>11, <1>12, <1>13 DEF FilesInv

(* The tray is completed.                                                  *)
LEMMA TrayDone ==
  ASSUME TrayFilesAssumption, FilesInv, hold = Hold!NoHold, trayFile # Hold!NoTray,
         completed' = [l \in DOMAIN completed \cup {trayFile.label} |->
                         IF l = trayFile.label THEN trayFile.scanned ELSE completed[l]],
         trayFile' = Hold!NoTray,
         UNCHANGED <<hold, quarantined, log, admitted, ids>>
  PROVE  FilesInv'
<1> DEFINE t == trayFile.label
<1>1. /\ trayFile'.label = none /\ trayFile'.scanned = <<>> /\ DOMAIN trayFile'.scanned = {} /\ Len(trayFile'.scanned) = 0
      /\ none \notin Labels /\ t \in Labels /\ trayFile.scanned \in Seq(Products) /\ TraySize \in Nat
      /\ hold.items = <<>> /\ DOMAIN hold.items = {}
  <2>1. DOMAIN <<>> = {} /\ Len(<<>>) = 0
    OBVIOUS
  <2> QED
    BY <2>1, TrayShape, FileFacts
<1>2. t \notin DOMAIN completed
  BY DEF FilesInv, LogSound, TraysSound
<1>3. /\ DOMAIN completed' = DOMAIN completed \cup {t} /\ completed'[t] = trayFile.scanned
      /\ \A l \in DOMAIN completed : completed'[l] = completed[l]
  BY <1>2
<1>4. \A i : Saved(i)' \/ Done(i)' <=> Saved(i) \/ Done(i)
  <2>1. \A i : ~Saved(i)'
    BY <1>1 DEF Saved
  <2>2. ASSUME NEW i PROVE Done(i)' <=> Saved(i) \/ Done(i)
    <3>1. ASSUME NEW l \in DOMAIN completed', NEW k \in DOMAIN completed'[l], completed'[l][k].receipt = i
          PROVE  Saved(i) \/ Done(i)
      <4>1. CASE l = t
        BY <1>3, <3>1, <4>1 DEF Saved
      <4>2. CASE l # t
        BY <1>3, <3>1, <4>2 DEF Done
      <4> QED
        BY <4>1, <4>2
    <3>2. Saved(i) => Done(i)'
      BY <1>3 DEF Saved, Done
    <3>3. Done(i) => Done(i)'
      BY <1>3 DEF Done
    <3>4. Done(i)' => Saved(i) \/ Done(i)
      BY <3>1 DEF Done
    <3> QED
      BY <3>2, <3>3, <3>4
  <2> QED
    BY <2>1, <2>2
<1>5. FileTypes'
  <2>1. trayFile' \in TrayStates /\ Len(trayFile'.scanned) <= TraySize
    <3>1. Hold!NoTray \in TrayStates
      BY DEF Hold!NoTray, TrayStates
    <3> QED
      BY <1>1, <3>1
  <2>2. completed' = [l \in DOMAIN completed' |-> completed'[l]]
    BY <1>3
  <2>3. DOMAIN completed' \subseteq Labels /\ \A l \in DOMAIN completed' : completed'[l] \in Seq(Products)
    BY <1>1, <1>3 DEF FilesInv, FileTypes
  <2> QED
    BY <2>1, <2>2, <2>3 DEF FilesInv, FileTypes
<1>6. IdsSound'
  BY DEF FilesInv, IdsSound
<1>7. ScansSound'
  <2>1. AcceptedSound'
    BY DEF FilesInv, ScansSound, AcceptedSound
  <2>2. LastSound'
    BY DEF FilesInv, ScansSound, LastSound, Files
  <2>3. ItemsSound'
    BY DEF FilesInv, ScansSound, ItemsSound, Files, ItemId, Hold!ScanId
  <2>4. OrderSound'
    <3>1. Increasing(hold)'
      BY DEF FilesInv, ScansSound, OrderSound, Increasing
    <3>2. ASSUME NEW q \in quarantined PROVE FromFirst(q)'
      <4>1. FromFirst(q)
        BY DEF FilesInv, ScansSound, OrderSound
      <4>2. ASSUME NEW k \in DOMAIN q.items PROVE Unjudged(ItemId(q, k))'
        <5>1. Unjudged(ItemId(q, k))
          BY <4>1 DEF FromFirst
        <5>2. ~Saved(ItemId(q, k))' /\ ~Done(ItemId(q, k))'
          BY <1>4, <5>1 DEF Unjudged, ItemId, Hold!ScanId
        <5> QED
          BY <5>1, <5>2 DEF Unjudged, Logged, ItemId, Hold!ScanId
      <4> QED
        BY <4>1, <4>2 DEF FromFirst, ItemId, Hold!ScanId
    <3> QED
      BY <3>1, <3>2 DEF OrderSound
  <2> QED
    BY <2>1, <2>2, <2>3, <2>4 DEF ScansSound
<1>8. HeadSound'
  BY <1>1 DEF HeadSound, FromFirst
<1>9. LogSound'
  <2>1. TraysSound'
    <3>1. TraySound(trayFile.label, trayFile.scanned) /\ \A l \in DOMAIN completed : TraySound(l, completed[l])
      BY DEF FilesInv, LogSound, TraysSound
    <3>2. TraySound(trayFile.label, trayFile.scanned)'
      BY <1>1 DEF TraySound
    <3>3. ASSUME NEW l \in DOMAIN completed' PROVE TraySound(l, completed[l])'
      <4>1. PICK s : s = completed'[l]
        OBVIOUS
      <4>2. TraySound(l, s)
        BY <1>3, <3>1, <4>1
      <4>3. \A k \in DOMAIN completed'[l] : completed'[l][k].receipt # Hold!LiveScan =>
              \E a \in admitted : a.id = completed'[l][k].receipt /\ a.code = completed'[l][k].code /\ a.label = l
        BY <4>1, <4>2 DEF TraySound
      <4>4. \A j, k \in DOMAIN completed'[l] : j < k /\ completed'[l][k].receipt # Hold!LiveScan =>
              /\ completed'[l][j].receipt # Hold!LiveScan
              /\ completed'[l][j].receipt.hold = completed'[l][k].receipt.hold =>
                   completed'[l][j].receipt.seq < completed'[l][k].receipt.seq
        <5>1. \A j, k \in DOMAIN s : j < k /\ s[k].receipt # Hold!LiveScan =>
                /\ s[j].receipt # Hold!LiveScan
                /\ s[j].receipt.hold = s[k].receipt.hold => s[j].receipt.seq < s[k].receipt.seq
          BY <4>2 DEF TraySound
        <5> QED
          BY <4>1, <5>1
      <4> QED
        BY <4>3, <4>4 DEF TraySound
    <3>4. trayFile'.label \notin DOMAIN completed'
      BY <1>1, <1>3 DEF FilesInv, FileTypes
    <3> QED
      BY <3>2, <3>3, <3>4 DEF TraysSound
  <2>2. VerdictsSound'
    <3>1. \A k \in DOMAIN log : log[k][1] = "SCAN_OK" <=> Saved(log[k][2])' \/ Done(log[k][2])'
      <4> TAKE k \in DOMAIN log
      <4>1. PICK i : i = log[k][2]
        OBVIOUS
      <4>2. log[k][1] = "SCAN_OK" <=> Saved(i) \/ Done(i)
        BY <4>1 DEF FilesInv, LogSound, VerdictsSound
      <4>3. log[k][1] = "SCAN_OK" <=> Saved(i)' \/ Done(i)'
        BY <1>4, <4>2
      <4> QED
        BY <4>1, <4>3 DEF Saved, Done
    <3> QED
      BY <3>1 DEF FilesInv, LogSound, VerdictsSound
  <2>3. KeptSound'
    BY DEF FilesInv, LogSound, KeptSound, Files, ItemId, Hold!ScanId, Logged
  <2> QED
    BY <2>1, <2>2, <2>3 DEF LogSound
<1> QED
  BY <1>5, <1>6, <1>7, <1>8, <1>9 DEF FilesInv

(* A step that leaves the files alone.                                     *)
LEMMA FilesSame ==
  ASSUME FilesInv, UNCHANGED <<hold, quarantined, trayFile, completed, log, admitted, ids>>
  PROVE  FilesInv'
<1>1. FileTypes'
  BY DEF FilesInv, FileTypes
<1>2. IdsSound'
  BY DEF FilesInv, IdsSound
<1>3. ScansSound'
  <2>1. AcceptedSound'
    BY DEF FilesInv, ScansSound, AcceptedSound
  <2>2. LastSound'
    BY DEF FilesInv, ScansSound, LastSound, Files
  <2>3. ItemsSound'
    BY DEF FilesInv, ScansSound, ItemsSound, Files, ItemId, Hold!ScanId
  <2>4. OrderSound'
    BY DEF FilesInv, ScansSound, OrderSound, Increasing, FromFirst, ItemId, Hold!ScanId, Unjudged, Logged, Saved, Done
  <2> QED
    BY <2>1, <2>2, <2>3, <2>4 DEF ScansSound
<1>4. HeadSound'
  BY DEF FilesInv, HeadSound, ItemId, FromFirst, Unjudged, Logged, Saved, Done, Hold!ScanId
<1>5. LogSound'
  <2>1. TraysSound'
    BY DEF FilesInv, LogSound, TraysSound, TraySound
  <2>2. VerdictsSound'
    BY DEF FilesInv, LogSound, VerdictsSound, Saved, Done
  <2>3. KeptSound'
    BY DEF FilesInv, LogSound, KeptSound, Files, ItemId, Hold!ScanId, Logged
  <2> QED
    BY <2>1, <2>2, <2>3 DEF LogSound
<1> QED
  BY <1>1, <1>2, <1>3, <1>4, <1>5 DEF FilesInv

-----------------------------------------------------------------------------
(* The queue of the writer.                                                *)
LEMMA QueueShape ==
  ASSUME ControlTypes
  PROVE  /\ writer \in Seq(Tasks) /\ DOMAIN writer = 1..Len(writer) /\ Len(writer) \in Nat
         /\ \A k \in DOMAIN writer :
              /\ writer[k] \in Tasks /\ writer[k].snap \in Hold!Holds /\ writer[k].fresh \in BOOLEAN
              /\ writer[k].label \in Labels \cup {none} /\ writer[k].code \in Codes \cup {none}
              /\ writer[k].op \in {"append", "offline", "fail", "settle", "drain", "switch"}
              /\ writer[k].done \in {"no", "ok", "err"}
<1>1. writer \in Seq(Tasks)
  BY DEF ControlTypes
<1>2. DOMAIN writer = 1..Len(writer) /\ Len(writer) \in Nat /\ \A k \in DOMAIN writer : writer[k] \in Tasks
  BY <1>1
<1> QED
  BY <1>1, <1>2 DEF Tasks

LEMMA NoHoldIsHold == Hold!NoHold \in Hold!Holds
BY DEF Hold!Holds

(* A task is queued, or none is.                                           *)
LEMMA MaybeAdded ==
  ASSUME ControlTypes, NEW n, n = Len(writer), NEW t \in Tasks, writer' = writer \/ writer' = Append(writer, t)
  PROVE  /\ writer' \in Seq(Tasks) /\ DOMAIN writer' \in {1..n, 1..(n + 1)} /\ DOMAIN writer = 1..n /\ n \in Nat
         /\ \A k \in 1..n : k \in DOMAIN writer' /\ writer'[k] = writer[k]
         /\ \A k \in DOMAIN writer' : k \in 1..n \/ (k = n + 1 /\ writer'[k] = t)
<1>1. DOMAIN writer = 1..n /\ n \in Nat /\ writer \in Seq(Tasks)
  BY QueueShape
<1>2. CASE writer' = writer
  BY <1>1, <1>2
<1>3. CASE writer' = Append(writer, t)
  BY <1>1, <1>3, Appended
<1> QED
  BY <1>2, <1>3

LEMMA TasksStale ==
  ASSUME NEW w \in Seq(Tasks), NEW n, n = Len(w)
  PROVE  LET v == Hold!Stale(w) IN
         /\ v \in Seq(Tasks) /\ DOMAIN v = 1..n /\ Len(v) = n /\ DOMAIN w = 1..n /\ n \in Nat
         /\ \A k \in 1..n : /\ v[k].op = w[k].op /\ v[k].label = w[k].label /\ v[k].code = w[k].code
                            /\ v[k].done = w[k].done /\ v[k].snap = w[k].snap /\ v[k].fresh = FALSE
<1> DEFINE v == Hold!Stale(w)
<1>1. DOMAIN w = 1..n /\ n \in Nat /\ \A k \in 1..n : w[k] \in Tasks
  OBVIOUS
<1>2. v = [k \in 1..n |-> [w[k] EXCEPT !.fresh = FALSE]]
  BY <1>1 DEF Hold!Stale
<1>3. \A k \in 1..n : [w[k] EXCEPT !.fresh = FALSE] \in Tasks
  BY <1>1 DEF Tasks
<1>4. v \in [1..n -> Tasks]
  BY <1>2, <1>3
<1>5. v \in Seq(Tasks) /\ Len(v) = n /\ DOMAIN v = 1..n
  BY <1>1, <1>4
<1>6. ASSUME NEW k \in 1..n
      PROVE  /\ v[k].op = w[k].op /\ v[k].label = w[k].label /\ v[k].code = w[k].code
             /\ v[k].done = w[k].done /\ v[k].snap = w[k].snap /\ v[k].fresh = FALSE
  <2>1. v[k] = [w[k] EXCEPT !.fresh = FALSE]
    BY <1>2
  <2>2. w[k] \in Tasks
    BY <1>1
  <2> QED
    BY <2>1, <2>2 DEF Tasks
<1> QED
  BY <1>1, <1>5, <1>6

(* The first undone task.                                                  *)
LEMMA Least ==
  ASSUME NEW T \in SUBSET Nat, T # {}
  PROVE  \E x \in T : \A y \in T : x <= y
<1>1. PICK x \in T : \A y \in T : ~(<<y, x>> \in OpToRel(<, Nat))
  BY NatLessThanWellFounded, WFMin
<1>2. \A y \in T : ~(y < x)
  BY <1>1 DEF OpToRel
<1> QED
  BY <1>2

LEMMA FirstUndone ==
  ASSUME ControlTypes, InOrder, Hold!Unworked > 0
  PROVE  /\ Hold!First \in DOMAIN writer /\ Hold!Work = writer[Hold!First] /\ writer[Hold!First].done = "no"
         /\ \A j \in DOMAIN writer : j < Hold!First => writer[j].done # "no"
         /\ \A j \in DOMAIN writer : j > Hold!First => writer[j].done = "no"
<1> DEFINE U == {k \in DOMAIN writer : writer[k].done = "no"}
<1>1. DOMAIN writer = 1..Len(writer) /\ Len(writer) \in Nat
  BY QueueShape
<1>2. U # {}
  <2>1. Hold!Cardinality({}) = 0
    BY FS_EmptySet DEF Hold!Cardinality, Cardinality
  <2> QED
    BY <2>1 DEF Hold!Unworked
<1>3. U \in SUBSET Nat
  BY <1>1
<1>4. PICK x \in U : \A y \in U : x <= y
  BY <1>2, <1>3, Least
<1>5. x \in DOMAIN writer /\ writer[x].done = "no" /\ \A j \in 1..x-1 : writer[j].done # "no"
  BY <1>1, <1>4
<1>6. /\ Hold!First \in DOMAIN writer /\ writer[Hold!First].done = "no"
      /\ \A j \in 1..Hold!First-1 : writer[j].done # "no"
  BY <1>5 DEF Hold!First
<1>7. \A j \in DOMAIN writer : j > Hold!First => writer[j].done = "no"
  BY <1>1, <1>6 DEF InOrder
<1>8. \A j \in DOMAIN writer : j < Hold!First => writer[j].done # "no"
  BY <1>1, <1>6
<1> QED
  BY <1>6, <1>7, <1>8 DEF Hold!Work

(* A task is queued behind the others, or none is.                         *)
LEMMA QueueGrown ==
  ASSUME TrayFilesAssumption, HoldInv, NEW n, n = Len(writer),
         writer' \in Seq(Tasks), DOMAIN writer' \in {1..n, 1..(n + 1)},
         \A k \in 1..n : /\ writer'[k].op = writer[k].op /\ writer'[k].done = writer[k].done
                         /\ writer'[k].snap = writer[k].snap,
         \A k \in DOMAIN writer' : k = n + 1 => writer'[k].done = "no" /\ writer'[k].snap = Hold!NoHold,
         \A k \in DOMAIN writer' : writer'[k].op = "offline" /\ writer'[k].fresh => writer'[k].label = holdMem'.label,
         \A s \in Hold!Holds : (Taken(s) => Taken(s)') /\ (Found(s) => Found(s)')
  PROVE  InOrder' /\ ResultsSound' /\ \A i \in Nat : Removed(i)' <=> Removed(i)
<1>1. DOMAIN writer = 1..n /\ n \in Nat /\ \A k \in 1..n : k \in DOMAIN writer' /\ writer[k].snap \in Hold!Holds
  BY QueueShape DEF HoldInv, ControlInv
<1>2. \A k \in DOMAIN writer' : k \in 1..n \/ k = n + 1
  BY <1>1
<1>3. InOrder'
  BY <1>1, <1>2 DEF HoldInv, ControlInv, QueueInv, InOrder
<1>4. \A i \in Nat : Removed(i)' <=> Removed(i)
  <2>1. ASSUME NEW i \in Nat, NEW j \in DOMAIN writer', j > i, writer'[j].op \in {"drain", "switch"}, writer'[j].done = "ok"
        PROVE  Removed(i)
    <3>1. j \in 1..n
      BY <1>2, <2>1
    <3> QED
      BY <1>1, <2>1, <3>1 DEF Removed
  <2>2. ASSUME NEW i \in Nat, NEW j \in DOMAIN writer, j > i, writer[j].op \in {"drain", "switch"}, writer[j].done = "ok"
        PROVE  Removed(i)'
    BY <1>1, <2>2 DEF Removed
  <2> QED
    BY <2>1, <2>2 DEF Removed
<1>5. ResultsSound'
  <2> SUFFICES ASSUME NEW k \in DOMAIN writer'
               PROVE  /\ writer'[k].done # "ok" => writer'[k].snap = Hold!NoHold
                      /\ writer'[k].done = "ok" /\ writer'[k].op \notin {"drain", "switch"} => writer'[k].snap # Hold!NoHold
                      /\ writer'[k].op # "drain" => writer'[k].snap.state # "DRAINING"
                      /\ Taken(writer[k].snap)' /\ (Found(writer[k].snap)' \/ Removed(k)')
    BY DEF ResultsSound
  <2>1. CASE k \in 1..n
    <3>1. PICK s \in Hold!Holds : s = writer[k].snap /\ s = writer'[k].snap
      BY <1>1, <2>1
    <3>2. /\ writer[k].done # "ok" => s = Hold!NoHold
          /\ writer[k].done = "ok" /\ writer[k].op \notin {"drain", "switch"} => s # Hold!NoHold
          /\ writer[k].op # "drain" => s.state # "DRAINING"
          /\ Taken(s) /\ (Found(s) \/ Removed(k))
      BY <1>1, <2>1, <3>1 DEF HoldInv, ControlInv, QueueInv, ResultsSound
    <3>3. Taken(s)' /\ (Found(s)' \/ Removed(k)')
      BY <1>4, <2>1, <3>2
    <3>4. Taken(writer[k].snap)' /\ (Found(writer[k].snap)' \/ Removed(k)')
      BY <3>1, <3>3 DEF Taken, Found
    <3> QED
      BY <2>1, <3>1, <3>2, <3>4
  <2>2. CASE k = n + 1
    <3>1. writer'[k].done = "no" /\ writer'[k].snap = Hold!NoHold /\ Hold!NoHold.state = "NONE"
      BY <2>2 DEF Hold!NoHold
    <3> QED
      BY <3>1 DEF Taken, Found
  <2> QED
    BY <1>2, <2>1, <2>2
<1> QED
  BY <1>3, <1>4, <1>5

(* What may be known of a hold does not change with the other files.       *)
LEMMA SameFiles ==
  ASSUME UNCHANGED <<hold, quarantined, ids>>
  PROVE  \A s \in Hold!Holds : (Taken(s) => Taken(s)') /\ (Found(s) => Found(s)')
BY DEF Taken, Found, Files

LEMMA MarkedFiles ==
  ASSUME hold'.id = hold.id, hold'.label = hold.label, UNCHANGED <<quarantined, ids>>
  PROVE  \A s \in Hold!Holds : (Taken(s) => Taken(s)') /\ (Found(s) => Found(s)')
<1> TAKE s \in Hold!Holds
<1>1. ASSUME NEW h \in Files', h.id = s.id PROVE \E g \in Files : g.id = s.id /\ g.label = h.label
  BY <1>1 DEF Files
<1>2. ASSUME NEW h \in Files, h.id = s.id PROVE \E g \in Files' : g.id = s.id
  BY <1>2 DEF Files
<1>3. Taken(s) => Taken(s)'
  BY <1>1 DEF Taken
<1>4. Found(s) => Found(s)'
  BY <1>2 DEF Found
<1> QED
  BY <1>3, <1>4

-----------------------------------------------------------------------------
(* What the window knows.                                                  *)
LEMMA HoldParts ==
  ASSUME HoldInv
  PROVE  /\ FilesInv /\ ControlTypes /\ InOrder /\ ResultsSound /\ AppendSound /\ SwitchSound /\ DrainSound /\ DrainingSound
         /\ ScreenSound /\ SnapSound /\ PendingSound /\ AgainSound /\ ReadSound /\ LookupSound /\ HeadJudged
BY DEF HoldInv, ControlInv, QueueInv, WindowInv

LEMMA HoldWhole ==
  ASSUME FilesInv', ControlTypes', InOrder', ResultsSound', AppendSound', SwitchSound', DrainSound', DrainingSound',
         ScreenSound', SnapSound', PendingSound', AgainSound', ReadSound', LookupSound', HeadJudged'
  PROVE  HoldInv'
BY DEF HoldInv, ControlInv, QueueInv, WindowInv

LEMMA ControlFacts ==
  ASSUME TrayFilesAssumption, HoldInv
  PROVE  /\ holdMem \in Windows /\ holdMem.snap \in Hold!Holds
         /\ lane \in Lanes /\ lane.snap \in Hold!Holds
         /\ holdMem.label \in Labels \cup {none} /\ lane.label \in Labels \cup {none}
         /\ \A s \in Hold!Holds : /\ s.state = "DRAINING" => s # Hold!NoHold
                                  /\ (s # Hold!NoHold <=> s.id # 0) /\ (s # Hold!NoHold <=> s.label # none)
         /\ tray \in TrayStates /\ none \notin Labels
         /\ Hold!NoTray.label = none /\ Hold!NoTray.scanned = <<>>
<1>1. /\ holdMem \in Windows /\ lane \in Lanes /\ tray \in TrayStates
  BY DEF HoldInv, ControlInv, ControlTypes
<1>2. holdMem.snap \in Hold!Holds /\ holdMem.label \in Labels \cup {none}
  BY <1>1 DEF Windows
<1>3. lane.snap \in Hold!Holds /\ lane.label \in Labels \cup {none}
  BY <1>1 DEF Lanes
<1>4. none \notin Labels
  BY DEF TrayFilesAssumption, Hold!HoldAssumption
<1>5. \A s \in Hold!Holds : /\ s.state = "DRAINING" => s # Hold!NoHold
                            /\ (s # Hold!NoHold <=> s.id # 0) /\ (s # Hold!NoHold <=> s.label # none)
  BY HoldShape
<1> QED
  BY <1>1, <1>2, <1>3, <1>4, <1>5 DEF Hold!NoTray

(* Without an open tray nothing is drained.                                *)
LEMMA NothingDrains ==
  ASSUME TrayFilesAssumption, HoldInv, tray = Hold!NoTray
  PROVE  /\ hold.state # "DRAINING" /\ holdMem.snap.state # "DRAINING" /\ ~holdMem.due /\ lane.task # "drain"
         /\ \A k \in DOMAIN writer : writer[k].op # "drain"
<1>1. hold \in Hold!Holds
  BY HoldParts DEF FilesInv, FileTypes
<1>2. hold.state = "DRAINING" => hold.label # none
  BY <1>1, ControlFacts
<1>3. hold.state \in {"DRAINING", "LOOKUP_FAILED"} => hold.label # none
  BY <1>1, HoldShape
<1>4. tray.label = none
  BY ControlFacts
<1> QED
  BY <1>2, <1>3, <1>4, HoldParts DEF DrainingSound, ReadSound, ScreenSound, DrainSound

(* While a label is looked up no tray is open.                             *)
LEMMA LookingUp ==
  ASSUME TrayFilesAssumption, HoldInv, holdMem.pending \/ lane.task = "lookup" \/ Queued("switch")
  PROVE  /\ tray = Hold!NoTray /\ trayFile = Hold!NoTray
         /\ ~Queued("switch") => ~holdMem.out
<1>1. trayFile = Hold!NoTray
  BY HoldParts DEF PendingSound, LookupSound, SwitchSound, Queued
<1> QED
  BY <1>1, HoldParts DEF ScreenSound

(* While a hold is drained its tray is open.                               *)
LEMMA Reading ==
  ASSUME TrayFilesAssumption, HoldInv, holdMem.snap.state = "DRAINING" \/ lane.task = "drain"
  PROVE  /\ hold # Hold!NoHold /\ tray # Hold!NoTray /\ trayFile = tray /\ ~holdMem.out /\ hold.state # "LOOKUP"
         /\ trayFile.label = hold.label /\ hold.items # <<>> /\ hold.id = holdMem.snap.id
         /\ hold.items = holdMem.snap.items /\ holdMem.snap # Hold!NoHold
<1>1. hold \in Hold!Holds
  BY HoldParts DEF FilesInv, FileTypes
<1>2. hold.id = holdMem.snap.id /\ hold.items = holdMem.snap.items /\ hold.items # <<>>
      /\ tray.label = hold.label /\ hold.state \in {"DRAINING", "LOOKUP_FAILED"}
  BY HoldParts DEF ReadSound
<1>3. hold # Hold!NoHold /\ hold.label # none /\ hold.id # 0
  BY <1>1, <1>2, HoldShape
<1>4. tray # Hold!NoTray
  BY <1>2, <1>3, ControlFacts
<1>5. trayFile = tray /\ ~holdMem.out
  BY <1>4, HoldParts DEF ScreenSound
<1>6. holdMem.snap # Hold!NoHold
  BY <1>2, <1>3, ControlFacts
<1> QED
  BY <1>2, <1>3, <1>4, <1>5, <1>6

-----------------------------------------------------------------------------
(* The lookup.                                                             *)

(* A label begins to be looked up.                                         *)
LEMMA LookupBegins ==
  ASSUME TrayFilesAssumption, HoldInv, NEW l \in Labels \ DOMAIN completed, NEW off \in BOOLEAN,
         Hold!Begin(holdMem, l, off), tray = Hold!NoTray, trayFile = Hold!NoTray, lane.task = "none",
         ~holdMem.switching, ~holdMem.out, ~Queued("switch"),
         Queued("append") => l = holdMem.label,
         hold # Hold!NoHold => hold.label = l, \A q \in quarantined : q.label # l,
         UNCHANGED <<hold, quarantined, tray, trayFile, log, completed, admitted, ids, holdFaults>>
  PROVE  HoldInv'
<1>0. PICK n \in Nat : n = Len(writer)
  BY QueueShape, HoldParts
<1>1. /\ holdMem'.snap = holdMem.snap /\ holdMem'.label = l /\ holdMem'.pending /\ holdMem'.retry = none /\ holdMem'.replay = none
      /\ holdMem'.append = holdMem.append /\ ~holdMem'.switching /\ ~holdMem'.out /\ holdMem'.due = holdMem.due
      /\ holdMem' \in Windows
  BY ControlFacts DEF Hold!Begin, Windows
<1>2. /\ lane'.task = "lookup" /\ lane'.step = "hold" /\ lane'.label = l /\ lane'.snap = Hold!NoHold /\ lane' \in Lanes
  BY HoldShape, ControlFacts DEF Hold!Begin, Hold!NoLane, Lanes, Hold!Holds
<1>3. /\ writer' \in Seq(Tasks) /\ DOMAIN writer' = 1..n /\ DOMAIN writer = 1..n /\ n \in Nat
      /\ \A k \in 1..n : /\ writer'[k].op = writer[k].op /\ writer'[k].label = writer[k].label /\ writer'[k].code = writer[k].code
                         /\ writer'[k].done = writer[k].done /\ writer'[k].snap = writer[k].snap /\ writer'[k].fresh = FALSE
  BY <1>0, QueueShape, TasksStale, HoldParts DEF Hold!Begin
<1>4. FilesInv'
  BY FilesSame, HoldParts
<1>5. ControlTypes'
  BY <1>1, <1>2, <1>3, HoldParts DEF ControlTypes
<1>6. \A s \in Hold!Holds : (Taken(s) => Taken(s)') /\ (Found(s) => Found(s)')
  BY SameFiles
<1>7. InOrder' /\ ResultsSound' /\ \A i \in Nat : Removed(i)' <=> Removed(i)
  <2>1. DOMAIN writer' \in {1..n, 1..(n + 1)} /\ \A k \in DOMAIN writer' : k # n + 1
    BY <1>3
  <2>2. \A k \in DOMAIN writer' : ~(writer'[k].op = "offline" /\ writer'[k].fresh)
    BY <1>3
  <2> QED
    BY <1>0, <1>3, <1>6, <2>1, <2>2, QueueGrown
<1>8. AppendSound'
  BY <1>1, <1>3, HoldParts DEF AppendSound, Queued
<1>9. SwitchSound'
  BY <1>3 DEF SwitchSound, Queued
<1>10. DrainSound' /\ DrainingSound'
  BY <1>3, NothingDrains DEF DrainSound, DrainingSound
<1>11. ScreenSound'
  BY <1>1, NothingDrains DEF ScreenSound
<1>12. SnapSound'
  BY <1>1, <1>6, <1>7, ControlFacts, HoldParts DEF SnapSound, Taken, Found
<1>13. PendingSound' /\ AgainSound'
  BY <1>1 DEF PendingSound, AgainSound
<1>14. ReadSound'
  BY <1>1, <1>2, NothingDrains DEF ReadSound
<1>15. LookupSound'
  <2>1. Taken(lane.snap)' /\ Found(lane.snap)' /\ lane'.snap.state # "DRAINING"
    BY <1>2, FileFacts, HoldParts DEF Taken, Found
  <2> QED
    BY <1>1, <1>2, <2>1 DEF LookupSound
<1>16. HeadJudged'
  BY <1>2 DEF HeadJudged
<1> QED
  BY <1>4, <1>5, <1>7, <1>8, <1>9, <1>10, <1>11, <1>12, <1>13, <1>14, <1>15, <1>16, HoldWhole

LEMMA LabelScanned ==
  ASSUME TrayFilesAssumption, HoldInv, NEW l \in Labels, Hold!ScanLabel(l)
  PROVE  HoldInv'
<1>1. /\ Hold!Begin(holdMem, l, FALSE) /\ tray = Hold!NoTray /\ lane.task = "none" /\ ~holdMem.switching /\ ~holdMem.out
      /\ l \in Labels \ DOMAIN completed /\ \A q \in quarantined : q.label # l
      /\ UNCHANGED <<hold, quarantined, tray, trayFile, log, completed, admitted, ids, holdFaults>>
      /\ holdMem.replay = l \/ (holdMem.replay = none /\ ~Hold!Blocks(holdMem) /\ Hold!Quiet)
  BY DEF Hold!ScanLabel, Hold!LaneIdle
<1>2. trayFile = Hold!NoTray /\ ~Queued("switch")
  BY <1>1, HoldParts DEF ScreenSound, SwitchSound, Queued
<1>3. l # none
  BY ControlFacts
<1>4. Queued("append") => l = holdMem.label
  <2>1. Queued("append") => holdMem.replay = none
    BY HoldParts DEF AppendSound, Queued
  <2>2. Hold!Quiet => ~Queued("append")
    BY DEF Hold!Quiet, Queued
  <2> QED
    BY <1>1, <1>3, <2>1, <2>2
<1>5. hold # Hold!NoHold => hold.label = l
  BY <1>1, <1>3, HoldParts DEF AgainSound, Hold!Blocks
<1> QED
  BY <1>1, <1>2, <1>4, <1>5, LookupBegins

LEMMA LookedUpAgain ==
  ASSUME TrayFilesAssumption, HoldInv, Hold!RetryOffline
  PROVE  HoldInv'
<1>1. /\ holdMem.retry # none /\ holdMem.pending /\ tray = Hold!NoTray /\ lane.task = "none"
      /\ Hold!Begin(holdMem, holdMem.retry, TRUE)
      /\ UNCHANGED <<hold, quarantined, tray, trayFile, log, completed, admitted, ids, holdFaults>>
  BY DEF Hold!RetryOffline, Hold!LaneIdle
<1>2. holdMem.retry = holdMem.label
  BY <1>1, HoldParts DEF AgainSound
<1>3. /\ trayFile = Hold!NoTray /\ ~holdMem.switching /\ holdMem.label \in Labels \ DOMAIN completed
      /\ hold # Hold!NoHold => hold.label = holdMem.label
      /\ \A q \in quarantined : q.label # holdMem.label
  BY <1>1, HoldParts DEF PendingSound
<1>4. ~holdMem.out /\ ~Queued("switch")
  BY <1>1, HoldParts DEF ScreenSound, SwitchSound, Queued
<1> QED
  BY <1>1, <1>2, <1>3, <1>4, LookupBegins

(* The lookup ends without an open tray.                                   *)
LEMMA LookupEnds ==
  ASSUME TrayFilesAssumption, HoldInv, FilesInv', lane.step = "got", lane' = Hold!NoLane, holdMem' \in Windows,
         NEW t \in Tasks, t.op \in {"settle", "fail", "offline"}, t.op = "offline" => t.label = holdMem.label,
         t.done = "no", t.snap = Hold!NoHold, writer' = writer \/ writer' = Append(writer, t),
         holdMem'.label = holdMem.label, holdMem'.append = holdMem.append, holdMem'.switching = holdMem.switching,
         holdMem'.due = holdMem.due, holdMem'.retry = holdMem.retry, holdMem'.replay = holdMem.replay,
         holdMem'.snap \in {holdMem.snap, lane.snap}, holdMem'.pending => holdMem.pending,
         \/ trayFile' = trayFile /\ ~holdMem'.out
         \/ trayFile'.scanned = <<>> /\ holdMem'.out /\ ~holdMem'.pending,
         UNCHANGED <<hold, quarantined, tray, log, completed, admitted, ids>>, holdFaults' \in 0..MaxHoldFaults
  PROVE  HoldInv'
<1>4. PICK n \in Nat : n = Len(writer)
  BY QueueShape, HoldParts
<1>0. lane.task = "lookup"
  BY HoldParts DEF LookupSound, HeadJudged, ControlTypes, Lanes
<1>1. /\ tray = Hold!NoTray /\ trayFile = Hold!NoTray /\ \A k \in DOMAIN writer : writer[k].op # "switch"
      /\ holdMem.replay = none /\ lane.label = holdMem.label /\ Taken(lane.snap) /\ Found(lane.snap)
      /\ lane.snap.state # "DRAINING"
  BY <1>0, HoldParts, LookingUp DEF LookupSound, SwitchSound
<1>2. /\ lane'.task = "none" /\ lane'.step = "idle" /\ lane'.snap = Hold!NoHold /\ lane' \in Lanes
  BY HoldShape, ControlFacts DEF Hold!NoLane, Lanes, Hold!Holds
<1>3. /\ writer' \in Seq(Tasks) /\ DOMAIN writer' \in {1..n, 1..(n + 1)} /\ DOMAIN writer = 1..n /\ n \in Nat
      /\ \A k \in 1..n : k \in DOMAIN writer' /\ writer'[k] = writer[k]
      /\ \A k \in DOMAIN writer' : k \in 1..n \/ (k = n + 1 /\ writer'[k] = t)
  BY <1>4, MaybeAdded, HoldParts
<1>5. ControlTypes'
  BY <1>2, <1>3, HoldParts DEF ControlTypes
<1>6. \A s \in Hold!Holds : (Taken(s) => Taken(s)') /\ (Found(s) => Found(s)')
  BY SameFiles
<1>7. InOrder' /\ ResultsSound' /\ \A i \in Nat : Removed(i)' <=> Removed(i)
  <2>1. \A k \in DOMAIN writer' : writer'[k].op = "offline" /\ writer'[k].fresh => writer'[k].label = holdMem'.label
    <3>1. \A k \in 1..n : writer[k].op = "offline" /\ writer[k].fresh => writer[k].label = holdMem.label
      BY <1>3, HoldParts DEF ResultsSound
    <3> QED
      BY <1>3, <3>1
  <2> QED
    BY <1>3, <1>4, <1>6, <2>1, QueueGrown
<1>8. AppendSound'
  BY <1>3, HoldParts DEF AppendSound
<1>9. SwitchSound'
  BY <1>1, <1>3 DEF SwitchSound
<1>10. DrainSound' /\ DrainingSound'
  BY <1>1, <1>3, NothingDrains DEF DrainSound, DrainingSound
<1>11. ScreenSound'
  BY <1>1, <1>2, NothingDrains DEF ScreenSound
<1>12. SnapSound'
  <2>1. CASE holdMem'.snap = holdMem.snap
    BY <1>6, <1>7, <2>1, ControlFacts, HoldParts DEF SnapSound, Taken, Found
  <2>2. CASE holdMem'.snap = lane.snap
    BY <1>1, <1>6, <2>2, ControlFacts DEF SnapSound, Taken, Found
  <2> QED
    BY <2>1, <2>2
<1>13. PendingSound' /\ AgainSound'
  BY <1>1, HoldParts DEF PendingSound, AgainSound
<1>14. ReadSound'
  BY <1>1, <1>2, NothingDrains DEF ReadSound
<1>15. LookupSound'
  BY <1>2 DEF LookupSound
<1>16. HeadJudged'
  BY <1>2 DEF HeadJudged
<1> QED
  BY <1>5, <1>7, <1>8, <1>9, <1>10, <1>11, <1>12, <1>13, <1>14, <1>15, <1>16, HoldWhole

LEMMA LookupWasStale ==
  ASSUME TrayFilesAssumption, HoldInv, Hold!LookupStale
  PROVE  HoldInv'
<1>1. /\ lane.step = "got" /\ lane' = Hold!NoLane /\ Hold!SettleStale
      /\ UNCHANGED <<hold, quarantined, tray, trayFile, log, completed, admitted, ids, holdFaults>>
  BY DEF Hold!LookupStale
<1>2. /\ holdMem'.label = holdMem.label /\ holdMem'.append = holdMem.append /\ holdMem'.switching = holdMem.switching
      /\ holdMem'.due = holdMem.due /\ holdMem'.retry = holdMem.retry /\ holdMem'.replay = holdMem.replay
      /\ holdMem'.snap = holdMem.snap /\ ~holdMem'.pending /\ holdMem'.out = holdMem.out /\ holdMem' \in Windows
  <2>1. PICK m : m = [holdMem EXCEPT !.pending = FALSE]
    OBVIOUS
  <2>2. holdMem' = [m EXCEPT !.locked = TRUE] \/ holdMem' = m
    BY <1>1, <2>1 DEF Hold!SettleStale
  <2> QED
    BY <2>1, <2>2, ControlFacts DEF Windows
<1>3. PICK t : t = Hold!Task("settle", hold.label, none, hold.id)
  OBVIOUS
<1>4. hold.label \in Labels \cup {none} /\ hold.id \in Nat
  BY HoldShape, HoldParts DEF FilesInv, FileTypes
<1>7. t \in Tasks /\ t.op = "settle" /\ t.done = "no" /\ t.snap = Hold!NoHold
  BY <1>3, <1>4, NoHoldIsHold DEF Tasks, Hold!Task
<1>8. writer' = writer \/ writer' = Append(writer, t)
  BY <1>1, <1>3 DEF Hold!SettleStale
<1>5. ~holdMem.out
  BY <1>1, HoldParts DEF ScreenSound, LookupSound, HeadJudged, ControlTypes, Lanes
<1>6. FilesInv'
  BY <1>1, FilesSame, HoldParts
<1> QED
  BY <1>1, <1>2, <1>5, <1>6, <1>7, <1>8, LookupEnds, HoldParts DEF ControlTypes

(* What the window does with an answer it has taken.                       *)
LEMMA AnswerTaken ==
  ASSUME TrayFilesAssumption, HoldInv, lane.step = "got"
  PROVE  /\ lane.task = "lookup" /\ ~holdMem.out /\ trayFile = Hold!NoTray /\ tray = Hold!NoTray
         /\ lane.label \in Labels \ DOMAIN completed /\ lane.label = holdMem.label
         /\ hold.label \in Labels \cup {none} /\ hold.id \in Nat
         /\ Hold!Answered \in Windows /\ Hold!Answered.snap \in {holdMem.snap, lane.snap}
         /\ lane.snap # Hold!NoHold => Hold!Answered.snap = lane.snap
         /\ Hold!Answered.label = holdMem.label /\ Hold!Answered.append = holdMem.append
         /\ Hold!Answered.switching = holdMem.switching /\ Hold!Answered.due = holdMem.due
         /\ Hold!Answered.retry = holdMem.retry /\ Hold!Answered.replay = holdMem.replay
         /\ Hold!Answered.pending = holdMem.pending /\ Hold!Answered.out = holdMem.out
<1>1. lane.task = "lookup"
  BY HoldParts DEF LookupSound, HeadJudged, ControlTypes, Lanes
<1>2. ~holdMem.out
  BY <1>1, HoldParts DEF ScreenSound
<1>3. hold.label \in Labels \cup {none} /\ hold.id \in Nat
  BY HoldShape, HoldParts DEF FilesInv, FileTypes
<1>4. PICK s \in Hold!Holds : /\ s = IF lane.snap = Hold!NoHold THEN holdMem.snap ELSE lane.snap
                              /\ Hold!Answered = [holdMem EXCEPT !.snap = s]
  BY ControlFacts DEF Hold!Answered
<1> QED
  BY <1>1, <1>2, <1>3, <1>4, ControlFacts, LookingUp, HoldParts DEF Windows, LookupSound

(* _mark_preflight_hold_failed                                             *)
LEMMA FailedMarked ==
  ASSUME TrayFilesAssumption, HoldInv, FilesInv', lane.step = "got", lane' = Hold!NoLane,
         NEW m \in Windows, Hold!MarkFailed(m, writer),
         m.label = holdMem.label, m.append = holdMem.append, m.switching = holdMem.switching,
         m.due = holdMem.due, m.retry = holdMem.retry, m.replay = holdMem.replay,
         m.snap \in {holdMem.snap, lane.snap}, m.pending => holdMem.pending,
         \/ trayFile' = trayFile /\ ~m.out
         \/ trayFile'.scanned = <<>> /\ m.out /\ ~m.pending,
         UNCHANGED <<hold, quarantined, tray, log, completed, admitted, ids>>, holdFaults' \in 0..MaxHoldFaults
  PROVE  HoldInv'
<1>1. /\ holdMem' \in Windows
      /\ holdMem'.label = m.label /\ holdMem'.append = m.append /\ holdMem'.switching = m.switching
      /\ holdMem'.due = m.due /\ holdMem'.retry = m.retry /\ holdMem'.replay = m.replay
      /\ holdMem'.snap = m.snap /\ holdMem'.out = m.out /\ (holdMem'.pending => m.pending)
  <2>1. PICK q : q = [m EXCEPT !.offline = FALSE]
    OBVIOUS
  <2>2. holdMem' = [q EXCEPT !.pending = FALSE] \/ holdMem' = q \/ holdMem' = [q EXCEPT !.locked = TRUE]
    BY <2>1 DEF Hold!MarkFailed
  <2> QED
    BY <2>1, <2>2 DEF Windows
<1>2. PICK t : t = Hold!Task("fail", hold.label, none, hold.id)
  OBVIOUS
<1>3. t \in Tasks /\ t.op = "fail" /\ t.done = "no" /\ t.snap = Hold!NoHold
  BY <1>2, AnswerTaken, NoHoldIsHold DEF Tasks, Hold!Task
<1>4. writer' = writer \/ writer' = Append(writer, t)
  BY <1>2 DEF Hold!MarkFailed
<1> QED
  BY <1>1, <1>3, <1>4, LookupEnds

LEMMA LookupFailed ==
  ASSUME TrayFilesAssumption, HoldInv, Hold!LookupFails
  PROVE  HoldInv'
<1>1. /\ lane.step = "got" /\ lane' = Hold!NoLane /\ Hold!MarkFailed(Hold!Answered, writer)
      /\ UNCHANGED <<hold, quarantined, tray, trayFile, log, completed, admitted, ids, holdFaults>>
  BY DEF Hold!LookupFails
<1>2. FilesInv'
  BY <1>1, FilesSame, HoldParts
<1>3. holdFaults' \in 0..MaxHoldFaults
  BY <1>1, HoldParts DEF ControlTypes
<1>4. PICK m \in Windows : m = Hold!Answered
  BY <1>1, AnswerTaken
<1> QED
  BY <1>1, <1>2, <1>3, <1>4, AnswerTaken, FailedMarked

LEMMA LookupWentOffline ==
  ASSUME TrayFilesAssumption, HoldInv, Hold!LookupOffline
  PROVE  HoldInv'
<1>1. /\ lane.step = "got" /\ lane' = Hold!NoLane
      /\ UNCHANGED <<hold, quarantined, tray, trayFile, log, completed, admitted, ids, holdFaults>>
  BY DEF Hold!LookupOffline
<1>2. FilesInv'
  BY <1>1, FilesSame, HoldParts
<1>3. holdFaults' \in 0..MaxHoldFaults
  BY <1>1, HoldParts DEF ControlTypes
<1>4. PICK a \in Windows : a = Hold!Answered
  BY <1>1, AnswerTaken
<1>5. PICK m : m = [a EXCEPT !.offline = TRUE, !.locked = FALSE]
  OBVIOUS
<1>6. /\ m \in Windows /\ m.label = a.label /\ m.append = a.append /\ m.switching = a.switching /\ m.due = a.due
      /\ m.retry = a.retry /\ m.replay = a.replay /\ m.snap = a.snap /\ m.pending = a.pending /\ m.out = a.out
  BY <1>4, <1>5 DEF Windows
<1>7. /\ m.label = holdMem.label /\ m.append = holdMem.append /\ m.switching = holdMem.switching
      /\ m.due = holdMem.due /\ m.retry = holdMem.retry /\ m.replay = holdMem.replay
      /\ m.snap \in {holdMem.snap, lane.snap} /\ (m.pending => holdMem.pending) /\ ~m.out
  BY <1>1, <1>4, <1>6, AnswerTaken
<1>8. PICK t : t = Hold!Task("offline", lane.label, none, 0)
  OBVIOUS
<1>9. t \in Tasks /\ t.op = "offline" /\ t.label = holdMem.label /\ t.done = "no" /\ t.snap = Hold!NoHold
  BY <1>1, <1>8, AnswerTaken, NoHoldIsHold DEF Tasks, Hold!Task
<1>10. (holdMem' = m /\ writer' = Append(writer, t)) \/ Hold!MarkFailed(m, writer)
  BY <1>4, <1>5, <1>8 DEF Hold!LookupOffline
<1>11. CASE holdMem' = m /\ writer' = Append(writer, t)
  BY <1>1, <1>2, <1>3, <1>6, <1>7, <1>9, <1>11, LookupEnds
<1>12. CASE Hold!MarkFailed(m, writer)
  BY <1>1, <1>2, <1>3, <1>6, <1>7, <1>12, FailedMarked
<1> QED
  BY <1>10, <1>11, <1>12

LEMMA ActivationFailed ==
  ASSUME TrayFilesAssumption, HoldInv, Hold!ActivationFails
  PROVE  HoldInv'
<1>1. /\ lane.step = "got" /\ lane.res = "ok" /\ Hold!CanApply /\ lane' = Hold!NoLane
      /\ Hold!Fault("write")
      /\ UNCHANGED <<hold, quarantined, tray, log, completed, admitted, ids>>
  BY DEF Hold!ActivationFails, Hold!Late
<1>2. holdFaults' \in 0..MaxHoldFaults
  BY <1>1, HoldParts DEF ControlTypes, Hold!Fault, TrayFilesAssumption, Hold!HoldAssumption
<1>3. PICK a \in Windows : a = Hold!Answered
  BY <1>1, AnswerTaken
<1>4. PICK m : m = [a EXCEPT !.pending = FALSE, !.offline = FALSE, !.locked = TRUE]
  OBVIOUS
<1>5. PICK w : w = [m EXCEPT !.out = TRUE]
  OBVIOUS
<1>6. /\ m \in Windows /\ m.label = a.label /\ m.append = a.append /\ m.switching = a.switching /\ m.due = a.due
      /\ m.retry = a.retry /\ m.replay = a.replay /\ m.snap = a.snap /\ ~m.pending /\ m.out = a.out
      /\ w \in Windows /\ w.label = a.label /\ w.append = a.append /\ w.switching = a.switching /\ w.due = a.due
      /\ w.retry = a.retry /\ w.replay = a.replay /\ w.snap = a.snap /\ ~w.pending /\ w.out
  BY <1>3, <1>4, <1>5 DEF Windows
<1>7. \/ trayFile' = trayFile /\ Hold!MarkFailed(m, writer)
      \/ trayFile' = Hold!NewTray /\ Hold!MarkFailed(w, writer)
  BY <1>3, <1>4, <1>5 DEF Hold!ActivationFails, Hold!Opened
<1>8. CASE trayFile' = trayFile /\ Hold!MarkFailed(m, writer)
  <2>1. FilesInv'
    BY <1>1, <1>8, FilesSame, HoldParts
  <2> QED
    BY <1>1, <1>2, <1>3, <1>6, <1>8, <2>1, AnswerTaken, FailedMarked
<1>9. CASE trayFile' = Hold!NewTray /\ Hold!MarkFailed(w, writer)
  <2>1. PICK l \in Labels \ DOMAIN completed : l = lane.label
    BY <1>1, AnswerTaken
  <2>2. trayFile' = [label |-> l, scanned |-> <<>>]
    BY <1>9, <2>1 DEF Hold!NewTray
  <2>3. hold # Hold!NoHold => hold.label = l
    BY <1>1, <2>1, AnswerTaken, HoldParts DEF Hold!CanApply, PendingSound
  <2>4. FilesInv'
    BY <1>1, <2>2, <2>3, AnswerTaken, TrayOpened, HoldParts
  <2>5. trayFile'.scanned = <<>>
    BY <2>2
  <2> QED
    BY <1>1, <1>2, <1>3, <1>6, <1>9, <2>4, <2>5, AnswerTaken, FailedMarked
<1> QED
  BY <1>7, <1>8, <1>9

(* The answer opens the tray, and the hold is asked to drain.              *)
LEMMA TrayActivated ==
  ASSUME TrayFilesAssumption, HoldInv, Hold!Activate
  PROVE  HoldInv'
<1>1. /\ lane.step = "got" /\ lane.res = "ok" /\ holdMem.pending /\ hold.id = lane.snap.id /\ lane' = Hold!NoLane
      /\ tray' = Hold!NewTray /\ trayFile' = Hold!NewTray /\ holdMem' = Hold!Opened
      /\ UNCHANGED <<hold, quarantined, log, completed, admitted, ids, holdFaults>>
  BY DEF Hold!Activate, Hold!Late, Hold!CanApply
<1>2. PICK l \in Labels \ DOMAIN completed : l = lane.label
  BY <1>1, AnswerTaken
<1>3. /\ lane.snap # Hold!NoHold /\ Taken(lane.snap) /\ Found(lane.snap) /\ lane.snap.state # "DRAINING"
      /\ \A k \in DOMAIN writer : writer[k].op # "switch" /\ writer[k].op # "drain"
      /\ holdMem.replay = none /\ ~holdMem.due
  BY <1>1, AnswerTaken, NothingDrains, HoldParts DEF LookupSound, SwitchSound
<1>4. /\ holdMem' \in Windows /\ holdMem'.snap = lane.snap /\ ~holdMem'.pending /\ ~holdMem'.out /\ ~holdMem'.due
      /\ holdMem'.label = holdMem.label /\ holdMem'.append = holdMem.append /\ holdMem'.switching = holdMem.switching
      /\ holdMem'.retry = holdMem.retry /\ holdMem'.replay = holdMem.replay
  <2>1. PICK a \in Windows : a = Hold!Answered
    BY <1>1, AnswerTaken
  <2>2. holdMem' = [a EXCEPT !.pending = FALSE, !.offline = FALSE, !.locked = TRUE]
    BY <1>1, <2>1 DEF Hold!Opened
  <2>3. /\ a.snap = lane.snap /\ a.out = holdMem.out /\ a.due = holdMem.due /\ a.label = holdMem.label
        /\ a.append = holdMem.append /\ a.switching = holdMem.switching /\ a.retry = holdMem.retry
        /\ a.replay = holdMem.replay
    BY <1>1, <1>3, <2>1, AnswerTaken
  <2>4. /\ holdMem' \in Windows /\ holdMem'.snap = a.snap /\ ~holdMem'.pending /\ holdMem'.out = a.out /\ holdMem'.due = a.due
        /\ holdMem'.label = a.label /\ holdMem'.append = a.append /\ holdMem'.switching = a.switching
        /\ holdMem'.retry = a.retry /\ holdMem'.replay = a.replay
    BY <2>2 DEF Windows
  <2>5. ~holdMem.out
    BY <1>1, AnswerTaken
  <2> QED
    BY <1>3, <2>3, <2>4, <2>5
<1>5. /\ lane'.task = "none" /\ lane'.step = "idle" /\ lane'.snap = Hold!NoHold /\ lane' \in Lanes
  BY <1>1, NoHoldIsHold, ControlFacts DEF Hold!NoLane, Lanes
<1>6. /\ tray' = [label |-> l, scanned |-> <<>>] /\ trayFile' = [label |-> l, scanned |-> <<>>]
  BY <1>1, <1>2 DEF Hold!NewTray
<1>7. hold # Hold!NoHold /\ hold.label = l
  <2>1. hold # Hold!NoHold
    BY <1>1, <1>3, ControlFacts, HoldShape
  <2> QED
    BY <1>1, <1>2, <2>1, AnswerTaken, HoldParts DEF PendingSound
<1>8. FilesInv' /\ trayFile' # Hold!NoTray
  BY <1>1, <1>6, <1>7, AnswerTaken, TrayOpened, HoldParts
<1>9. PICK n \in Nat : n = Len(writer)
  BY QueueShape, HoldParts
<1>10. PICK t : t = Hold!Task("drain", lane.label, none, 0)
  OBVIOUS
<1>11. t \in Tasks /\ t.op = "drain" /\ t.done = "no" /\ t.snap = Hold!NoHold
  BY <1>10, ControlFacts, NoHoldIsHold DEF Tasks, Hold!Task
<1>12. writer' = writer \/ writer' = Append(writer, t)
  BY <1>10 DEF Hold!Activate
<1>13. /\ writer' \in Seq(Tasks) /\ DOMAIN writer' \in {1..n, 1..(n + 1)} /\ DOMAIN writer = 1..n
       /\ \A k \in 1..n : k \in DOMAIN writer' /\ writer'[k] = writer[k]
       /\ \A k \in DOMAIN writer' : k \in 1..n \/ (k = n + 1 /\ writer'[k] = t)
  BY <1>9, <1>11, <1>12, MaybeAdded, HoldParts
<1>14. ControlTypes'
  <2>1. tray' \in TrayStates
    BY <1>6 DEF TrayStates
  <2> QED
    BY <1>1, <1>4, <1>5, <1>13, <2>1, HoldParts DEF ControlTypes
<1>15. \A s \in Hold!Holds : (Taken(s) => Taken(s)') /\ (Found(s) => Found(s)')
  BY <1>1, SameFiles
<1>16. InOrder' /\ ResultsSound' /\ \A i \in Nat : Removed(i)' <=> Removed(i)
  <2>1. \A k \in DOMAIN writer' : writer'[k].op = "offline" /\ writer'[k].fresh => writer'[k].label = holdMem'.label
    <3>1. \A k \in 1..n : writer[k].op = "offline" /\ writer[k].fresh => writer[k].label = holdMem.label
      BY <1>13, HoldParts DEF ResultsSound
    <3> QED
      BY <1>4, <1>11, <1>13, <3>1
  <2> QED
    BY <1>9, <1>11, <1>13, <1>15, <2>1, QueueGrown
<1>17. AppendSound'
  BY <1>1, <1>4, <1>11, <1>13, HoldParts DEF AppendSound
<1>18. SwitchSound'
  BY <1>3, <1>11, <1>13 DEF SwitchSound
<1>19. tray' # Hold!NoTray
  BY <1>6, <1>8
<1>20. DrainSound'
  <2>1. \A k \in DOMAIN writer' : writer'[k].op = "drain" => k = n + 1 /\ writer'[k].done = "no"
    BY <1>3, <1>11, <1>13
  <2>2. \A j \in DOMAIN writer' : ~(j > n + 1)
    BY <1>13
  <2> QED
    BY <1>3, <1>4, <1>5, <1>19, <2>1, <2>2 DEF DrainSound
<1>21. DrainingSound'
  BY <1>1, AnswerTaken, NothingDrains DEF DrainingSound
<1>22. ScreenSound'
  BY <1>4, <1>6 DEF ScreenSound
<1>23. SnapSound'
  BY <1>3, <1>4, <1>15, ControlFacts DEF SnapSound, Taken, Found
<1>24. PendingSound' /\ AgainSound'
  BY <1>1, <1>4, HoldParts DEF PendingSound, AgainSound
<1>25. ReadSound'
  BY <1>3, <1>4, <1>5 DEF ReadSound
<1>26. LookupSound' /\ HeadJudged'
  BY <1>5 DEF LookupSound, HeadJudged
<1> QED
  BY <1>8, <1>14, <1>16, <1>17, <1>18, <1>20, <1>21, <1>22, <1>23, <1>24, <1>25, <1>26, HoldWhole

(* Steps of the lookup that leave the queue alone.                         *)
LEMMA QueueAlone ==
  ASSUME TrayFilesAssumption, HoldInv, writer' = writer, holdMem'.label = holdMem.label,
         \A s \in Hold!Holds : (Taken(s) => Taken(s)') /\ (Found(s) => Found(s)')
  PROVE  InOrder' /\ ResultsSound' /\ \A i \in Nat : Removed(i)' <=> Removed(i)
<1>1. PICK n \in Nat : n = Len(writer)
  BY QueueShape, HoldParts
<1>2. writer \in Seq(Tasks) /\ DOMAIN writer = 1..n
  BY <1>1, QueueShape, HoldParts
<1>3. \A k \in DOMAIN writer : k # n + 1
  BY <1>1, <1>2
<1>4. \A k \in DOMAIN writer : writer[k].op = "offline" /\ writer[k].fresh => writer[k].label = holdMem'.label
  BY HoldParts DEF ResultsSound
<1> QED
  BY <1>1, <1>2, <1>3, <1>4, QueueGrown

LEMMA ServerAsked ==
  ASSUME TrayFilesAssumption, HoldInv, Hold!AskServer
  PROVE  HoldInv'
<1>1. /\ lane.step = "ask" /\ holdMem.replay = none
      /\ \E r \in {"ok", "offline", "fail"} : lane' = [lane EXCEPT !.step = "got", !.res = r]
      /\ UNCHANGED <<hold, quarantined, tray, trayFile, log, completed, admitted, holdMem, writer, ids>>
      /\ holdFaults' \in 0..MaxHoldFaults
  <2>1. UNCHANGED holdFaults \/ \E r \in {"offline", "fail"} : Hold!Fault("server")
    BY DEF Hold!AskServer
  <2>2. holdFaults' \in 0..MaxHoldFaults
    BY <2>1, HoldParts DEF ControlTypes, Hold!Fault, TrayFilesAssumption, Hold!HoldAssumption
  <2> QED
    BY <2>2 DEF Hold!AskServer
<1>2. lane.task = "lookup"
  BY <1>1, HoldParts DEF LookupSound, HeadJudged, ControlTypes, Lanes
<1>3. /\ lane'.task = "lookup" /\ lane'.step = "got" /\ lane'.label = lane.label /\ lane'.snap = lane.snap /\ lane' \in Lanes
  BY <1>1, <1>2, ControlFacts DEF Lanes
<1>4. FilesInv'
  BY <1>1, FilesSame, HoldParts
<1>5. ControlTypes'
  BY <1>1, <1>3, HoldParts DEF ControlTypes
<1>6. \A s \in Hold!Holds : (Taken(s) => Taken(s)') /\ (Found(s) => Found(s)')
  BY <1>1, SameFiles
<1>7. InOrder' /\ ResultsSound' /\ \A i \in Nat : Removed(i)' <=> Removed(i)
  BY <1>1, <1>6, QueueAlone
<1>8. AppendSound' /\ DrainingSound'
  BY <1>1, HoldParts DEF AppendSound, DrainingSound
<1>9. SwitchSound'
  BY <1>1, <1>2, HoldParts DEF SwitchSound
<1>10. DrainSound'
  BY <1>1, <1>2, HoldParts DEF DrainSound
<1>11. ScreenSound'
  BY <1>1, <1>2, HoldParts DEF ScreenSound
<1>12. SnapSound'
  BY <1>1, <1>6, <1>7, ControlFacts, HoldParts DEF SnapSound, Taken, Found
<1>13. PendingSound' /\ AgainSound'
  BY <1>1, HoldParts DEF PendingSound, AgainSound
<1>14. ReadSound'
  BY <1>1, <1>2, <1>3, HoldParts DEF ReadSound
<1>15. LookupSound'
  <2>1. /\ Taken(lane.snap) /\ Found(lane.snap) /\ lane.snap # Hold!NoHold
    BY <1>1, <1>2, HoldParts DEF LookupSound
  <2>2. Taken(lane.snap)' /\ Found(lane.snap)'
    BY <1>3, <1>6, <2>1, ControlFacts DEF Taken, Found
  <2> QED
    BY <1>1, <1>2, <1>3, <2>1, <2>2, HoldParts DEF LookupSound
<1>16. HeadJudged'
  BY <1>3 DEF HeadJudged
<1> QED
  BY <1>4, <1>5, <1>7, <1>8, <1>9, <1>10, <1>11, <1>12, <1>13, <1>14, <1>15, <1>16, HoldWhole

LEMMA ReplayWasRefused ==
  ASSUME TrayFilesAssumption, HoldInv, Hold!ReplayRefused
  PROVE  HoldInv'
<1>1. /\ holdMem' = [holdMem EXCEPT !.replay = none]
      /\ UNCHANGED <<hold, quarantined, tray, trayFile, log, completed, admitted, writer, lane, ids, holdFaults>>
  BY DEF Hold!ReplayRefused
<1>2. /\ holdMem'.snap = holdMem.snap /\ holdMem'.label = holdMem.label /\ (holdMem'.pending <=> holdMem.pending)
      /\ (holdMem'.append <=> holdMem.append) /\ (holdMem'.switching <=> holdMem.switching) /\ (holdMem'.due <=> holdMem.due)
      /\ (holdMem'.out <=> holdMem.out) /\ holdMem'.retry = holdMem.retry /\ holdMem'.replay = none /\ holdMem' \in Windows
  BY <1>1, ControlFacts DEF Windows
<1>4. FilesInv'
  BY <1>1, FilesSame, HoldParts
<1>5. ControlTypes'
  BY <1>1, <1>2, HoldParts DEF ControlTypes
<1>6. \A s \in Hold!Holds : (Taken(s) => Taken(s)') /\ (Found(s) => Found(s)')
  BY <1>1, SameFiles
<1>7. InOrder' /\ ResultsSound' /\ \A i \in Nat : Removed(i)' <=> Removed(i)
  BY <1>1, <1>2, <1>6, QueueAlone
<1>8. AppendSound' /\ DrainingSound'
  BY <1>1, <1>2, HoldParts DEF AppendSound, DrainingSound
<1>9. SwitchSound'
  BY <1>1, <1>2, HoldParts DEF SwitchSound, Queued
<1>10. DrainSound'
  BY <1>1, <1>2, HoldParts DEF DrainSound
<1>11. ScreenSound'
  BY <1>1, <1>2, HoldParts DEF ScreenSound
<1>12. SnapSound'
  BY <1>2, <1>6, <1>7, ControlFacts, HoldParts DEF SnapSound, Taken, Found
<1>13. PendingSound' /\ AgainSound'
  BY <1>1, <1>2, HoldParts DEF PendingSound, AgainSound
<1>14. ReadSound'
  BY <1>1, <1>2, HoldParts DEF ReadSound
<1>15. LookupSound'
  <2>1. lane.task = "lookup" => Taken(lane.snap)' /\ Found(lane.snap)'
    BY <1>1, <1>6, ControlFacts, HoldParts DEF LookupSound, Taken, Found
  <2> QED
    BY <1>1, <1>2, <2>1, HoldParts DEF LookupSound
<1>16. HeadJudged'
  BY <1>1, HoldParts DEF HeadJudged, HeadDecided, HeadTold, Unjudged, Logged, Saved, Done, ItemId, Hold!ScanId
<1> QED
  BY <1>4, <1>5, <1>7, <1>8, <1>9, <1>10, <1>11, <1>12, <1>13, <1>14, <1>15, <1>16, HoldWhole

(* The hold of the label is begun, or taken up again.                      *)
LEMMA HoldPrepared ==
  ASSUME TrayFilesAssumption, HoldInv, lane.step = "hold", FilesInv', hold' # Hold!NoHold, hold'.label = lane.label,
         hold'.state = "LOOKUP" \/ hold' = hold, hold.state # "DRAINING",
         \A s \in Hold!Holds : (Taken(s) => Taken(s)') /\ (Found(s) => Found(s)'),
         lane' = [lane EXCEPT !.step = "ask", !.snap = hold'],
         UNCHANGED <<quarantined, tray, trayFile, log, completed, admitted, holdMem, writer, holdFaults>>
  PROVE  HoldInv'
<1>1. /\ lane.task = "lookup" /\ tray = Hold!NoTray /\ trayFile = Hold!NoTray
      /\ \A k \in DOMAIN writer : writer[k].op # "switch" /\ writer[k].op # "drain"
      /\ lane.label \in Labels \ DOMAIN completed /\ lane.label = holdMem.label /\ holdMem.replay = none
      /\ holdMem.snap.state # "DRAINING"
  <2>1. lane.task = "lookup"
    BY HoldParts DEF LookupSound, HeadJudged, ControlTypes, Lanes
  <2>2. tray = Hold!NoTray /\ trayFile = Hold!NoTray
    BY <2>1, LookingUp
  <2> QED
    BY <2>1, <2>2, NothingDrains, HoldParts DEF LookupSound, SwitchSound
<1>2. hold' \in Hold!Holds /\ hold'.state # "DRAINING" /\ hold'.id <= ids'
  BY DEF FilesInv, FileTypes, IdsSound
<1>3. /\ lane'.task = "lookup" /\ lane'.step = "ask" /\ lane'.label = lane.label /\ lane'.snap = hold' /\ lane' \in Lanes
  BY <1>1, <1>2, ControlFacts DEF Lanes
<1>5. ControlTypes'
  BY <1>3, HoldParts DEF ControlTypes
<1>7. InOrder' /\ ResultsSound' /\ \A i \in Nat : Removed(i)' <=> Removed(i)
  BY QueueAlone
<1>8. AppendSound' /\ DrainingSound'
  BY <1>1, <1>2, HoldParts DEF AppendSound, DrainingSound
<1>9. SwitchSound'
  BY <1>1 DEF SwitchSound
<1>10. DrainSound'
  BY <1>1 DEF DrainSound
<1>11. ScreenSound'
  BY <1>1, HoldParts DEF ScreenSound
<1>12. SnapSound'
  BY <1>7, ControlFacts, HoldParts DEF SnapSound, Taken, Found
<1>13. PendingSound' /\ AgainSound'
  BY <1>1, HoldParts DEF PendingSound, AgainSound
<1>14. ReadSound'
  BY <1>1, <1>3 DEF ReadSound
<1>15. LookupSound'
  <2>1. Taken(lane.snap)' /\ Found(lane.snap)'
    <3>1. \A q \in quarantined : q.id # hold'.id
      BY DEF FilesInv, IdsSound
    <3> QED
      BY <1>2, <1>3, <3>1 DEF Taken, Found, Files
  <2> QED
    BY <1>1, <1>2, <1>3, <2>1, HoldParts DEF LookupSound
<1>16. HeadJudged'
  BY <1>3 DEF HeadJudged
<1> QED
  BY <1>5, <1>7, <1>8, <1>9, <1>10, <1>11, <1>12, <1>13, <1>14, <1>15, <1>16, HoldWhole

LEMMA HoldRefused ==
  ASSUME TrayFilesAssumption, HoldInv, lane.step = "hold", lane' = [lane EXCEPT !.step = "got", !.res = "fail"],
         UNCHANGED <<hold, quarantined, tray, trayFile, log, completed, admitted, holdMem, writer, ids>>,
         holdFaults' \in 0..MaxHoldFaults
  PROVE  HoldInv'
<1>1. /\ lane.task = "lookup" /\ tray = Hold!NoTray /\ trayFile = Hold!NoTray
      /\ \A k \in DOMAIN writer : writer[k].op # "switch" /\ writer[k].op # "drain"
      /\ lane.label \in Labels \ DOMAIN completed /\ lane.label = holdMem.label /\ holdMem.replay = none
      /\ holdMem.snap.state # "DRAINING" /\ lane.snap = Hold!NoHold
  <2>1. lane.task = "lookup"
    BY HoldParts DEF LookupSound, HeadJudged, ControlTypes, Lanes
  <2>2. tray = Hold!NoTray /\ trayFile = Hold!NoTray
    BY <2>1, LookingUp
  <2> QED
    BY <2>1, <2>2, NothingDrains, HoldParts DEF LookupSound, SwitchSound
<1>3. /\ lane'.task = "lookup" /\ lane'.step = "got" /\ lane'.res = "fail" /\ lane'.label = lane.label /\ lane'.snap = Hold!NoHold
      /\ lane' \in Lanes
  BY <1>1, ControlFacts DEF Lanes
<1>4. FilesInv'
  BY FilesSame, HoldParts
<1>5. ControlTypes'
  BY <1>3, HoldParts DEF ControlTypes
<1>6. \A s \in Hold!Holds : (Taken(s) => Taken(s)') /\ (Found(s) => Found(s)')
  BY SameFiles
<1>7. InOrder' /\ ResultsSound' /\ \A i \in Nat : Removed(i)' <=> Removed(i)
  BY <1>6, QueueAlone
<1>8. AppendSound' /\ DrainingSound'
  BY HoldParts DEF AppendSound, DrainingSound
<1>9. SwitchSound'
  BY <1>1 DEF SwitchSound
<1>10. DrainSound'
  BY <1>1 DEF DrainSound
<1>11. ScreenSound'
  BY <1>1, HoldParts DEF ScreenSound
<1>12. SnapSound'
  BY <1>6, <1>7, ControlFacts, HoldParts DEF SnapSound, Taken, Found
<1>13. PendingSound' /\ AgainSound'
  BY HoldParts DEF PendingSound, AgainSound
<1>14. ReadSound'
  BY <1>1, <1>3 DEF ReadSound
<1>15. LookupSound'
  <2>1. Taken(lane.snap)' /\ Found(lane.snap)' /\ lane'.snap.state # "DRAINING"
    BY <1>3, FileFacts, HoldParts DEF Taken, Found
  <2> QED
    BY <1>1, <1>3, <2>1, HoldParts DEF LookupSound
<1>16. HeadJudged'
  BY <1>3 DEF HeadJudged
<1> QED
  BY <1>4, <1>5, <1>7, <1>8, <1>9, <1>10, <1>11, <1>12, <1>13, <1>14, <1>15, <1>16, HoldWhole

LEMMA HoldAskedFor ==
  ASSUME TrayFilesAssumption, HoldInv, Hold!PrepareHold
  PROVE  HoldInv'
<1>1. lane.step = "hold" /\ UNCHANGED <<quarantined, tray, trayFile, log, completed, admitted, holdMem, writer>>
  BY DEF Hold!PrepareHold
<1>2. PICK l \in Labels : l = lane.label /\ lane.task = "lookup"
  BY <1>1, HoldParts DEF LookupSound, HeadJudged, ControlTypes, Lanes
<1>3. /\ trayFile = Hold!NoTray /\ \A q \in quarantined : q.label # l
  BY <1>1, <1>2, HoldParts DEF LookupSound
<1>4. CASE /\ hold = Hold!NoHold /\ ids < MaxHolds /\ ids' = ids + 1 /\ lane' = [lane EXCEPT !.step = "ask", !.snap = hold']
           /\ hold' = [label |-> l, id |-> ids + 1, state |-> "LOOKUP", offline |-> FALSE, items |-> <<>>]
           /\ UNCHANGED holdFaults
  <2>1. FilesInv'
    BY <1>1, <1>3, <1>4, HoldBegun, HoldParts
  <2>2. /\ hold'.id = ids + 1 /\ hold'.label = l /\ hold'.state = "LOOKUP" /\ ids \in Nat /\ hold.id = 0
    BY <1>4, FileFacts, HoldParts
  <2>3. hold' # Hold!NoHold
    BY <2>2, FileFacts, HoldParts
  <2>4. \A s \in Hold!Holds : (Taken(s) => Taken(s)') /\ (Found(s) => Found(s)')
    <3> SUFFICES ASSUME NEW s \in Hold!Holds, s # Hold!NoHold PROVE (Taken(s) => Taken(s)') /\ (Found(s) => Found(s)')
      BY DEF Taken, Found
    <3>1. s.id \in Nat /\ s.id # 0
      BY HoldShape
    <3> QED
      BY <1>1, <1>4, <2>2, <3>1 DEF Taken, Found, Files
  <2>5. hold.state # "DRAINING"
    BY <1>4, FileFacts, HoldParts
  <2> QED
    BY <1>1, <1>2, <1>4, <2>1, <2>2, <2>3, <2>4, <2>5, HoldPrepared
<1>5. CASE /\ hold.label = l /\ hold.state # "DRAINING" /\ lane' = [lane EXCEPT !.step = "ask", !.snap = hold']
           /\ hold' = IF hold.state = "LOOKUP_FAILED"
                      THEN [hold EXCEPT !.state = "LOOKUP", !.offline = FALSE] ELSE hold
           /\ UNCHANGED <<ids, holdFaults>>
  <2>1. hold # Hold!NoHold /\ hold \in Hold!Holds
    BY <1>2, <1>5, ControlFacts, HoldParts DEF FilesInv, FileTypes
  <2>2. hold \in [label : Labels, id : 1..MaxHolds, state : {"LOOKUP", "LOOKUP_FAILED", "DRAINING"},
                  offline : BOOLEAN, items : Seq([seq : 1..HoldCapacity, code : Codes])]
    BY <2>1 DEF Hold!Holds, Hold!Items, Hold!States
  <2>3. /\ hold' \in [label : Labels, id : 1..MaxHolds, state : {"LOOKUP", "LOOKUP_FAILED", "DRAINING"},
                      offline : BOOLEAN, items : Seq([seq : 1..HoldCapacity, code : Codes])]
        /\ hold'.id = hold.id /\ hold'.label = hold.label /\ hold'.items = hold.items
        /\ hold'.state = "LOOKUP" \/ hold' = hold
    BY <1>5, <2>2
  <2>4. hold' \in Hold!Holds /\ hold' # Hold!NoHold
    BY <2>1, <2>3, ControlFacts, NoHoldIsHold DEF Hold!Holds, Hold!Items, Hold!States
  <2>5. FilesInv'
    BY <1>1, <1>3, <1>5, <2>1, <2>3, <2>4, HoldMarked, HoldParts
  <2>6. \A s \in Hold!Holds : (Taken(s) => Taken(s)') /\ (Found(s) => Found(s)')
    BY <1>1, <1>5, <2>3, MarkedFiles
  <2> QED
    BY <1>1, <1>2, <1>5, <2>3, <2>4, <2>5, <2>6, HoldPrepared
<1>6. CASE /\ lane' = [lane EXCEPT !.step = "got", !.res = "fail"] /\ UNCHANGED <<hold, ids>>
           /\ UNCHANGED holdFaults \/ Hold!Fault("write")
  <2>1. holdFaults' \in 0..MaxHoldFaults
    BY <1>6, HoldParts DEF ControlTypes, Hold!Fault, TrayFilesAssumption, Hold!HoldAssumption
  <2> QED
    BY <1>1, <1>6, <2>1, HoldRefused
<1> QED
  BY <1>1, <1>2, <1>4, <1>5, <1>6 DEF Hold!PrepareHold

-----------------------------------------------------------------------------
(* Scanning while the lookup runs.                                         *)

(* A product is scanned.                                                   *)
LEMMA ProductHeld ==
  ASSUME TrayFilesAssumption, HoldInv, NEW c \in Codes, Hold!ScanHeld(c)
  PROVE  HoldInv'
<1>1. /\ holdMem.pending /\ ~holdMem.append
      /\ UNCHANGED <<hold, quarantined, tray, trayFile, log, completed, admitted, lane, ids, holdFaults>>
  BY DEF Hold!ScanHeld
<1>2. /\ tray = Hold!NoTray /\ trayFile = Hold!NoTray
      /\ \A k \in DOMAIN writer : writer[k].op # "switch" /\ writer[k].op # "drain" /\ writer[k].op # "append"
      /\ hold.state # "DRAINING" /\ holdMem.label \in Labels /\ holdMem.replay = none
      /\ hold # Hold!NoHold => hold.label = holdMem.label
  BY <1>1, LookingUp, NothingDrains, HoldParts DEF SwitchSound, AppendSound, PendingSound
<1>3. PICK n \in Nat : n = Len(writer)
  BY QueueShape, HoldParts
<1>4. PICK t : t = Hold!Task("append", holdMem.label, c, 0)
  OBVIOUS
<1>5. t \in Tasks /\ t.op = "append" /\ t.label = holdMem.label /\ t.code = c /\ t.done = "no" /\ t.snap = Hold!NoHold
  BY <1>2, <1>4, NoHoldIsHold DEF Tasks, Hold!Task
<1>6. \/ writer' = Append(writer, t) /\ holdMem' = [holdMem EXCEPT !.append = TRUE]
      \/ writer' = writer /\ holdMem' = [holdMem EXCEPT !.locked = TRUE]
  BY <1>4 DEF Hold!ScanHeld
<1>7. /\ holdMem'.snap = holdMem.snap /\ holdMem'.label = holdMem.label /\ (holdMem'.pending <=> holdMem.pending)
      /\ (holdMem'.switching <=> holdMem.switching) /\ (holdMem'.due <=> holdMem.due)
      /\ (holdMem'.out <=> holdMem.out) /\ holdMem'.retry = holdMem.retry /\ holdMem'.replay = holdMem.replay
      /\ holdMem' \in Windows /\ (writer' = writer \/ holdMem'.append)
  BY <1>6, ControlFacts DEF Windows
<1>8. /\ writer' \in Seq(Tasks) /\ DOMAIN writer' \in {1..n, 1..(n + 1)} /\ DOMAIN writer = 1..n
      /\ \A k \in 1..n : k \in DOMAIN writer' /\ writer'[k] = writer[k]
      /\ \A k \in DOMAIN writer' : k \in 1..n \/ (k = n + 1 /\ writer'[k] = t)
  BY <1>3, <1>5, <1>6, MaybeAdded, HoldParts
<1>9. FilesInv'
  BY <1>1, FilesSame, HoldParts
<1>10. ControlTypes'
  BY <1>1, <1>7, <1>8, HoldParts DEF ControlTypes
<1>11. \A s \in Hold!Holds : (Taken(s) => Taken(s)') /\ (Found(s) => Found(s)')
  BY <1>1, SameFiles
<1>12. InOrder' /\ ResultsSound' /\ \A i \in Nat : Removed(i)' <=> Removed(i)
  <2>1. \A k \in DOMAIN writer' : writer'[k].op = "offline" /\ writer'[k].fresh => writer'[k].label = holdMem'.label
    <3>1. \A k \in 1..n : writer[k].op = "offline" /\ writer[k].fresh => writer[k].label = holdMem.label
      BY <1>8, HoldParts DEF ResultsSound
    <3> QED
      BY <1>5, <1>7, <1>8, <3>1
  <2> QED
    BY <1>3, <1>5, <1>8, <1>11, <2>1, QueueGrown
<1>13. AppendSound'
  <2>1. \A k \in DOMAIN writer' : writer'[k].op = "append" => k = n + 1 /\ writer'[k] = t /\ holdMem'.append
    <3>1. writer' = writer => \A k \in DOMAIN writer' : writer'[k].op # "append"
      BY <1>2
    <3> QED
      BY <1>2, <1>7, <1>8, <3>1
  <2> QED
    BY <1>1, <1>2, <1>5, <1>7, <2>1 DEF AppendSound
<1>14. SwitchSound'
  BY <1>2, <1>5, <1>8 DEF SwitchSound
<1>15. DrainSound' /\ DrainingSound'
  BY <1>1, <1>2, <1>5, <1>8 DEF DrainSound, DrainingSound
<1>16. ScreenSound'
  BY <1>1, <1>7, HoldParts DEF ScreenSound
<1>17. SnapSound'
  BY <1>7, <1>11, <1>12, ControlFacts, HoldParts DEF SnapSound, Taken, Found
<1>18. PendingSound' /\ AgainSound'
  BY <1>1, <1>7, HoldParts DEF PendingSound, AgainSound
<1>19. ReadSound'
  BY <1>1, <1>2, <1>7, NothingDrains DEF ReadSound
<1>20. LookupSound'
  <2>1. lane.task = "lookup" => Taken(lane.snap)' /\ Found(lane.snap)'
    BY <1>1, <1>11, ControlFacts, HoldParts DEF LookupSound, Taken, Found
  <2> QED
    BY <1>1, <1>7, <2>1, HoldParts DEF LookupSound
<1>21. HeadJudged'
  BY <1>1, <1>2, NothingDrains DEF HeadJudged
<1> QED
  BY <1>9, <1>10, <1>12, <1>13, <1>14, <1>15, <1>16, <1>17, <1>18, <1>19, <1>20, <1>21, HoldWhole

(* What the window finds in the hold file.                                 *)
LEMMA WindowRestored ==
  ASSUME TrayFilesAssumption, HoldInv, NEW m \in Windows, NEW t \in TrayStates, NEW w, w = Hold!RestoreHold(m, t),
         hold.state = "DRAINING" => t.label = hold.label
  PROVE  /\ w \in Windows /\ w.snap = hold
         /\ w.label = m.label /\ (w.pending <=> m.pending) /\ (w.append <=> m.append) /\ (w.switching <=> m.switching)
         /\ (w.out <=> m.out) /\ w.retry = m.retry /\ (w.replay = m.replay \/ (hold # Hold!NoHold /\ w.replay = hold.label))
         /\ w.due => m.due \/ hold.state = "DRAINING"
         /\ Taken(hold) /\ Found(hold)
<1>1. hold \in Hold!Holds /\ hold.label \in Labels \cup {none}
  BY HoldShape, HoldParts DEF FilesInv, FileTypes
<1>2. PICK s : s = [m EXCEPT !.snap = hold]
  OBVIOUS
<1>3. \/ w = s
      \/ hold.state = "DRAINING" /\ w = [s EXCEPT !.locked = TRUE, !.draining = t.label = hold.label,
                                                  !.due = t.label = hold.label]
      \/ hold # Hold!NoHold /\ w = [s EXCEPT !.locked = FALSE, !.replay = hold.label]
      \/ w = [s EXCEPT !.locked = TRUE, !.notice = TRUE]
  <2>1. CASE hold = Hold!NoHold
    <3>1. hold.state # "DRAINING" /\ ~Hold!Offline(hold)
      BY <2>1, FileFacts, HoldParts DEF Hold!Offline
    <3> QED
      BY <1>2, <2>1, <3>1 DEF Hold!RestoreHold
  <2>2. CASE hold # Hold!NoHold /\ hold.state = "DRAINING"
    <3>1. ~Hold!Offline(hold)
      BY <2>2 DEF Hold!Offline
    <3> QED
      BY <1>2, <2>2, <3>1 DEF Hold!RestoreHold
  <2>3. CASE hold # Hold!NoHold /\ hold.state # "DRAINING" /\ Hold!Offline(hold)
    BY <1>2, <2>3 DEF Hold!RestoreHold
  <2>4. CASE hold # Hold!NoHold /\ hold.state # "DRAINING" /\ ~Hold!Offline(hold)
    BY <1>2, <2>4 DEF Hold!RestoreHold
  <2> QED
    BY <2>1, <2>2, <2>3, <2>4
<1>4. Taken(hold) /\ Found(hold)
  <2>1. \A q \in quarantined : q.id # hold.id
    BY HoldParts DEF FilesInv, IdsSound
  <2> QED
    BY <2>1, HoldParts DEF FilesInv, IdsSound, Taken, Found, Files
<1> QED
  BY <1>1, <1>2, <1>3, <1>4 DEF Windows

(* Another label is scanned: the hold is to be set aside.                  *)
LEMMA LabelSwitched ==
  ASSUME TrayFilesAssumption, HoldInv, NEW l \in Labels, Hold!SwitchLabel(l)
  PROVE  HoldInv'
<1>1. /\ holdMem.pending /\ ~holdMem.append /\ ~holdMem.switching /\ tray = Hold!NoTray /\ lane.task = "none"
      /\ UNCHANGED <<hold, quarantined, tray, trayFile, log, completed, admitted, lane, ids, holdFaults>>
  BY DEF Hold!SwitchLabel, Hold!LaneIdle
<1>2. /\ trayFile = Hold!NoTray
      /\ \A k \in DOMAIN writer : writer[k].op # "switch" /\ writer[k].op # "drain" /\ writer[k].op # "append"
      /\ hold.state # "DRAINING" /\ holdMem.replay = none /\ holdMem.snap.state # "DRAINING" /\ ~holdMem.due /\ ~holdMem.out
  BY <1>1, LookingUp, NothingDrains, HoldParts DEF SwitchSound, AppendSound, PendingSound, ScreenSound
<1>3. PICK n \in Nat : n = Len(writer)
  BY QueueShape, HoldParts
<1>4. PICK v : v = Hold!Stale(writer)
  OBVIOUS
<1>5. /\ v \in Seq(Tasks) /\ DOMAIN v = 1..n /\ Len(v) = n /\ DOMAIN writer = 1..n
      /\ \A k \in 1..n : /\ v[k].op = writer[k].op /\ v[k].label = writer[k].label /\ v[k].code = writer[k].code
                         /\ v[k].done = writer[k].done /\ v[k].snap = writer[k].snap /\ v[k].fresh = FALSE
  BY <1>3, <1>4, QueueShape, TasksStale, HoldParts
<1>6. PICK t : t = Hold!Task("switch", l, none, holdMem.snap.id)
  OBVIOUS
<1>7. t \in Tasks /\ t.op = "switch" /\ t.label = l /\ t.done = "no" /\ t.snap = Hold!NoHold
  <2>1. holdMem.snap.id \in Nat
    BY ControlFacts, HoldShape
  <2> QED
    BY <1>6, <2>1, NoHoldIsHold DEF Tasks, Hold!Task
<1>8. PICK m : m = [holdMem EXCEPT !.pending = FALSE, !.offline = FALSE, !.retry = none]
  OBVIOUS
<1>9. \/ writer' = Append(v, t) /\ holdMem' = [m EXCEPT !.switching = TRUE, !.locked = TRUE]
      \/ writer' = v /\ holdMem' = Hold!RestoreHold([m EXCEPT !.snap = Hold!NoHold], tray)
  BY <1>4, <1>6, <1>8 DEF Hold!SwitchLabel, Hold!Cancelled
<1>10. /\ holdMem'.label = holdMem.label /\ ~holdMem'.pending /\ ~holdMem'.append /\ ~holdMem'.due /\ ~holdMem'.out
       /\ holdMem'.retry = none /\ (holdMem'.replay = none \/ (hold # Hold!NoHold /\ holdMem'.replay = hold.label))
       /\ holdMem' \in Windows /\ (writer' = v \/ holdMem'.switching)
       /\ holdMem'.snap = holdMem.snap \/ (holdMem'.snap = hold /\ Taken(hold) /\ Found(hold))
  <2>1. CASE writer' = Append(v, t) /\ holdMem' = [m EXCEPT !.switching = TRUE, !.locked = TRUE]
    BY <1>1, <1>2, <1>8, <2>1, ControlFacts DEF Windows
  <2>2. CASE writer' = v /\ holdMem' = Hold!RestoreHold([m EXCEPT !.snap = Hold!NoHold], tray)
    <3>1. PICK w : w = [m EXCEPT !.snap = Hold!NoHold]
      OBVIOUS
    <3>2. /\ w \in Windows /\ w.label = holdMem.label /\ ~w.pending /\ ~w.append /\ ~w.due /\ ~w.out /\ w.retry = none
          /\ w.replay = none
      BY <1>1, <1>2, <1>8, <3>1, ControlFacts, NoHoldIsHold DEF Windows
    <3>3. PICK u : u = Hold!RestoreHold(w, tray)
      OBVIOUS
    <3>4. /\ u \in Windows /\ u.snap = hold /\ u.label = w.label /\ (u.pending <=> w.pending) /\ (u.append <=> w.append)
          /\ (u.out <=> w.out) /\ u.retry = w.retry /\ (u.replay = w.replay \/ (hold # Hold!NoHold /\ u.replay = hold.label))
          /\ (u.due => w.due) /\ Taken(hold) /\ Found(hold)
      BY <1>2, <3>2, <3>3, WindowRestored, ControlFacts
    <3> QED
      BY <2>2, <3>1, <3>2, <3>3, <3>4
  <2> QED
    BY <1>9, <2>1, <2>2
<1>11. /\ writer' \in Seq(Tasks) /\ DOMAIN writer' \in {1..n, 1..(n + 1)}
       /\ \A k \in 1..n : k \in DOMAIN writer' /\ writer'[k] = v[k]
       /\ \A k \in DOMAIN writer' : k \in 1..n \/ (k = n + 1 /\ writer'[k] = t /\ writer' # v)
  <2>1. CASE writer' = Append(v, t)
    BY <1>5, <1>7, <2>1, Appended
  <2>2. CASE writer' = v
    BY <1>5, <2>2
  <2> QED
    BY <1>9, <2>1, <2>2
<1>12. FilesInv'
  BY <1>1, FilesSame, HoldParts
<1>13. ControlTypes'
  BY <1>1, <1>10, <1>11, HoldParts DEF ControlTypes
<1>14. \A s \in Hold!Holds : (Taken(s) => Taken(s)') /\ (Found(s) => Found(s)')
  BY <1>1, SameFiles
<1>15. InOrder' /\ ResultsSound' /\ \A i \in Nat : Removed(i)' <=> Removed(i)
  <2>1. \A k \in DOMAIN writer' : ~(writer'[k].op = "offline" /\ writer'[k].fresh)
    BY <1>5, <1>7, <1>11
  <2>2. \A k \in 1..n : /\ writer'[k].op = writer[k].op /\ writer'[k].done = writer[k].done
                        /\ writer'[k].snap = writer[k].snap
    BY <1>5, <1>11
  <2> QED
    BY <1>3, <1>7, <1>11, <1>14, <2>1, <2>2, QueueGrown
<1>16. \A k \in DOMAIN writer' : \/ k \in 1..n /\ writer'[k].op \notin {"append", "drain", "switch"}
                                 \/ k = n + 1 /\ writer'[k] = t /\ holdMem'.switching
  BY <1>2, <1>5, <1>10, <1>11
<1>17. AppendSound' /\ DrainSound' /\ DrainingSound'
  BY <1>1, <1>2, <1>7, <1>16 DEF AppendSound, DrainSound, DrainingSound
<1>18. SwitchSound'
  BY <1>1, <1>2, <1>7, <1>10, <1>16 DEF SwitchSound, Queued
<1>19. ScreenSound'
  BY <1>1, <1>2, <1>10 DEF ScreenSound
<1>20. SnapSound'
  <2>1. CASE holdMem'.snap = holdMem.snap
    BY <2>1, <1>14, <1>15, ControlFacts, HoldParts DEF SnapSound, Taken, Found
  <2>2. CASE holdMem'.snap = hold /\ Taken(hold) /\ Found(hold)
    <3>1. Taken(hold)' /\ Found(hold)'
      BY <1>1, <2>2 DEF Taken, Found, Files
    <3> QED
      BY <1>1, <2>2, <3>1 DEF SnapSound, Taken, Found
  <2> QED
    BY <1>10, <2>1, <2>2
<1>21. PendingSound' /\ AgainSound'
  BY <1>1, <1>10 DEF PendingSound, AgainSound
<1>22. ReadSound'
  BY <1>1, <1>2, <1>10 DEF ReadSound
<1>23. LookupSound' /\ HeadJudged'
  BY <1>1, HoldParts DEF LookupSound, HeadJudged
<1> QED
  BY <1>12, <1>13, <1>15, <1>17, <1>18, <1>19, <1>20, <1>21, <1>22, <1>23, HoldWhole

-----------------------------------------------------------------------------
(* Scanning into the open tray, and its completion.                        *)

(* Nothing of the hold stands in the way of the open tray.                 *)
LEMMA Unblocked ==
  ASSUME TrayFilesAssumption, HoldInv, tray # Hold!NoTray, ~Hold!Blocks(holdMem), lane.task = "none"
  PROVE  /\ hold = Hold!NoHold /\ hold.state # "DRAINING" /\ holdMem.snap = Hold!NoHold
         /\ holdMem.snap.state # "DRAINING" /\ ~holdMem.pending /\ ~holdMem.due /\ ~holdMem.out
         /\ tray = trayFile
         /\ \A k \in DOMAIN writer : writer[k].op # "switch" /\ writer[k].op # "drain"
<1>1. hold = Hold!NoHold /\ holdMem.snap = Hold!NoHold /\ ~holdMem.pending
  BY DEF Hold!Blocks
<1>2. ~holdMem.due /\ ~holdMem.out /\ tray = trayFile
  BY <1>1, HoldParts DEF ScreenSound
<1>3. \A k \in DOMAIN writer : writer[k].op # "switch" /\ writer[k].op # "drain"
  BY <1>1, <1>2, HoldParts DEF SwitchSound, DrainSound
<1> QED
  BY <1>1, <1>2, <1>3, FileFacts, HoldParts

(* The tray changes, and the window, the queue and the lane wait.          *)
LEMMA TrayChanged ==
  ASSUME TrayFilesAssumption, HoldInv, tray # Hold!NoTray, ~Hold!Blocks(holdMem), lane.task = "none",
         FilesInv', tray' = trayFile', tray' \in TrayStates,
         UNCHANGED <<hold, quarantined, log, admitted, holdMem, writer, lane, ids, holdFaults>>
  PROVE  HoldInv'
<1>1. \A s \in Hold!Holds : (Taken(s) => Taken(s)') /\ (Found(s) => Found(s)')
  BY SameFiles
<1>2. InOrder' /\ ResultsSound' /\ \A i \in Nat : Removed(i)' <=> Removed(i)
  BY <1>1, QueueAlone
<1>3. ControlTypes'
  BY HoldParts DEF ControlTypes
<1>4. AppendSound'
  BY HoldParts DEF AppendSound
<1>5. SwitchSound' /\ DrainSound' /\ DrainingSound'
  BY Unblocked DEF SwitchSound, DrainSound, DrainingSound
<1>6. ScreenSound' /\ PendingSound'
  BY Unblocked DEF ScreenSound, PendingSound
<1>7. SnapSound' /\ AgainSound'
  BY <1>1, <1>2, ControlFacts, HoldParts DEF SnapSound, Taken, Found, AgainSound
<1>8. ReadSound' /\ LookupSound' /\ HeadJudged'
  BY Unblocked, HoldParts DEF ReadSound, LookupSound, HeadJudged
<1> QED
  BY <1>2, <1>3, <1>4, <1>5, <1>6, <1>7, <1>8, HoldWhole

LEMMA ProductScanned ==
  ASSUME TrayFilesAssumption, HoldInv, NEW c \in Codes, Hold!ScanLive(c)
  PROVE  HoldInv'
<1>1. /\ tray # Hold!NoTray /\ ~Hold!Blocks(holdMem) /\ lane.task = "none" /\ Len(tray.scanned) < TraySize
      /\ tray' = [tray EXCEPT !.scanned = Append(@, [code |-> c, receipt |-> Hold!LiveScan])]
      /\ trayFile' = tray'
      /\ UNCHANGED <<hold, quarantined, log, completed, admitted, holdMem, writer, lane, ids, holdFaults>>
  BY DEF Hold!ScanLive, Hold!LaneIdle
<1>2. tray = trayFile /\ hold = Hold!NoHold
  BY <1>1, Unblocked
<1>3. FilesInv'
  BY <1>1, <1>2, LiveSaved, HoldParts
<1>4. tray' \in TrayStates
  BY <1>1, <1>3 DEF FilesInv, FileTypes
<1> QED
  BY <1>1, <1>3, <1>4, TrayChanged

LEMMA TrayCompleted ==
  ASSUME TrayFilesAssumption, HoldInv, Hold!CompleteTray
  PROVE  HoldInv'
<1>1. /\ tray # Hold!NoTray /\ ~Hold!Blocks(holdMem) /\ lane.task = "none"
      /\ completed' = [l \in DOMAIN completed \cup {tray.label} |->
                         IF l = tray.label THEN tray.scanned ELSE completed[l]]
      /\ tray' = Hold!NoTray /\ trayFile' = Hold!NoTray
      /\ UNCHANGED <<hold, quarantined, log, admitted, holdMem, writer, lane, ids, holdFaults>>
  BY DEF Hold!CompleteTray, Hold!LaneIdle
<1>2. tray = trayFile /\ hold = Hold!NoHold
  BY <1>1, Unblocked
<1>3. FilesInv'
  BY <1>1, <1>2, TrayDone, HoldParts
<1>4. tray' \in TrayStates
  BY <1>1, <1>3 DEF FilesInv, FileTypes
<1> QED
  BY <1>1, <1>3, <1>4, TrayChanged

-----------------------------------------------------------------------------
(* A new process, a login and a new day begin with what is in the files.   *)
LEMMA WindowBegins == ASSUME TrayFilesAssumption PROVE Hold!NoMem \in Windows /\ Hold!NoLane \in Lanes
  BY NoHoldIsHold DEF Hold!NoMem, Hold!NoLane, Windows, Lanes

LEMMA Restarted ==
  ASSUME TrayFilesAssumption, HoldInv, tray' = trayFile, holdMem' = Hold!RestoreHold(Hold!NoMem, trayFile),
         writer' = <<>>, lane' = Hold!NoLane \/ (lane' = lane /\ lane.task = "none"), holdFaults' \in 0..MaxHoldFaults,
         UNCHANGED <<hold, quarantined, trayFile, log, completed, admitted, ids>>
  PROVE  HoldInv'
<1>1. hold.state = "DRAINING" =>
        /\ trayFile.label = hold.label /\ trayFile # Hold!NoTray /\ hold.items # <<>> /\ hold # Hold!NoHold
  <2>1. SUFFICES ASSUME hold.state = "DRAINING"
                 PROVE  trayFile.label = hold.label /\ trayFile # Hold!NoTray /\ hold.items # <<>> /\ hold # Hold!NoHold
    OBVIOUS
  <2>2. hold # Hold!NoHold /\ hold.label # none
    BY <2>1, FileFacts, HoldParts
  <2>3. tray.label = hold.label /\ hold.items # <<>>
    BY <2>1, HoldParts DEF DrainingSound
  <2>4. tray # Hold!NoTray /\ tray = trayFile
    BY <2>2, <2>3, ControlFacts, HoldParts DEF ScreenSound
  <2> QED
    BY <2>2, <2>3, <2>4
<1>2. PICK m \in Windows : m = Hold!NoMem
  BY WindowBegins
<1>3. /\ m.label = none /\ ~m.pending /\ ~m.append /\ ~m.switching /\ ~m.out /\ ~m.due
      /\ m.retry = none /\ m.replay = none
  BY <1>2 DEF Hold!NoMem
<1>4. PICK t \in TrayStates : t = trayFile
  BY HoldParts DEF FilesInv, FileTypes
<1>5. PICK w : w = Hold!RestoreHold(m, t)
  OBVIOUS
<1>6. /\ w \in Windows /\ w.snap = hold /\ ~w.pending /\ ~w.switching /\ ~w.out /\ w.retry = none
      /\ w.replay = none \/ (hold # Hold!NoHold /\ w.replay = hold.label)
      /\ w.due => hold.state = "DRAINING"
      /\ Taken(hold) /\ Found(hold)
  BY <1>1, <1>3, <1>4, <1>5, WindowRestored
<1>7. holdMem' = w
  BY <1>2, <1>4, <1>5
<1>8. lane' \in Lanes /\ lane'.task = "none" /\ lane'.step = "idle"
  <2>1. CASE lane' = Hold!NoLane
    BY <2>1, WindowBegins DEF Hold!NoLane
  <2>2. CASE lane' = lane /\ lane.task = "none"
    BY <2>2, ControlFacts, HoldParts DEF LookupSound
  <2> QED
    BY <2>1, <2>2
<1>9. FilesInv'
  BY FilesSame, HoldParts
<1>10. ControlTypes'
  <2>1. writer' \in Seq(Tasks)
    OBVIOUS
  <2> QED
    BY <1>4, <1>6, <1>7, <1>8, <2>1 DEF ControlTypes
<1>11. InOrder' /\ ResultsSound' /\ AppendSound' /\ SwitchSound' /\ DrainSound'
  BY DEF InOrder, ResultsSound, AppendSound, SwitchSound, DrainSound
<1>12. DrainingSound'
  BY <1>1 DEF DrainingSound
<1>13. ScreenSound'
  BY <1>1, <1>6, <1>7 DEF ScreenSound
<1>14. SnapSound'
  <2>1. Taken(hold)' /\ Found(hold)'
    BY <1>6 DEF Taken, Found, Files
  <2> QED
    BY <1>6, <1>7, <2>1 DEF SnapSound, Taken, Found
<1>15. PendingSound' /\ AgainSound'
  BY <1>6, <1>7 DEF PendingSound, AgainSound
<1>16. ReadSound'
  BY <1>1, <1>6, <1>7, <1>8 DEF ReadSound
<1>17. LookupSound' /\ HeadJudged'
  BY <1>8 DEF LookupSound, HeadJudged
<1> QED
  BY <1>9, <1>10, <1>11, <1>12, <1>13, <1>14, <1>15, <1>16, <1>17, HoldWhole

LEMMA LoggedIn ==
  ASSUME TrayFilesAssumption, HoldInv, Hold!Login
  PROVE  HoldInv'
<1>1. /\ tray' = trayFile /\ holdMem' = Hold!RestoreHold(Hold!NoMem, trayFile) /\ writer' = <<>>
      /\ lane' = lane /\ lane.task = "none"
      /\ UNCHANGED <<hold, quarantined, trayFile, log, completed, admitted, ids, holdFaults>>
  BY DEF Hold!Login, Hold!LaneIdle
<1>2. holdFaults' \in 0..MaxHoldFaults
  BY <1>1, HoldParts DEF ControlTypes
<1> QED
  BY <1>1, <1>2, Restarted

LEMMA DayClosed ==
  ASSUME TrayFilesAssumption, HoldInv, Hold!Close
  PROVE  HoldInv'
<1>1. /\ tray' = trayFile /\ holdMem' = Hold!RestoreHold(Hold!NoMem, trayFile) /\ writer' = <<>>
      /\ lane' = lane /\ lane.task = "none"
      /\ UNCHANGED <<hold, quarantined, trayFile, log, completed, admitted, ids, holdFaults>>
  BY DEF Hold!Close, Hold!LaneIdle, Hold!Quiet
<1>2. holdFaults' \in 0..MaxHoldFaults
  BY <1>1, HoldParts DEF ControlTypes
<1> QED
  BY <1>1, <1>2, Restarted

LEMMA Crashed ==
  ASSUME TrayFilesAssumption, HoldInv, Hold!Crash
  PROVE  HoldInv'
<1>1. /\ tray' = trayFile /\ holdMem' = Hold!RestoreHold(Hold!NoMem, trayFile) /\ writer' = <<>>
      /\ lane' = Hold!NoLane /\ Hold!Fault("crash")
      /\ UNCHANGED <<hold, quarantined, trayFile, log, completed, admitted, ids>>
  BY DEF Hold!Crash
<1>2. holdFaults' \in 0..MaxHoldFaults
  BY <1>1, HoldParts DEF ControlTypes, Hold!Fault, TrayFilesAssumption, Hold!HoldAssumption
<1> QED
  BY <1>1, <1>2, Restarted

-----------------------------------------------------------------------------
(* What a person decides.                                                  *)

(* The window changes, and the queue is empty.                             *)
LEMMA PersonDecides ==
  ASSUME TrayFilesAssumption, HoldInv, FilesInv', writer = <<>>, lane.step \notin {"hold", "got"}, ~holdMem.out,
         holdMem' \in Windows, ~holdMem'.out, holdMem'.label = holdMem.label, holdMem'.retry = holdMem.retry,
         holdMem'.switching <=> holdMem.switching, holdMem'.pending => holdMem.pending /\ holdMem'.replay = none,
         holdMem'.due => tray # Hold!NoTray /\ holdMem'.snap # Hold!NoHold,
         Taken(holdMem.snap)', Found(holdMem.snap)',
         \/ UNCHANGED <<hold, quarantined>> /\ holdMem'.snap = holdMem.snap
         \/ hold'.state # "DRAINING" /\ holdMem'.snap.state # "DRAINING" /\ lane.task # "drain" /\ ~holdMem'.pending,
         \A s \in Hold!Holds : (Taken(s) => Taken(s)') /\ (Found(s) => Found(s)'),
         holdMem'.replay # none => \/ hold' = Hold!NoHold \/ hold'.label = holdMem'.replay
                                   \/ \E q \in quarantined' : q.label = holdMem'.replay,
         UNCHANGED <<tray, trayFile, log, completed, admitted, writer, lane, ids, holdFaults>>
  PROVE  HoldInv'
<1>1. ControlTypes'
  BY HoldParts DEF ControlTypes
<1>2. InOrder' /\ ResultsSound' /\ AppendSound' /\ SwitchSound' /\ DrainSound'
  BY DEF InOrder, ResultsSound, AppendSound, SwitchSound, DrainSound
<1>3. DrainingSound'
  BY HoldParts DEF DrainingSound
<1>4. ScreenSound'
  BY HoldParts DEF ScreenSound
<1>5. SnapSound'
  BY DEF SnapSound, Taken, Found
<1>6. PendingSound' /\ AgainSound'
  BY HoldParts DEF PendingSound, AgainSound
<1>7. ReadSound'
  BY HoldParts DEF ReadSound
<1>8. LookupSound'
  <2>1. lane.task = "lookup" => Taken(lane.snap)' /\ Found(lane.snap)'
    BY ControlFacts, HoldParts DEF LookupSound, Taken, Found
  <2> QED
    BY <2>1, HoldParts DEF LookupSound
<1>9. HeadJudged'
  <2>1. CASE lane.task # "drain"
    BY <2>1 DEF HeadJudged
  <2>2. CASE UNCHANGED <<hold, quarantined>>
    BY <2>2, HoldParts DEF HeadJudged, HeadDecided, HeadTold, Unjudged, Saved, Logged, Done, ItemId, Hold!ScanId
  <2> QED
    BY <2>1, <2>2
<1> QED
  BY <1>1, <1>2, <1>3, <1>4, <1>5, <1>6, <1>7, <1>8, <1>9, HoldWhole

LEMMA NoticeRead ==
  ASSUME TrayFilesAssumption, HoldInv, Hold!AckNotice
  PROVE  HoldInv'
<1>1. /\ writer = <<>> /\ lane.step \notin {"hold", "got"} /\ ~holdMem.out
      /\ UNCHANGED <<hold, quarantined, tray, trayFile, log, completed, admitted, writer, lane, ids, holdFaults>>
  BY DEF Hold!AckNotice, Hold!Quiet
<1>2. PICK m : m = [holdMem EXCEPT !.notice = FALSE]
  OBVIOUS
<1>3. \/ /\ m.snap.state = "DRAINING" /\ holdMem' = [m EXCEPT !.due = TRUE]
      \/ /\ m.snap.state \in {"LOOKUP", "LOOKUP_FAILED"} /\ tray = Hold!NoTray /\ ~m.pending
         /\ holdMem' = [m EXCEPT !.locked = FALSE, !.replay = m.snap.label]
      \/ holdMem' = m
  <2>1. CASE m.snap.state = "DRAINING" /\ m.draining
    BY <1>2, <2>1 DEF Hold!AckNotice
  <2>2. CASE ~(m.snap.state = "DRAINING" /\ m.draining)
             /\ m.snap.state \in {"LOOKUP", "LOOKUP_FAILED"} /\ tray = Hold!NoTray /\ ~m.pending
    BY <1>2, <2>2 DEF Hold!AckNotice
  <2>3. CASE ~(m.snap.state = "DRAINING" /\ m.draining)
             /\ ~(m.snap.state \in {"LOOKUP", "LOOKUP_FAILED"} /\ tray = Hold!NoTray /\ ~m.pending)
    BY <1>2, <2>3 DEF Hold!AckNotice
  <2> QED
    BY <2>1, <2>2, <2>3
<1>4. /\ m \in Windows /\ m.snap = holdMem.snap /\ m.label = holdMem.label /\ m.retry = holdMem.retry
      /\ m.replay = holdMem.replay /\ (m.switching <=> holdMem.switching) /\ (m.pending <=> holdMem.pending)
      /\ (m.due <=> holdMem.due) /\ (m.out <=> holdMem.out)
  BY <1>2, ControlFacts DEF Windows
<1>5. holdMem.snap.label \in Labels \cup {none}
  BY HoldShape, ControlFacts
<1>6. /\ holdMem' \in Windows /\ holdMem'.snap = holdMem.snap /\ holdMem'.label = holdMem.label
      /\ holdMem'.retry = holdMem.retry /\ (holdMem'.switching <=> holdMem.switching)
      /\ (holdMem'.pending <=> holdMem.pending) /\ (holdMem'.out <=> holdMem.out)
      /\ (holdMem'.due => holdMem.due \/ holdMem.snap.state = "DRAINING")
      /\ \/ holdMem'.replay = holdMem.replay
         \/ holdMem'.replay = holdMem.snap.label /\ ~holdMem'.pending
            /\ holdMem.snap.state \in {"LOOKUP", "LOOKUP_FAILED"}
  BY <1>3, <1>4, <1>5 DEF Windows
<1>7. Taken(holdMem.snap) /\ Found(holdMem.snap)
  BY <1>1, HoldParts DEF SnapSound, Removed
<1>8. holdMem'.due => tray # Hold!NoTray /\ holdMem'.snap # Hold!NoHold
  BY <1>6, Reading, HoldParts DEF ScreenSound
<1>9. holdMem.snap.state \in {"LOOKUP", "LOOKUP_FAILED"} =>
        hold.label = holdMem.snap.label \/ \E q \in quarantined : q.label = holdMem.snap.label
  <2>1. holdMem.snap.state \in {"LOOKUP", "LOOKUP_FAILED"} => holdMem.snap # Hold!NoHold
    BY HoldShape, ControlFacts
  <2> QED
    BY <1>7, <2>1 DEF Taken, Found, Files
<1>10. holdMem'.replay # none => \/ hold' = Hold!NoHold \/ hold'.label = holdMem'.replay
                                 \/ \E q \in quarantined' : q.label = holdMem'.replay
  BY <1>1, <1>6, <1>9, HoldParts DEF AgainSound
<1>11. FilesInv'
  BY <1>1, FilesSame, HoldParts
<1>12. Taken(holdMem.snap)' /\ Found(holdMem.snap)'
  BY <1>1, <1>6, <1>7 DEF Taken, Found, Files
<1>13. holdMem'.pending => holdMem.pending /\ holdMem'.replay = none
  BY <1>6, HoldParts DEF PendingSound
<1>14. \A s \in Hold!Holds : (Taken(s) => Taken(s)') /\ (Found(s) => Found(s)')
  BY <1>1, SameFiles
<1> QED
  BY <1>1, <1>6, <1>8, <1>10, <1>11, <1>12, <1>13, <1>14, PersonDecides

LEMMA SupervisorSetAside ==
  ASSUME TrayFilesAssumption, HoldInv, Hold!SupervisorQuarantine
  PROVE  HoldInv'
<1>1. /\ writer = <<>> /\ lane.step \notin {"hold", "got"} /\ ~holdMem.out /\ tray = Hold!NoTray
      /\ hold.state \in {"LOOKUP", "LOOKUP_FAILED"}
      /\ quarantined' = quarantined \cup {hold} /\ hold' = Hold!NoHold
      /\ holdMem' = [holdMem EXCEPT !.snap = Hold!NoHold, !.draining = FALSE, !.pending = FALSE, !.locked = FALSE]
      /\ UNCHANGED <<tray, trayFile, log, completed, admitted, writer, lane, ids, holdFaults>>
  BY DEF Hold!SupervisorQuarantine, Hold!Quiet
<1>2. hold # Hold!NoHold /\ hold.id # 0 /\ trayFile = Hold!NoTray
  BY <1>1, FileFacts, HoldParts DEF ScreenSound
<1>3. FilesInv'
  BY <1>1, <1>2, HoldSetAside, HoldParts
<1>4. /\ holdMem' \in Windows /\ holdMem'.snap = Hold!NoHold /\ holdMem'.label = holdMem.label
      /\ holdMem'.retry = holdMem.retry /\ (holdMem'.switching <=> holdMem.switching)
      /\ ~holdMem'.pending /\ (holdMem'.out <=> holdMem.out) /\ (holdMem'.due <=> holdMem.due)
  BY <1>1, ControlFacts, NoHoldIsHold DEF Windows
<1>5. \A s \in Hold!Holds : (Taken(s) => Taken(s)') /\ (Found(s) => Found(s)')
  <2> SUFFICES ASSUME NEW s \in Hold!Holds, s # Hold!NoHold PROVE (Taken(s) => Taken(s)') /\ (Found(s) => Found(s)')
    BY DEF Taken, Found
  <2>1. s.id # 0 /\ Hold!NoHold.id = 0
    BY HoldShape
  <2> QED
    BY <1>1, <2>1 DEF Taken, Found, Files
<1>6. ~holdMem.due /\ lane.task # "drain" /\ hold'.state # "DRAINING" /\ holdMem'.snap.state # "DRAINING"
  BY <1>1, <1>4, NothingDrains, FileFacts, HoldParts
<1>7. Taken(holdMem.snap)' /\ Found(holdMem.snap)'
  BY <1>4 DEF Taken, Found
<1> QED
  BY <1>1, <1>3, <1>4, <1>5, <1>6, <1>7, PersonDecides

LEMMA HoldRestored ==
  ASSUME TrayFilesAssumption, HoldInv, NEW q \in quarantined, Hold!RestoreQuarantined(q)
  PROVE  HoldInv'
<1>1. /\ writer = <<>> /\ lane.step \notin {"hold", "got"} /\ ~holdMem.out /\ tray = Hold!NoTray
      /\ hold = Hold!NoHold /\ ~holdMem.pending
      /\ hold' = q /\ quarantined' = quarantined \ {q}
      /\ \/ holdMem' = [holdMem EXCEPT !.snap = q, !.locked = FALSE, !.replay = q.label]
         \/ holdMem' = [holdMem EXCEPT !.snap = q, !.locked = TRUE, !.notice = TRUE] /\ holdMem.replay = none
      /\ UNCHANGED <<tray, trayFile, log, completed, admitted, writer, lane, ids, holdFaults>>
  BY DEF Hold!RestoreQuarantined, Hold!Quiet, Hold!Blocks
<1>2. trayFile = Hold!NoTray /\ ~holdMem.due /\ lane.task # "drain"
  BY <1>1, NothingDrains, HoldParts DEF ScreenSound
<1>3. q \in Hold!Holds /\ q # Hold!NoHold /\ q.label \in Labels /\ q.state # "DRAINING" /\ q.id <= ids
  <2>1. q \in Hold!Holds /\ q # Hold!NoHold
    BY FileFacts, HoldParts
  <2> QED
    BY <2>1, HoldShape, HoldParts DEF FilesInv, IdsSound
<1>4. FilesInv'
  BY <1>1, <1>2, HoldBack, HoldParts
<1>5. /\ holdMem' \in Windows /\ holdMem'.snap = q /\ holdMem'.label = holdMem.label
      /\ holdMem'.retry = holdMem.retry /\ (holdMem'.switching <=> holdMem.switching)
      /\ ~holdMem'.pending /\ (holdMem'.out <=> holdMem.out) /\ (holdMem'.due <=> holdMem.due)
      /\ holdMem'.replay \in {none, q.label}
  BY <1>1, <1>3, ControlFacts DEF Windows
<1>6. \A s \in Hold!Holds : (Taken(s) => Taken(s)') /\ (Found(s) => Found(s)')
  <2> SUFFICES ASSUME NEW s \in Hold!Holds, s # Hold!NoHold PROVE (Taken(s) => Taken(s)') /\ (Found(s) => Found(s)')
    BY DEF Taken, Found
  <2>1. s.id # 0 /\ Hold!NoHold.id = 0
    BY HoldShape
  <2> QED
    BY <1>1, <2>1 DEF Taken, Found, Files
<1>7. Taken(holdMem.snap)' /\ Found(holdMem.snap)'
  <2>1. \A p \in quarantined : p.id = q.id => p = q
    BY HoldParts DEF FilesInv, IdsSound
  <2> QED
    BY <1>1, <1>3, <1>5, <2>1 DEF Taken, Found, Files
<1> QED
  BY <1>1, <1>2, <1>3, <1>4, <1>5, <1>6, <1>7, PersonDecides

-----------------------------------------------------------------------------
(* The drain.                                                              *)

(* One step of the drain that leaves the hold as it is.                    *)
LEMMA HeadStep ==
  ASSUME TrayFilesAssumption, HoldInv, FilesInv', tray # Hold!NoTray, tray = trayFile, ~holdMem.out,
         tray' = trayFile', trayFile' # Hold!NoTray, tray' \in TrayStates, tray'.label = tray.label,
         \A k \in DOMAIN writer : writer[k].op # "drain",
         holdMem' \in Windows, holdMem'.snap = holdMem.snap, holdMem'.label = holdMem.label,
         holdMem'.pending <=> holdMem.pending, holdMem'.append <=> holdMem.append, holdMem'.out <=> holdMem.out,
         holdMem'.retry = holdMem.retry, holdMem'.replay = holdMem.replay,
         holdMem'.due => holdMem.due, lane' \in Lanes,
         \/ lane'.task = "none" /\ lane'.step = "idle"
         \/ lane'.task = "drain" /\ (lane.task = "drain" \/ holdMem.snap.state = "DRAINING"),
         HeadJudged', holdFaults' \in 0..MaxHoldFaults,
         UNCHANGED <<hold, quarantined, completed, admitted, writer, ids>>
  PROVE  HoldInv'
<1>1. \A s \in Hold!Holds : (Taken(s) => Taken(s)') /\ (Found(s) => Found(s)')
  BY SameFiles
<1>2. InOrder' /\ ResultsSound' /\ \A i \in Nat : Removed(i)' <=> Removed(i)
  BY <1>1, QueueAlone
<1>3. ControlTypes'
  BY HoldParts DEF ControlTypes
<1>4. ~holdMem.pending /\ \A k \in DOMAIN writer : writer[k].op # "switch"
  BY HoldParts DEF PendingSound, SwitchSound
<1>5. AppendSound'
  BY HoldParts DEF AppendSound
<1>6. SwitchSound' /\ DrainSound' /\ PendingSound'
  BY <1>4 DEF SwitchSound, DrainSound, PendingSound
<1>7. DrainingSound'
  BY HoldParts DEF DrainingSound
<1>8. ScreenSound'
  BY HoldParts DEF ScreenSound
<1>9. SnapSound'
  BY <1>1, <1>2, ControlFacts, HoldParts DEF SnapSound, Taken, Found
<1>10. AgainSound' /\ LookupSound'
  BY HoldParts DEF AgainSound, LookupSound
<1>11. ReadSound'
  BY HoldParts DEF ReadSound
<1> QED
  BY <1>2, <1>3, <1>5, <1>6, <1>7, <1>8, <1>9, <1>10, <1>11, HoldWhole

(* The window and the file agree on the head.                              *)
LEMMA HeadRead ==
  ASSUME TrayFilesAssumption, HoldInv, holdMem.snap.state = "DRAINING" \/ lane.task = "drain"
  PROVE  Hold!HeadItem = hold.items[1] /\ Hold!HeadId = ItemId(hold, 1)
<1>1. hold.items # <<>> /\ hold.id = holdMem.snap.id /\ hold.items = holdMem.snap.items
  BY Reading
<1>2. hold.items[1] = Head(hold.items)
  BY <1>1, HeadShape, HoldParts
<1> QED
  BY <1>1, <1>2 DEF Hold!HeadItem, Hold!HeadId, ItemId, Hold!ScanId

(* Verdict                                                                 *)
LEMMA VerdictGiven ==
  ASSUME TrayFilesAssumption, HoldInv, holdMem.snap.state = "DRAINING"
  PROVE  /\ Hold!Verdict \in {"old", "reject", "new"}
         /\ Hold!Verdict = "old" => Saved(ItemId(hold, 1))
         /\ Hold!Verdict = "reject" =>
              /\ ~Saved(ItemId(hold, 1))
              /\ \/ hold.items[1].code \in BadCodes
                 \/ \E j \in DOMAIN tray.scanned : tray.scanned[j].code = hold.items[1].code
                 \/ Len(tray.scanned) >= TraySize
         /\ Hold!Verdict = "new" => Unjudged(ItemId(hold, 1)) /\ Len(tray.scanned) < TraySize
<1>1. /\ hold # Hold!NoHold /\ tray # Hold!NoTray /\ trayFile = tray /\ hold.items # <<>>
      /\ trayFile.label = hold.label
  BY Reading
<1>2. PICK c : c = hold.items[1].code
  OBVIOUS
<1>3. PICK id : id = ItemId(hold, 1)
  OBVIOUS
<1>4. /\ c \in Codes /\ id # Hold!LiveScan /\ ~Done(id) /\ 1 \in DOMAIN hold.items
      /\ \E a \in admitted : a.id = id /\ a.code = c
  BY <1>1, <1>2, <1>3, HeadShape, HoldParts
<1>5. /\ trayFile.scanned \in Seq(Products) /\ Len(trayFile.scanned) \in Nat /\ TraySize \in Nat
  BY TrayShape, HoldParts
<1>6. Hold!InTray(c, id) <=> Saved(id)
  <2>1. ASSUME NEW k \in DOMAIN trayFile.scanned, trayFile.scanned[k].receipt = id
        PROVE  trayFile.scanned[k] = [code |-> c, receipt |-> id]
    <3>1. PICK a \in admitted : a.id = id /\ a.code = c
      BY <1>4
    <3>2. PICK b \in admitted : b.id = id /\ b.code = trayFile.scanned[k].code
      BY <2>1, <1>4, HoldParts DEF FilesInv, LogSound, TraysSound, TraySound
    <3>3. a = b
      BY <3>1, <3>2, HoldParts DEF FilesInv, ScansSound, AcceptedSound
    <3>4. trayFile.scanned[k] \in Products
      BY <1>5, <2>1, Element
    <3> QED
      BY <2>1, <3>1, <3>2, <3>3, <3>4 DEF Products
  <2> QED
    BY <1>1, <2>1 DEF Hold!InTray, Saved
<1>7. c \in Hold!CodesOf(tray) <=> \E j \in DOMAIN tray.scanned : tray.scanned[j].code = c
  BY DEF Hold!CodesOf
<1>8. Hold!HeadItem.code = c /\ Hold!HeadId = id
  BY <1>2, <1>3, HeadRead
<1>9. CASE Hold!InTray(c, id)
  <2>1. Hold!Verdict = "old"
    BY <1>8, <1>9 DEF Hold!Verdict
  <2> QED
    BY <1>3, <1>6, <1>9, <2>1
<1>10. CASE ~Hold!InTray(c, id) /\ c \in Hold!CodesOf(tray) \cup BadCodes
  <2>1. Hold!Verdict = "reject"
    BY <1>8, <1>10 DEF Hold!Verdict
  <2> QED
    BY <1>2, <1>3, <1>6, <1>7, <1>10, <2>1
<1>11. CASE ~Hold!InTray(c, id) /\ c \notin Hold!CodesOf(tray) \cup BadCodes /\ Len(tray.scanned) >= TraySize
  <2>1. Hold!Verdict = "reject"
    BY <1>8, <1>11 DEF Hold!Verdict
  <2> QED
    BY <1>3, <1>6, <1>11, <2>1
<1>12. CASE ~Hold!InTray(c, id) /\ c \notin Hold!CodesOf(tray) \cup BadCodes /\ ~(Len(tray.scanned) >= TraySize)
  <2>1. Hold!Verdict = "new"
    BY <1>8, <1>12 DEF Hold!Verdict
  <2>2. ~Logged(id)
    <3> SUFFICES ASSUME NEW k \in DOMAIN log, log[k][2] = id PROVE FALSE
      BY DEF Logged
    <3>1. log[k][1] # "SCAN_OK"
      BY <1>4, <1>6, <1>12, HoldParts DEF FilesInv, LogSound, VerdictsSound
    <3>2. log[k] \in {"SCAN_OK", "SCAN_FAIL"} \X Receipts
      BY Element, HoldParts DEF FilesInv, FileTypes
    <3>3. log[k] = <<"SCAN_FAIL", id>>
      BY <3>1, <3>2
    <3>4. \/ c \in BadCodes
          \/ \E j \in DOMAIN trayFile.scanned : trayFile.scanned[j].code = c
          \/ Len(trayFile.scanned) >= TraySize
      BY <1>2, <1>3, <1>4, <3>3, HoldParts DEF FilesInv, HeadSound
    <3> QED
      BY <1>1, <1>7, <1>12, <3>4
  <2> QED
    BY <1>1, <1>3, <1>4, <1>5, <1>6, <1>12, <2>1, <2>2 DEF Unjudged
<1> QED
  BY <1>9, <1>10, <1>11, <1>12

(* _drain_preflight_hold_head                                              *)
LEMMA HeadLookedAt ==
  ASSUME TrayFilesAssumption, HoldInv, Hold!DrainHead
  PROVE  HoldInv'
<1>1. /\ holdMem.due /\ lane.task = "none"
      /\ UNCHANGED <<hold, quarantined, tray, trayFile, log, completed, admitted, writer, ids, holdFaults>>
  BY DEF Hold!DrainHead, Hold!LaneIdle
<1>2. /\ tray # Hold!NoTray /\ holdMem.snap # Hold!NoHold /\ tray = trayFile /\ ~holdMem.out
      /\ \A k \in DOMAIN writer : writer[k].op # "drain"
  BY <1>1, HoldParts DEF ScreenSound, DrainSound
<1>3. FilesInv' /\ holdFaults' \in 0..MaxHoldFaults /\ tray' \in TrayStates
  BY <1>1, FilesSame, ControlFacts, HoldParts DEF ControlTypes
<1>4. CASE /\ holdMem.snap.state = "DRAINING"
           /\ lane' = [Hold!NoLane EXCEPT !.task = "drain", !.res = Hold!Verdict,
                                          !.step = IF Hold!Verdict = "new" THEN "save" ELSE "log"]
           /\ holdMem' = [holdMem EXCEPT !.due = FALSE, !.notice = Hold!Verdict = "reject"]
  <2>1. PICK v \in {"old", "reject", "new"} : v = Hold!Verdict
    BY <1>4, VerdictGiven
  <2>2. /\ lane' \in Lanes /\ lane'.task = "drain" /\ lane'.res = v
        /\ lane'.step = IF v = "new" THEN "save" ELSE "log"
    BY <1>4, <2>1, NoHoldIsHold DEF Hold!NoLane, Lanes
  <2>3. /\ holdMem' \in Windows /\ holdMem'.snap = holdMem.snap /\ holdMem'.label = holdMem.label
        /\ (holdMem'.pending <=> holdMem.pending) /\ (holdMem'.append <=> holdMem.append)
        /\ (holdMem'.out <=> holdMem.out) /\ holdMem'.retry = holdMem.retry /\ holdMem'.replay = holdMem.replay
        /\ ~holdMem'.due
    BY <1>4, ControlFacts DEF Windows
  <2>4. HeadJudged'
    <3>1. /\ lane'.step \in {"save", "log"} /\ (lane'.step = "save" <=> v = "new")
      BY <2>1, <2>2
    <3>2. v = "new" => (Unjudged(ItemId(hold, 1)) /\ Len(tray.scanned) < TraySize)'
      BY <1>1, <1>4, <2>1, VerdictGiven DEF Unjudged, Logged, Saved, Done, ItemId, Hold!ScanId
    <3>3. v # "new" => HeadDecided'
      BY <1>1, <1>4, <2>1, <2>2, VerdictGiven DEF HeadDecided, Saved, ItemId, Hold!ScanId
    <3> QED
      BY <2>2, <3>1, <3>2, <3>3 DEF HeadJudged
  <2> QED
    BY <1>1, <1>2, <1>3, <1>4, <2>2, <2>3, <2>4, HeadStep
<1>5. CASE holdMem' = [holdMem EXCEPT !.due = FALSE] /\ lane' = lane
  <2>1. /\ holdMem' \in Windows /\ holdMem'.snap = holdMem.snap /\ holdMem'.label = holdMem.label
        /\ (holdMem'.pending <=> holdMem.pending) /\ (holdMem'.append <=> holdMem.append)
        /\ (holdMem'.out <=> holdMem.out) /\ holdMem'.retry = holdMem.retry /\ holdMem'.replay = holdMem.replay
        /\ ~holdMem'.due
    BY <1>5, ControlFacts DEF Windows
  <2>2. lane' \in Lanes /\ lane'.task = "none" /\ lane'.step = "idle"
    BY <1>1, <1>5, ControlFacts, HoldParts DEF LookupSound
  <2>3. HeadJudged'
    BY <2>2 DEF HeadJudged
  <2> QED
    BY <1>1, <1>2, <1>3, <2>1, <2>2, <2>3, HeadStep
<1> QED
  BY <1>4, <1>5 DEF Hold!DrainHead

(* What the drain works on.                                                *)
LEMMA Draining ==
  ASSUME TrayFilesAssumption, HoldInv, lane.task = "drain"
  PROVE  /\ hold # Hold!NoHold /\ tray # Hold!NoTray /\ trayFile = tray /\ ~holdMem.out /\ hold.state # "LOOKUP"
         /\ hold.items # <<>> /\ ~holdMem.pending
         /\ \A k \in DOMAIN writer : writer[k].op # "drain" /\ writer[k].op # "switch"
         /\ holdMem \in Windows /\ lane \in Lanes /\ tray \in TrayStates
<1>1. hold # Hold!NoHold /\ tray # Hold!NoTray /\ trayFile = tray /\ ~holdMem.out /\ hold.state # "LOOKUP"
      /\ hold.items # <<>>
  BY Reading
<1>2. ~holdMem.pending /\ \A k \in DOMAIN writer : writer[k].op # "drain" /\ writer[k].op # "switch"
  BY <1>1, HoldParts DEF PendingSound, SwitchSound, DrainSound
<1> QED
  BY <1>1, <1>2, ControlFacts

LEMMA HeadPutInTray ==
  ASSUME TrayFilesAssumption, HoldInv, Hold!DrainSave
  PROVE  HoldInv'
<1>1. /\ lane.task = "drain" /\ lane.step = "save"
      /\ tray' = [tray EXCEPT !.scanned = Append(@, [code |-> Hold!HeadItem.code, receipt |-> Hold!HeadId])]
      /\ trayFile' = tray' /\ lane' = [lane EXCEPT !.step = "log"]
      /\ UNCHANGED <<hold, quarantined, log, completed, admitted, holdMem, writer, ids, holdFaults>>
  BY DEF Hold!DrainSave
<1>2. PICK id : id = ItemId(hold, 1)
  OBVIOUS
<1>3. PICK c : c = hold.items[1].code
  OBVIOUS
<1>4. Hold!HeadItem.code = c /\ Hold!HeadId = id
  BY <1>1, <1>2, <1>3, HeadRead
<1>5. /\ hold.items # <<>> /\ hold.state # "LOOKUP" /\ trayFile # Hold!NoTray /\ trayFile = tray
  BY <1>1, Draining
<1>6. Unjudged(ItemId(hold, 1)) /\ Len(trayFile.scanned) < TraySize /\ lane.res = "new"
  BY <1>1, <1>5, HoldParts DEF HeadJudged
<1>7. trayFile' = [trayFile EXCEPT !.scanned = Append(@, [code |-> c, receipt |-> id])]
  BY <1>1, <1>4, <1>5
<1>8. FilesInv' /\ Saved(id)' /\ trayFile' # Hold!NoTray
  BY <1>1, <1>2, <1>3, <1>5, <1>6, <1>7, HeadSaved, HoldParts
<1>9. lane' \in Lanes /\ lane'.task = "drain" /\ lane'.step = "log" /\ lane'.res = "new"
  BY <1>1, <1>6, Draining DEF Lanes
<1>10. tray' \in TrayStates /\ tray'.label = tray.label
  <2>1. tray' \in TrayStates
    BY <1>1, <1>8 DEF FilesInv, FileTypes
  <2>2. tray \in TrayStates
    BY <1>1, Draining
  <2> QED
    BY <1>1, <2>1, <2>2 DEF TrayStates
<1>11. HeadJudged'
  <2>1. Saved(ItemId(hold, 1))'
    BY <1>1, <1>2, <1>8 DEF Saved, ItemId, Hold!ScanId
  <2>2. HeadDecided'
    BY <1>9, <2>1 DEF HeadDecided
  <2> QED
    BY <1>9, <2>2 DEF HeadJudged
<1>12. holdFaults' \in 0..MaxHoldFaults
  BY <1>1, HoldParts DEF ControlTypes
<1> QED
  BY <1>1, <1>8, <1>9, <1>10, <1>11, <1>12, Draining, HeadStep

LEMMA HeadEventLogged ==
  ASSUME TrayFilesAssumption, HoldInv, Hold!DrainLog
  PROVE  HoldInv'
<1>1. /\ lane.task = "drain" /\ lane.step = "log"
      /\ log' = IF Hold!HeadEvent \in Hold!ToSet(log) THEN log ELSE Append(log, Hold!HeadEvent)
      /\ lane' = [lane EXCEPT !.step = "ack"]
      /\ UNCHANGED <<hold, quarantined, tray, trayFile, completed, admitted, holdMem, writer, ids, holdFaults>>
  BY DEF Hold!DrainLog
<1>2. PICK id : id = ItemId(hold, 1)
  OBVIOUS
<1>3. PICK v \in {"SCAN_OK", "SCAN_FAIL"} : v = IF lane.res = "reject" THEN "SCAN_FAIL" ELSE "SCAN_OK"
  OBVIOUS
<1>4. Hold!HeadEvent = <<v, id>>
  BY <1>1, <1>2, <1>3, HeadRead DEF Hold!HeadEvent
<1>5. /\ hold.items # <<>> /\ hold.state # "LOOKUP" /\ trayFile # Hold!NoTray /\ trayFile = tray
  BY <1>1, Draining
<1>6. HeadDecided
  BY <1>1, HoldParts DEF HeadJudged
<1>7. /\ v = "SCAN_OK" <=> Saved(id)
      /\ v = "SCAN_FAIL" => \/ hold.items[1].code \in BadCodes
                            \/ \E j \in DOMAIN trayFile.scanned : trayFile.scanned[j].code = hold.items[1].code
                            \/ Len(trayFile.scanned) >= TraySize
  BY <1>2, <1>3, <1>5, <1>6 DEF HeadDecided
<1>8. Hold!HeadEvent \in Hold!ToSet(log) <=> \E k \in DOMAIN log : log[k] = <<v, id>>
  BY <1>4 DEF Hold!ToSet
<1>9. FilesInv' /\ \E k \in DOMAIN log' : log'[k] = <<v, id>>
  <2>1. CASE \E k \in DOMAIN log : log[k] = <<v, id>>
    <3>1. log' = log
      BY <1>1, <1>8, <2>1
    <3>2. FilesInv'
      BY <1>1, <3>1, FilesSame, HoldParts
    <3> QED
      BY <2>1, <3>1, <3>2
  <2>2. CASE \A k \in DOMAIN log : log[k] # <<v, id>>
    <3>1. log' = Append(log, <<v, id>>)
      BY <1>1, <1>4, <1>8, <2>2
    <3>2. FilesInv'
      BY <1>1, <1>2, <1>5, <1>7, <2>2, <3>1, HeadLogged, HoldParts
    <3>3. id \in Receipts
      BY <1>2, <1>5, HeadShape, HoldParts
    <3>4. log \in Seq({"SCAN_OK", "SCAN_FAIL"} \X Receipts)
      BY HoldParts DEF FilesInv, FileTypes
    <3> QED
      BY <3>1, <3>2, <3>3, <3>4, Appended
  <2> QED
    BY <2>1, <2>2
<1>10. lane' \in Lanes /\ lane'.task = "drain" /\ lane'.step = "ack" /\ lane'.res = lane.res
  BY <1>1, Draining DEF Lanes
<1>11. HeadJudged'
  <2>1. HeadDecided'
    BY <1>1, <1>6, <1>10 DEF HeadDecided, Saved, ItemId, Hold!ScanId
  <2>2. HeadTold'
    BY <1>1, <1>2, <1>3, <1>9, <1>10 DEF HeadTold, ItemId, Hold!ScanId
  <2>3. lane.res \in {"old", "reject", "new"}
    BY <1>1, HoldParts DEF HeadJudged
  <2> QED
    BY <1>10, <2>1, <2>2, <2>3 DEF HeadJudged
<1>12. holdFaults' \in 0..MaxHoldFaults
  BY <1>1, HoldParts DEF ControlTypes
<1> QED
  BY <1>1, <1>9, <1>10, <1>11, <1>12, Draining, HeadStep

LEMMA DrainFailed ==
  ASSUME TrayFilesAssumption, HoldInv, Hold!DrainFails
  PROVE  HoldInv'
<1>1. /\ lane.task = "drain" /\ Hold!Fault("write") /\ lane' = Hold!NoLane
      /\ UNCHANGED <<hold, quarantined, tray, trayFile, log, completed, admitted, holdMem, writer, ids>>
  BY DEF Hold!DrainFails
<1>2. FilesInv'
  BY <1>1, FilesSame, HoldParts
<1>3. lane' \in Lanes /\ lane'.task = "none" /\ lane'.step = "idle"
  BY <1>1, WindowBegins DEF Hold!NoLane
<1>4. HeadJudged'
  BY <1>3 DEF HeadJudged
<1>5. holdFaults' \in 0..MaxHoldFaults
  BY <1>1, HoldParts DEF ControlTypes, Hold!Fault, TrayFilesAssumption, Hold!HoldAssumption
<1> QED
  BY <1>1, <1>2, <1>3, <1>4, <1>5, Draining, HeadStep

(* ack_head                                                                *)
LEMMA HeadAcked ==
  ASSUME TrayFilesAssumption, HoldInv, Hold!DrainAck
  PROVE  HoldInv'
<1>1. /\ lane.task = "drain" /\ lane.step = "ack" /\ hold.state = "DRAINING" /\ lane' = Hold!NoLane
      /\ hold' = IF Len(hold.items) = 1 THEN Hold!NoHold ELSE [hold EXCEPT !.items = Tail(@)]
      /\ holdMem' = [holdMem EXCEPT !.snap = hold', !.due = hold' # Hold!NoHold, !.draining = hold' # Hold!NoHold,
                                    !.locked = hold' # Hold!NoHold]
      /\ UNCHANGED <<quarantined, tray, trayFile, log, completed, admitted, writer, ids, holdFaults>>
  BY DEF Hold!DrainAck
<1>2. /\ hold # Hold!NoHold /\ hold.items # <<>> /\ hold.state # "LOOKUP" /\ trayFile # Hold!NoTray /\ trayFile = tray
      /\ hold \in Hold!Holds
  BY <1>1, Draining, FileFacts, HoldParts
<1>3. Logged(ItemId(hold, 1))
  BY <1>1, HoldParts DEF HeadJudged, HeadTold, Logged
<1>4. /\ FilesInv'
      /\ \/ hold' = Hold!NoHold
         \/ /\ hold' # Hold!NoHold /\ hold'.id = hold.id /\ hold'.label = hold.label /\ hold'.state = "DRAINING"
            /\ hold'.items # <<>>
  <2>1. CASE Len(hold.items) = 1
    BY <1>1, <1>2, <1>3, <2>1, LastGone, HoldParts
  <2>2. CASE Len(hold.items) # 1
    <3>1. hold' = [hold EXCEPT !.items = Tail(@)]
      BY <1>1, <2>2
    <3>2. FilesInv' /\ hold' # Hold!NoHold /\ hold'.items # <<>>
      BY <1>1, <1>2, <1>3, <2>2, <3>1, HeadGone, HoldParts
    <3>3. hold \in [label : Labels, id : 1..MaxHolds, state : {"LOOKUP", "LOOKUP_FAILED", "DRAINING"},
                    offline : BOOLEAN, items : Seq([seq : 1..HoldCapacity, code : Codes])]
      BY <1>2 DEF Hold!Holds, Hold!Items, Hold!States
    <3> QED
      BY <1>1, <3>1, <3>2, <3>3
  <2> QED
    BY <2>1, <2>2
<1>5. hold' \in Hold!Holds
  BY <1>4 DEF FilesInv, FileTypes
<1>6. /\ holdMem' \in Windows /\ holdMem'.snap = hold' /\ (holdMem'.due => hold' # Hold!NoHold)
      /\ holdMem'.label = holdMem.label /\ (holdMem'.pending <=> holdMem.pending)
      /\ (holdMem'.append <=> holdMem.append) /\ (holdMem'.out <=> holdMem.out)
      /\ holdMem'.retry = holdMem.retry /\ holdMem'.replay = holdMem.replay
  <2>1. PICK b \in BOOLEAN : b <=> hold' # Hold!NoHold
    OBVIOUS
  <2>2. b = (hold' # Hold!NoHold)
    BY <2>1
  <2>3. PICK h \in Hold!Holds : h = hold'
    BY <1>5
  <2>4. holdMem' = [holdMem EXCEPT !.snap = h, !.due = b, !.draining = b, !.locked = b]
    BY <1>1, <2>2, <2>3
  <2>5. /\ holdMem' \in Windows /\ holdMem'.snap = h /\ (holdMem'.due => b)
        /\ holdMem'.label = holdMem.label /\ (holdMem'.pending <=> holdMem.pending)
        /\ (holdMem'.append <=> holdMem.append) /\ (holdMem'.out <=> holdMem.out)
        /\ holdMem'.retry = holdMem.retry /\ holdMem'.replay = holdMem.replay
    BY <2>4, ControlFacts DEF Windows
  <2> QED
    BY <2>1, <2>3, <2>5
<1>7. lane' \in Lanes /\ lane'.task = "none" /\ lane'.step = "idle"
  BY <1>1, WindowBegins DEF Hold!NoLane
<1>8. \A k \in DOMAIN writer : writer[k].op # "drain" /\ writer[k].op # "switch" /\ writer[k].done # "ok"
  BY <1>1, Draining, HoldParts DEF DrainingSound
<1>9. ControlTypes'
  BY <1>1, <1>6, <1>7, HoldParts DEF ControlTypes
<1>10. InOrder' /\ ResultsSound'
  <2>1. InOrder'
    BY <1>1, HoldParts DEF InOrder
  <2>2. \A k \in DOMAIN writer : writer[k].snap = Hold!NoHold /\ writer[k].snap.state # "DRAINING"
    BY <1>8, FileFacts, HoldParts DEF ResultsSound
  <2>3. \A k \in DOMAIN writer : writer[k].op = "offline" /\ writer[k].fresh => writer[k].label = holdMem.label
    BY HoldParts DEF ResultsSound
  <2> QED
    BY <1>1, <1>6, <1>8, <2>1, <2>2, <2>3 DEF ResultsSound, Taken, Found
<1>11. AppendSound'
  BY <1>1, <1>2, <1>4, <1>6, HoldParts DEF AppendSound
<1>12. SwitchSound' /\ DrainSound'
  BY <1>1, <1>8 DEF SwitchSound, DrainSound
<1>13. DrainingSound'
  <2>1. /\ tray.label = hold.label /\ \A k \in DOMAIN writer : writer[k].done = "no" => writer[k].op = "fail"
    BY <1>1, HoldParts DEF DrainingSound
  <2>2. hold'.state = "DRAINING" => hold' # Hold!NoHold
    BY <1>4, FileFacts, HoldParts
  <2> QED
    BY <1>1, <1>4, <1>8, <2>1, <2>2 DEF DrainingSound
<1>14. ScreenSound'
  BY <1>1, <1>2, <1>6, <1>7, Draining DEF ScreenSound
<1>15. SnapSound'
  <2>1. Taken(hold)' /\ Found(hold)'
    <3>1. hold' # Hold!NoHold => hold'.id <= ids' /\ \A q \in quarantined' : q.id # hold'.id
      BY <1>4 DEF FilesInv, IdsSound
    <3> QED
      BY <3>1 DEF Taken, Found, Files
  <2> QED
    BY <1>6, <2>1 DEF SnapSound, Taken, Found
<1>16. PendingSound' /\ AgainSound'
  BY <1>1, <1>2, <1>4, <1>6, Draining, HoldParts DEF PendingSound, AgainSound
<1>17. ReadSound'
  <2>1. tray.label = hold.label
    BY <1>1, HoldParts DEF ReadSound
  <2>2. hold'.state = "DRAINING" => hold' # Hold!NoHold
    BY <1>4, FileFacts, HoldParts
  <2> QED
    BY <1>1, <1>4, <1>6, <1>7, <1>8, <2>1, <2>2 DEF ReadSound
<1>18. LookupSound' /\ HeadJudged'
  BY <1>7 DEF LookupSound, HeadJudged
<1> QED
  BY <1>4, <1>9, <1>10, <1>11, <1>12, <1>13, <1>14, <1>15, <1>16, <1>17, <1>18, HoldWhole

-----------------------------------------------------------------------------
(* The writer thread.                                                      *)

(* The first task that waits is worked.                                    *)
Worked(f, d, s) ==
  /\ writer' \in Seq(Tasks) /\ DOMAIN writer' = DOMAIN writer
  /\ \A k \in DOMAIN writer : k # f => writer'[k] = writer[k]
  /\ writer'[f].op = writer[f].op /\ writer'[f].label = writer[f].label /\ writer'[f].code = writer[f].code
  /\ writer'[f].fresh = writer[f].fresh /\ writer'[f].done = d /\ writer'[f].snap = s
IsFirst(f) ==
  /\ f \in DOMAIN writer /\ f \in Nat /\ f > 0 /\ writer[f].done = "no" /\ writer[f].snap = Hold!NoHold
  /\ \A k \in DOMAIN writer : k \in Nat /\ (k < f \/ k = f \/ k > f)
  /\ \A k \in DOMAIN writer : k < f => writer[k].done # "no"
  /\ \A k \in DOMAIN writer : k > f => writer[k].done = "no"

(* What the writer kept is in the files, or was removed by it.             *)
LEMMA QueueWorked ==
  ASSUME TrayFilesAssumption, HoldInv, NEW f, IsFirst(f), NEW d \in {"ok", "err"}, NEW s \in Hold!Holds, Worked(f, d, s),
         d = "err" => s = Hold!NoHold,
         d = "ok" /\ writer[f].op \notin {"drain", "switch"} => s # Hold!NoHold,
         writer[f].op # "drain" => s.state # "DRAINING",
         s # Hold!NoHold => s = hold' /\ FilesInv',
         \A h \in Hold!Holds : Taken(h) => Taken(h)',
         \A h \in Hold!Holds : Found(h) => Found(h)' \/ (d = "ok" /\ writer[f].op \in {"drain", "switch"}),
         holdMem' = holdMem
  PROVE  InOrder' /\ ResultsSound' /\ SnapSound'
<1>1. DOMAIN writer' = DOMAIN writer /\ \A k \in DOMAIN writer : k # f => writer'[k] = writer[k]
  BY DEF Worked
<1>2. /\ writer'[f].op = writer[f].op /\ writer'[f].label = writer[f].label
      /\ (writer'[f].fresh <=> writer[f].fresh) /\ writer'[f].done = d /\ writer'[f].snap = s
  BY DEF Worked
<1>3. InOrder'
  BY <1>1, <1>2, HoldParts DEF InOrder, IsFirst
<1>4. \A i \in Nat : Removed(i) => Removed(i)'
  BY <1>1 DEF Removed, IsFirst
<1>5. d = "ok" /\ writer[f].op \in {"drain", "switch"} => \A i \in Nat : i < f => Removed(i)'
  BY <1>1, <1>2 DEF Removed, IsFirst
<1>6. Taken(s)' /\ Found(s)'
  <2>1. CASE s = Hold!NoHold
    BY <2>1 DEF Taken, Found
  <2>2. CASE s # Hold!NoHold
    <3>1. s = hold' /\ s.id <= ids' /\ \A q \in quarantined' : q.id # s.id
      BY <2>2 DEF FilesInv, IdsSound
    <3> QED
      BY <3>1 DEF Taken, Found, Files
  <2> QED
    BY <2>1, <2>2
<1>7. \A k \in DOMAIN writer : k # f =>
        /\ Taken(writer[k].snap)'
        /\ writer[k].snap = Hold!NoHold \/ Found(writer[k].snap)' \/ Removed(k)'
  <2> SUFFICES ASSUME NEW k \in DOMAIN writer, k # f
               PROVE  /\ Taken(writer[k].snap)'
                      /\ writer[k].snap = Hold!NoHold \/ Found(writer[k].snap)' \/ Removed(k)'
    OBVIOUS
  <2>1. PICK h \in Hold!Holds : h = writer[k].snap
    BY QueueShape, HoldParts
  <2>2. Taken(h) /\ (Found(h) \/ Removed(k)) /\ (writer[k].done # "ok" => h = Hold!NoHold)
    BY <2>1, HoldParts DEF ResultsSound
  <2>3. Taken(h)'
    BY <2>2
  <2>4. Found(h) => h = Hold!NoHold \/ Found(h)' \/ Removed(k)'
    BY <1>5, <2>2 DEF IsFirst
  <2>5. Removed(k) => Removed(k)'
    BY <1>4 DEF IsFirst
  <2>6. writer[k].snap' = h
    BY <1>1, <2>1
  <2> QED
    BY <2>1, <2>2, <2>3, <2>4, <2>5, <2>6 DEF Taken, Found
<1>8. ResultsSound'
  <2> SUFFICES ASSUME NEW k \in DOMAIN writer
               PROVE  (/\ writer[k].done # "ok" => writer[k].snap = Hold!NoHold
                       /\ writer[k].done = "ok" /\ writer[k].op \notin {"drain", "switch"} => writer[k].snap # Hold!NoHold
                       /\ writer[k].op # "drain" => writer[k].snap.state # "DRAINING"
                       /\ Taken(writer[k].snap) /\ (Found(writer[k].snap) \/ Removed(k))
                       /\ writer[k].op = "offline" /\ writer[k].fresh => writer[k].label = holdMem.label)'
    BY <1>1 DEF ResultsSound
  <2>1. CASE k = f
    <3>1. writer[f].op = "offline" /\ writer[f].fresh => writer[f].label = holdMem.label
      BY HoldParts DEF ResultsSound, IsFirst
    <3> QED
      BY <1>2, <1>6, <2>1, <3>1 DEF Taken, Found
  <2>2. CASE k # f
    BY <1>1, <1>7, <2>2, HoldParts DEF ResultsSound, Taken, Found
  <2> QED
    BY <2>1, <2>2
<1>9. SnapSound'
  <2>1. PICK h \in Hold!Holds : h = holdMem.snap
    BY ControlFacts
  <2>2. Taken(h) /\ (Found(h) \/ Removed(0))
    BY <2>1, HoldParts DEF SnapSound
  <2>3. Taken(h)' /\ (Found(h)' \/ Removed(0)')
    BY <1>4, <1>5, <2>2 DEF IsFirst
  <2> QED
    BY <2>1, <2>3 DEF SnapSound, Taken, Found
<1> QED
  BY <1>3, <1>8, <1>9

(* The task could not be done.                                             *)
LEMMA TaskRefused ==
  ASSUME TrayFilesAssumption, HoldInv, NEW f, IsFirst(f), Worked(f, "err", Hold!NoHold),
         UNCHANGED <<hold, quarantined, admitted, tray, trayFile, log, completed, holdMem, lane, ids>>,
         holdFaults' \in 0..MaxHoldFaults
  PROVE  HoldInv'
<1>1. /\ writer' \in Seq(Tasks) /\ DOMAIN writer' = DOMAIN writer
      /\ \A k \in DOMAIN writer : /\ writer'[k].op = writer[k].op /\ writer'[k].label = writer[k].label
                                  /\ writer'[k].code = writer[k].code
                                  /\ writer'[k].done # "err" => writer'[k].done = writer[k].done /\ writer'[k].snap = writer[k].snap
      /\ f \in DOMAIN writer
  <2>1. /\ writer' \in Seq(Tasks) /\ DOMAIN writer' = DOMAIN writer /\ f \in DOMAIN writer
        /\ \A k \in DOMAIN writer : k # f => writer'[k] = writer[k]
    BY DEF Worked, IsFirst
  <2>2. /\ writer'[f].op = writer[f].op /\ writer'[f].label = writer[f].label
        /\ writer'[f].code = writer[f].code /\ writer'[f].done = "err"
    BY DEF Worked
  <2> QED
    BY <2>1, <2>2
<1>2. FilesInv'
  BY FilesSame, HoldParts
<1>3. \A s \in Hold!Holds : (Taken(s) => Taken(s)') /\ (Found(s) => Found(s)')
  BY SameFiles
<1>4. InOrder' /\ ResultsSound' /\ SnapSound'
  BY <1>3, QueueWorked, FileFacts, HoldParts
<1>5. ControlTypes'
  BY <1>1, HoldParts DEF ControlTypes
<1>6. AppendSound' /\ SwitchSound'
  <2>1. AppendSound'
    BY <1>1, HoldParts DEF AppendSound
  <2>2. SwitchSound'
    BY <1>1, HoldParts DEF SwitchSound, Queued
  <2> QED
    BY <2>1, <2>2
<1>7. DrainSound'
  BY <1>1, HoldParts DEF DrainSound
<1>8. DrainingSound'
  BY <1>1, HoldParts DEF DrainingSound, IsFirst, Worked
<1>9. ScreenSound' /\ PendingSound' /\ AgainSound'
  BY HoldParts DEF ScreenSound, PendingSound, AgainSound
<1>10. ReadSound'
  BY <1>1, HoldParts DEF ReadSound
<1>11. LookupSound'
  BY HoldParts DEF LookupSound, Taken, Found, Files
<1>12. HeadJudged'
  BY HoldParts DEF HeadJudged, HeadDecided, HeadTold, Unjudged, Saved, Logged, Done, ItemId, Hold!ScanId
<1> QED
  BY <1>2, <1>4, <1>5, <1>6, <1>7, <1>8, <1>9, <1>10, <1>11, <1>12, HoldWhole

LEMMA FirstTask ==
  ASSUME TrayFilesAssumption, HoldInv, Hold!Unworked > 0, NEW f, f = Hold!First
  PROVE  IsFirst(f) /\ Hold!Work = writer[f]
<1>1. /\ f \in DOMAIN writer /\ Hold!Work = writer[f] /\ writer[f].done = "no"
      /\ \A j \in DOMAIN writer : j < f => writer[j].done # "no"
      /\ \A j \in DOMAIN writer : j > f => writer[j].done = "no"
  BY FirstUndone, HoldParts
<1>2. DOMAIN writer = 1..Len(writer) /\ Len(writer) \in Nat
  BY QueueShape, HoldParts
<1>3. writer[f].snap = Hold!NoHold
  BY <1>1, HoldParts DEF ResultsSound
<1>4. f \in Nat /\ f > 0 /\ \A k \in DOMAIN writer : k \in Nat /\ (k < f \/ k = f \/ k > f)
  BY <1>1, <1>2
<1> QED
  BY <1>1, <1>3, <1>4 DEF IsFirst

LEMMA TaskDone ==
  ASSUME TrayFilesAssumption, HoldInv, NEW f, IsFirst(f), NEW h \in Hold!Holds,
         writer' = [writer EXCEPT ![f].done = "ok", ![f].snap = h]
  PROVE  Worked(f, "ok", h)
<1>1. writer \in Seq(Tasks) /\ f \in DOMAIN writer /\ writer[f] \in Tasks
  BY QueueShape, HoldParts DEF IsFirst
<1>2. PICK t : t = [writer[f] EXCEPT !.done = "ok", !.snap = h]
  OBVIOUS
<1>3. /\ t \in Tasks /\ t.op = writer[f].op /\ t.label = writer[f].label /\ t.code = writer[f].code
      /\ t.fresh = writer[f].fresh /\ t.done = "ok" /\ t.snap = h
  BY <1>1, <1>2 DEF Tasks
<1>4. writer' = [writer EXCEPT ![f] = t]
  <2>1. PICK v : v = writer'
    OBVIOUS
  <2>2. DOMAIN v = DOMAIN writer /\ v = [k \in DOMAIN writer |-> v[k]]
    BY <1>1, <2>1
  <2>3. v[f] = t
    BY <1>1, <1>2, <2>1 DEF Tasks
  <2>4. \A k \in DOMAIN writer : k # f => v[k] = writer[k]
    BY <1>1, <2>1
  <2> QED
    BY <1>1, <2>1, <2>2, <2>3, <2>4
<1>5. PICK v : v = writer'
  OBVIOUS
<1>6. v \in Seq(Tasks) /\ DOMAIN v = DOMAIN writer /\ v[f] = t /\ \A k \in DOMAIN writer : k # f => v[k] = writer[k]
  BY <1>1, <1>3, <1>4, <1>5
<1> QED
  BY <1>3, <1>5, <1>6 DEF Worked

LEMMA TaskFailed ==
  ASSUME TrayFilesAssumption, HoldInv, NEW f, IsFirst(f), writer' = [writer EXCEPT ![f].done = "err"]
  PROVE  Worked(f, "err", Hold!NoHold)
<1>1. writer \in Seq(Tasks) /\ f \in DOMAIN writer /\ writer[f] \in Tasks /\ writer[f].snap = Hold!NoHold
  BY QueueShape, HoldParts DEF IsFirst
<1>2. PICK t : t = [writer[f] EXCEPT !.done = "err"]
  OBVIOUS
<1>3. /\ t \in Tasks /\ t.op = writer[f].op /\ t.label = writer[f].label /\ t.code = writer[f].code
      /\ t.fresh = writer[f].fresh /\ t.done = "err" /\ t.snap = Hold!NoHold
  BY <1>1, <1>2 DEF Tasks
<1>4. writer' = [writer EXCEPT ![f] = t]
  BY <1>2
<1>5. PICK v : v = writer'
  OBVIOUS
<1>6. v \in Seq(Tasks) /\ DOMAIN v = DOMAIN writer /\ v[f] = t /\ \A k \in DOMAIN writer : k # f => v[k] = writer[k]
  BY <1>1, <1>3, <1>4, <1>5
<1> QED
  BY <1>3, <1>5, <1>6 DEF Worked

(* What a task that was done leaves of the queue.                          *)
LEMMA WorkedShape ==
  ASSUME NEW f, IsFirst(f), NEW d, NEW s, Worked(f, d, s)
  PROVE  /\ writer' \in Seq(Tasks) /\ DOMAIN writer' = DOMAIN writer /\ f \in DOMAIN writer
         /\ \A k \in DOMAIN writer : /\ writer'[k].op = writer[k].op /\ writer'[k].label = writer[k].label
                                     /\ writer'[k].code = writer[k].code
                                     /\ writer'[k].done = "no" <=> k > f \/ (k = f /\ d = "no")
                                     /\ k # f => writer'[k].done = writer[k].done /\ writer'[k].snap = writer[k].snap
                                     /\ k > f => writer'[k].done = "no"
         /\ writer'[f].done = d /\ writer'[f].snap = s
<1>1. /\ writer' \in Seq(Tasks) /\ DOMAIN writer' = DOMAIN writer /\ f \in DOMAIN writer
      /\ \A k \in DOMAIN writer : k # f => writer'[k] = writer[k]
      /\ writer'[f].op = writer[f].op /\ writer'[f].label = writer[f].label
      /\ writer'[f].code = writer[f].code /\ writer'[f].done = d /\ writer'[f].snap = s
  BY DEF Worked, IsFirst
<1>2. \A k \in DOMAIN writer : (k < f => writer[k].done # "no") /\ (k > f => writer[k].done = "no")
                               /\ k \in Nat /\ f \in Nat
  BY DEF IsFirst
<1>3. \A k \in DOMAIN writer : /\ writer'[k].op = writer[k].op /\ writer'[k].label = writer[k].label
                               /\ writer'[k].code = writer[k].code
  BY <1>1
<1>4. \A k \in DOMAIN writer : writer'[k].done = "no" <=> k > f \/ (k = f /\ d = "no")
  BY <1>1, <1>2
<1> QED
  BY <1>1, <1>2, <1>3, <1>4

(* append                                                                  *)
LEMMA ScanAppended ==
  ASSUME TrayFilesAssumption, HoldInv, NEW f, IsFirst(f), Hold!Work = writer[f], writer[f].op = "append",
         hold.state = "LOOKUP", Len(hold.items) < HoldCapacity,
         NEW c, c = writer[f].code, NEW i, i = Hold!NextSeq(hold),
         hold' = [hold EXCEPT !.items = Append(@, [seq |-> i, code |-> c])],
         admitted' = admitted \cup {[id |-> [hold |-> hold.id, seq |-> i], code |-> c,
                                     meant |-> writer[f].label, label |-> hold.label]},
         writer' = [writer EXCEPT ![f].done = "ok", ![f].snap = hold'],
         UNCHANGED <<quarantined, tray, trayFile, log, completed, holdMem, lane, ids, holdFaults>>
  PROVE  HoldInv'
<1>1. hold # Hold!NoHold /\ hold \in Hold!Holds
  BY FileFacts, HoldParts
<1>2. c \in Codes /\ hold.label = writer[f].label
  BY <1>1, HoldParts DEF AppendSound, IsFirst
<1>3. PICK n : n = Len(hold.items)
  OBVIOUS
<1>4. i = n + 1
  BY <1>3, NewScan, HoldParts
<1>5. FilesInv' /\ hold' # Hold!NoHold
  BY <1>2, <1>3, <1>4, ScanTaken, HoldParts
<1>6. hold' \in Hold!Holds /\ hold'.id = hold.id /\ hold'.label = hold.label /\ hold'.state = "LOOKUP"
  <2>1. hold' \in Hold!Holds
    BY <1>5 DEF FilesInv, FileTypes
  <2>2. hold \in [label : Labels, id : 1..MaxHolds, state : {"LOOKUP", "LOOKUP_FAILED", "DRAINING"},
                  offline : BOOLEAN, items : Seq([seq : 1..HoldCapacity, code : Codes])]
    BY <1>1 DEF Hold!Holds, Hold!Items, Hold!States
  <2> QED
    BY <2>1, <2>2
<1>7. PICK s \in Hold!Holds : s = hold'
  BY <1>6
<1>8. Worked(f, "ok", s)
  BY <1>7, TaskDone
<1>9. \A h \in Hold!Holds : (Taken(h) => Taken(h)') /\ (Found(h) => Found(h)')
  BY <1>6, MarkedFiles
<1>10. InOrder' /\ ResultsSound' /\ SnapSound'
  BY <1>5, <1>6, <1>7, <1>8, <1>9, QueueWorked
<1>11. /\ writer' \in Seq(Tasks) /\ DOMAIN writer' = DOMAIN writer
       /\ \A k \in DOMAIN writer : /\ writer'[k].op = writer[k].op /\ writer'[k].label = writer[k].label
                                   /\ writer'[k].code = writer[k].code
                                   /\ k # f => writer'[k].done = writer[k].done /\ writer'[k].snap = writer[k].snap
                                   /\ k > f => writer'[k].done = "no"
  BY <1>8, WorkedShape
<1>12. ControlTypes'
  BY <1>11, HoldParts DEF ControlTypes
<1>13. AppendSound'
  BY <1>1, <1>6, <1>11, HoldParts DEF AppendSound
<1>14. \A k \in DOMAIN writer : writer[k].op # "switch" /\ (writer[k].op = "drain" => k > f)
  <2>1. \A k \in DOMAIN writer : writer[k].op # "switch"
    BY HoldParts DEF SwitchSound, Queued, IsFirst
  <2>2. \A k \in DOMAIN writer : writer[k].op = "drain" => ~(k < f)
    BY HoldParts DEF DrainSound, IsFirst
  <2> QED
    BY <2>1, <2>2 DEF IsFirst
<1>15. SwitchSound' /\ DrainSound' /\ DrainingSound'
  <2>1. SwitchSound'
    BY <1>11, <1>14 DEF SwitchSound
  <2>2. DrainSound'
    BY <1>11, <1>14, HoldParts DEF DrainSound
  <2>3. DrainingSound'
    BY <1>6 DEF DrainingSound
  <2> QED
    BY <2>1, <2>2, <2>3
<1>16. ScreenSound' /\ PendingSound' /\ AgainSound'
  BY <1>1, <1>6, HoldParts DEF ScreenSound, PendingSound, AgainSound
<1>17. holdMem.snap.state # "DRAINING" /\ lane.task # "drain"
  BY HoldParts DEF ReadSound
<1>18. ReadSound' /\ HeadJudged'
  BY <1>17 DEF ReadSound, HeadJudged
<1>19. LookupSound'
  <2>1. lane.task = "lookup" => Taken(lane.snap)' /\ Found(lane.snap)'
    BY <1>9, ControlFacts, HoldParts DEF LookupSound, Taken, Found
  <2> QED
    BY <1>1, <1>6, <2>1, HoldParts DEF LookupSound
<1> QED
  BY <1>5, <1>10, <1>12, <1>13, <1>15, <1>16, <1>18, <1>19, HoldWhole

(* mark_offline, mark_failed, the settling of a stale answer.              *)
LEMMA HoldStateMarked ==
  ASSUME TrayFilesAssumption, HoldInv, NEW f, IsFirst(f), writer[f].op \in {"offline", "fail", "settle"},
         hold # Hold!NoHold, hold' \in Hold!Holds, hold' # Hold!NoHold,
         hold'.id = hold.id, hold'.label = hold.label, hold'.items = hold.items,
         \/ hold'.state = "LOOKUP" /\ hold.state = "LOOKUP"
         \/ hold'.state = "LOOKUP_FAILED",
         writer' = [writer EXCEPT ![f].done = "ok", ![f].snap = hold'],
         UNCHANGED <<quarantined, admitted, tray, trayFile, log, completed, holdMem, lane, ids, holdFaults>>
  PROVE  HoldInv'
<1>1. FilesInv'
  BY HoldMarked, HoldParts
<1>2. PICK s \in Hold!Holds : s = hold'
  OBVIOUS
<1>3. Worked(f, "ok", s)
  BY <1>2, TaskDone
<1>4. \A h \in Hold!Holds : (Taken(h) => Taken(h)') /\ (Found(h) => Found(h)')
  BY MarkedFiles
<1>5. InOrder' /\ ResultsSound' /\ SnapSound'
  BY <1>1, <1>2, <1>3, <1>4, QueueWorked
<1>6. /\ writer' \in Seq(Tasks) /\ DOMAIN writer' = DOMAIN writer /\ f \in DOMAIN writer
      /\ \A k \in DOMAIN writer : /\ writer'[k].op = writer[k].op /\ writer'[k].label = writer[k].label
                                  /\ writer'[k].code = writer[k].code
                                  /\ k # f => writer'[k].done = writer[k].done /\ writer'[k].snap = writer[k].snap
      /\ writer'[f].snap = hold'
  <2>1. writer'[f].snap = hold' /\ f \in DOMAIN writer
    BY <1>2, <1>3 DEF Worked, IsFirst
  <2> QED
    BY <1>3, <2>1, WorkedShape
<1>7. ControlTypes'
  BY <1>6, HoldParts DEF ControlTypes
<1>8. AppendSound'
  BY <1>6, HoldParts DEF AppendSound
<1>9. SwitchSound'
  BY <1>6, HoldParts DEF SwitchSound, Queued
<1>10. DrainSound'
  <2> SUFFICES ASSUME NEW k \in DOMAIN writer, writer[k].op = "drain"
               PROVE  (/\ tray # Hold!NoTray /\ holdMem.snap # Hold!NoHold
                       /\ ~holdMem.due /\ lane.task = "none" /\ holdMem.snap.state # "DRAINING"
                       /\ \A j \in DOMAIN writer : j > k => writer[j].op = "fail"
                       /\ writer[k].done = "ok" /\ writer[k].snap # Hold!NoHold =>
                            /\ writer[k].snap.label = hold.label /\ writer[k].snap.items # <<>>
                            /\ hold.state \in {"DRAINING", "LOOKUP_FAILED"}
                            /\ \A j \in DOMAIN writer : j >= k /\ writer[j].done = "ok" =>
                                 writer[j].snap.id = hold.id /\ writer[j].snap.items = hold.items)'
    BY <1>6 DEF DrainSound
  <2>1. k # f /\ writer'[k].done = writer[k].done /\ writer'[k].snap = writer[k].snap
    BY <1>6
  <2>2. writer[k].done = "ok" /\ writer[k].snap # Hold!NoHold =>
          /\ hold.state \in {"DRAINING", "LOOKUP_FAILED"} /\ hold'.state = "LOOKUP_FAILED"
          /\ writer[k].snap.label = hold.label /\ writer[k].snap.items # <<>>
          /\ \A j \in DOMAIN writer : j >= k /\ j # f /\ writer[j].done = "ok" =>
                writer[j].snap.id = hold.id /\ writer[j].snap.items = hold.items
    BY HoldParts DEF DrainSound
  <2> QED
    BY <1>6, <2>1, <2>2, HoldParts DEF DrainSound
<1>11. DrainingSound'
  BY DEF DrainingSound
<1>12. ScreenSound' /\ PendingSound' /\ AgainSound'
  BY HoldParts DEF ScreenSound, PendingSound, AgainSound
<1>13. ReadSound'
  <2>1. SUFFICES ASSUME holdMem.snap.state = "DRAINING" \/ lane.task = "drain" PROVE ReadSound'
    BY DEF ReadSound
  <2>2. /\ hold.id = holdMem.snap.id /\ hold.items = holdMem.snap.items /\ hold.items # <<>>
        /\ tray.label = hold.label /\ hold.label = holdMem.snap.label
        /\ hold.state \in {"DRAINING", "LOOKUP_FAILED"}
        /\ \A k \in DOMAIN writer : writer[k].done = "ok" =>
             writer[k].snap.id = hold.id /\ writer[k].snap.items = hold.items
    BY <2>1, HoldParts DEF ReadSound
  <2> QED
    BY <1>6, <2>2 DEF ReadSound
<1>14. LookupSound'
  <2>1. lane.task = "lookup" => Taken(lane.snap)' /\ Found(lane.snap)'
    BY <1>4, ControlFacts, HoldParts DEF LookupSound, Taken, Found
  <2> QED
    BY <2>1, HoldParts DEF LookupSound
<1>15. HeadJudged'
  BY HoldParts DEF HeadJudged, HeadDecided, HeadTold, Unjudged, Saved, Logged, Done, ItemId, Hold!ScanId
<1> QED
  BY <1>1, <1>5, <1>7, <1>8, <1>9, <1>10, <1>11, <1>12, <1>13, <1>14, <1>15, HoldWhole

(* mark_draining: what the queue and the files say of the tray's hold.     *)
LEMMA DrainAsked ==
  ASSUME TrayFilesAssumption, HoldInv, NEW f, IsFirst(f), writer[f].op = "drain", hold.state = "LOOKUP"
  PROVE  /\ hold # Hold!NoHold /\ hold \in Hold!Holds /\ tray = trayFile /\ tray # Hold!NoTray
         /\ tray.label = hold.label /\ hold.label # none
         /\ holdMem.snap # Hold!NoHold /\ holdMem.snap.state # "DRAINING" /\ ~holdMem.due /\ lane.task = "none"
         /\ ~holdMem.pending /\ ~holdMem.out
         /\ \A k \in DOMAIN writer : /\ writer[k].op # "switch" /\ (writer[k].op = "drain" => k = f)
                                     /\ k > f => writer[k].op = "fail"
<1>1. hold # Hold!NoHold /\ hold \in Hold!Holds
  BY FileFacts, HoldParts
<1>2. /\ tray # Hold!NoTray /\ holdMem.snap # Hold!NoHold /\ ~holdMem.due /\ lane.task = "none"
      /\ holdMem.snap.state # "DRAINING" /\ \A k \in DOMAIN writer : k > f => writer[k].op = "fail"
  BY HoldParts DEF DrainSound, IsFirst
<1>3. tray = trayFile /\ ~holdMem.out
  BY <1>2, HoldParts DEF ScreenSound
<1>4. tray.label = hold.label /\ hold.label # none
  <2>1. trayFile.label = hold.label
    BY <1>1, <1>2, <1>3, HoldParts DEF FilesInv, HeadSound
  <2> QED
    BY <1>1, <1>3, <2>1, FileFacts, HoldParts
<1>5. ~holdMem.pending /\ \A k \in DOMAIN writer : writer[k].op # "switch"
  BY <1>2, <1>3, HoldParts DEF PendingSound, SwitchSound
<1>6. \A k \in DOMAIN writer : writer[k].op = "drain" => ~(k < f) /\ ~(k > f)
  BY <1>2, HoldParts DEF DrainSound, IsFirst
<1>7. \A k \in DOMAIN writer : writer[k].op = "drain" => k = f
  BY <1>6 DEF IsFirst
<1> QED
  BY <1>1, <1>2, <1>3, <1>4, <1>5, <1>7

LEMMA HoldDrains ==
  ASSUME TrayFilesAssumption, HoldInv, NEW f, IsFirst(f), writer[f].op = "drain", hold.state = "LOOKUP",
         hold' = Hold!Drained, writer' = [writer EXCEPT ![f].done = "ok", ![f].snap = hold'],
         UNCHANGED <<quarantined, admitted, tray, trayFile, log, completed, holdMem, lane, ids, holdFaults>>
  PROVE  HoldInv'
<1>1. \/ hold.items = <<>> /\ hold' = Hold!NoHold
      \/ /\ hold.items # <<>> /\ hold' # Hold!NoHold /\ hold' \in Hold!Holds /\ hold'.id = hold.id
         /\ hold'.label = hold.label /\ hold'.items = hold.items /\ hold'.state = "DRAINING"
  <2>1. CASE hold.items = <<>>
    BY <2>1 DEF Hold!Drained
  <2>2. CASE hold.items # <<>>
    <3>1. hold' = [hold EXCEPT !.state = "DRAINING"]
      BY <2>2 DEF Hold!Drained
    <3>2. hold \in [label : Labels, id : 1..MaxHolds, state : {"LOOKUP", "LOOKUP_FAILED", "DRAINING"},
                    offline : BOOLEAN, items : Seq([seq : 1..HoldCapacity, code : Codes])]
      BY DrainAsked DEF Hold!Holds, Hold!Items, Hold!States
    <3>3. /\ hold' \in [label : Labels, id : 1..MaxHolds, state : {"LOOKUP", "LOOKUP_FAILED", "DRAINING"},
                        offline : BOOLEAN, items : Seq([seq : 1..HoldCapacity, code : Codes])]
          /\ hold'.id = hold.id /\ hold'.label = hold.label /\ hold'.items = hold.items /\ hold'.state = "DRAINING"
      BY <3>1, <3>2
    <3>4. hold' \in Hold!Holds /\ hold' # Hold!NoHold
      BY <3>3, DrainAsked, FileFacts, HoldParts DEF Hold!Holds, Hold!Items, Hold!States
    <3> QED
      BY <2>2, <3>3, <3>4
  <2> QED
    BY <2>1, <2>2
<1>2. FilesInv'
  BY <1>1, HoldEmptied, HoldMarked, DrainAsked, HoldParts
<1>3. PICK s \in Hold!Holds : s = hold'
  BY <1>1, NoHoldIsHold
<1>4. Worked(f, "ok", s)
  BY <1>3, TaskDone
<1>5. \A h \in Hold!Holds : Taken(h) => Taken(h)'
  <2> SUFFICES ASSUME NEW h \in Hold!Holds, h # Hold!NoHold, Taken(h) PROVE Taken(h)'
    BY DEF Taken
  <2>1. h.id # 0 /\ Hold!NoHold.id = 0
    BY HoldShape
  <2> QED
    BY <1>1, <2>1 DEF Taken, Files
<1>6. InOrder' /\ ResultsSound' /\ SnapSound'
  BY <1>2, <1>3, <1>4, <1>5, QueueWorked
<1>7. /\ writer' \in Seq(Tasks) /\ DOMAIN writer' = DOMAIN writer
      /\ \A k \in DOMAIN writer : /\ writer'[k].op = writer[k].op /\ writer'[k].label = writer[k].label
                                  /\ writer'[k].code = writer[k].code
                                  /\ k # f => writer'[k].done = writer[k].done /\ writer'[k].snap = writer[k].snap
                                  /\ k > f => writer'[k].done = "no"
  BY <1>4, WorkedShape
<1>8. f \in DOMAIN writer /\ writer'[f].done = "ok" /\ writer'[f].snap = hold'
  BY <1>3, <1>4 DEF Worked, IsFirst
<1>9. ControlTypes'
  BY <1>7, HoldParts DEF ControlTypes
<1>10. AppendSound'
  BY <1>1, <1>7, DrainAsked, HoldParts DEF AppendSound
<1>11. SwitchSound'
  BY <1>7, DrainAsked DEF SwitchSound
<1>12. \A k \in DOMAIN writer : (k > f => writer[k].op = "fail") /\ (k < f \/ k = f \/ k > f) /\ k \in Nat /\ f \in Nat
  BY DrainAsked DEF IsFirst
<1>13. DrainSound'
  <2>1. hold' # Hold!NoHold => \A j \in DOMAIN writer : j >= f /\ writer'[j].done = "ok" =>
          writer'[j].snap.id = hold'.id /\ writer'[j].snap.items = hold'.items
    BY <1>7, <1>8, <1>12
  <2> QED
    BY <1>1, <1>7, <1>8, <2>1, DrainAsked DEF DrainSound
<1>14. DrainingSound'
  <2>1. SUFFICES ASSUME hold'.state = "DRAINING" PROVE DrainingSound'
    BY DEF DrainingSound
  <2>2. hold'.items # <<>> /\ hold'.label = hold.label
    BY <1>1, <2>1, FileFacts, HoldParts
  <2>3. \A k \in DOMAIN writer : writer'[k].done = "no" => writer'[k].op = "fail"
    <3>1. \A k \in DOMAIN writer : k < f => writer[k].done # "no"
      BY DEF IsFirst
    <3> QED
      BY <1>7, <1>8, <1>12, <3>1
  <2>4. \A k \in DOMAIN writer : writer'[k].done = "ok" => \E j \in DOMAIN writer : j >= k /\ writer'[j].op = "drain"
    BY <1>7, <1>8, <1>12
  <2> QED
    BY <1>7, <2>2, <2>3, <2>4, DrainAsked DEF DrainingSound
<1>15. ScreenSound'
  BY HoldParts DEF ScreenSound
<1>16. PendingSound' /\ AgainSound'
  <2>1. PendingSound'
    BY DrainAsked DEF PendingSound
  <2>2. AgainSound'
    BY <1>1, DrainAsked, HoldParts DEF AgainSound
  <2> QED
    BY <2>1, <2>2
<1>17. ReadSound' /\ HeadJudged' /\ LookupSound'
  BY DrainAsked, HoldParts DEF ReadSound, HeadJudged, LookupSound
<1> QED
  BY <1>2, <1>6, <1>9, <1>10, <1>11, <1>13, <1>14, <1>15, <1>16, <1>17, HoldWhole

(* The move of an offline hold.                                            *)
LEMMA HoldMoved ==
  ASSUME TrayFilesAssumption, HoldInv, NEW f, IsFirst(f), writer[f].op = "switch", hold.state = "LOOKUP",
         hold' = Hold!NoHold, quarantined' = quarantined \cup {hold},
         writer' = [writer EXCEPT ![f].done = "ok", ![f].snap = Hold!NoHold],
         UNCHANGED <<admitted, tray, trayFile, log, completed, holdMem, lane, ids, holdFaults>>
  PROVE  HoldInv'
<1>1. hold # Hold!NoHold /\ hold \in Hold!Holds
  BY FileFacts, HoldParts
<1>2. FilesInv'
  BY <1>1, HoldSetAside, HoldParts
<1>3. PICK s \in Hold!Holds : s = Hold!NoHold
  BY NoHoldIsHold
<1>4. Worked(f, "ok", s)
  BY <1>3, TaskDone
<1>5. \A h \in Hold!Holds : (Taken(h) => Taken(h)') /\ (Found(h) => Found(h)')
  <2> SUFFICES ASSUME NEW h \in Hold!Holds, h # Hold!NoHold PROVE (Taken(h) => Taken(h)') /\ (Found(h) => Found(h)')
    BY DEF Taken, Found
  <2>1. h.id # 0 /\ Hold!NoHold.id = 0
    BY HoldShape
  <2> QED
    BY <2>1 DEF Taken, Found, Files
<1>6. InOrder' /\ ResultsSound' /\ SnapSound'
  BY <1>3, <1>4, <1>5, QueueWorked, FileFacts, HoldParts
<1>7. /\ writer' \in Seq(Tasks) /\ DOMAIN writer' = DOMAIN writer
      /\ \A k \in DOMAIN writer : /\ writer'[k].op = writer[k].op /\ writer'[k].label = writer[k].label
                                  /\ writer'[k].code = writer[k].code
                                  /\ k # f => writer'[k].done = writer[k].done /\ writer'[k].snap = writer[k].snap
  BY <1>4, WorkedShape
<1>8. /\ holdMem.switching /\ ~holdMem.pending /\ lane.task # "lookup" /\ trayFile = Hold!NoTray
      /\ \A k \in DOMAIN writer : writer[k].op = "switch" => k = f
      /\ \A k \in DOMAIN writer : writer[k].op # "append"
      /\ writer[f].label \in Labels
  BY HoldParts DEF SwitchSound, Queued, IsFirst
<1>9. tray = Hold!NoTray
  BY <1>8, HoldParts DEF ScreenSound
<1>10. /\ holdMem.snap.state # "DRAINING" /\ ~holdMem.due /\ lane.task = "none"
       /\ \A k \in DOMAIN writer : writer[k].op # "drain"
  BY <1>8, <1>9, NothingDrains, HoldParts DEF ControlTypes, Lanes
<1>11. ControlTypes'
  BY <1>7, HoldParts DEF ControlTypes
<1>12. AppendSound' /\ SwitchSound' /\ DrainSound'
  <2>1. AppendSound'
    BY <1>7, <1>8 DEF AppendSound
  <2>2. SwitchSound'
    BY <1>7, <1>8, <1>10 DEF SwitchSound, Queued
  <2>3. DrainSound'
    BY <1>7, <1>10 DEF DrainSound
  <2> QED
    BY <2>1, <2>2, <2>3
<1>13. DrainingSound'
  BY FileFacts, HoldParts DEF DrainingSound
<1>14. ScreenSound' /\ PendingSound' /\ AgainSound'
  BY <1>8, HoldParts DEF ScreenSound, PendingSound, AgainSound
<1>15. ReadSound' /\ HeadJudged' /\ LookupSound'
  BY <1>10, HoldParts DEF ReadSound, HeadJudged, LookupSound
<1> QED
  BY <1>2, <1>6, <1>11, <1>12, <1>13, <1>14, <1>15, HoldWhole

LEMMA TaskWritten ==
  ASSUME TrayFilesAssumption, HoldInv, Hold!WriterStep
  PROVE  HoldInv'
<1>1. /\ Hold!Unworked > 0
      /\ UNCHANGED <<tray, trayFile, log, completed, holdMem, lane, ids>>
  BY DEF Hold!WriterStep
<1>2. PICK f : f = Hold!First
  OBVIOUS
<1>3. IsFirst(f) /\ Hold!Work = writer[f]
  BY <1>1, <1>2, FirstTask
<1>4. holdFaults \in 0..MaxHoldFaults
  BY HoldParts DEF ControlTypes
<1>5. CASE Hold!Refused /\ (UNCHANGED holdFaults \/ Hold!Fault("write"))
  <2>1. writer' = [writer EXCEPT ![f].done = "err"] /\ UNCHANGED <<hold, quarantined, admitted>>
    BY <1>2, <1>5 DEF Hold!Refused
  <2>2. Worked(f, "err", Hold!NoHold)
    BY <1>3, <2>1, TaskFailed
  <2>3. holdFaults' \in 0..MaxHoldFaults
    BY <1>4, <1>5 DEF Hold!Fault, TrayFilesAssumption, Hold!HoldAssumption
  <2> QED
    BY <1>1, <1>3, <2>1, <2>2, <2>3, TaskRefused
<1>6. CASE Hold!WriterAppend /\ UNCHANGED holdFaults /\ ~Hold!Refused
  <2>1. /\ writer[f].op = "append" /\ hold.state = "LOOKUP" /\ Len(hold.items) < HoldCapacity
        /\ Hold!Wrote([hold EXCEPT !.items = Append(@, [seq |-> Hold!NextSeq(hold), code |-> writer[f].code])])
        /\ admitted' = admitted \cup
             {[id |-> Hold!ScanId(hold, [seq |-> Hold!NextSeq(hold), code |-> writer[f].code]),
               code |-> writer[f].code, meant |-> writer[f].label, label |-> hold.label]}
        /\ UNCHANGED quarantined
    BY <1>3, <1>6 DEF Hold!WriterAppend, Hold!TakesScans, Hold!HasRoom
  <2>2. PICK c : c = writer[f].code
    OBVIOUS
  <2>3. PICK i : i = Hold!NextSeq(hold)
    OBVIOUS
  <2>4. /\ hold' = [hold EXCEPT !.items = Append(@, [seq |-> i, code |-> c])]
        /\ writer' = [writer EXCEPT ![f].done = "ok", ![f].snap = hold']
    BY <1>2, <2>1, <2>2, <2>3 DEF Hold!Wrote
  <2>5. Hold!ScanId(hold, [seq |-> i, code |-> c]) = [hold |-> hold.id, seq |-> i]
    BY DEF Hold!ScanId
  <2>6. admitted' = admitted \cup {[id |-> [hold |-> hold.id, seq |-> i], code |-> c,
                                    meant |-> writer[f].label, label |-> hold.label]}
    BY <2>1, <2>2, <2>3, <2>5
  <2> QED
    BY <1>1, <1>3, <1>6, <2>1, <2>2, <2>3, <2>4, <2>6, ScanAppended
<1>7. CASE Hold!WriterMark /\ UNCHANGED holdFaults /\ ~Hold!Refused
  <2>1. /\ writer[f].op \in {"offline", "fail", "settle"} /\ UNCHANGED <<quarantined, admitted>>
        /\ CASE writer[f].op = "offline" -> hold.state = "LOOKUP"
             [] OTHER                    -> hold # Hold!NoHold
        /\ Hold!Wrote(CASE writer[f].op = "offline" -> [hold EXCEPT !.offline = TRUE]
                        [] writer[f].op = "settle" /\ hold.state = "DRAINING" -> hold
                        [] OTHER -> [hold EXCEPT !.state = "LOOKUP_FAILED", !.offline = TRUE])
    BY <1>3, <1>7 DEF Hold!WriterMark
  <2>2. ~(writer[f].op = "settle" /\ hold.state = "DRAINING")
    BY <1>3, HoldParts DEF DrainingSound, IsFirst
  <2>3. /\ hold # Hold!NoHold
        /\ \/ hold.state = "LOOKUP" /\ hold' = [hold EXCEPT !.offline = TRUE]
           \/ hold' = [hold EXCEPT !.state = "LOOKUP_FAILED", !.offline = TRUE]
        /\ writer' = [writer EXCEPT ![f].done = "ok", ![f].snap = hold']
    <3>1. CASE writer[f].op = "offline"
      <4>1. hold.state = "LOOKUP" /\ Hold!Wrote([hold EXCEPT !.offline = TRUE])
        BY <2>1, <3>1
      <4>2. hold # Hold!NoHold
        BY <4>1, FileFacts, HoldParts
      <4> QED
        BY <1>2, <4>1, <4>2 DEF Hold!Wrote
    <3>2. CASE writer[f].op # "offline"
      <4>1. hold # Hold!NoHold /\ Hold!Wrote([hold EXCEPT !.state = "LOOKUP_FAILED", !.offline = TRUE])
        BY <2>1, <2>2, <3>2
      <4> QED
        BY <1>2, <4>1 DEF Hold!Wrote
    <3> QED
      BY <3>1, <3>2
  <2>4. hold \in [label : Labels, id : 1..MaxHolds, state : {"LOOKUP", "LOOKUP_FAILED", "DRAINING"},
                  offline : BOOLEAN, items : Seq([seq : 1..HoldCapacity, code : Codes])]
    BY <2>3, HoldParts DEF FilesInv, FileTypes, Hold!Holds, Hold!Items, Hold!States
  <2>5. /\ hold' \in [label : Labels, id : 1..MaxHolds, state : {"LOOKUP", "LOOKUP_FAILED", "DRAINING"},
                      offline : BOOLEAN, items : Seq([seq : 1..HoldCapacity, code : Codes])]
        /\ hold'.id = hold.id /\ hold'.label = hold.label /\ hold'.items = hold.items
        /\ (hold'.state = "LOOKUP" /\ hold.state = "LOOKUP") \/ hold'.state = "LOOKUP_FAILED"
    BY <2>3, <2>4
  <2>6. hold' \in Hold!Holds /\ hold' # Hold!NoHold
    BY <2>4, <2>5, NoHoldIsHold, FileFacts, HoldParts DEF Hold!Holds, Hold!Items, Hold!States
  <2> QED
    BY <1>1, <1>3, <1>7, <2>1, <2>3, <2>5, <2>6, HoldStateMarked
<1>8. CASE Hold!WriterDrain /\ UNCHANGED holdFaults /\ ~Hold!Refused
  <2>1. /\ writer[f].op = "drain" /\ hold.state = "LOOKUP" /\ hold' = Hold!Drained
        /\ writer' = [writer EXCEPT ![f].done = "ok", ![f].snap = hold']
        /\ UNCHANGED <<quarantined, admitted>>
    BY <1>2, <1>3, <1>8 DEF Hold!WriterDrain, Hold!Wrote
  <2> QED
    BY <1>1, <1>3, <1>8, <2>1, HoldDrains
<1>9. CASE Hold!WriterSwitch /\ UNCHANGED holdFaults /\ ~Hold!Refused
  <2>1. /\ writer[f].op = "switch" /\ hold.state = "LOOKUP" /\ hold' = Hold!NoHold
        /\ quarantined' = quarantined \cup {hold}
        /\ writer' = [writer EXCEPT ![f].done = "ok", ![f].snap = Hold!NoHold]
        /\ UNCHANGED admitted
    BY <1>2, <1>3, <1>9 DEF Hold!WriterSwitch, Hold!Wrote, Hold!Offline
  <2> QED
    BY <1>1, <1>3, <1>9, <2>1, HoldMoved
<1> QED
  BY <1>5, <1>6, <1>7, <1>8, <1>9 DEF Hold!WriterStep

-----------------------------------------------------------------------------
(* The result pump.                                                        *)

(* The oldest task has left the queue; the mark of a failed lookup may     *)
(* have joined it.                                                         *)
Shifted(n) ==
  /\ n \in Nat /\ DOMAIN writer = 1..n /\ 1 \in DOMAIN writer /\ writer' \in Seq(Tasks)
  /\ \A k \in DOMAIN writer' : /\ k \in Nat /\ k > 0
                               /\ \/ k + 1 \in DOMAIN writer /\ writer'[k] = writer[k + 1]
                                  \/ /\ k = n /\ writer'[k].op = "fail" /\ writer'[k].done = "no"
                                     /\ writer'[k].snap = Hold!NoHold
  /\ \A k \in DOMAIN writer : k # 1 => k - 1 \in DOMAIN writer' /\ writer'[k - 1] = writer[k]

LEMMA QueueShift ==
  ASSUME ControlTypes, writer # <<>>, NEW n, n = Len(writer), NEW t \in Tasks,
         t.op = "fail" /\ t.done = "no" /\ t.snap = Hold!NoHold,
         writer' = Tail(writer) \/ writer' = Append(Tail(writer), t)
  PROVE  Shifted(n) /\ Head(writer) = writer[1]
<1>1. writer \in Seq(Tasks)
  BY DEF ControlTypes
<1>2. PICK v : v = Tail(writer)
  OBVIOUS
<1>3. /\ v \in Seq(Tasks) /\ Len(v) = n - 1 /\ n \in Nat \ {0} /\ DOMAIN v = 1..(n - 1) /\ DOMAIN writer = 1..n
      /\ Head(writer) = writer[1] /\ \A i \in 1..(n - 1) : v[i] = writer[i + 1]
  BY <1>1, <1>2, Shortened
<1>4. CASE writer' = v
  BY <1>3, <1>4 DEF Shifted
<1>5. CASE writer' = Append(v, t)
  <2>1. PICK u : u = Append(v, t)
    OBVIOUS
  <2>2. /\ u \in Seq(Tasks) /\ DOMAIN u = 1..n /\ u[n] = t /\ \A i \in 1..(n - 1) : u[i] = v[i]
    BY <1>3, <2>1, Appended
  <2>3. \A k \in DOMAIN u : /\ k \in Nat /\ k > 0
                            /\ \/ k + 1 \in DOMAIN writer /\ u[k] = writer[k + 1]
                               \/ k = n /\ u[k] = t
    BY <1>3, <2>2
  <2>4. \A k \in DOMAIN writer : k # 1 => k - 1 \in DOMAIN u /\ u[k - 1] = writer[k]
    BY <1>3, <2>2
  <2> QED
    BY <1>3, <1>5, <2>1, <2>2, <2>3, <2>4 DEF Shifted
<1> QED
  BY <1>2, <1>3, <1>4, <1>5

LEMMA QueueMoved ==
  ASSUME TrayFilesAssumption, HoldInv, NEW n, Shifted(n), UNCHANGED <<hold, quarantined, ids>>,
         holdMem'.label = holdMem.label
  PROVE  /\ InOrder' /\ ResultsSound'
         /\ \A i \in Nat : Removed(i + 1) => Removed(i)'
         /\ writer[1].op \notin {"drain", "switch"} \/ writer[1].done # "ok" => (Removed(0) => Removed(0)')
<1>1. /\ \A k \in DOMAIN writer' : /\ k \in Nat /\ k > 0
                                   /\ \/ k + 1 \in DOMAIN writer /\ writer'[k] = writer[k + 1]
                                      \/ /\ k = n /\ writer'[k].op = "fail" /\ writer'[k].done = "no"
                                         /\ writer'[k].snap = Hold!NoHold
      /\ \A k \in DOMAIN writer : k # 1 => k - 1 \in DOMAIN writer' /\ writer'[k - 1] = writer[k]
      /\ n \in Nat /\ DOMAIN writer = 1..n
  BY DEF Shifted
<1>2. InOrder'
  <2> SUFFICES ASSUME NEW j \in DOMAIN writer', NEW k \in DOMAIN writer', j < k, writer'[k].done # "no"
               PROVE  writer'[j].done # "no"
    BY DEF InOrder
  <2>1. k + 1 \in DOMAIN writer /\ writer'[k] = writer[k + 1]
    BY <1>1
  <2>2. j + 1 \in DOMAIN writer /\ writer'[j] = writer[j + 1]
    BY <1>1, <2>1
  <2>3. j + 1 < k + 1
    BY <1>1
  <2> QED
    BY <2>1, <2>2, <2>3, HoldParts DEF InOrder
<1>3. \A i \in Nat : Removed(i + 1) => Removed(i)'
  <2> SUFFICES ASSUME NEW i \in Nat, Removed(i + 1) PROVE Removed(i)'
    OBVIOUS
  <2>1. PICK j \in DOMAIN writer : j > i + 1 /\ writer[j].op \in {"drain", "switch"} /\ writer[j].done = "ok"
    BY DEF Removed
  <2>2. j - 1 \in DOMAIN writer' /\ writer'[j - 1] = writer[j] /\ j - 1 > i
    BY <1>1, <2>1
  <2> QED
    BY <2>1, <2>2 DEF Removed
<1>4. writer[1].op \notin {"drain", "switch"} \/ writer[1].done # "ok" => (Removed(0) => Removed(0)')
  <2> SUFFICES ASSUME writer[1].op \notin {"drain", "switch"} \/ writer[1].done # "ok", Removed(0) PROVE Removed(0)'
    OBVIOUS
  <2>1. PICK j \in DOMAIN writer : j > 0 /\ writer[j].op \in {"drain", "switch"} /\ writer[j].done = "ok"
    BY DEF Removed
  <2>2. j - 1 \in DOMAIN writer' /\ writer'[j - 1] = writer[j] /\ j - 1 > 0
    BY <1>1, <2>1
  <2> QED
    BY <2>1, <2>2 DEF Removed
<1>5. ResultsSound'
  <2> SUFFICES ASSUME NEW k \in DOMAIN writer'
               PROVE  (/\ writer[k].done # "ok" => writer[k].snap = Hold!NoHold
                       /\ writer[k].done = "ok" /\ writer[k].op \notin {"drain", "switch"} => writer[k].snap # Hold!NoHold
                       /\ writer[k].op # "drain" => writer[k].snap.state # "DRAINING"
                       /\ Taken(writer[k].snap) /\ (Found(writer[k].snap) \/ Removed(k))
                       /\ writer[k].op = "offline" /\ writer[k].fresh => writer[k].label = holdMem.label)'
    BY DEF ResultsSound
  <2>1. CASE k + 1 \in DOMAIN writer /\ writer'[k] = writer[k + 1]
    <3>1. /\ writer[k + 1].done # "ok" => writer[k + 1].snap = Hold!NoHold
          /\ writer[k + 1].done = "ok" /\ writer[k + 1].op \notin {"drain", "switch"} => writer[k + 1].snap # Hold!NoHold
          /\ writer[k + 1].op # "drain" => writer[k + 1].snap.state # "DRAINING"
          /\ Taken(writer[k + 1].snap) /\ (Found(writer[k + 1].snap) \/ Removed(k + 1))
          /\ writer[k + 1].op = "offline" /\ writer[k + 1].fresh => writer[k + 1].label = holdMem.label
      BY <2>1, HoldParts DEF ResultsSound
    <3>2. Removed(k + 1) => Removed(k)'
      BY <1>1, <1>3
    <3>3. Taken(writer[k].snap)' /\ (Found(writer[k].snap) \/ Removed(k))'
      BY <2>1, <3>1, <3>2 DEF Taken, Found, Files
    <3> QED
      BY <2>1, <3>1, <3>3
  <2>2. CASE writer'[k].op = "fail" /\ writer'[k].done = "no" /\ writer'[k].snap = Hold!NoHold
    BY <2>2, FileFacts, HoldParts DEF Taken, Found
  <2> QED
    BY <1>1, <2>1, <2>2
<1> QED
  BY <1>2, <1>3, <1>4, <1>5

(* What a queue from which the oldest task was taken keeps.                *)
LEMMA RestSound ==
  ASSUME TrayFilesAssumption, HoldInv, NEW n, Shifted(n), holdMem' \in Windows, holdMem'.label = holdMem.label,
         holdMem'.replay = holdMem.replay \/ writer[1].op = "switch",
         (holdMem'.append <=> holdMem.append) \/ writer[1].op = "append",
         (holdMem'.switching <=> holdMem.switching) \/ writer[1].op = "switch",
         holdMem'.pending => holdMem.pending,
         writer[1].op \notin {"drain", "switch"} =>
           /\ holdMem'.due => holdMem.due
           /\ holdMem.snap # Hold!NoHold => holdMem'.snap # Hold!NoHold
           /\ holdMem'.snap = holdMem.snap \/ holdMem'.snap.state # "DRAINING",
         UNCHANGED <<hold, quarantined, tray, trayFile, log, completed, admitted, lane, ids, holdFaults>>
  PROVE  AppendSound' /\ SwitchSound' /\ DrainSound' /\ DrainingSound'
<1>1. /\ \A k \in DOMAIN writer' : /\ k \in Nat /\ k > 0
                                   /\ \/ k + 1 \in DOMAIN writer /\ writer'[k] = writer[k + 1]
                                      \/ /\ k = n /\ writer'[k].op = "fail" /\ writer'[k].done = "no"
                                         /\ writer'[k].snap = Hold!NoHold
      /\ \A k \in DOMAIN writer : k # 1 => k - 1 \in DOMAIN writer' /\ writer'[k - 1] = writer[k]
      /\ n \in Nat /\ DOMAIN writer = 1..n /\ 1 \in DOMAIN writer
  BY DEF Shifted
<1>2. \A k \in DOMAIN writer' : writer'[k].op # "fail" => k + 1 \in DOMAIN writer /\ writer'[k] = writer[k + 1] /\ k + 1 # 1
  BY <1>1
<1>3. AppendSound'
  <2>1. writer[1].op = "append" \/ writer[1].op = "switch" => \A k \in DOMAIN writer' : writer'[k].op # "append"
    BY <1>1, <1>2, HoldParts DEF AppendSound, SwitchSound, Queued
  <2>2. \A k \in DOMAIN writer' : writer'[k].op = "append" =>
          /\ holdMem.append /\ holdMem.replay = none /\ writer'[k].label = holdMem.label
          /\ writer'[k].label \in Labels /\ writer'[k].code \in Codes
          /\ hold # Hold!NoHold => hold.label = holdMem.label
    BY <1>2, HoldParts DEF AppendSound
  <2>3. \A j, k \in DOMAIN writer' : writer'[j].op = "append" /\ writer'[k].op = "append" => j = k
    <3> SUFFICES ASSUME NEW j \in DOMAIN writer', NEW k \in DOMAIN writer', writer'[j].op = "append", writer'[k].op = "append"
                 PROVE  j = k
      OBVIOUS
    <3>1. /\ j + 1 \in DOMAIN writer /\ writer[j + 1].op = "append"
          /\ k + 1 \in DOMAIN writer /\ writer[k + 1].op = "append"
      BY <1>2
    <3>2. j + 1 = k + 1
      BY <3>1, HoldParts DEF AppendSound
    <3> QED
      BY <1>1, <3>2
  <2> QED
    BY <2>1, <2>2, <2>3 DEF AppendSound
<1>4. SwitchSound'
  <2>1. writer[1].op = "switch" => \A k \in DOMAIN writer' : writer'[k].op # "switch"
    BY <1>1, <1>2, HoldParts DEF SwitchSound
  <2>2. Queued("append")' => Queued("append")
    BY <1>2 DEF Queued
  <2>3. \A k \in DOMAIN writer' : writer'[k].op = "switch" =>
          /\ holdMem.switching /\ ~holdMem.pending /\ lane.task # "lookup" /\ trayFile = Hold!NoTray
          /\ ~Queued("append") /\ writer'[k].label \in Labels
          /\ writer'[k].done = "ok" => hold = Hold!NoHold
    BY <1>2, HoldParts DEF SwitchSound
  <2>4. \A j, k \in DOMAIN writer' : writer'[j].op = "switch" /\ writer'[k].op = "switch" => j = k
    <3> SUFFICES ASSUME NEW j \in DOMAIN writer', NEW k \in DOMAIN writer', writer'[j].op = "switch", writer'[k].op = "switch"
                 PROVE  j = k
      OBVIOUS
    <3>1. /\ j + 1 \in DOMAIN writer /\ writer[j + 1].op = "switch"
          /\ k + 1 \in DOMAIN writer /\ writer[k + 1].op = "switch"
      BY <1>2
    <3>2. j + 1 = k + 1
      BY <3>1, HoldParts DEF SwitchSound
    <3> QED
      BY <1>1, <3>2
  <2> QED
    BY <2>1, <2>2, <2>3, <2>4 DEF SwitchSound
<1>5. DrainSound'
  <2> SUFFICES ASSUME NEW k \in DOMAIN writer', writer'[k].op = "drain"
               PROVE  (/\ tray # Hold!NoTray /\ holdMem.snap # Hold!NoHold
                       /\ ~holdMem.due /\ lane.task = "none" /\ holdMem.snap.state # "DRAINING"
                       /\ \A j \in DOMAIN writer : j > k => writer[j].op = "fail"
                       /\ writer[k].done = "ok" /\ writer[k].snap # Hold!NoHold =>
                            /\ writer[k].snap.label = hold.label /\ writer[k].snap.items # <<>>
                            /\ hold.state \in {"DRAINING", "LOOKUP_FAILED"}
                            /\ \A j \in DOMAIN writer : j >= k /\ writer[j].done = "ok" =>
                                 writer[j].snap.id = hold.id /\ writer[j].snap.items = hold.items)'
    BY DEF DrainSound
  <2>1. k + 1 \in DOMAIN writer /\ writer'[k] = writer[k + 1] /\ writer[k + 1].op = "drain" /\ k \in Nat /\ k > 0
    BY <1>1, <1>2
  <2>2. /\ tray # Hold!NoTray /\ holdMem.snap # Hold!NoHold
        /\ ~holdMem.due /\ lane.task = "none" /\ holdMem.snap.state # "DRAINING"
        /\ \A j \in DOMAIN writer : j > k + 1 => writer[j].op = "fail"
        /\ writer[k + 1].done = "ok" /\ writer[k + 1].snap # Hold!NoHold =>
             /\ writer[k + 1].snap.label = hold.label /\ writer[k + 1].snap.items # <<>>
             /\ hold.state \in {"DRAINING", "LOOKUP_FAILED"}
             /\ \A j \in DOMAIN writer : j >= k + 1 /\ writer[j].done = "ok" =>
                  writer[j].snap.id = hold.id /\ writer[j].snap.items = hold.items
    BY <2>1, HoldParts DEF DrainSound
  <2>3. writer[1].op \notin {"drain", "switch"}
    <3>1. writer[1].op # "drain"
      BY <1>1, <2>1, HoldParts DEF DrainSound
    <3>2. writer[1].op # "switch"
      BY <1>1, <2>2, HoldParts DEF SwitchSound, ScreenSound
    <3> QED
      BY <3>1, <3>2
  <2>4. \A j \in DOMAIN writer' : j > k => writer'[j].op = "fail"
    <3>1. \A j \in DOMAIN writer' : j > k /\ writer'[j].op # "fail" => j + 1 \in DOMAIN writer /\ writer'[j] = writer[j + 1] /\ j + 1 > k + 1
      BY <1>1, <1>2, <2>1
    <3> QED
      BY <2>2, <3>1
  <2>5. \A j \in DOMAIN writer' : j >= k /\ writer'[j].done = "ok" =>
          j + 1 \in DOMAIN writer /\ writer'[j] = writer[j + 1] /\ j + 1 >= k + 1
    BY <1>1, <2>1
  <2> QED
    BY <2>1, <2>2, <2>3, <2>4, <2>5
<1>6. DrainingSound'
  <2>1. SUFFICES ASSUME hold.state = "DRAINING" PROVE DrainingSound'
    BY DEF DrainingSound
  <2>2. /\ tray.label = hold.label /\ hold.items # <<>>
        /\ \A k \in DOMAIN writer :
             /\ writer[k].done = "no" => writer[k].op = "fail"
             /\ writer[k].done = "ok" => \E j \in DOMAIN writer : j >= k /\ writer[j].op = "drain"
    BY <2>1, HoldParts DEF DrainingSound
  <2>3. \A k \in DOMAIN writer' : writer'[k].done = "no" => writer'[k].op = "fail"
    BY <1>1, <2>2
  <2>4. ASSUME NEW k \in DOMAIN writer', writer'[k].done = "ok"
        PROVE  \E j \in DOMAIN writer' : j >= k /\ writer'[j].op = "drain"
    <3>1. k + 1 \in DOMAIN writer /\ writer'[k] = writer[k + 1] /\ k \in Nat /\ k > 0
      BY <1>1, <2>4
    <3>2. PICK j \in DOMAIN writer : j >= k + 1 /\ writer[j].op = "drain"
      BY <2>2, <2>4, <3>1
    <3>3. j - 1 \in DOMAIN writer' /\ writer'[j - 1] = writer[j] /\ j - 1 >= k
      BY <1>1, <3>1, <3>2
    <3> QED
      BY <3>2, <3>3
  <2> QED
    BY <2>2, <2>3, <2>4 DEF DrainingSound
<1> QED
  BY <1>3, <1>4, <1>5, <1>6

LEMMA Pumped ==
  ASSUME TrayFilesAssumption, HoldInv, NEW n, Shifted(n), holdMem' \in Windows,
         AppendSound', SwitchSound', DrainSound', DrainingSound', InOrder', ResultsSound', SnapSound', ReadSound',
         holdMem'.label = holdMem.label, holdMem'.out <=> holdMem.out, holdMem'.pending => holdMem.pending,
         holdMem'.retry # none => holdMem'.retry = holdMem.label,
         holdMem'.replay = holdMem.replay \/ (hold = Hold!NoHold \/ hold.label = holdMem'.replay),
         holdMem'.pending \/ lane.task = "lookup" => holdMem'.replay = holdMem.replay /\ (holdMem'.switching <=> holdMem.switching),
         holdMem'.due => tray # Hold!NoTray /\ holdMem'.snap # Hold!NoHold,
         UNCHANGED <<hold, quarantined, tray, trayFile, log, completed, admitted, lane, ids, holdFaults>>
  PROVE  HoldInv'
<1>1. FilesInv'
  BY FilesSame, HoldParts
<1>2. ControlTypes'
  BY HoldParts DEF ControlTypes, Shifted
<1>3. ScreenSound'
  BY HoldParts DEF ScreenSound
<1>4. PendingSound' /\ AgainSound'
  BY HoldParts DEF PendingSound, AgainSound
<1>5. LookupSound'
  BY HoldParts DEF LookupSound, Taken, Found, Files
<1>6. HeadJudged'
  BY HoldParts DEF HeadJudged, HeadDecided, HeadTold, Unjudged, Saved, Logged, Done, ItemId, Hold!ScanId
<1> QED
  BY <1>1, <1>2, <1>3, <1>4, <1>5, <1>6, HoldWhole

(* An answer about the hold: its snapshot is taken, or nothing is.         *)
LEMMA SnapshotTaken ==
  ASSUME TrayFilesAssumption, HoldInv, NEW n, Shifted(n), holdMem' \in Windows,
         writer[1].op \in {"append", "offline", "fail", "settle"},
         holdMem'.snap = holdMem.snap \/ (writer[1].done = "ok" /\ holdMem'.snap = writer[1].snap),
         (holdMem'.append <=> holdMem.append) \/ writer[1].op = "append",
         holdMem'.label = holdMem.label, holdMem'.out <=> holdMem.out, holdMem'.pending => holdMem.pending,
         holdMem'.retry = holdMem.retry \/ holdMem'.retry = holdMem.label,
         holdMem'.replay = holdMem.replay, holdMem'.switching <=> holdMem.switching, holdMem'.due <=> holdMem.due,
         UNCHANGED <<hold, quarantined, tray, trayFile, log, completed, admitted, lane, ids, holdFaults>>
  PROVE  HoldInv'
<1>1. InOrder' /\ ResultsSound' /\ (Removed(0) => Removed(0)') /\ (Removed(1) => Removed(0)')
  <2>1. \A i \in Nat : Removed(i + 1) => Removed(i)'
    BY QueueMoved
  <2>2. Removed(0 + 1) => Removed(0)'
    BY <2>1
  <2> QED
    BY <2>2, QueueMoved
<1>2. PICK s \in Hold!Holds : s = writer[1].snap
  BY QueueShape, HoldParts DEF Shifted
<1>3. writer[1].done = "ok" => /\ s # Hold!NoHold /\ s.state # "DRAINING" /\ Taken(s) /\ (Found(s) \/ Removed(1))
  BY <1>2, HoldParts DEF ResultsSound, Shifted
<1>4. holdMem.snap # Hold!NoHold => holdMem'.snap # Hold!NoHold
  BY <1>2, <1>3
<1>5. holdMem'.snap = holdMem.snap \/ holdMem'.snap.state # "DRAINING"
  BY <1>2, <1>3
<1>6. AppendSound' /\ SwitchSound' /\ DrainSound' /\ DrainingSound'
  BY <1>4, <1>5, RestSound
<1>7. SnapSound'
  <2>1. CASE holdMem'.snap = holdMem.snap
    BY <1>1, <2>1, HoldParts DEF SnapSound, Taken, Found, Files
  <2>2. CASE writer[1].done = "ok" /\ holdMem'.snap = s
    BY <1>1, <1>3, <2>2 DEF SnapSound, Taken, Found, Files
  <2> QED
    BY <1>2, <2>1, <2>2
<1>8. \A k \in DOMAIN writer' : writer'[k].done = "ok" => \E j \in DOMAIN writer : writer'[k] = writer[j]
  BY DEF Shifted
<1>9. ReadSound'
  <2>1. SUFFICES ASSUME holdMem'.snap.state = "DRAINING" \/ lane.task = "drain" PROVE ReadSound'
    BY DEF ReadSound
  <2>2. holdMem.snap.state = "DRAINING" \/ lane.task = "drain"
    BY <1>5, <2>1
  <2>3. /\ hold.id = holdMem.snap.id /\ hold.items = holdMem.snap.items /\ hold.items # <<>>
        /\ tray.label = hold.label /\ hold.label = holdMem.snap.label
        /\ hold.state \in {"DRAINING", "LOOKUP_FAILED"}
        /\ \A k \in DOMAIN writer : writer[k].done = "ok" =>
             writer[k].snap.id = hold.id /\ writer[k].snap.items = hold.items
    BY <2>2, HoldParts DEF ReadSound
  <2>4. writer[1].done = "ok" => s.id = hold.id /\ s.items = hold.items /\ s.label = hold.label
    <3>1. writer[1].done = "ok" => s.id = hold.id /\ s.items = hold.items
      BY <1>2, <2>3 DEF Shifted
    <3>2. writer[1].done = "ok" => s.label = hold.label
      BY <1>3, <3>1 DEF Taken, Files
    <3> QED
      BY <3>1, <3>2
  <2>5. /\ hold.id = holdMem'.snap.id /\ hold.items = holdMem'.snap.items /\ hold.label = holdMem'.snap.label
    BY <1>2, <2>3, <2>4
  <2>6. \A k \in DOMAIN writer' : writer'[k].done = "ok" =>
          writer'[k].snap.id = hold.id /\ writer'[k].snap.items = hold.items
    BY <1>8, <2>3
  <2> QED
    BY <2>3, <2>5, <2>6 DEF ReadSound
<1>10. holdMem'.retry # none => holdMem'.retry = holdMem.label
  BY HoldParts DEF AgainSound
<1>11. holdMem'.due => tray # Hold!NoTray /\ holdMem'.snap # Hold!NoHold
  BY <1>4, HoldParts DEF ScreenSound
<1> QED
  BY <1>1, <1>6, <1>7, <1>9, <1>10, <1>11, Pumped

(* The hold has been told to drain.                                        *)
LEMMA DrainHeard ==
  ASSUME TrayFilesAssumption, HoldInv, NEW n, Shifted(n), holdMem' \in Windows,
         writer[1].op = "drain",
         \/ holdMem' = holdMem /\ writer[1].done # "ok"
         \/ /\ writer[1].done = "ok" /\ holdMem'.snap = writer[1].snap /\ (holdMem'.due => writer[1].snap # Hold!NoHold)
            /\ holdMem'.append <=> holdMem.append
            /\ holdMem'.label = holdMem.label /\ (holdMem'.out <=> holdMem.out)
            /\ (holdMem'.pending <=> holdMem.pending) /\ holdMem'.retry = holdMem.retry
            /\ holdMem'.replay = holdMem.replay /\ (holdMem'.switching <=> holdMem.switching),
         UNCHANGED <<hold, quarantined, tray, trayFile, log, completed, admitted, lane, ids, holdFaults>>
  PROVE  HoldInv'
<1>1. /\ holdMem'.append <=> holdMem.append
      /\ holdMem'.label = holdMem.label /\ (holdMem'.out <=> holdMem.out) /\ (holdMem'.pending <=> holdMem.pending)
      /\ holdMem'.retry = holdMem.retry
      /\ holdMem'.replay = holdMem.replay /\ (holdMem'.switching <=> holdMem.switching)
  <2>1. CASE holdMem' = holdMem
    BY <2>1
  <2>2. CASE holdMem' # holdMem
    BY <2>2
  <2> QED
    BY <2>1, <2>2
<1>2. InOrder' /\ ResultsSound' /\ (Removed(1) => Removed(0)') /\ (writer[1].done # "ok" => (Removed(0) => Removed(0)'))
  <2>1. \A i \in Nat : Removed(i + 1) => Removed(i)'
    BY <1>1, QueueMoved
  <2>2. Removed(0 + 1) => Removed(0)'
    BY <2>1
  <2> QED
    BY <1>1, <2>2, QueueMoved
<1>3. AppendSound' /\ SwitchSound' /\ DrainSound' /\ DrainingSound'
  BY <1>1, RestSound
<1>4. /\ 1 \in DOMAIN writer /\ tray # Hold!NoTray /\ holdMem.snap # Hold!NoHold
      /\ ~holdMem.due /\ lane.task = "none" /\ holdMem.snap.state # "DRAINING"
  BY HoldParts DEF DrainSound, Shifted
<1>5. PICK s \in Hold!Holds : s = writer[1].snap
  BY <1>4, QueueShape, HoldParts
<1>6. SnapSound'
  <2>1. CASE holdMem' = holdMem /\ writer[1].done # "ok"
    BY <1>2, <2>1, HoldParts DEF SnapSound, Taken, Found, Files
  <2>2. CASE writer[1].done = "ok" /\ holdMem'.snap = s
    <3>1. Taken(s) /\ (Found(s) \/ Removed(1))
      BY <1>4, <1>5, HoldParts DEF ResultsSound
    <3> QED
      BY <1>2, <2>2, <3>1 DEF SnapSound, Taken, Found, Files
  <2> QED
    BY <1>5, <2>1, <2>2
<1>7. ReadSound'
  <2>1. SUFFICES ASSUME holdMem'.snap.state = "DRAINING" PROVE ReadSound'
    BY <1>4 DEF ReadSound
  <2>2. writer[1].done = "ok" /\ holdMem'.snap = s
    BY <1>4, <1>5, <2>1
  <2>3. s # Hold!NoHold
    BY <2>1, <2>2, FileFacts, HoldParts
  <2>4. /\ s.label = hold.label /\ s.items # <<>> /\ hold.state \in {"DRAINING", "LOOKUP_FAILED"}
        /\ \A j \in DOMAIN writer : j >= 1 /\ writer[j].done = "ok" =>
             writer[j].snap.id = hold.id /\ writer[j].snap.items = hold.items
    BY <1>4, <1>5, <2>2, <2>3, HoldParts DEF DrainSound
  <2>5. \A j \in DOMAIN writer : j >= 1
    BY DEF Shifted
  <2>6. s.id = hold.id /\ s.items = hold.items
    BY <1>4, <1>5, <2>2, <2>4, <2>5
  <2>7. tray.label = hold.label
    <3>1. tray = trayFile
      BY <1>4, HoldParts DEF ScreenSound
    <3>2. hold # Hold!NoHold
      BY <2>4, FileFacts, HoldParts
    <3> QED
      BY <1>4, <3>1, <3>2, HoldParts DEF FilesInv, HeadSound
  <2>8. \A k \in DOMAIN writer' : writer'[k].done = "ok" => \E j \in DOMAIN writer : writer'[k] = writer[j]
    BY DEF Shifted
  <2>9. \A k \in DOMAIN writer' : writer'[k].done = "ok" =>
          writer'[k].snap.id = hold.id /\ writer'[k].snap.items = hold.items
    BY <2>4, <2>5, <2>8
  <2> QED
    BY <2>2, <2>4, <2>6, <2>7, <2>9 DEF ReadSound
<1>8. holdMem'.due => tray # Hold!NoTray /\ holdMem'.snap # Hold!NoHold
  BY <1>4
<1>9. holdMem'.retry # none => holdMem'.retry = holdMem.label
  BY <1>1, HoldParts DEF AgainSound
<1> QED
  BY <1>1, <1>2, <1>3, <1>6, <1>7, <1>8, <1>9, Pumped

(* The hold was set aside, or stays.                                       *)
LEMMA SwitchHeard ==
  ASSUME TrayFilesAssumption, HoldInv, NEW n, Shifted(n), writer[1].op = "switch",
         NEW m \in Windows, m.snap = Hold!NoHold, ~m.pending, ~m.switching, m.label = holdMem.label,
         m.append <=> holdMem.append, m.due <=> holdMem.due, m.out <=> holdMem.out,
         m.retry = holdMem.retry, m.replay = holdMem.replay,
         \/ writer[1].done # "ok" /\ holdMem' = Hold!RestoreHold(m, tray)
         \/ writer[1].done = "ok" /\ holdMem' = [m EXCEPT !.replay = writer[1].label]
         \/ writer[1].done = "ok" /\ holdMem' = m,
         UNCHANGED <<hold, quarantined, tray, trayFile, log, completed, admitted, lane, ids, holdFaults>>
  PROVE  HoldInv'
<1>1. /\ 1 \in DOMAIN writer /\ ~holdMem.pending /\ lane.task # "lookup" /\ trayFile = Hold!NoTray
      /\ writer[1].label \in Labels /\ (writer[1].done = "ok" => hold = Hold!NoHold)
  BY HoldParts DEF SwitchSound, Shifted
<1>2. tray = Hold!NoTray
  BY <1>1, HoldParts DEF ScreenSound
<1>3. /\ hold.state # "DRAINING" /\ holdMem.snap.state # "DRAINING" /\ ~holdMem.due /\ lane.task # "drain"
  BY <1>2, NothingDrains
<1>5. Taken(hold) /\ Found(hold)
  <2>1. \A q \in quarantined : q.id # hold.id
    BY HoldParts DEF FilesInv, IdsSound
  <2> QED
    BY <2>1, HoldParts DEF FilesInv, IdsSound, Taken, Found, Files
<1>6. /\ holdMem' \in Windows /\ ~holdMem'.pending /\ holdMem'.label = holdMem.label
      /\ (holdMem'.append <=> holdMem.append) /\ ~holdMem'.due /\ (holdMem'.out <=> holdMem.out)
      /\ holdMem'.retry = holdMem.retry
      /\ holdMem'.replay = holdMem.replay \/ (hold = Hold!NoHold \/ hold.label = holdMem'.replay)
      /\ holdMem'.snap \in {Hold!NoHold, hold}
  <2>1. CASE writer[1].done # "ok" /\ holdMem' = Hold!RestoreHold(m, tray)
    <3>1. PICK w : w = Hold!RestoreHold(m, tray)
      OBVIOUS
    <3>2. /\ w \in Windows /\ w.snap = hold /\ w.label = m.label /\ (w.pending <=> m.pending) /\ (w.append <=> m.append)
          /\ (w.out <=> m.out) /\ w.retry = m.retry /\ (w.replay = m.replay \/ (hold # Hold!NoHold /\ w.replay = hold.label))
          /\ (w.due => m.due \/ hold.state = "DRAINING")
      BY <1>3, <3>1, WindowRestored, ControlFacts
    <3> QED
      BY <1>3, <2>1, <3>1, <3>2
  <2>2. CASE writer[1].done = "ok" /\ holdMem' = [m EXCEPT !.replay = writer[1].label]
    <3>1. PICK l \in Labels : l = writer[1].label
      BY <1>1
    <3>2. holdMem' = [m EXCEPT !.replay = l]
      BY <2>2, <3>1
    <3>3. /\ holdMem' \in Windows /\ ~holdMem'.pending /\ holdMem'.label = m.label
          /\ (holdMem'.append <=> m.append) /\ (holdMem'.due <=> m.due) /\ (holdMem'.out <=> m.out)
          /\ holdMem'.retry = m.retry /\ holdMem'.snap = m.snap
      BY <3>2 DEF Windows
    <3> QED
      BY <1>1, <1>3, <2>2, <3>3
  <2>3. CASE writer[1].done = "ok" /\ holdMem' = m
    BY <1>1, <1>3, <2>3
  <2> QED
    BY <2>1, <2>2, <2>3
<1>7. InOrder' /\ ResultsSound'
  BY <1>6, QueueMoved
<1>8. AppendSound' /\ SwitchSound' /\ DrainSound' /\ DrainingSound'
  BY <1>6, RestSound
<1>9. SnapSound'
  BY <1>5, <1>6 DEF SnapSound, Taken, Found, Files
<1>10. ReadSound'
  BY <1>3, <1>6, FileFacts, HoldParts DEF ReadSound
<1>11. holdMem'.retry # none => holdMem'.retry = holdMem.label
  BY <1>6, HoldParts DEF AgainSound
<1> QED
  BY <1>1, <1>6, <1>7, <1>8, <1>9, <1>10, <1>11, Pumped

LEMMA ResultHeard ==
  ASSUME TrayFilesAssumption, HoldInv, Hold!Pump
  PROVE  HoldInv'
<1>1. /\ writer # <<>> /\ Head(writer).done # "no"
      /\ UNCHANGED <<hold, quarantined, tray, trayFile, log, completed, admitted, lane, ids, holdFaults>>
  BY DEF Hold!Pump
<1>2. PICK n : n = Len(writer)
  OBVIOUS
<1>3. PICK u \in Tasks : u = Hold!Task("fail", hold.label, none, hold.id)
  <2>1. hold.label \in Labels \cup {none} /\ hold.id \in Nat
    BY HoldShape, HoldParts DEF FilesInv, FileTypes
  <2> QED
    BY <2>1, NoHoldIsHold DEF Tasks, Hold!Task
<1>4. u.op = "fail" /\ u.done = "no" /\ u.snap = Hold!NoHold
  BY <1>3 DEF Hold!Task
<1>5. writer' = Tail(writer) \/ writer' = Append(Tail(writer), u)
  BY <1>3 DEF Hold!Pump, Hold!MarkFailed
<1>6. Shifted(n) /\ Head(writer) = writer[1]
  BY <1>1, <1>2, <1>4, <1>5, QueueShift, HoldParts
<1>7. 1 \in DOMAIN writer
  BY <1>6 DEF Shifted
<1>8. PICK t \in Tasks : t = writer[1]
  BY <1>7, QueueShape, HoldParts
<1>9. t.snap \in Hold!Holds /\ t.label \in Labels \cup {none}
  BY <1>8 DEF Tasks
<1>10. CASE t.op = "append" /\ holdMem' = IF t.done = "ok" THEN [holdMem EXCEPT !.append = FALSE, !.snap = t.snap]
                                          ELSE [holdMem EXCEPT !.append = FALSE, !.locked = TRUE]
  <2>1. /\ holdMem' \in Windows /\ (holdMem'.snap = holdMem.snap \/ (t.done = "ok" /\ holdMem'.snap = t.snap))
        /\ holdMem'.label = holdMem.label /\ (holdMem'.out <=> holdMem.out) /\ (holdMem'.pending => holdMem.pending)
        /\ holdMem'.retry = holdMem.retry /\ holdMem'.replay = holdMem.replay
        /\ (holdMem'.switching <=> holdMem.switching) /\ (holdMem'.due <=> holdMem.due)
    BY <1>9, <1>10, ControlFacts DEF Windows
  <2> QED
    BY <1>1, <1>6, <1>8, <1>10, <2>1, SnapshotTaken
<1>11. CASE t.op = "offline" /\ t.done = "ok" /\ holdMem' = IF t.fresh THEN [holdMem EXCEPT !.snap = t.snap, !.retry = t.label]
                                                           ELSE holdMem
  <2>1. t.fresh => t.label = holdMem.label
    BY <1>7, <1>8, <1>11, HoldParts DEF ResultsSound
  <2>2. /\ holdMem' \in Windows /\ (holdMem'.snap = holdMem.snap \/ holdMem'.snap = t.snap)
        /\ holdMem'.label = holdMem.label /\ (holdMem'.out <=> holdMem.out) /\ (holdMem'.pending => holdMem.pending)
        /\ holdMem'.retry \in {holdMem.retry, holdMem.label} /\ holdMem'.replay = holdMem.replay
        /\ (holdMem'.switching <=> holdMem.switching) /\ (holdMem'.due <=> holdMem.due)
        /\ (holdMem'.append <=> holdMem.append)
    <3>1. CASE t.fresh
      BY <1>9, <1>11, <2>1, <3>1, ControlFacts DEF Windows
    <3>2. CASE ~t.fresh
      BY <1>11, <3>2, ControlFacts
    <3> QED
      BY <3>1, <3>2
  <2> QED
    BY <1>1, <1>6, <1>8, <1>11, <2>2, SnapshotTaken
<1>12. CASE t.op = "offline" /\ t.done # "ok" /\ Hold!MarkFailed(holdMem, Tail(writer))
  <2>1. PICK q : q = [holdMem EXCEPT !.offline = FALSE]
    OBVIOUS
  <2>2. holdMem' = [q EXCEPT !.pending = FALSE] \/ holdMem' = q \/ holdMem' = [q EXCEPT !.locked = TRUE]
    BY <1>12, <2>1 DEF Hold!MarkFailed
  <2>3. /\ q \in Windows /\ q.snap = holdMem.snap
        /\ q.label = holdMem.label /\ (q.out <=> holdMem.out) /\ (q.pending <=> holdMem.pending)
        /\ q.retry = holdMem.retry /\ q.replay = holdMem.replay
        /\ (q.switching <=> holdMem.switching) /\ (q.due <=> holdMem.due) /\ (q.append <=> holdMem.append)
    BY <2>1, ControlFacts DEF Windows
  <2>4. /\ holdMem' \in Windows /\ holdMem'.snap = q.snap
        /\ holdMem'.label = q.label /\ (holdMem'.out <=> q.out) /\ (holdMem'.pending => q.pending)
        /\ holdMem'.retry = q.retry /\ holdMem'.replay = q.replay
        /\ (holdMem'.switching <=> q.switching) /\ (holdMem'.due <=> q.due) /\ (holdMem'.append <=> q.append)
    <3>1. CASE holdMem' = [q EXCEPT !.pending = FALSE]
      BY <2>3, <3>1 DEF Windows
    <3>2. CASE holdMem' = q
      BY <2>3, <3>2
    <3>3. CASE holdMem' = [q EXCEPT !.locked = TRUE]
      BY <2>3, <3>3 DEF Windows
    <3> QED
      BY <2>2, <3>1, <3>2, <3>3
  <2> QED
    BY <1>1, <1>6, <1>8, <1>12, <2>3, <2>4, SnapshotTaken
<1>13. CASE t.op = "fail" /\ holdMem' = IF t.done = "ok" THEN [holdMem EXCEPT !.snap = t.snap, !.pending = FALSE,
                                                                           !.locked = TRUE, !.notice = TRUE]
                                        ELSE holdMem
  <2>1. /\ holdMem' \in Windows /\ (holdMem'.snap = holdMem.snap \/ (t.done = "ok" /\ holdMem'.snap = t.snap))
        /\ holdMem'.label = holdMem.label /\ (holdMem'.out <=> holdMem.out) /\ (holdMem'.pending => holdMem.pending)
        /\ holdMem'.retry = holdMem.retry /\ holdMem'.replay = holdMem.replay
        /\ (holdMem'.switching <=> holdMem.switching) /\ (holdMem'.due <=> holdMem.due)
        /\ (holdMem'.append <=> holdMem.append)
    <3>1. CASE t.done = "ok"
      BY <1>9, <1>13, <3>1, ControlFacts DEF Windows
    <3>2. CASE t.done # "ok"
      BY <1>13, <3>2, ControlFacts
    <3> QED
      BY <3>1, <3>2
  <2> QED
    BY <1>1, <1>6, <1>8, <1>13, <2>1, SnapshotTaken
<1>14. CASE t.op = "drain" /\ holdMem' = IF t.done = "ok" THEN [holdMem EXCEPT !.snap = t.snap, !.draining = t.snap # Hold!NoHold,
                                                                           !.due = t.snap # Hold!NoHold, !.locked = t.snap # Hold!NoHold]
                                         ELSE holdMem
  <2>1. CASE t.done = "ok"
    <3>1. PICK b \in BOOLEAN : b <=> t.snap # Hold!NoHold
      OBVIOUS
    <3>2. b = (t.snap # Hold!NoHold)
      BY <3>1
    <3>3. holdMem' = [holdMem EXCEPT !.snap = t.snap, !.draining = b, !.due = b, !.locked = b]
      BY <1>14, <2>1, <3>2
    <3>4. /\ holdMem' \in Windows /\ holdMem'.snap = t.snap /\ (holdMem'.due => b)
          /\ holdMem'.label = holdMem.label /\ (holdMem'.out <=> holdMem.out) /\ (holdMem'.pending <=> holdMem.pending)
          /\ holdMem'.retry = holdMem.retry /\ holdMem'.replay = holdMem.replay
          /\ (holdMem'.switching <=> holdMem.switching) /\ (holdMem'.append <=> holdMem.append)
      BY <1>9, <3>3, ControlFacts DEF Windows
    <3> QED
      BY <1>1, <1>6, <1>8, <1>14, <2>1, <3>1, <3>4, DrainHeard
  <2>2. CASE t.done # "ok"
    <3>1. holdMem' = holdMem /\ holdMem' \in Windows
      BY <1>14, <2>2, ControlFacts
    <3> QED
      BY <1>1, <1>6, <1>8, <1>14, <2>2, <3>1, DrainHeard
  <2> QED
    BY <2>1, <2>2
<1>15. CASE t.op = "settle" /\ holdMem' = IF t.done = "ok" THEN [holdMem EXCEPT !.snap = t.snap,
                                                                            !.draining = t.snap.state = "DRAINING"]
                                          ELSE holdMem
  <2>1. /\ holdMem' \in Windows /\ (holdMem'.snap = holdMem.snap \/ (t.done = "ok" /\ holdMem'.snap = t.snap))
        /\ holdMem'.label = holdMem.label /\ (holdMem'.out <=> holdMem.out) /\ (holdMem'.pending => holdMem.pending)
        /\ holdMem'.retry = holdMem.retry /\ holdMem'.replay = holdMem.replay
        /\ (holdMem'.switching <=> holdMem.switching) /\ (holdMem'.due <=> holdMem.due)
        /\ (holdMem'.append <=> holdMem.append)
    <3>1. CASE t.done = "ok"
      <4>1. PICK b \in BOOLEAN : b <=> t.snap.state = "DRAINING"
        OBVIOUS
      <4>2. b = (t.snap.state = "DRAINING")
        BY <4>1
      <4>3. holdMem' = [holdMem EXCEPT !.snap = t.snap, !.draining = b]
        BY <1>15, <3>1, <4>2
      <4> QED
        BY <1>9, <3>1, <4>3, ControlFacts DEF Windows
    <3>2. CASE t.done # "ok"
      BY <1>15, <3>2, ControlFacts
    <3> QED
      BY <3>1, <3>2
  <2> QED
    BY <1>1, <1>6, <1>8, <1>15, <2>1, SnapshotTaken
<1>16. CASE /\ t.op = "switch"
            /\ LET m == [holdMem EXCEPT !.switching = FALSE, !.snap = Hold!NoHold, !.draining = FALSE,
                                        !.pending = FALSE, !.locked = FALSE]
               IN  holdMem' = IF t.done # "ok" THEN Hold!RestoreHold(m, tray)
                              ELSE IF t.fresh THEN [m EXCEPT !.replay = t.label] ELSE m
  <2>1. PICK m : m = [holdMem EXCEPT !.switching = FALSE, !.snap = Hold!NoHold, !.draining = FALSE,
                                     !.pending = FALSE, !.locked = FALSE]
    OBVIOUS
  <2>2. /\ m \in Windows /\ m.snap = Hold!NoHold /\ ~m.pending /\ ~m.switching /\ m.label = holdMem.label
        /\ (m.append <=> holdMem.append) /\ (m.due <=> holdMem.due) /\ (m.out <=> holdMem.out)
        /\ m.retry = holdMem.retry /\ m.replay = holdMem.replay
    BY <2>1, ControlFacts, NoHoldIsHold DEF Windows
  <2>3. \/ t.done # "ok" /\ holdMem' = Hold!RestoreHold(m, tray)
        \/ t.done = "ok" /\ holdMem' = [m EXCEPT !.replay = t.label]
        \/ t.done = "ok" /\ holdMem' = m
    BY <1>16, <2>1
  <2> QED
    BY <1>1, <1>6, <1>8, <1>16, <2>2, <2>3, SwitchHeard
<1>17. (t.done = "ok" \/ t.done # "ok") /\ Head(writer) = t
  BY <1>6, <1>8
<1>18. t.op = "append" \/ t.op = "offline" \/ t.op = "fail" \/ t.op = "drain" \/ t.op = "settle" \/ t.op = "switch"
  BY <1>8 DEF Tasks
<1>19. CASE t.op = "append"
  <2>1. holdMem' = IF t.done = "ok" THEN [holdMem EXCEPT !.append = FALSE, !.snap = t.snap]
                   ELSE [holdMem EXCEPT !.append = FALSE, !.locked = TRUE]
    BY <1>17, <1>19 DEF Hold!Pump
  <2> QED
    BY <1>10, <1>19, <2>1
<1>20. CASE t.op = "offline"
  <2>1. CASE t.done = "ok"
    <3>1. holdMem' = IF t.fresh THEN [holdMem EXCEPT !.snap = t.snap, !.retry = t.label] ELSE holdMem
      BY <1>17, <1>20, <2>1 DEF Hold!Pump
    <3> QED
      BY <1>11, <1>20, <2>1, <3>1
  <2>2. CASE t.done # "ok"
    <3>1. Hold!MarkFailed(holdMem, Tail(writer))
      BY <1>17, <1>20, <2>2 DEF Hold!Pump
    <3> QED
      BY <1>12, <1>20, <2>2, <3>1
  <2> QED
    BY <2>1, <2>2
<1>21. CASE t.op = "fail"
  <2>1. holdMem' = IF t.done = "ok" THEN [holdMem EXCEPT !.snap = t.snap, !.pending = FALSE,
                                                         !.locked = TRUE, !.notice = TRUE]
                   ELSE holdMem
    BY <1>17, <1>21 DEF Hold!Pump
  <2> QED
    BY <1>13, <1>21, <2>1
<1>22. CASE t.op = "drain"
  <2>1. holdMem' = IF t.done = "ok" THEN [holdMem EXCEPT !.snap = t.snap, !.draining = t.snap # Hold!NoHold,
                                                         !.due = t.snap # Hold!NoHold, !.locked = t.snap # Hold!NoHold]
                   ELSE holdMem
    BY <1>17, <1>22 DEF Hold!Pump
  <2> QED
    BY <1>14, <1>22, <2>1
<1>23. CASE t.op = "settle"
  <2>1. holdMem' = IF t.done = "ok" THEN [holdMem EXCEPT !.snap = t.snap, !.draining = t.snap.state = "DRAINING"]
                   ELSE holdMem
    BY <1>17, <1>23 DEF Hold!Pump
  <2> QED
    BY <1>15, <1>23, <2>1
<1>24. CASE t.op = "switch"
  <2>1. LET m == [holdMem EXCEPT !.switching = FALSE, !.snap = Hold!NoHold, !.draining = FALSE,
                                 !.pending = FALSE, !.locked = FALSE]
        IN  holdMem' = IF t.done # "ok" THEN Hold!RestoreHold(m, tray)
                       ELSE IF t.fresh THEN [m EXCEPT !.replay = t.label] ELSE m
    BY <1>17, <1>24 DEF Hold!Pump
  <2> QED
    BY <1>16, <1>24, <2>1
<1> QED
  BY <1>18, <1>19, <1>20, <1>21, <1>22, <1>23, <1>24

-----------------------------------------------------------------------------
(* The program begins, and nothing happens to the hold.                    *)
LEMMA HoldBegins ==
  ASSUME TrayFilesAssumption, Hold!Init
  PROVE  HoldInv
<1>1. /\ hold = Hold!NoHold /\ quarantined = {} /\ tray = Hold!NoTray /\ trayFile = Hold!NoTray
      /\ log = <<>> /\ completed = <<>> /\ admitted = {}
      /\ holdMem = Hold!NoMem /\ writer = <<>> /\ lane = Hold!NoLane /\ ids = 0 /\ holdFaults = 0
  BY DEF Hold!Init
<1>2. /\ Hold!NoHold \in Hold!Holds /\ Hold!NoHold.id = 0 /\ Hold!NoHold.label = none
      /\ Hold!NoHold.items = <<>> /\ Hold!NoHold.state = "NONE" /\ DOMAIN Hold!NoHold.items = {}
  BY NoHoldIsHold, HoldShape
<1>3. Hold!NoTray.label = none /\ Hold!NoTray.scanned = <<>> /\ Hold!NoTray = [label |-> none, scanned |-> <<>>]
  BY DEF Hold!NoTray
<1>4. DOMAIN <<>> = {} /\ Len(<<>>) = 0 /\ <<>> \in Seq(Products) /\ <<>> \in Seq(Tasks)
      /\ <<>> \in Seq({"SCAN_OK", "SCAN_FAIL"} \X Receipts)
  OBVIOUS
<1>5. TraySize \in Nat /\ MaxHolds \in Nat /\ MaxHoldFaults \in Nat
  BY DEF TrayFilesAssumption, Hold!HoldAssumption
<1>6. Hold!NoTray \in TrayStates
  BY <1>3, <1>4 DEF TrayStates
<1>7. FilesInv
  <2>1. FileTypes
    <3>1. completed = [l \in DOMAIN completed |-> completed[l]]
      BY <1>1
    <3> QED
      BY <1>1, <1>2, <1>3, <1>4, <1>5, <1>6, <3>1 DEF FileTypes
  <2>2. IdsSound
    BY <1>1 DEF IdsSound
  <2>3. ScansSound
    BY <1>1, <1>2 DEF ScansSound, AcceptedSound, LastSound, ItemsSound, OrderSound, Files, Increasing
  <2>4. HeadSound
    BY <1>1, <1>2 DEF HeadSound, FromFirst
  <2>5. LogSound
    BY <1>1, <1>3, <1>4 DEF LogSound, TraysSound, TraySound, VerdictsSound, KeptSound
  <2> QED
    BY <2>1, <2>2, <2>3, <2>4, <2>5 DEF FilesInv
<1>8. /\ holdMem.snap = Hold!NoHold /\ ~holdMem.pending /\ ~holdMem.due /\ ~holdMem.out
      /\ holdMem.retry = none /\ holdMem.replay = none /\ lane.task = "none" /\ lane.step = "idle"
  BY <1>1 DEF Hold!NoMem, Hold!NoLane
<1>9. ControlTypes
  BY <1>1, <1>4, <1>5, <1>6, WindowBegins DEF ControlTypes
<1>10. QueueInv
  BY <1>1, <1>2, <1>4 DEF QueueInv, InOrder, ResultsSound, AppendSound, SwitchSound, DrainSound, DrainingSound
<1>11. WindowInv
  BY <1>1, <1>2, <1>8 DEF WindowInv, ScreenSound, SnapSound, Taken, Found, PendingSound, AgainSound, ReadSound
<1>12. LookupSound /\ HeadJudged
  BY <1>8 DEF LookupSound, HeadJudged
<1> QED
  BY <1>7, <1>9, <1>10, <1>11, <1>12 DEF HoldInv, ControlInv

LEMMA HoldStays ==
  ASSUME TrayFilesAssumption, HoldInv, UNCHANGED holdVars
  PROVE  HoldInv'
<1>1. UNCHANGED <<hold, quarantined, tray, trayFile, log, completed, admitted, holdMem, writer, lane, ids, holdFaults>>
  BY DEF holdVars
<1>2. FilesInv'
  BY <1>1, FilesSame, HoldParts
<1>3. ControlTypes'
  BY <1>1, HoldParts DEF ControlTypes
<1>4. \A s \in Hold!Holds : (Taken(s) => Taken(s)') /\ (Found(s) => Found(s)')
  BY <1>1, SameFiles
<1>5. InOrder' /\ ResultsSound' /\ (Removed(0)' <=> Removed(0))
  <2>1. InOrder' /\ ResultsSound' /\ \A i \in Nat : Removed(i)' <=> Removed(i)
    BY <1>1, <1>4, QueueAlone
  <2> QED
    BY <2>1
<1>6. AppendSound' /\ SwitchSound'
  BY <1>1, HoldParts DEF AppendSound, SwitchSound, Queued
<1>7. DrainSound' /\ DrainingSound'
  BY <1>1, HoldParts DEF DrainSound, DrainingSound
<1>8. ScreenSound' /\ PendingSound' /\ AgainSound' /\ ReadSound'
  BY <1>1, HoldParts DEF ScreenSound, PendingSound, AgainSound, ReadSound
<1>9. SnapSound'
  BY <1>1, <1>5, HoldParts DEF SnapSound, Taken, Found, Files
<1>10. LookupSound'
  BY <1>1, HoldParts DEF LookupSound, Taken, Found, Files
<1>11. HeadJudged'
  BY <1>1, HoldParts DEF HeadJudged, HeadDecided, HeadTold, Unjudged, Saved, Logged, Done, ItemId, Hold!ScanId
<1> QED
  BY <1>2, <1>3, <1>5, <1>6, <1>7, <1>8, <1>9, <1>10, <1>11, HoldWhole

(* Every step of the hold keeps the invariant.                             *)
LEMMA HoldMoves ==
  ASSUME TrayFilesAssumption, HoldInv, Hold!Next
  PROVE  HoldInv'
<1>1. CASE \E l \in Labels : Hold!ScanLabel(l) \/ Hold!SwitchLabel(l)
  BY <1>1, LabelScanned, LabelSwitched
<1>2. CASE \E c \in Codes : Hold!ScanHeld(c) \/ Hold!ScanLive(c)
  BY <1>2, ProductHeld, ProductScanned
<1>3. CASE \E q \in quarantined : Hold!RestoreQuarantined(q)
  BY <1>3, HoldRestored
<1>4. CASE Hold!Lookup
  <2>1. \/ Hold!PrepareHold \/ Hold!AskServer \/ Hold!LookupStale \/ Hold!LookupFails \/ Hold!LookupOffline
        \/ Hold!Activate \/ Hold!ActivationFails \/ Hold!RetryOffline \/ Hold!ReplayRefused
    BY <1>4 DEF Hold!Lookup
  <2> QED
    BY <2>1, HoldAskedFor, ServerAsked, LookupWasStale, LookupFailed, LookupWentOffline, TrayActivated,
       ActivationFailed, LookedUpAgain, ReplayWasRefused
<1>5. CASE Hold!WriterStep
  BY <1>5, TaskWritten
<1>6. CASE Hold!Pump
  BY <1>6, ResultHeard
<1>7. CASE Hold!Drain
  <2>1. Hold!DrainHead \/ Hold!DrainSave \/ Hold!DrainLog \/ Hold!DrainAck \/ Hold!DrainFails
    BY <1>7 DEF Hold!Drain
  <2> QED
    BY <2>1, HeadLookedAt, HeadPutInTray, HeadEventLogged, HeadAcked, DrainFailed
<1>8. CASE Hold!AckNotice \/ Hold!SupervisorQuarantine \/ Hold!CompleteTray
  BY <1>8, NoticeRead, SupervisorSetAside, TrayCompleted
<1>9. CASE Hold!Login \/ Hold!Close \/ Hold!Crash
  BY <1>9, LoggedIn, DayClosed, Crashed
<1>10. \/ \E l \in Labels : Hold!ScanLabel(l) \/ Hold!SwitchLabel(l)
       \/ \E c \in Codes : Hold!ScanHeld(c) \/ Hold!ScanLive(c)
       \/ \E q \in quarantined : Hold!RestoreQuarantined(q)
       \/ Hold!Lookup \/ Hold!WriterStep \/ Hold!Pump \/ Hold!Drain
       \/ Hold!AckNotice \/ Hold!SupervisorQuarantine \/ Hold!CompleteTray
       \/ Hold!Login \/ Hold!Close \/ Hold!Crash
  BY DEF Hold!Next
<1> QED
  BY <1>1, <1>2, <1>3, <1>4, <1>5, <1>6, <1>7, <1>8, <1>9, <1>10

-----------------------------------------------------------------------------
(* What the invariant says of the scans.                                   *)
LEMMA EveryTray ==
  ASSUME HoldInv, NEW t \in Hold!Trays
  PROVE  TraySound(t.label, t.scanned)
<1>1. CASE t = trayFile
  BY <1>1, HoldParts DEF FilesInv, LogSound, TraysSound
<1>2. ASSUME NEW l \in DOMAIN completed, t = [label |-> l, scanned |-> completed[l]]
      PROVE  TraySound(t.label, t.scanned)
  BY <1>2, HoldParts DEF FilesInv, LogSound, TraysSound
<1> QED
  BY <1>1, <1>2 DEF Hold!Trays

LEMMA InSomeTray ==
  ASSUME NEW id
  PROVE  (\E t \in Hold!Trays : id \in Hold!Range(Hold!Receipts(t))) <=> (Saved(id) \/ Done(id))
<1>1. \A t : id \in Hold!Range(Hold!Receipts(t)) <=> \E k \in DOMAIN t.scanned : t.scanned[k].receipt = id
  BY DEF Hold!Range, Hold!Receipts
<1>2. (\E t \in Hold!Trays : \E k \in DOMAIN t.scanned : t.scanned[k].receipt = id) <=> (Saved(id) \/ Done(id))
  <2>1. Saved(id) => \E t \in Hold!Trays : \E k \in DOMAIN t.scanned : t.scanned[k].receipt = id
    BY DEF Saved, Hold!Trays
  <2>2. ASSUME NEW l \in DOMAIN completed, NEW k \in DOMAIN completed[l], completed[l][k].receipt = id
        PROVE  \E t \in Hold!Trays : \E j \in DOMAIN t.scanned : t.scanned[j].receipt = id
    <3>1. PICK t \in Hold!Trays : t = [label |-> l, scanned |-> completed[l]]
      BY DEF Hold!Trays
    <3> QED
      BY <2>2, <3>1
  <2>3. ASSUME NEW t \in Hold!Trays, NEW k \in DOMAIN t.scanned, t.scanned[k].receipt = id
        PROVE  Saved(id) \/ Done(id)
    <3>1. CASE t = trayFile
      BY <2>3, <3>1 DEF Saved
    <3>2. ASSUME NEW l \in DOMAIN completed, t = [label |-> l, scanned |-> completed[l]] PROVE Done(id)
      BY <2>3, <3>2 DEF Done
    <3> QED
      BY <3>1, <3>2 DEF Hold!Trays
  <2> QED
    BY <2>1, <2>2, <2>3 DEF Done
<1> QED
  BY <1>1, <1>2

LEMMA HeldTypes ==
  ASSUME TrayFilesAssumption, HoldInv
  PROVE  Hold!HoldTypeOK
<1>1. /\ hold \in Hold!Holds /\ quarantined \subseteq Hold!Holds \ {Hold!NoHold}
      /\ trayFile \in TrayStates /\ Len(trayFile.scanned) <= TraySize
      /\ DOMAIN completed \subseteq Labels /\ ids \in 0..MaxHolds
  BY HoldParts DEF FilesInv, FileTypes
<1>2. tray = trayFile \/ tray = Hold!NoTray
  BY HoldParts DEF ScreenSound
<1>3. Len(Hold!NoTray.scanned) <= TraySize
  <2>1. Len(<<>>) = 0
    OBVIOUS
  <2> QED
    BY <2>1 DEF Hold!NoTray, TrayFilesAssumption, Hold!HoldAssumption
<1>4. tray.label \in Labels \cup {none} /\ trayFile.label \in Labels \cup {none}
  BY <1>1, ControlFacts DEF TrayStates
<1>5. Len(tray.scanned) <= TraySize
  BY <1>1, <1>2, <1>3
<1>6. lane.step \in {"idle", "hold", "ask", "got", "save", "log", "ack"}
  BY ControlFacts DEF Lanes
<1>7. holdFaults \in 0..MaxHoldFaults
  BY HoldParts DEF ControlTypes
<1> QED
  BY <1>1, <1>4, <1>5, <1>6, <1>7, ControlFacts DEF Hold!HoldTypeOK

LEMMA HeldKept ==
  ASSUME HoldInv
  PROVE  Hold!AcceptedNeverLost
<1> SUFFICES ASSUME NEW a \in admitted PROVE Hold!Kept(a) \/ Hold!Settled(a)
  BY DEF Hold!AcceptedNeverLost
<1>1. CASE Logged(a.id)
  BY <1>1 DEF Logged, Hold!Settled, Hold!ToSet
<1>2. ASSUME NEW h \in Files, NEW k \in DOMAIN h.items, ItemId(h, k) = a.id
      PROVE  Hold!Kept(a)
  BY <1>2 DEF Files, ItemId, Hold!Kept, Hold!HeldIn
<1> QED
  BY <1>1, <1>2, HoldParts DEF FilesInv, LogSound, KeptSound

LEMMA HeldJudgedOnce ==
  ASSUME HoldInv
  PROVE  Hold!OneVerdict
<1>1. \A j, k \in DOMAIN log : log[j][2] = log[k][2] => j = k
  BY HoldParts DEF FilesInv, LogSound, VerdictsSound
<1>2. ASSUME NEW e \in Hold!ToSet(log)
      PROVE  (e[1] = "SCAN_OK") <=> \E t \in Hold!Trays : e[2] \in Hold!Range(Hold!Receipts(t))
  <2>1. PICK k \in DOMAIN log : log[k] = e
    BY <1>2 DEF Hold!ToSet
  <2>2. (e[1] = "SCAN_OK") <=> (Saved(e[2]) \/ Done(e[2]))
    BY <2>1, HoldParts DEF FilesInv, LogSound, VerdictsSound
  <2> QED
    BY <2>2, InSomeTray
<1> QED
  BY <1>1, <1>2 DEF Hold!OneVerdict

LEMMA HeldOrdered ==
  ASSUME HoldInv
  PROVE  Hold!HeldInOrder
BY EveryTray DEF TraySound, Hold!HeldInOrder

LEMMA HeldAsMeant ==
  ASSUME TrayFilesAssumption, HoldInv
  PROVE  Hold!HeldForItsLabel
<1>1. \A a \in admitted : a.meant = a.label
  BY HoldParts DEF FilesInv, ScansSound, AcceptedSound
<1>2. ASSUME NEW t \in Hold!Trays, NEW k \in DOMAIN t.scanned, NEW a \in admitted, a.id = t.scanned[k].receipt
      PROVE  a.label = t.label
  <2>1. t.scanned[k].receipt # Hold!LiveScan
    BY <1>2, FileFacts, HoldParts DEF Hold!LiveScan
  <2>2. PICK b \in admitted : b.id = t.scanned[k].receipt /\ b.label = t.label
    BY <2>1, EveryTray DEF TraySound
  <2> QED
    BY <1>2, <2>2, HoldParts DEF FilesInv, ScansSound, AcceptedSound
<1> QED
  BY <1>1, <1>2 DEF Hold!HeldForItsLabel

LEMMA HeldOnce ==
  ASSUME HoldInv
  PROVE  Hold!OneHoldPerLabel
BY HoldParts DEF FilesInv, IdsSound, Hold!OneHoldPerLabel

-----------------------------------------------------------------------------
(* A product scanned while the server is asked about a label               *)
(* (_hold_scan_during_preflight, preflight_scan_hold.py) is in a hold file *)
(* or the log says what became of it; its event is written once, SCAN_OK   *)
(* exactly when the product is in the tray of the label it was scanned     *)
(* for; the tray has it in its place, and a label has one hold.  For any   *)
(* labels, products, sizes of tray, hold and queue, whatever the lookup,   *)
(* the writer thread and the operator do in between, and wherever a write, *)
(* the server or the program fails.                                        *)
THEOREM ScansHeld == Spec => []ScansKept
<1>1. Init => (part = "hold" => HoldInv)
  BY TrayFilesAssumption, HoldBegins DEF Init
<1>2. (part = "hold" => HoldInv) /\ [Next]_vars => (part = "hold" => HoldInv)'
  <2> SUFFICES ASSUME part = "hold" => HoldInv, [Next]_vars, part' = "hold"
               PROVE  HoldInv'
    OBVIOUS
  <2>1. part = "hold" /\ HoldInv
    BY DEF Next, HoldStep, ParkStep, ResumeStep, vars
  <2>2. Hold!Next \/ UNCHANGED holdVars
    BY <2>1 DEF Next, HoldStep, ParkStep, ResumeStep, vars
  <2> QED
    BY <2>1, <2>2, TrayFilesAssumption, HoldMoves, HoldStays
<1>3. (part = "hold" => HoldInv) => ScansKept
  BY TrayFilesAssumption, HeldTypes, HeldKept, HeldJudgedOnce, HeldOrdered, HeldAsMeant, HeldOnce DEF ScansKept
<1> QED
  BY <1>1, <1>2, <1>3, PTL DEF Spec
=============================================================================
