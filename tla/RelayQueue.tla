----------------------------- MODULE RelayQueue -----------------------------
(***************************************************************************)
(* The direct-sync relay (direct_sync_push.py, direct_sync_runtime.py,     *)
(* direct_sync_operator.py): a queue of event files in a database, drained *)
(* to the server by relay processes that share it.                         *)
(*                                                                         *)
(* A relay cycle keeps the runtime authority alive, claims one row for a   *)
(* while, attaches the authority's token to it, uploads it and writes the  *)
(* outcome, with the authority's next state, in one transaction that only  *)
(* the holder of that very claim may commit.  Processes die, leases run    *)
(* out under a process that is only slow, answers are lost or late.        *)
(***************************************************************************)
EXTENDS RuntimeAuthority, FiniteSets

CONSTANTS
  Workers,        \* relay processes: the persistent one, the session's, the operator's
  Migrated,       \* rows tried by a version without runtime fencing
  MaxAttempts,    \* attempt_count (bound)
  FaultKinds,     \* mishaps that may happen
  MaxFaults       \* how many of them (bound)

QueueAssumption ==
  /\ Migrated \subseteq Rows /\ MaxAttempts \in Nat \ {0} /\ MaxFaults \in Nat
  /\ IsFiniteSet(Workers)

VARIABLES
  rows,     \* direct_sync_relay_batches
  auth,     \* direct_sync_runtime_authority
  wk,       \* each process: where it is and the snapshots it carries
  srv,      \* the server
  late,     \* requests still under way after their sender gave up
  paused,   \* the operator's pause marker
  faults

vars == <<rows, auth, wk, srv, late, paused, faults>>

Active   == {"pending", "leased", "retry_wait"}
Terminal == {"acked", "failed_permanent", "operator_review"}

(* leg is the fencing policy legacy_exact_replay, exp an expired claim,    *)
(* told a receipt that says the server has committed, spool whether the    *)
(* spooled copy is intact; sent (history) holds what was uploaded for the  *)
(* row since an operator last reset it.                                    *)
NewRow(r) == [st |-> "none", att |-> 0, exp |-> FALSE, meta |-> NoMeta, leg |-> FALSE,
              told |-> FALSE, spool |-> TRUE, sent |-> {}]
OldRow(r) == [NewRow(r) EXCEPT !.st = "retry_wait", !.att = 1, !.leg = TRUE,
                                !.sent = {NoMeta}]

Idle == [pc |-> "idle", row |-> NoRow, att |-> 0, meta |-> NoMeta, leg |-> FALSE,
         prev |-> "none", req |-> NoReq, ans |-> NoAns, res |-> "none", next |-> 0]

Init ==
  /\ rows = [r \in Rows |-> IF r \in Migrated THEN OldRow(r) ELSE NewRow(r)]
  /\ auth = NoAuthority
  /\ wk = [w \in Workers |-> Idle]
  /\ srv = NoServer
  /\ late = {}
  /\ paused = FALSE
  /\ faults = 0

Mishap(kind) == kind \in FaultKinds /\ faults < MaxFaults /\ faults' = faults + 1

-----------------------------------------------------------------------------
(* The queue.                                                              *)

(* A completed file is spooled, or found again: a waiting row whose        *)
(* spooled copy is damaged gets a new copy.  Rows are created in order.    *)
NotYetQueued(r) == rows[r].st = "none" /\ \A q \in Rows : q < r => rows[q].st # "none"
NeedsRepair(r) == rows[r].st \in {"pending", "retry_wait"} /\ ~rows[r].spool
Enqueue(r) ==
  /\ ~paused
  /\ NotYetQueued(r) \/ NeedsRepair(r)
  /\ rows' = [rows EXCEPT ![r].st = IF @ = "none" THEN "pending" ELSE @, ![r].spool = TRUE]
  /\ UNCHANGED <<auth, wk, srv, late, paused, faults>>

(* The next claim's count.  One process alone has no rival to confuse it.  *)
CanCount(a) == a < MaxAttempts \/ Cardinality(Workers) = 1
Count(a) == IF a < MaxAttempts THEN a + 1 ELSE a

Holder(r) == {w \in Workers : wk[w].row = r /\ wk[w].att = rows[r].att}

(* The claim's time runs out, under a process that is gone or only slow.   *)
LeaseExpires(r) ==
  /\ rows[r].st = "leased" /\ ~rows[r].exp
  /\ IF Holder(r) = {} THEN UNCHANGED faults ELSE Mishap("slow")
  /\ rows' = [rows EXCEPT ![r].exp = TRUE]
  /\ UNCHANGED <<auth, wk, srv, late, paused>>

(* Mutant: expired claims stay claimed.                                    *)
reset_stale_relay_leases_Never(rs) == rs

reset_stale_relay_leases(rs) ==
  [r \in Rows |-> IF rs[r].st = "leased" /\ rs[r].exp
                  THEN [rs[r] EXCEPT !.st = "pending", !.exp = FALSE] ELSE rs[r]]

Claimed(w, r, rs) ==
  /\ CanCount(rs[r].att)
  /\ rows' = [rs EXCEPT ![r].st = "leased", ![r].att = Count(@)]
  /\ wk' = [wk EXCEPT ![w] = [@ EXCEPT !.pc = "check", !.row = r, !.att = Count(rs[r].att),
                                       !.meta = rs[r].meta, !.leg = rs[r].leg,
                                       !.prev = rs[r].st]]
  /\ UNCHANGED <<auth, srv, late, paused, faults>>

(* The oldest row that is due: a pending one is, one in retry_wait when    *)
(* its time has come.                                                      *)
claim_next_relay_batch(w) ==
  LET rs == reset_stale_relay_leases(rows)
  IN  /\ wk[w].pc = "claim"
      /\ \E r \in Rows :
           /\ rs[r].st \in {"pending", "retry_wait"}
           /\ \A q \in Rows : q < r => rs[q].st # "pending"
           /\ Claimed(w, r, rs)

(* The row a scan has just queued, whatever waits before it.               *)
claim_relay_batch_by_id(w) ==
  LET rs == reset_stale_relay_leases(rows)
  IN  /\ wk[w].pc = "claim"
      /\ \E r \in Rows : rs[r].st = "pending" /\ rs[r].att = 0 /\ Claimed(w, r, rs)

NothingDue(w) ==
  LET rs == reset_stale_relay_leases(rows)
  IN  /\ wk[w].pc = "claim"
      /\ \A r \in Rows : rs[r].st # "pending"
      /\ rows' = rs
      /\ wk' = [wk EXCEPT ![w] = Idle]
      /\ UNCHANGED <<auth, srv, late, paused, faults>>

(* The conditional update that only the holder of the claim passes.        *)
StillMine(w) ==
  /\ rows[wk[w].row].st = "leased"
  /\ rows[wk[w].row].att = wk[w].att

(* _set_relay_status: the row and the authority in one transaction; a      *)
(* changed claim writes nothing.  A finished row keeps no token, and a     *)
(* finished row that still holds the authority quarantines it.             *)
AuthorityAfter(r, m, st, action, next) ==
  CASE action = "receipt"         -> apply_runtime_receipt(auth, m, next)
    [] action = "release"         -> release_runtime_request(auth, r, m)
    [] action = "dead_fence"      -> _replace_expired_identity(auth)
    [] action = "legacy_accepted" -> disable_runtime_authority(auth)
    [] action = "none"            -> IF st \in Terminal /\ auth.asg = r
                                     THEN mark_runtime_operator_review(auth, "upload") ELSE auth
    [] OTHER                      -> mark_runtime_operator_review(auth, action)

_set_relay_status(w, st, action, told) ==
  LET r == wk[w].row
  IN  /\ wk' = [wk EXCEPT ![w] = Idle]
      /\ IF StillMine(w)
         THEN /\ rows' = [rows EXCEPT ![r].st = st, ![r].exp = FALSE, ![r].told = told,
                                      ![r].meta = IF st \in Terminal THEN NoMeta ELSE @]
              /\ auth' = AuthorityAfter(r, rows[r].meta, st, action, wk[w].next)
         ELSE UNCHANGED <<rows, auth>>

-----------------------------------------------------------------------------
(* A relay cycle: the authority first.                                     *)

BeginCycle(w) ==
  /\ wk[w].pc = "idle" /\ ~paused
  /\ rows' = reset_stale_relay_leases(rows)
  /\ wk' = [wk EXCEPT ![w].pc = "ensure"]
  /\ UNCHANGED <<auth, srv, late, paused, faults>>

(* What the client knows of its lease's end.  Past the end the server has  *)
(* dropped the fence; an answer it never saw may have moved the end.       *)
KnownExpired(a) ==
  \/ a.fence # 0 /\ ~FenceIsLive(srv, a.id, a.fence)
  \/ a.fence # 0 /\ srv.seq > a.known
KnownLive(a) == a.fence # 0 /\ FenceIsLive(srv, a.id, a.fence)

(* _operator_review_or_recover_exact_clone and the expiry that follows:    *)
(* the states a transaction may go on from, and those it stops at.         *)
Reviewed(a) ==
  IF a.st = "LEGACY_DISABLED" /\ ClientMode = "enforce" THEN {_replace_expired_identity(a)}
  ELSE IF _dead_renewal_review(a) THEN {_replace_expired_identity(a)}
  ELSE IF ExactCloneDue(a) THEN {a, _replace_expired_identity(a)}
  ELSE {a}
Opened(a) ==
  UNION {IF b.asg = NoRow /\ b.pend = NoReq /\ b.st # "OPERATOR_REVIEW" /\ b.fence # 0
         THEN (IF KnownExpired(b) THEN {_replace_expired_identity(b)} ELSE {})
              \cup (IF KnownLive(b) THEN {b} ELSE {})
         ELSE {b} : b \in Reviewed(_create_state(a))}

HasToken(a) == a.tok # 0 /\ a.fence # 0 /\ a.pend = NoReq
ToLease(w, a) ==
  /\ a.pend # NoReq \/ a.keys < MaxKeys
  /\ IF HasToken(a) THEN Mishap("margin") ELSE UNCHANGED faults
  /\ LET b == IF a.pend # NoReq THEN a ELSE WithPending(a)
     IN  auth' = b /\ wk' = [wk EXCEPT ![w].pc = "lease", ![w].req = b.pend]

(* ensure_runtime_authority, first transaction.                            *)
EnsureReserve(w) ==
  /\ wk[w].pc = "ensure"
  /\ \E a \in Opened(auth) :
       \/ /\ a.st = "OPERATOR_REVIEW"               \* the cycle ends with an error
          /\ wk' = [wk EXCEPT ![w] = Idle] /\ UNCHANGED <<auth, faults>>
       \/ /\ \/ a.st = "LEGACY_DISABLED"
             \/ a.st = "ACTIVE" /\ HasToken(a)      \* beyond the renewal margin
             \/ a.st # "OPERATOR_REVIEW" /\ a.asg # NoRow
          /\ wk' = [wk EXCEPT ![w].pc = "claim"] /\ auth' = a /\ UNCHANGED faults
       \/ /\ a.asg = NoRow /\ a.st \in {"PENDING", "ACTIVE"}
          /\ ToLease(w, a)
  /\ UNCHANGED <<rows, srv, late, paused>>

(* The lease request: answered, or not, or answered too late.              *)
_post_lease_request(w) ==
  /\ wk[w].pc = "lease"
  /\ srv' = ServeLease(srv, wk[w].req)
  /\ wk' = [wk EXCEPT ![w].pc = "answer", ![w].ans = ServeLease(srv, wk[w].req).anchor[wk[w].req.key]]
  /\ UNCHANGED <<rows, auth, late, paused, faults>>

LeaseTransportError(w) ==
  /\ wk[w].pc = "lease" /\ Mishap("network")
  /\ \/ srv' = srv /\ late' = late
     \/ srv' = ServeLease(srv, wk[w].req) /\ late' = late
     \/ srv' = srv /\ late' = late \cup {[row |-> NoRow, meta |-> NoMeta, req |-> wk[w].req]}
  /\ IF wk[w].row = NoRow THEN wk' = [wk EXCEPT ![w] = Idle] /\ UNCHANGED <<rows, auth>>
     ELSE _set_relay_status(w, "retry_wait", "none", FALSE)
  /\ UNCHANGED paused

(* A refusal that names a conflict quarantines the authority whose request *)
(* it answers; a dead renewal tries again, with a new identity.  Any other *)
(* is left to the next cycle, or fails the row that asked.                 *)
Denied(w) == wk' = [wk EXCEPT ![w] = IF @.row = NoRow THEN Idle
                                     ELSE [@ EXCEPT !.pc = "unprepared", !.res = "denied"]]
LeaseRefused(w) ==
  LET q == wk[w].req
      code == wk[w].ans.code
      hit == IF auth.pend = q THEN [auth EXCEPT !.st = "OPERATOR_REVIEW", !.code = code] ELSE auth
  IN  /\ wk[w].pc = "answer" /\ wk[w].ans.kind = "refused"
      /\ IF code = "STALE_RUNTIME_FENCE" /\ q.fence # 0
         THEN /\ auth' = hit
              /\ wk' = [wk EXCEPT ![w].pc = IF wk[w].row = NoRow THEN "ensure" ELSE "prepare"]
         ELSE IF code \notin OPERATOR_REVIEW_CODES THEN Denied(w) /\ UNCHANGED auth
         ELSE /\ auth' = hit
              /\ wk' = [wk EXCEPT ![w] = IF @.row = NoRow THEN Idle
                                         ELSE [@ EXCEPT !.pc = "unprepared", !.res = code]]
      /\ UNCHANGED <<rows, srv, late, paused, faults>>

(* An authority that refuses the installation for a reason of its own.     *)
LeaseDenied(w) ==
  /\ wk[w].pc = "lease" /\ Mishap("denied") /\ Denied(w)
  /\ UNCHANGED <<rows, auth, srv, late, paused>>

(* A grant for another identity than the row's quarantines the authority   *)
(* whatever it waits for; else the request still pending takes it.         *)
LeaseGranted(w) ==
  /\ wk[w].pc = "answer" /\ wk[w].ans.kind = "grant"
  /\ IF _grant_error(auth, wk[w].ans)
     THEN /\ auth' = [auth EXCEPT !.st = "OPERATOR_REVIEW", !.code = "runtime_lease_response_invalid"]
          /\ wk' = [wk EXCEPT ![w] =
               IF @.row = NoRow THEN Idle
               ELSE [@ EXCEPT !.pc = "unprepared", !.res = "runtime_lease_response_invalid"]]
     ELSE /\ auth' = IF auth.pend = wk[w].req /\ auth.asg = NoRow
                     THEN StoreGrant(auth, wk[w].ans) ELSE auth
          /\ wk' = [wk EXCEPT ![w].pc = IF wk[w].row # NoRow THEN "prepare"
                                        ELSE IF auth.pend = wk[w].req /\ auth.asg = NoRow
                                        THEN "claim" ELSE "ensure"]
  /\ UNCHANGED <<rows, srv, late, paused, faults>>

-----------------------------------------------------------------------------
(* Then one row.                                                           *)

(* drain_one_relay_batch up to the preparation: the spooled copy is read,  *)
(* the pause marker looked at once more.  What is already attached to the  *)
(* row, or pinned as legacy, is uploaded as it is.                         *)
CheckSpool(w) ==
  /\ wk[w].pc = "check" /\ ~rows[wk[w].row].spool
  /\ _set_relay_status(w, "failed_permanent", "none", FALSE)
  /\ UNCHANGED <<srv, late, paused, faults>>

(* Metadata that cannot be read, or credentials other than those the row   *)
(* was queued under.                                                       *)
_relay_credentials_issue(w) ==
  /\ wk[w].pc = "check" /\ rows[wk[w].row].spool /\ Mishap("credentials")
  /\ _set_relay_status(w, "operator_review", "none", FALSE)
  /\ UNCHANGED <<srv, late, paused>>

_release_claimed_relay_after_operator_pause(w) ==
  /\ wk[w].pc = "check" /\ rows[wk[w].row].spool /\ paused
  /\ rows' = IF StillMine(w)
             THEN [rows EXCEPT ![wk[w].row].st = wk[w].prev, ![wk[w].row].exp = FALSE,
                               ![wk[w].row].att = @ - 1]
             ELSE rows
  /\ wk' = [wk EXCEPT ![w] = Idle]
  /\ UNCHANGED <<auth, srv, late, paused, faults>>

CheckPassed(w) ==
  /\ wk[w].pc = "check" /\ rows[wk[w].row].spool /\ ~paused
  /\ wk' = [wk EXCEPT ![w].pc = IF wk[w].meta # NoMeta THEN "post"
                                ELSE IF wk[w].leg THEN "pin" ELSE "prepare"]
  /\ UNCHANGED <<rows, auth, srv, late, paused, faults>>

(* prepare_runtime_metadata, first transaction: the authority's own state  *)
(* decides, then the row's.                                                *)
PrepareFrom(w, a) ==
  LET r == wk[w].row
      Give(pc, res) == wk' = [wk EXCEPT ![w].pc = pc, ![w].res = res] /\ UNCHANGED <<rows, faults>>
  IN  \/ /\ a.st = "OPERATOR_REVIEW"
         /\ Give("unprepared", a.code) /\ UNCHANGED auth
      \/ /\ a.st = "LEGACY_DISABLED"
         /\ Give("pin", "none") /\ auth' = a
      \/ /\ a.st \in {"PENDING", "ACTIVE"} /\ a.asg \notin {NoRow, r}   \* in flight
         /\ Give("unprepared", "retry") /\ auth' = a
      \/ /\ a.st \in {"PENDING", "ACTIVE"} /\ a.asg = NoRow /\ HasToken(a) /\ StillMine(w)
         /\ rows' = [rows EXCEPT ![r].meta = AttachedMeta(a)]
         /\ auth' = Attach(a, r)
         /\ wk' = [wk EXCEPT ![w].pc = "post", ![w].meta = AttachedMeta(a)]
         /\ UNCHANGED faults
      \/ /\ a.st \in {"PENDING", "ACTIVE"} /\ a.asg = NoRow /\ HasToken(a) /\ ~StillMine(w)
         /\ Give("unprepared", "retry") /\ UNCHANGED auth
      \/ /\ a.st \in {"PENDING", "ACTIVE"} /\ a.asg = NoRow
         /\ ToLease(w, a) /\ UNCHANGED rows

PrepareReserve(w) ==
  LET r == wk[w].row
      Give(pc, res) == wk' = [wk EXCEPT ![w].pc = pc, ![w].res = res] /\ UNCHANGED faults
  IN  /\ wk[w].pc = "prepare"
      /\ \/ /\ rows[r].leg # wk[w].leg                \* the policy changed: claim lost
            /\ Give("unprepared", "retry") /\ UNCHANGED <<rows, auth>>
         \/ /\ rows[r].leg = wk[w].leg /\ rows[r].meta # NoMeta
            /\ wk' = [wk EXCEPT ![w].pc = "post", ![w].meta = rows[r].meta]
            /\ UNCHANGED <<rows, auth, faults>>
         \/ /\ rows[r].leg = wk[w].leg /\ rows[r].meta = NoMeta
            /\ \E a \in Opened(auth) : PrepareFrom(w, a)
      /\ UNCHANGED <<srv, late, paused>>

(* The row when nothing could be prepared for it.                          *)
Unprepared(w) ==
  /\ wk[w].pc = "unprepared"
  /\ IF wk[w].res = "retry" THEN _set_relay_status(w, "retry_wait", "none", FALSE)
     ELSE IF wk[w].res = "denied" THEN _set_relay_status(w, "failed_permanent", "denied", FALSE)
     ELSE _set_relay_status(w, "operator_review", wk[w].res, FALSE)
  /\ UNCHANGED <<srv, late, paused, faults>>

(* A request without runtime fields is pinned before it is sent.           *)
_persist_legacy_exact_replay_before_source_post(w) ==
  /\ wk[w].pc = "pin" /\ rows[wk[w].row].spool
  /\ IF StillMine(w)
     THEN /\ rows' = [rows EXCEPT ![wk[w].row].leg = TRUE]
          /\ wk' = [wk EXCEPT ![w].pc = "post", ![w].leg = TRUE]
     ELSE wk' = [wk EXCEPT ![w] = Idle] /\ UNCHANGED rows
  /\ UNCHANGED <<auth, srv, late, paused, faults>>

Sent(w) == rows' = [rows EXCEPT ![wk[w].row].sent = @ \cup {wk[w].meta}]

(* upload_source_file: the copy is read once more, then sent.  A request   *)
(* without runtime fields is pinned in between, with the copy at hand.     *)
CopyAtHand(w) == rows[wk[w].row].spool \/ wk[w].meta = NoMeta
UploadUnreadable(w) ==
  /\ (wk[w].pc = "pin" /\ ~rows[wk[w].row].spool) \/ (wk[w].pc = "post" /\ ~CopyAtHand(w))
  /\ wk' = [wk EXCEPT ![w].pc = "reply", ![w].res = "unread"]
  /\ UNCHANGED <<rows, auth, srv, late, paused, faults>>

Upload(w) ==
  LET r == wk[w].row
      a == IngestAnswer(srv, r, wk[w].meta)
  IN  /\ wk[w].pc = "post" /\ CopyAtHand(w)
      /\ Sent(w)
      /\ srv' = Ingest(srv, r, wk[w].meta)
      /\ wk' = [wk EXCEPT ![w].pc = "reply", ![w].res = a.kind, ![w].next = a.next]
      /\ UNCHANGED <<auth, late, paused, faults>>

(* No answer: the request was lost, or its answer, or it is still under    *)
(* way; or the upload code itself failed.                                  *)
UploadTransportError(w) ==
  LET r == wk[w].row
  IN  /\ wk[w].pc = "post" /\ CopyAtHand(w) /\ Mishap("network")
      /\ Sent(w)
      /\ \/ srv' = srv /\ late' = late
         \/ srv' = Ingest(srv, r, wk[w].meta) /\ late' = late
         \/ srv' = srv /\ late' = late \cup {[row |-> r, meta |-> wk[w].meta, req |-> NoReq]}
      /\ wk' = [wk EXCEPT ![w].pc = "reply", ![w].res = "retry"]
      /\ UNCHANGED <<auth, paused>>

UploadException(w) ==
  /\ wk[w].pc = "post" /\ CopyAtHand(w) /\ Mishap("exception")
  /\ Sent(w)
  /\ srv' \in {srv, Ingest(srv, wk[w].row, wk[w].meta)}
  /\ wk' = [wk EXCEPT ![w].pc = "reply", ![w].res = "exception"]
  /\ UNCHANGED <<auth, late, paused>>

(* _upload_response_result and the end of drain_one_relay_batch: what each *)
(* answer makes of the row and of the authority.                           *)
Set(st, action, told) == [st |-> st, action |-> action, told |-> told]
OutcomeOf(w, k) ==
  CASE k = "accepted"    -> Set("acked", "receipt", TRUE)
    [] k = "quarantined" -> Set("operator_review", "receipt", TRUE)
    [] k = "dead"        -> IF DeadFenceBound(auth, wk[w].row, rows[wk[w].row].meta)
                            THEN Set("acked", "dead_fence", TRUE)
                            ELSE Set("operator_review", "STALE_RUNTIME_FENCE", TRUE)
    [] k = "stale"       -> Set("operator_review", "STALE_RUNTIME_REQUEST_TOKEN", TRUE)
    [] k = "legacy"      -> IF wk[w].leg \/ ClientMode = "observe"
                            THEN Set("acked", "legacy_accepted", TRUE)
                            ELSE Set("operator_review", "runtime_lease_receipt_missing", TRUE)
    [] k \in Codes       -> Set("operator_review", k, FALSE)
    [] k = "rejected"    -> IF wk[w].leg /\ ClientMode = "enforce"
                            THEN Set("operator_review", "upload", FALSE)
                            ELSE Set("failed_permanent", "release", FALSE)
    [] k = "retry"       -> Set("retry_wait", "none", FALSE)
    [] k = "exception"   -> Set("operator_review", "upload", FALSE)
    [] OTHER             -> Set("failed_permanent", "upload", FALSE)
(* Mutant: an unanswered upload gives its token back.                      *)
Outcome_ReleaseOnRetry(w) ==
  IF wk[w].res = "retry" THEN Set("retry_wait", "release", FALSE) ELSE OutcomeOf(w, wk[w].res)
Outcome(w) == OutcomeOf(w, wk[w].res)

FinishUpload(w) ==
  LET o == Outcome(w)
  IN  /\ wk[w].pc = "reply"
      /\ IF StillMine(w) /\ o.action = "receipt" /\ ~ReceiptFits(auth, wk[w].row, rows[wk[w].row].meta)
         THEN wk' = [wk EXCEPT ![w] = Idle] /\ UNCHANGED <<rows, auth>>   \* the process dies of it
         ELSE _set_relay_status(w, o.st, o.action, o.told)
      /\ UNCHANGED <<srv, late, paused, faults>>

-----------------------------------------------------------------------------
(* The operator (direct_sync_operator.py).                                 *)

pause_relay == ~paused /\ Mishap("pause") /\ paused' = TRUE /\ UNCHANGED <<rows, auth, wk, srv, late>>
resume_relay == paused /\ paused' = FALSE /\ UNCHANGED <<rows, auth, wk, srv, late, faults>>

(* A failed row, or one in review that no receipt calls committed, goes    *)
(* back to the queue without its runtime fields.                           *)
RetryAllowed(r) ==
  /\ rows[r].st = "failed_permanent" \/ (rows[r].st = "operator_review" /\ ~rows[r].told)
  /\ rows[r].spool
retry_dead_relay_batch(r) ==
  /\ RetryAllowed(r) /\ Mishap("operator")
  /\ rows' = [rows EXCEPT ![r].st = "pending", ![r].meta = NoMeta, ![r].told = FALSE, ![r].sent = {}]
  /\ UNCHANGED <<auth, wk, srv, late, paused>>

(* Evidence that matches the committed receipt line by line closes a       *)
(* review without another upload.                                          *)
CommittedReview(r) == rows[r].st = "operator_review" /\ rows[r].told /\ rows[r].spool
EvidenceMatches(r) == srv.stored[r].kind = "quarantined"
resolve_committed_operator_review(r) ==
  /\ CommittedReview(r) /\ EvidenceMatches(r)
  /\ rows' = [rows EXCEPT ![r].st = "acked"]
  /\ UNCHANGED <<auth, wk, srv, late, paused, faults>>

restore_relay_spool_from_server(r) ==
  /\ rows[r].st = "acked" /\ ~rows[r].spool
  /\ rows' = [rows EXCEPT ![r].spool = TRUE]
  /\ UNCHANGED <<auth, wk, srv, late, paused, faults>>

-----------------------------------------------------------------------------
(* Mishaps.                                                                *)

Crash(w) ==
  /\ wk[w].pc # "idle" /\ Mishap("crash")
  /\ wk' = [wk EXCEPT ![w] = Idle]
  /\ UNCHANGED <<rows, auth, srv, late, paused>>

DamageSpool(r) ==
  /\ rows[r].st # "none" /\ rows[r].spool /\ Mishap("spool")
  /\ rows' = [rows EXCEPT ![r].spool = FALSE]
  /\ UNCHANGED <<auth, wk, srv, late, paused>>

(* The server's lease ends by itself.  A clone's end is the time to live   *)
(* the client waits for.                                                   *)
ServerLapse ==
  /\ srv.live
  /\ IF srv.id = 0 THEN UNCHANGED faults ELSE Mishap("lapse")
  /\ srv' = [srv EXCEPT !.live = FALSE]
  /\ UNCHANGED <<rows, auth, wk, late, paused>>

(* A copy of this installation on another machine takes the next fence.    *)
ForeignClone ==
  /\ ~srv.live /\ Mishap("clone")
  /\ srv' = [srv EXCEPT !.live = TRUE, !.id = 0, !.fence = @ + 1, !.seq = 1]
  /\ UNCHANGED <<rows, auth, wk, late, paused>>

(* A request nobody waits for any more reaches the server.                 *)
LateArrival ==
  \E q \in late :
    /\ late' = late \ {q}
    /\ srv' = IF q.row = NoRow THEN ServeLease(srv, q.req) ELSE Ingest(srv, q.row, q.meta)
    /\ UNCHANGED <<rows, auth, wk, paused, faults>>

Step(w) ==
  \/ EnsureReserve(w) \/ _post_lease_request(w) \/ LeaseRefused(w) \/ LeaseGranted(w)
  \/ claim_next_relay_batch(w) \/ claim_relay_batch_by_id(w) \/ NothingDue(w)
  \/ CheckSpool(w) \/ _release_claimed_relay_after_operator_pause(w) \/ CheckPassed(w)
  \/ PrepareReserve(w) \/ Unprepared(w) \/ _persist_legacy_exact_replay_before_source_post(w)
  \/ UploadUnreadable(w) \/ Upload(w) \/ FinishUpload(w)

Next ==
  \/ \E w \in Workers : \/ BeginCycle(w) \/ Step(w) \/ Crash(w)
                         \/ LeaseTransportError(w) \/ LeaseDenied(w)
                         \/ _relay_credentials_issue(w) \/ UploadTransportError(w) \/ UploadException(w)
  \/ \E r \in Rows : \/ Enqueue(r) \/ LeaseExpires(r) \/ DamageSpool(r) \/ retry_dead_relay_batch(r)
                      \/ resolve_committed_operator_review(r) \/ restore_relay_spool_from_server(r)
  \/ pause_relay \/ resume_relay \/ ServerLapse \/ ForeignClone \/ LateArrival

Spec == Init /\ [][Next]_vars

(* A cycle begins every 15 seconds and runs to its end, an expired claim   *)
(* is seen by the next one, and the operator resumes what was paused.      *)
Fairness ==
  /\ \A w \in Workers :
       /\ WF_vars(BeginCycle(w)) /\ WF_vars(Step(w))
       /\ \A r \in Rows : SF_vars(claim_next_relay_batch(w) /\ wk'[w].row = r)
  /\ \A r \in Rows : WF_vars(LeaseExpires(r))
  /\ WF_vars(resume_relay)

-----------------------------------------------------------------------------
Processes == [pc : {"idle", "ensure", "lease", "answer", "claim", "check", "prepare", "unprepared",
                    "pin", "post", "reply"},
              row : Rows \cup {NoRow}, att : 0..MaxAttempts, meta : Metas, leg : BOOLEAN,
              prev : {"none", "pending", "retry_wait"}, req : Requests, ans : Answers,
              res : Codes \cup ReceiptKinds \cup
                    {"none", "retry", "denied", "rejected", "exception", "unread", "upload", "legacy_accepted",
                     "runtime_lease_response_invalid", "runtime_lease_receipt_missing"},
              next : Nat]

RelayTypeOK ==
  /\ rows \in [Rows -> [st : Active \cup Terminal \cup {"none"}, att : 0..MaxAttempts,
                        exp : BOOLEAN, meta : Metas, leg : BOOLEAN, told : BOOLEAN,
                        spool : BOOLEAN, sent : SUBSET Metas]]
  /\ auth \in Authorities /\ srv \in Servers
  /\ wk \in [Workers -> Processes]
  /\ late \subseteq [row : Rows \cup {NoRow}, meta : Metas, req : Requests]
  /\ paused \in BOOLEAN /\ faults \in 0..MaxFaults

(* A row is acknowledged only when the server has stored it, whoever wrote *)
(* the acknowledgement and after whatever answers were lost                *)
(* (drain_one_relay_batch, resolve_committed_operator_review).             *)
AckedIsCommitted == \A r \in Rows : rows[r].st = "acked" => srv.stored[r] # NoReceipt

(* An acknowledged row stays acknowledged: no process with an outdated     *)
(* claim takes it back (the conditional update of _set_relay_status).      *)
AckedStays == [][\A r \in Rows : rows[r].st = "acked" => rows'[r].st = "acked"]_vars

(* No two processes hold the same claim, although they share a worker name *)
(* and a pause takes the attempt count back: the count tells claims apart  *)
(* (claim_next_relay_batch, _release_claimed_relay_after_operator_pause).  *)
OneClaimant ==
  \A v, w \in Workers :
    v # w /\ wk[v].row # NoRow /\ wk[v].row = wk[w].row => wk[v].att # wk[w].att

(* Every upload of a row sends the same runtime fields, across crashes,    *)
(* lost answers and new claims: the server can tell a repetition from a    *)
(* second request (prepare_runtime_metadata persists before the upload,    *)
(* _persist_legacy_exact_replay_before_source_post likewise).              *)
ReplayIsExact == \A r \in Rows : Cardinality(rows[r].sent) <= 1

(* A waiting row never carries a token that another row or a renewal has   *)
(* spent (prepare_runtime_metadata, release_runtime_request).              *)
SpentElsewhere(r, m) ==
  \/ \E q \in Rows \ {r} : /\ Spends(srv.stored[q].kind)
                          /\ srv.stored[q].meta.fence = m.fence /\ srv.stored[q].meta.seq = m.seq
  \/ \E k \in Keys : /\ srv.anchor[k].kind = "grant" /\ srv.anchor[k].fence = m.fence
                     /\ srv.anchor[k].seq = m.seq + 1
TokenHasOneUser ==
  \A r \in Rows : rows[r].st \in Active /\ rows[r].meta # NoMeta => ~SpentElsewhere(r, rows[r].meta)

(* The authority is never left with a finished row, and the identity a     *)
(* waiting row's token belongs to is never given up, so its receipt can be *)
(* written (apply_runtime_receipt_in_transaction raises when it does not   *)
(* match the reserved authority).                                          *)
ReservationIntact ==
  \A r \in Rows :
    /\ auth.asg = r => rows[r].st \in Active /\ rows[r].meta # NoMeta
    /\ rows[r].st \in Active /\ rows[r].meta # NoMeta => ReceiptFits(auth, r, rows[r].meta)

(* This installation never locks itself out: it gives up an identity only  *)
(* when the server holds no live lease for it                              *)
(* (_operator_review_or_recover_exact_clone, _replace_expired_identity).   *)
NoSelfClone ==
  auth.pend # NoReq /\ auth.pend.fence = 0 /\ srv.live => srv.id \in {0, auth.pend.id}

(* A queued file is acknowledged, failed or in an operator's hands in the  *)
(* end (run_persistent_relay_loop, run_relay_once).                        *)
RowsSettle == \A r \in Rows : rows[r].st \in Active ~> rows[r].st \in Terminal
=============================================================================
