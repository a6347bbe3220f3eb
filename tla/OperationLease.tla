--------------------------- MODULE OperationLease ---------------------------
(***************************************************************************)
(* The terminal's operation leases (terminal_operation_lease.py) and the   *)
(* preflight that obtains them (Container_Audit.py,                        *)
(* _begin_compact_phs2_preflight).                                         *)
(*                                                                         *)
(* A lease is the server's signed permission for this terminal to transfer *)
(* the members of one physical label.  The terminal persists an issue      *)
(* attempt (a nonce) BEFORE it asks, so that a lost answer is replayed     *)
(* with the same idempotency key.  An attempt is identified with the lease *)
(* it obtains: the server answers every replay of one issue key with the   *)
(* same lease.                                                             *)
(*                                                                         *)
(* Every durable table lives in one SQLite file; each operation that       *)
(* writes is one BEGIN IMMEDIATE transaction and is one action here.       *)
(***************************************************************************)
EXTENDS Naturals, FiniteSets

CONSTANTS Leases,     \* issue attempts, each named by the lease it obtains
          Labels,     \* physical labels (resource_key)
          LabelOf,    \* the label a lease is for
          Intents,    \* transfer intents a completion can be recorded for
          Exchanged,  \* the leases whose tray undergoes a member exchange
          NoLease, NoIntent

ASSUME LeaseConstants ==
  /\ LabelOf \in [Leases -> Labels]
  /\ Exchanged \subseteq Leases
  /\ NoLease \notin Leases
  /\ NoIntent \notin Intents \cup Leases
  /\ Intents \cap Leases = {}

VARIABLES
  issue,         \* terminal_operation_lease_issue_attempts.status, per lease
  artifacts,     \* leases with a row in terminal_operation_lease_artifacts
  completion,    \* terminal_operation_lease_completions.transfer_intent_id
  leaseReceipts, \* leases with a row in terminal_operation_lease_receipts
  leaseReviews,  \* leases with a row in terminal_operation_lease_reviews
  rotations,     \* rows <<predecessor, successor>> of .._lease_rotations
  exchange,      \* leases a member exchange is under way for (durable intent)
  central,       \* the server's status of a lease
  consumedBy,    \* what consumed it: a transfer intent or a successor lease
  expired,       \* leases past their expires_at
  preflight      \* the preflight under way in the foreground lane (volatile)

leaseDb      == <<issue, artifacts, completion, leaseReceipts, leaseReviews, rotations>>
leaseCentral == <<central, consumedBy>>
leaseVars    == <<leaseDb, exchange, leaseCentral, expired, preflight>>

-----------------------------------------------------------------------------
Unresolved == {"PENDING", "PREFETCHED", "LOCAL_COMPLETED", "OPERATOR_REVIEW",
               "EXPIRED_UNRECONCILED", "RECONCILIATION_REQUIRED", "CONSUMED_UNACKED"}

TerminalIssue == {"ACKED", "RELEASED"}

IssueStatus == {"NONE"} \cup Unresolved \cup TerminalIssue

(* Statuses in which the server can still consume a lease.                 *)
CentralLive == {"ACTIVE", "EXPIRED_UNRECONCILED", "RECONCILIATION_REQUIRED"}

CentralStatus == {"NONE", "CONSUMED", "RELEASED"} \cup CentralLive

(* Mutant: an expired lease is taken for a released one.                   *)
LocalStatusOf_ExpiredIsReleased(answer) ==
  CASE answer = "CONSUMED" -> "CONSUMED_UNACKED"
    [] answer = "EXPIRED_UNRECONCILED" -> "RELEASED"
    [] OTHER -> answer

(* record_authenticated_nonactive's status_map.                            *)
LocalStatusOf(answer) == IF answer = "CONSUMED" THEN "CONSUMED_UNACKED" ELSE answer

PreflightSteps == {"idle", "asking", "answered", "again", "ready"}

NoPreflight == [step |-> "idle", lease |-> NoLease, round |-> 0, answer |-> "NONE"]

LeaseTypeOK ==
  /\ issue \in [Leases -> IssueStatus]
  /\ artifacts \subseteq Leases
  /\ completion \in [Leases -> Intents \cup {NoIntent}]
  /\ leaseReceipts \subseteq Leases
  /\ leaseReviews \subseteq Leases
  /\ rotations \subseteq Leases \X Leases
  /\ exchange \subseteq Leases
  /\ central \in [Leases -> CentralStatus]
  /\ consumedBy \in [Leases -> Intents \cup Leases \cup {NoIntent}]
  /\ expired \subseteq Leases
  /\ preflight \in [step : PreflightSteps, lease : Leases \cup {NoLease},
                    round : {0, 1}, answer : CentralStatus]

LeaseInit ==
  /\ issue = [l \in Leases |-> "NONE"]
  /\ artifacts = {}
  /\ completion = [l \in Leases |-> NoIntent]
  /\ leaseReceipts = {}
  /\ leaseReviews = {}
  /\ rotations = {}
  /\ exchange = {}
  /\ central = [l \in Leases |-> "NONE"]
  /\ consumedBy = [l \in Leases |-> NoIntent]
  /\ expired = {}
  /\ preflight = NoPreflight

PreflightIdle == preflight.step \in {"idle", "ready"}

-----------------------------------------------------------------------------
(* Preflight: obtain a lease for the label that was scanned.               *)

UnresolvedOf(lb) == {l \in Leases : LabelOf[l] = lb /\ issue[l] \in Unresolved}

FreshFor(lb) == {l \in Leases : LabelOf[l] = lb /\ issue[l] = "NONE" /\ central[l] = "NONE"}

(* Replay the label's unresolved attempt, or persist a fresh one.          *)
BeginIssueAttempt(lb, l) ==
  IF UnresolvedOf(lb) # {}
  THEN l \in UnresolvedOf(lb) /\ UNCHANGED issue
  ELSE l \in FreshFor(lb) /\ issue' = [issue EXCEPT ![l] = "PENDING"]

Asking(l, r) == [step |-> "asking", lease |-> l, round |-> r, answer |-> "NONE"]

(* A scanned master label starts a preflight in the foreground lane.       *)
StartPreflight(lb) ==
  /\ PreflightIdle
  /\ \E l \in Leases : BeginIssueAttempt(lb, l) /\ preflight' = Asking(l, 0)
  /\ UNCHANGED <<artifacts, completion, leaseReceipts, leaseReviews, rotations,
                 exchange, leaseCentral, expired>>

(* The second and last round, after the server said RELEASED.              *)
RetryReleased ==
  /\ preflight.step = "again"
  /\ \E l \in Leases :
       /\ BeginIssueAttempt(LabelOf[preflight.lease], l)
       /\ preflight' = Asking(l, 1)
  /\ UNCHANGED <<artifacts, completion, leaseReceipts, leaseReviews, rotations,
                 exchange, leaseCentral, expired>>

(* The answer to the issue request arrives with the lease's status at the  *)
(* moment the server sent it.                                              *)
IssueReply ==
  /\ preflight.step = "asking"
  /\ central[preflight.lease] # "NONE"
  /\ preflight' = [preflight EXCEPT !.step = "answered",
                                    !.answer = central[preflight.lease]]
  /\ UNCHANGED <<leaseDb, exchange, leaseCentral, expired>>

(* The request, its answer or a local step of the preflight fails; the     *)
(* persisted attempt stays and the next scan of the label replays it.      *)
PreflightFails ==
  /\ ~PreflightIdle
  /\ preflight' = NoPreflight
  /\ UNCHANGED <<leaseDb, exchange, leaseCentral, expired>>

CanSavePrefetched(l) == issue[l] \in {"PENDING", "PREFETCHED"} /\ l \notin expired

(* accept_authenticated: an unexpired ACTIVE lease becomes PREFETCHED.     *)
SavePrefetched ==
  LET l == preflight.lease IN
  /\ preflight.step = "answered" /\ preflight.answer = "ACTIVE"
  /\ CanSavePrefetched(l)
  /\ issue' = [issue EXCEPT ![l] = "PREFETCHED"]
  /\ artifacts' = artifacts \cup {l}
  /\ preflight' = [preflight EXCEPT !.step = "ready"]
  /\ UNCHANGED <<completion, leaseReceipts, leaseReviews, rotations,
                 exchange, leaseCentral, expired>>

(* accept_authenticated_nonactive: the server's status replaces any local  *)
(* status that is not terminal; RELEASED in round 0 asks once more.        *)
RecordAuthenticatedNonactive ==
  LET l == preflight.lease
      target == LocalStatusOf(preflight.answer)
  IN
  /\ preflight.step = "answered" /\ preflight.answer # "ACTIVE"
  /\ issue[l] \in TerminalIssue => issue[l] = target
  /\ issue' = [issue EXCEPT ![l] = target]
  /\ preflight' = IF target = "RELEASED" /\ preflight.round = 0
                  THEN [preflight EXCEPT !.step = "again"]
                  ELSE NoPreflight
  /\ UNCHANGED <<artifacts, completion, leaseReceipts, leaseReviews, rotations,
                 exchange, leaseCentral, expired>>

-----------------------------------------------------------------------------
(* The life of a prefetched lease.                                         *)

(* _verified_operation_lease: the signature is checked at the time of the  *)
(* recorded completion, or now, when the lease must not have expired.      *)
Verified(l) == l \in artifacts /\ (completion[l] # NoIntent \/ l \notin expired)

CanRecordLocalCompletion(l, i) ==
  /\ l \in artifacts
  /\ completion[l] \in {NoIntent, i}
  /\ issue[l] \in {"PREFETCHED", "LOCAL_COMPLETED"}

RecordLocalCompletion(l, i) ==
  /\ CanRecordLocalCompletion(l, i)
  /\ completion' = [completion EXCEPT ![l] = i]
  /\ issue' = [issue EXCEPT ![l] = "LOCAL_COMPLETED"]
  /\ UNCHANGED <<artifacts, leaseReceipts, leaseReviews, rotations,
                 exchange, leaseCentral, expired, preflight>>

CanRecordLeaseReceipt(l, i) ==
  /\ completion[l] = i
  /\ issue[l] \in {"LOCAL_COMPLETED", "OPERATOR_REVIEW", "ACKED"}

(* Mutant: the receipt's lease consumption is not checked.                 *)
RecordLeaseReceipt_Unproved(l, i) ==
  /\ CanRecordLeaseReceipt(l, i)
  /\ leaseReceipts' = leaseReceipts \cup {l}
  /\ issue' = [issue EXCEPT ![l] = "ACKED"]
  /\ UNCHANGED <<artifacts, completion, leaseReviews, rotations,
                 exchange, leaseCentral, expired, preflight>>

(* record_receipt: the receipt proves that i consumed the lease.           *)
RecordLeaseReceipt(l, i) ==
  /\ CanRecordLeaseReceipt(l, i)
  /\ consumedBy[l] = i
  /\ leaseReceipts' = leaseReceipts \cup {l}
  /\ issue' = [issue EXCEPT ![l] = "ACKED"]
  /\ UNCHANGED <<artifacts, completion, leaseReviews, rotations,
                 exchange, leaseCentral, expired, preflight>>

CanRecordLeaseReview(l, i) ==
  /\ completion[l] = i
  /\ issue[l] \in {"LOCAL_COMPLETED", "OPERATOR_REVIEW"}

RecordLeaseReview(l, i) ==
  /\ CanRecordLeaseReview(l, i)
  /\ leaseReviews' = leaseReviews \cup {l}
  /\ issue' = [issue EXCEPT ![l] = "OPERATOR_REVIEW"]
  /\ UNCHANGED <<artifacts, completion, leaseReceipts, rotations,
                 exchange, leaseCentral, expired, preflight>>

-----------------------------------------------------------------------------
(* Rotation: a member exchange changes what the lease covers, so the       *)
(* server consumes it and issues a successor in the same transaction.      *)

(* rotation_predecessor_context: only a prefetched, unexpired lease may be *)
(* named as predecessor.  The exchange intent is durable before it is sent.*)
BeginExchange(l) ==
  /\ l \in Exchanged \ exchange
  /\ PreflightIdle
  /\ issue[l] = "PREFETCHED" /\ l \in artifacts \ expired
  /\ exchange' = exchange \cup {l}
  /\ UNCHANGED <<leaseDb, leaseCentral, expired, preflight>>

(* External: the server commits the exchange.                              *)
CentralRotate(l, successor) ==
  /\ l \in exchange /\ central[l] = "ACTIVE"
  /\ successor \in FreshFor(LabelOf[l]) \ {l}
  /\ central' = [central EXCEPT ![l] = "CONSUMED", ![successor] = "ACTIVE"]
  /\ consumedBy' = [consumedBy EXCEPT ![l] = successor]
  /\ UNCHANGED <<leaseDb, exchange, expired, preflight>>

(* accept_rotation: one transaction terminalizes the predecessor and       *)
(* inserts the successor as PREFETCHED.                                    *)
RecordRotation(l, successor) ==
  /\ l \in exchange /\ consumedBy[l] = successor
  /\ successor \notin expired
  /\ l \in artifacts /\ issue[l] = "PREFETCHED"
  /\ issue' = [issue EXCEPT ![l] = "ACKED", ![successor] = "PREFETCHED"]
  /\ artifacts' = artifacts \cup {successor}
  /\ rotations' = rotations \cup {<<l, successor>>}
  /\ UNCHANGED <<completion, leaseReceipts, leaseReviews,
                 exchange, leaseCentral, expired, preflight>>

(* The exchange intent is settled: the server refused it, or its rotation  *)
(* is recorded.                                                            *)
EndExchange(l) ==
  /\ l \in exchange
  /\ consumedBy[l] \in Leases => <<l, consumedBy[l]>> \in rotations
  /\ exchange' = exchange \ {l}
  /\ UNCHANGED <<leaseDb, leaseCentral, expired, preflight>>

-----------------------------------------------------------------------------
(* External: the server and the clock.                                     *)

(* A request for a persisted attempt reaches the server, possibly long     *)
(* after the terminal gave up waiting for it.                              *)
CentralIssue(l) ==
  /\ issue[l] # "NONE" /\ central[l] = "NONE"
  /\ central' = [central EXCEPT ![l] = "ACTIVE"]
  /\ UNCHANGED <<leaseDb, exchange, consumedBy, expired, preflight>>

Expire(l) ==
  /\ central[l] # "NONE" /\ l \notin expired
  /\ expired' = expired \cup {l}
  /\ UNCHANGED <<leaseDb, exchange, leaseCentral, preflight>>

(* The server notices the expiry, asks for reconciliation, or an           *)
(* administrator releases the lease.                                       *)
CentralReview(l, s) ==
  /\ central[l] \in CentralLive
  /\ s \in {"EXPIRED_UNRECONCILED", "RECONCILIATION_REQUIRED", "RELEASED"} \ {central[l]}
  /\ s = "EXPIRED_UNRECONCILED" => central[l] = "ACTIVE" /\ l \in expired
  /\ central' = [central EXCEPT ![l] = s]
  /\ UNCHANGED <<leaseDb, exchange, consumedBy, expired, preflight>>

(* The seal of intent i consumes the lease.                                *)
CentralConsume(l, i) ==
  /\ central[l] \in CentralLive
  /\ central' = [central EXCEPT ![l] = "CONSUMED"]
  /\ consumedBy' = [consumedBy EXCEPT ![l] = i]

(* The process ends; the preflight in memory is lost.                      *)
LeaseCrash ==
  /\ preflight # NoPreflight
  /\ preflight' = NoPreflight
  /\ UNCHANGED <<leaseDb, exchange, leaseCentral, expired>>

(* The steps that do not depend on the transfer intent that uses a lease.  *)
PreflightNext ==
  \/ \E lb \in Labels : StartPreflight(lb)
  \/ RetryReleased \/ IssueReply \/ PreflightFails
  \/ SavePrefetched \/ RecordAuthenticatedNonactive

RotationNext ==
  \E l \in Leases :
    \/ BeginExchange(l) \/ EndExchange(l)
    \/ \E m \in Leases : CentralRotate(l, m) \/ RecordRotation(l, m)

CentralNext ==
  \E l \in Leases :
    \/ CentralIssue(l) \/ Expire(l)
    \/ \E s \in CentralLive \cup {"RELEASED"} : CentralReview(l, s)

(* The lease store on its own: completions, receipts and reviews of any    *)
(* intent that a verified lease admits.                                    *)
UseNext ==
  \E l \in Leases, i \in Intents :
    \/ Verified(l) /\ l \notin exchange /\ RecordLocalCompletion(l, i)
    \/ RecordLeaseReceipt(l, i)
    \/ RecordLeaseReview(l, i)
    \/ /\ completion[l] = i /\ CentralConsume(l, i)
       /\ UNCHANGED <<leaseDb, exchange, expired, preflight>>

LeaseNext == PreflightNext \/ RotationNext \/ CentralNext \/ UseNext \/ LeaseCrash

LeaseSpec == LeaseInit /\ [][LeaseNext]_leaseVars

-----------------------------------------------------------------------------
(* Properties.                                                             *)

(* begin_issue_attempt replays the newest unresolved attempt of a label,   *)
(* so there must never be two: whatever answers, rotations, failures and   *)
(* restarts occur, a label has at most one unresolved attempt.             *)
OneUnresolvedPerLabel ==
  \A l, m \in Leases :
    LabelOf[l] = LabelOf[m] /\ issue[l] \in Unresolved /\ issue[m] \in Unresolved
      => l = m

(* One physical label is never under two leases the server could still     *)
(* consume, although requests may arrive late and a rotation may be        *)
(* recorded locally long after the server made it.                         *)
OneLiveCentralLease ==
  \A l, m \in Leases :
    LabelOf[l] = LabelOf[m] /\ central[l] \in CentralLive /\ central[m] \in CentralLive
      => l = m

(* A lease the terminal settled as ACKED was consumed by the server, for   *)
(* the completion recorded here or for the successor recorded here; one it *)
(* settled as RELEASED can never be consumed any more.                     *)
SettledWithServer ==
  \A l \in Leases :
    /\ issue[l] = "ACKED" =>
         /\ central[l] = "CONSUMED"
         /\ \/ completion[l] # NoIntent /\ consumedBy[l] = completion[l]
            \/ <<l, consumedBy[l]>> \in rotations
    /\ issue[l] = "RELEASED" => central[l] = "RELEASED"

(* A settled attempt stays settled, and the completion recorded for a      *)
(* lease is never given to another intent.                                 *)
LeaseHistoryStep ==
  \A l \in Leases :
    /\ issue[l] \in TerminalIssue => issue'[l] = issue[l]
    /\ completion[l] # NoIntent => completion'[l] = completion[l]

(* Every step of the lease store is such a step.                           *)
LeaseHistoryKept == [][LeaseHistoryStep]_leaseVars

=============================================================================
