-------------------------- MODULE RuntimeAuthority --------------------------
(***************************************************************************)
(* The rotating runtime authority of one installation                      *)
(* (producer_runtime_client.py, kmtech_shared/runtime.py) and the server   *)
(* that grants it.                                                         *)
(*                                                                         *)
(* The server leases a fence to one runtime identity and hands out one     *)
(* request token at a time; each token is spent by one upload or by one    *)
(* renewal, whose answer carries the next.  The client keeps its side in   *)
(* one database row.  Both sides are records, and the operations on them   *)
(* are operators from a record to a record; RelayQueue turns them into     *)
(* transactions.  A token is its fence and its sequence number, and an     *)
(* identity (the runtime id with its key) is a number.                     *)
(***************************************************************************)
EXTENDS Naturals

CONSTANTS
  Rows, NoRow,    \* relay rows, 1..n in the order of their creation
  BadRows,        \* rows whose content the server refuses
  DirtyRows,      \* rows the server stores with quarantined lines
  ClientMode,     \* runtime_lease_mode of the credentials
  ServerMode,     \* "ignore" is a server without runtime rotation in receipts
  MaxKeys         \* lease requests (bound)

AuthorityAssumption ==
  /\ Rows \subseteq Nat /\ NoRow \notin Rows
  /\ BadRows \subseteq Rows /\ DirtyRows \subseteq Rows
  /\ ClientMode \in {"observe", "enforce"}
  /\ ServerMode \in {"observe", "enforce", "ignore"}
  /\ MaxKeys \in Nat \ {0}

Keys == 1..MaxKeys

NoMeta == [id |-> 0, fence |-> 0, seq |-> 0]        \* METADATA_FIELDS of an upload
NoReq  == [id |-> 0, key |-> 0, fence |-> 0, seq |-> 0]
NoAns  == [kind |-> "none", code |-> "", id |-> 0, fence |-> 0, seq |-> 0]

(* The authority row.  tok is the sequence number of the unspent token, 0  *)
(* when there is none; known the one the last answer carried, whose        *)
(* expiry is the expires_at the client knows.                              *)
NoAuthority == [id |-> 0, st |-> "NONE", code |-> "", fence |-> 0, tok |-> 0, known |-> 0,
                asg |-> NoRow, pend |-> NoReq, keys |-> 0]

Codes == {"EXACT_CLONE_RUNTIME_CONFLICT", "STALE_RUNTIME_FENCE", "STALE_RUNTIME_REQUEST_TOKEN",
          "RUNTIME_RENEWAL_PROOF_REQUIRED"}

OPERATOR_REVIEW_CODES ==
  {"EXACT_CLONE_RUNTIME_CONFLICT", "STALE_RUNTIME_FENCE", "STALE_RUNTIME_REQUEST_TOKEN"}

Metas == [id : 0..MaxKeys + 1, fence : 0..MaxKeys + 1, seq : Nat]
Requests == [id : 0..MaxKeys + 1, key : 0..MaxKeys, fence : 0..MaxKeys + 1, seq : Nat]
Answers == [kind : {"none", "grant", "refused"}, code : Codes \cup {""}, id : 0..MaxKeys + 1,
            fence : 0..MaxKeys + 1, seq : Nat]
Authorities ==
  [id : 0..MaxKeys + 1, st : {"NONE", "PENDING", "ACTIVE", "OPERATOR_REVIEW", "LEGACY_DISABLED"},
   code : Codes \cup {"", "denied", "runtime_lease_response_invalid", "upload", "legacy_accepted",
           "runtime_lease_receipt_missing"},
   fence : 0..MaxKeys + 1, tok : Nat, known : Nat, asg : Rows \cup {NoRow},
   pend : Requests, keys : 0..MaxKeys]

-----------------------------------------------------------------------------
(* Operations on the authority row.                                        *)

(* A new identity without a lease: _create_state makes the first one,      *)
(* _replace_expired_identity the following ones.                           *)
Fresh(a) == [NoAuthority EXCEPT !.id = a.id + 1, !.st = "PENDING", !.keys = a.keys]
_create_state(a) == IF a.id = 0 THEN Fresh(a) ELSE a
_replace_expired_identity(a) == Fresh(a)

(* A request to issue a lease, or to renew it when a token is at hand.     *)
_lease_request_value(a) ==
  [id |-> a.id, key |-> a.keys + 1,
   fence |-> IF a.tok # 0 /\ a.fence # 0 THEN a.fence ELSE 0,
   seq   |-> IF a.tok # 0 /\ a.fence # 0 THEN a.tok ELSE 0]
WithPending(a) ==
  LET q == _lease_request_value(a)
  IN  [a EXCEPT !.pend = q, !.keys = q.key, !.st = "PENDING"]

_dead_renewal_review(a) ==
  /\ a.st = "OPERATOR_REVIEW" /\ a.code = "STALE_RUNTIME_FENCE"
  /\ a.asg = NoRow /\ a.pend # NoReq /\ a.pend.fence # 0

(* An exact clone's refusal ends with the time to live of its lease.       *)
ExactCloneDue(a) ==
  a.st = "OPERATOR_REVIEW" /\ a.code = "EXACT_CLONE_RUNTIME_CONFLICT" /\ a.asg = NoRow

(* A grant that is not for the identity now in the row is refused.  The    *)
(* other comparisons of _grant_error hold of any answer to this request.   *)
_grant_error(a, ans) == ans.id # a.id

StoreGrant(a, ans) ==
  [a EXCEPT !.fence = ans.fence, !.tok = ans.seq, !.known = ans.seq, !.pend = NoReq,
            !.st = "ACTIVE", !.code = ""]

(* The token goes from the authority to the row that spends it.            *)
Attach(a, r) == [a EXCEPT !.tok = 0, !.asg = r, !.st = "ACTIVE"]
AttachedMeta(a) == [id |-> a.id, fence |-> a.fence, seq |-> a.tok]

(* A receipt fits the row's own reservation, or none.                      *)
ReceiptFits(a, r, m) == a.id = m.id /\ a.asg \in {r, NoRow}
apply_runtime_receipt(a, m, next) ==
  [a EXCEPT !.fence = m.fence, !.tok = next, !.known = next, !.asg = NoRow, !.pend = NoReq,
            !.st = "ACTIVE", !.code = ""]

(* The quarantine: of the authority the row holds, and of the scope's when *)
(* the row holds none.                                                     *)
mark_runtime_operator_review(a, code) ==
  [_create_state(a) EXCEPT !.tok = 0, !.asg = NoRow, !.pend = NoReq,
                           !.st = "OPERATOR_REVIEW", !.code = code]

(* The token returns after an explicit refusal that committed nothing.     *)
release_runtime_request(a, r, m) ==
  IF m = NoMeta THEN mark_runtime_operator_review(a, "upload")
  ELSE IF a.asg # r THEN a
  ELSE IF a.id # m.id \/ a.fence # m.fence THEN mark_runtime_operator_review(a, "upload")
  ELSE [a EXCEPT !.tok = m.seq, !.asg = NoRow, !.pend = NoReq, !.st = "ACTIVE", !.code = ""]

disable_runtime_authority(a) ==
  [_create_state(a) EXCEPT !.fence = 0, !.tok = 0, !.known = 0, !.asg = NoRow, !.pend = NoReq,
                           !.st = "LEGACY_DISABLED", !.code = "legacy_accepted"]

(* Whether a committed upload with a dead fence still holds the authority. *)
DeadFenceBound(a, r, m) ==
  m # NoMeta /\ a.asg = r /\ a.st = "ACTIVE" /\ a.id = m.id /\ a.fence = m.fence

-----------------------------------------------------------------------------
(* The server: the highest fence, its holder (0 is a clone of this         *)
(* installation on another machine), whether it is live, the sequence it   *)
(* waits for, the answer anchored to each request key and the receipt      *)
(* stored for each row.                                                    *)
NoReceipt == [meta |-> NoMeta, kind |-> "none", next |-> 0]
NoServer == [fence |-> 0, live |-> FALSE, id |-> 0, seq |-> 0,
             anchor |-> [k \in Keys |-> NoAns], stored |-> [r \in Rows |-> NoReceipt]]
ReceiptKinds == {"accepted", "quarantined", "dead", "stale", "legacy"}
Receipts == [meta : Metas, kind : ReceiptKinds \cup {"none"}, next : Nat]
Servers == [fence : 0..MaxKeys + 1, live : BOOLEAN, id : 0..MaxKeys + 1, seq : Nat,
            anchor : [Keys -> Answers], stored : [Rows -> Receipts]]

FenceIsLive(s, id, fence) == s.live /\ s.id = id /\ s.fence = fence

Refuse(s, q, code) ==
  [s EXCEPT !.anchor[q.key] = [NoAns EXCEPT !.kind = "refused", !.code = code]]
Grant(s, q, fence, seq) ==
  [s EXCEPT !.fence = fence, !.live = TRUE, !.id = q.id, !.seq = seq,
            !.anchor[q.key] = [kind |-> "grant", code |-> "", id |-> q.id,
                               fence |-> fence, seq |-> seq]]

(* A lease request; the same key gets the same answer.                     *)
ServeLease(s, q) ==
  IF s.anchor[q.key] # NoAns THEN s
  ELSE IF q.fence # 0
  THEN IF ~FenceIsLive(s, q.id, q.fence) THEN Refuse(s, q, "STALE_RUNTIME_FENCE")
       ELSE IF s.seq # q.seq THEN Refuse(s, q, "STALE_RUNTIME_REQUEST_TOKEN")
       ELSE Grant(s, q, s.fence, s.seq + 1)
  ELSE IF s.live
  THEN Refuse(s, q, IF s.id = q.id THEN "RUNTIME_RENEWAL_PROOF_REQUIRED"
                    ELSE "EXACT_CLONE_RUNTIME_CONFLICT")
  ELSE Grant(s, q, s.fence + 1, 1)

(* What the server does with an upload it has not stored yet.              *)
IngestKind(s, r, m) ==
  IF r \in BadRows THEN "rejected"
  ELSE IF m = NoMeta THEN IF ServerMode = "enforce" THEN "rejected" ELSE "legacy"
  ELSE IF ServerMode = "ignore" THEN "legacy"
  ELSE IF ~FenceIsLive(s, m.id, m.fence)
  THEN IF ServerMode = "enforce" THEN "STALE_RUNTIME_FENCE" ELSE "dead"
  ELSE IF s.seq # m.seq
  THEN IF ServerMode = "enforce" THEN "STALE_RUNTIME_REQUEST_TOKEN" ELSE "stale"
  ELSE IF r \in DirtyRows THEN "quarantined" ELSE "accepted"

Spends(kind) == kind \in {"accepted", "quarantined"}

(* The server after an upload, and the answer: the stored receipt to the   *)
(* exact same request, a conflict to another one for the same row.         *)
Ingest(s, r, m) ==
  LET k == IngestKind(s, r, m)
      n == IF Spends(k) THEN s.seq + 1 ELSE 0
  IN  IF s.stored[r] # NoReceipt \/ k \notin ReceiptKinds THEN s
      ELSE [s EXCEPT !.stored[r] = [meta |-> m, kind |-> k, next |-> n],
                     !.seq = IF Spends(k) THEN n ELSE @]
IngestAnswer(s, r, m) ==
  IF s.stored[r] # NoReceipt
  THEN IF s.stored[r].meta = m THEN [kind |-> s.stored[r].kind, next |-> s.stored[r].next]
       ELSE [kind |-> "rejected", next |-> 0]
  ELSE LET k == IngestKind(s, r, m)
       IN  [kind |-> k, next |-> IF Spends(k) THEN s.seq + 1 ELSE 0]
=============================================================================
