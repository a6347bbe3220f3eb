------------------------ MODULE TransferSeal_proofs ------------------------
(***************************************************************************)
(* Proofs about the lease store, for any number of labels, leases and      *)
(* intents, and about the transfer seal that is built on it, for any       *)
(* number of intents, leases, payloads, faults and audits.                 *)
(***************************************************************************)
EXTENDS TransferSeal, TLAPS

-----------------------------------------------------------------------------
(* The lease store.                                                        *)

(* A preflight under way works for a persisted attempt, and an answer it   *)
(* holds came from a server that knows the lease; RELEASED is final there. *)
PreflightSound ==
  /\ preflight.step \in {"asking", "answered", "again"} =>
       preflight.lease \in Leases /\ issue[preflight.lease] # "NONE"
  /\ preflight.step = "answered" =>
       /\ preflight.answer # "NONE"
       /\ central[preflight.lease] # "NONE"
       /\ preflight.answer = "RELEASED" => central[preflight.lease] = "RELEASED"

(* An attempt the server has not seen is still PENDING.                    *)
UnseenIsPending ==
  \A l \in Leases : issue[l] # "NONE" /\ central[l] = "NONE" => issue[l] = "PENDING"

ExchangeSound == \A l \in exchange : issue[l] # "NONE"

(* What consumed a lease, and, for a rotation, its successor: another      *)
(* lease of the same label, of one predecessor only, which the terminal    *)
(* does not know before it settles the predecessor.                        *)
ConsumerSound ==
  \A l \in Leases :
    /\ consumedBy[l] # NoIntent => central[l] = "CONSUMED"
    /\ consumedBy[l] \in Leases =>
         /\ issue[l] # "NONE"
         /\ consumedBy[l] # l
         /\ LabelOf[consumedBy[l]] = LabelOf[l]
         /\ central[consumedBy[l]] # "NONE"
         /\ issue[l] \in Unresolved => issue[consumedBy[l]] = "NONE"
         /\ \A m \in Leases : consumedBy[m] = consumedBy[l] => m = l

(* A lease the server could still consume is held by an unresolved attempt *)
(* of the terminal: its own, or that of the predecessor of its rotation.   *)
LiveIsHeld ==
  \A l \in Leases : central[l] \in CentralLive =>
    \/ issue[l] \in Unresolved
    \/ \E p \in Leases : consumedBy[p] = l /\ issue[p] \in Unresolved

LeaseInv ==
  /\ LeaseTypeOK
  /\ PreflightSound
  /\ UnseenIsPending
  /\ ExchangeSound
  /\ ConsumerSound
  /\ LiveIsHeld
  /\ OneUnresolvedPerLabel
  /\ OneLiveCentralLease
  /\ SettledWithServer


-----------------------------------------------------------------------------
(* The inductive step, one case per action: the conjuncts an action can    *)
(* disturb are shown one by one, the others only speak of what it leaves   *)
(* alone.                                                                  *)
LEMMA LeaseInvStep == LeaseInv /\ [LeaseNext]_leaseVars => LeaseInv'
<1> SUFFICES ASSUME LeaseInv, [LeaseNext]_leaseVars PROVE LeaseInv'
  OBVIOUS
<1> USE LeaseConstants
    DEF leaseDb, leaseCentral, LeaseTypeOK, IssueStatus, Unresolved, TerminalIssue,
        CentralStatus, CentralLive
<1>1. ASSUME NEW lb \in Labels, StartPreflight(lb) PROVE LeaseInv'
  <2>1. LeaseTypeOK'
    BY <1>1 DEF LeaseInv, StartPreflight, BeginIssueAttempt, Asking, FreshFor, UnresolvedOf,
       PreflightSteps
  <2>2. PreflightSound'
    BY <1>1 DEF LeaseInv, StartPreflight, BeginIssueAttempt, Asking, FreshFor, UnresolvedOf,
       PreflightSound
  <2>3. UnseenIsPending'
    BY <1>1 DEF LeaseInv, StartPreflight, BeginIssueAttempt, Asking, FreshFor, UnresolvedOf,
       UnseenIsPending
  <2>4. ConsumerSound'
    BY <1>1 DEF LeaseInv, StartPreflight, BeginIssueAttempt, Asking, FreshFor, UnresolvedOf,
       ConsumerSound
  <2>5. LiveIsHeld'
    BY <1>1 DEF LeaseInv, StartPreflight, BeginIssueAttempt, Asking, FreshFor, UnresolvedOf,
       LiveIsHeld
  <2>6. OneUnresolvedPerLabel'
    BY <1>1 DEF LeaseInv, StartPreflight, BeginIssueAttempt, Asking, FreshFor, UnresolvedOf,
       OneUnresolvedPerLabel
  <2>7. SettledWithServer'
    BY <1>1 DEF LeaseInv, StartPreflight, BeginIssueAttempt, Asking, FreshFor, UnresolvedOf,
       SettledWithServer
  <2>8. QED
    BY <1>1, <2>1, <2>2, <2>3, <2>4, <2>5, <2>6, <2>7 DEF LeaseInv, StartPreflight,
       BeginIssueAttempt, Asking, FreshFor, UnresolvedOf, ExchangeSound, OneLiveCentralLease
<1>2. CASE RetryReleased
  <2>1. LeaseTypeOK'
    BY <1>2 DEF LeaseInv, RetryReleased, BeginIssueAttempt, Asking, FreshFor, UnresolvedOf,
       PreflightSteps
  <2>2. PreflightSound'
    BY <1>2 DEF LeaseInv, RetryReleased, BeginIssueAttempt, Asking, FreshFor, UnresolvedOf,
       PreflightSound
  <2>3. UnseenIsPending'
    BY <1>2 DEF LeaseInv, RetryReleased, BeginIssueAttempt, Asking, FreshFor, UnresolvedOf,
       UnseenIsPending
  <2>4. ConsumerSound'
    BY <1>2 DEF LeaseInv, RetryReleased, BeginIssueAttempt, Asking, FreshFor, UnresolvedOf,
       ConsumerSound
  <2>5. LiveIsHeld'
    BY <1>2 DEF LeaseInv, RetryReleased, BeginIssueAttempt, Asking, FreshFor, UnresolvedOf,
       LiveIsHeld
  <2>6. OneUnresolvedPerLabel'
    BY <1>2 DEF LeaseInv, RetryReleased, BeginIssueAttempt, Asking, FreshFor, UnresolvedOf,
       OneUnresolvedPerLabel
  <2>7. SettledWithServer'
    BY <1>2 DEF LeaseInv, RetryReleased, BeginIssueAttempt, Asking, FreshFor, UnresolvedOf,
       SettledWithServer
  <2>8. QED
    BY <1>2, <2>1, <2>2, <2>3, <2>4, <2>5, <2>6, <2>7 DEF LeaseInv, RetryReleased,
       BeginIssueAttempt, Asking, FreshFor, UnresolvedOf, ExchangeSound, OneLiveCentralLease
<1>3. CASE IssueReply
  <2>1. LeaseTypeOK'
    BY <1>3 DEF LeaseInv, IssueReply, PreflightSteps, PreflightSound
  <2>2. PreflightSound'
    BY <1>3 DEF LeaseInv, IssueReply, PreflightSound
  <2>3. QED
    BY <1>3, <2>1, <2>2 DEF LeaseInv, IssueReply, UnseenIsPending, ExchangeSound,
       ConsumerSound, LiveIsHeld, OneUnresolvedPerLabel, OneLiveCentralLease,
       SettledWithServer
<1>4. CASE PreflightFails \/ LeaseCrash
  <2>1. LeaseTypeOK'
    BY <1>4 DEF LeaseInv, PreflightFails, LeaseCrash, NoPreflight, PreflightSteps
  <2>2. PreflightSound'
    BY <1>4 DEF LeaseInv, PreflightFails, LeaseCrash, NoPreflight, PreflightSound
  <2>3. QED
    BY <1>4, <2>1, <2>2 DEF LeaseInv, PreflightFails, LeaseCrash, NoPreflight,
       UnseenIsPending, ExchangeSound, ConsumerSound, LiveIsHeld, OneUnresolvedPerLabel,
       OneLiveCentralLease, SettledWithServer
<1>5. CASE SavePrefetched
  <2>1. LeaseTypeOK'
    BY <1>5 DEF LeaseInv, SavePrefetched, CanSavePrefetched, PreflightSteps, PreflightSound
  <2>2. PreflightSound'
    BY <1>5 DEF LeaseInv, SavePrefetched, CanSavePrefetched, PreflightSound
  <2>3. UnseenIsPending'
    BY <1>5 DEF LeaseInv, SavePrefetched, CanSavePrefetched, UnseenIsPending, PreflightSound
  <2>4. ConsumerSound'
    BY <1>5 DEF LeaseInv, SavePrefetched, CanSavePrefetched, ConsumerSound, PreflightSound
  <2>5. LiveIsHeld'
    BY <1>5 DEF LeaseInv, SavePrefetched, CanSavePrefetched, LiveIsHeld
  <2>6. OneUnresolvedPerLabel'
    BY <1>5 DEF LeaseInv, SavePrefetched, CanSavePrefetched, OneUnresolvedPerLabel
  <2>7. SettledWithServer'
    BY <1>5 DEF LeaseInv, SavePrefetched, CanSavePrefetched, SettledWithServer
  <2>8. QED
    BY <1>5, <2>1, <2>2, <2>3, <2>4, <2>5, <2>6, <2>7 DEF LeaseInv, SavePrefetched,
       CanSavePrefetched, ExchangeSound, OneLiveCentralLease
<1>6. CASE RecordAuthenticatedNonactive
  <2>1. LeaseTypeOK'
    BY <1>6 DEF LeaseInv, RecordAuthenticatedNonactive, LocalStatusOf, NoPreflight,
       PreflightSteps
  <2>2. PreflightSound'
    BY <1>6 DEF LeaseInv, RecordAuthenticatedNonactive, LocalStatusOf, NoPreflight,
       PreflightSound
  <2>3. UnseenIsPending'
    BY <1>6 DEF LeaseInv, RecordAuthenticatedNonactive, LocalStatusOf, NoPreflight,
       UnseenIsPending, PreflightSound
  <2>4. ExchangeSound'
    BY <1>6 DEF LeaseInv, RecordAuthenticatedNonactive, LocalStatusOf, NoPreflight,
       ExchangeSound, PreflightSound
  <2>5. ConsumerSound'
    BY <1>6 DEF LeaseInv, RecordAuthenticatedNonactive, LocalStatusOf, NoPreflight,
       ConsumerSound, PreflightSound
  <2>6. LiveIsHeld'
    BY <1>6 DEF LeaseInv, RecordAuthenticatedNonactive, LocalStatusOf, NoPreflight,
       LiveIsHeld, PreflightSound, ConsumerSound
  <2>7. OneUnresolvedPerLabel'
    BY <1>6 DEF LeaseInv, RecordAuthenticatedNonactive, LocalStatusOf, NoPreflight,
       OneUnresolvedPerLabel, PreflightSound
  <2>8. SettledWithServer'
    BY <1>6 DEF LeaseInv, RecordAuthenticatedNonactive, LocalStatusOf, NoPreflight,
       SettledWithServer, PreflightSound
  <2>9. QED
    BY <1>6, <2>1, <2>2, <2>3, <2>4, <2>5, <2>6, <2>7, <2>8 DEF LeaseInv,
       RecordAuthenticatedNonactive, LocalStatusOf, NoPreflight, OneLiveCentralLease
<1>7. ASSUME NEW l \in Leases, BeginExchange(l) \/ EndExchange(l) PROVE LeaseInv'
  <2>1. LeaseTypeOK'
    BY <1>7 DEF LeaseInv, BeginExchange, EndExchange
  <2>2. ExchangeSound'
    BY <1>7 DEF LeaseInv, BeginExchange, EndExchange, ExchangeSound
  <2>3. QED
    BY <1>7, <2>1, <2>2 DEF LeaseInv, BeginExchange, EndExchange, PreflightSound,
       UnseenIsPending, ConsumerSound, LiveIsHeld, OneUnresolvedPerLabel,
       OneLiveCentralLease, SettledWithServer
<1>8. ASSUME NEW l \in Leases, NEW m \in Leases, CentralRotate(l, m) PROVE LeaseInv'
  <2>1. LeaseTypeOK'
    BY <1>8 DEF LeaseInv, CentralRotate, FreshFor
  <2>2. PreflightSound'
    BY <1>8 DEF LeaseInv, CentralRotate, FreshFor, PreflightSound
  <2>3. UnseenIsPending'
    BY <1>8 DEF LeaseInv, CentralRotate, FreshFor, UnseenIsPending
  <2>4. ConsumerSound'
    BY <1>8 DEF LeaseInv, CentralRotate, FreshFor, ConsumerSound, ExchangeSound
  <2>5. LiveIsHeld'
    BY <1>8 DEF LeaseInv, CentralRotate, FreshFor, LiveIsHeld, ConsumerSound, ExchangeSound
  <2>6. OneLiveCentralLease'
    BY <1>8 DEF LeaseInv, CentralRotate, FreshFor, OneLiveCentralLease
  <2>7. SettledWithServer'
    BY <1>8 DEF LeaseInv, CentralRotate, FreshFor, SettledWithServer
  <2>8. QED
    BY <1>8, <2>1, <2>2, <2>3, <2>4, <2>5, <2>6, <2>7 DEF LeaseInv, CentralRotate, FreshFor,
       ExchangeSound, OneUnresolvedPerLabel
<1>9. ASSUME NEW l \in Leases, NEW m \in Leases, RecordRotation(l, m) PROVE LeaseInv'
  <2>1. LeaseTypeOK'
    BY <1>9 DEF LeaseInv, RecordRotation
  <2>2. PreflightSound'
    BY <1>9 DEF LeaseInv, RecordRotation, PreflightSound
  <2>3. UnseenIsPending'
    BY <1>9 DEF LeaseInv, RecordRotation, UnseenIsPending, ConsumerSound
  <2>4. ExchangeSound'
    BY <1>9 DEF LeaseInv, RecordRotation, ExchangeSound
  <2>5. ConsumerSound'
    BY <1>9 DEF LeaseInv, RecordRotation, ConsumerSound
  <2>6. LiveIsHeld'
    BY <1>9 DEF LeaseInv, RecordRotation, LiveIsHeld, ConsumerSound, OneUnresolvedPerLabel
  <2>7. OneUnresolvedPerLabel'
    BY <1>9 DEF LeaseInv, RecordRotation, OneUnresolvedPerLabel, ConsumerSound
  <2>8. SettledWithServer'
    BY <1>9 DEF LeaseInv, RecordRotation, SettledWithServer, ConsumerSound
  <2>9. QED
    BY <1>9, <2>1, <2>2, <2>3, <2>4, <2>5, <2>6, <2>7, <2>8 DEF LeaseInv, RecordRotation,
       OneLiveCentralLease
<1>10. ASSUME NEW l \in Leases, CentralIssue(l) PROVE LeaseInv'
  <2>1. LeaseTypeOK'
    BY <1>10 DEF LeaseInv, CentralIssue
  <2>2. PreflightSound'
    BY <1>10 DEF LeaseInv, CentralIssue, PreflightSound
  <2>3. UnseenIsPending'
    BY <1>10 DEF LeaseInv, CentralIssue, UnseenIsPending
  <2>4. ConsumerSound'
    BY <1>10 DEF LeaseInv, CentralIssue, ConsumerSound
  <2>5. LiveIsHeld'
    BY <1>10 DEF LeaseInv, CentralIssue, LiveIsHeld, UnseenIsPending
  <2>6. OneLiveCentralLease'
    BY <1>10 DEF LeaseInv, CentralIssue, OneLiveCentralLease, LiveIsHeld, ConsumerSound,
       UnseenIsPending, OneUnresolvedPerLabel
  <2>7. SettledWithServer'
    BY <1>10 DEF LeaseInv, CentralIssue, SettledWithServer
  <2>8. QED
    BY <1>10, <2>1, <2>2, <2>3, <2>4, <2>5, <2>6, <2>7 DEF LeaseInv, CentralIssue,
       ExchangeSound, OneUnresolvedPerLabel
<1>11. ASSUME NEW l \in Leases, Expire(l) PROVE LeaseInv'
  <2>1. LeaseTypeOK'
    BY <1>11 DEF LeaseInv, Expire
  <2>2. QED
    BY <1>11, <2>1 DEF LeaseInv, Expire, PreflightSound, UnseenIsPending, ExchangeSound,
       ConsumerSound, LiveIsHeld, OneUnresolvedPerLabel, OneLiveCentralLease,
       SettledWithServer
<1>12. ASSUME NEW l \in Leases, NEW s, CentralReview(l, s) PROVE LeaseInv'
  <2>1. LeaseTypeOK'
    BY <1>12 DEF LeaseInv, CentralReview
  <2>2. PreflightSound'
    BY <1>12 DEF LeaseInv, CentralReview, PreflightSound
  <2>3. UnseenIsPending'
    BY <1>12 DEF LeaseInv, CentralReview, UnseenIsPending
  <2>4. ConsumerSound'
    BY <1>12 DEF LeaseInv, CentralReview, ConsumerSound
  <2>5. LiveIsHeld'
    BY <1>12 DEF LeaseInv, CentralReview, LiveIsHeld
  <2>6. OneLiveCentralLease'
    BY <1>12 DEF LeaseInv, CentralReview, OneLiveCentralLease
  <2>7. SettledWithServer'
    BY <1>12 DEF LeaseInv, CentralReview, SettledWithServer
  <2>8. QED
    BY <1>12, <2>1, <2>2, <2>3, <2>4, <2>5, <2>6, <2>7 DEF LeaseInv, CentralReview,
       ExchangeSound, OneUnresolvedPerLabel
<1>13. ASSUME NEW l \in Leases, NEW i \in Intents, RecordLocalCompletion(l, i) PROVE LeaseInv'
  <2>1. LeaseTypeOK'
    BY <1>13 DEF LeaseInv, RecordLocalCompletion, CanRecordLocalCompletion
  <2>2. PreflightSound'
    BY <1>13 DEF LeaseInv, RecordLocalCompletion, CanRecordLocalCompletion, PreflightSound
  <2>3. UnseenIsPending'
    BY <1>13 DEF LeaseInv, RecordLocalCompletion, CanRecordLocalCompletion, UnseenIsPending
  <2>4. ExchangeSound'
    BY <1>13 DEF LeaseInv, RecordLocalCompletion, CanRecordLocalCompletion, ExchangeSound
  <2>5. ConsumerSound'
    BY <1>13 DEF LeaseInv, RecordLocalCompletion, CanRecordLocalCompletion, ConsumerSound
  <2>6. LiveIsHeld'
    BY <1>13 DEF LeaseInv, RecordLocalCompletion, CanRecordLocalCompletion, LiveIsHeld
  <2>7. OneUnresolvedPerLabel'
    BY <1>13 DEF LeaseInv, RecordLocalCompletion, CanRecordLocalCompletion,
       OneUnresolvedPerLabel
  <2>8. SettledWithServer'
    BY <1>13 DEF LeaseInv, RecordLocalCompletion, CanRecordLocalCompletion,
       SettledWithServer
  <2>9. QED
    BY <1>13, <2>1, <2>2, <2>3, <2>4, <2>5, <2>6, <2>7, <2>8 DEF LeaseInv,
       RecordLocalCompletion, CanRecordLocalCompletion, OneLiveCentralLease
<1>14. ASSUME NEW l \in Leases, NEW i \in Intents, RecordLeaseReceipt(l, i) PROVE LeaseInv'
  <2>1. LeaseTypeOK'
    BY <1>14 DEF LeaseInv, RecordLeaseReceipt, CanRecordLeaseReceipt
  <2>2. PreflightSound'
    BY <1>14 DEF LeaseInv, RecordLeaseReceipt, CanRecordLeaseReceipt, PreflightSound
  <2>3. UnseenIsPending'
    BY <1>14 DEF LeaseInv, RecordLeaseReceipt, CanRecordLeaseReceipt, UnseenIsPending
  <2>4. ExchangeSound'
    BY <1>14 DEF LeaseInv, RecordLeaseReceipt, CanRecordLeaseReceipt, ExchangeSound
  <2>5. ConsumerSound'
    BY <1>14 DEF LeaseInv, RecordLeaseReceipt, CanRecordLeaseReceipt, ConsumerSound
  <2>6. LiveIsHeld'
    BY <1>14 DEF LeaseInv, RecordLeaseReceipt, CanRecordLeaseReceipt, LiveIsHeld,
       ConsumerSound
  <2>7. OneUnresolvedPerLabel'
    BY <1>14 DEF LeaseInv, RecordLeaseReceipt, CanRecordLeaseReceipt, OneUnresolvedPerLabel
  <2>8. SettledWithServer'
    BY <1>14 DEF LeaseInv, RecordLeaseReceipt, CanRecordLeaseReceipt, SettledWithServer,
       ConsumerSound
  <2>9. QED
    BY <1>14, <2>1, <2>2, <2>3, <2>4, <2>5, <2>6, <2>7, <2>8 DEF LeaseInv,
       RecordLeaseReceipt, CanRecordLeaseReceipt, OneLiveCentralLease
<1>15. ASSUME NEW l \in Leases, NEW i \in Intents, RecordLeaseReview(l, i) PROVE LeaseInv'
  <2>1. LeaseTypeOK'
    BY <1>15 DEF LeaseInv, RecordLeaseReview, CanRecordLeaseReview
  <2>2. PreflightSound'
    BY <1>15 DEF LeaseInv, RecordLeaseReview, CanRecordLeaseReview, PreflightSound
  <2>3. UnseenIsPending'
    BY <1>15 DEF LeaseInv, RecordLeaseReview, CanRecordLeaseReview, UnseenIsPending
  <2>4. ExchangeSound'
    BY <1>15 DEF LeaseInv, RecordLeaseReview, CanRecordLeaseReview, ExchangeSound
  <2>5. ConsumerSound'
    BY <1>15 DEF LeaseInv, RecordLeaseReview, CanRecordLeaseReview, ConsumerSound
  <2>6. LiveIsHeld'
    BY <1>15 DEF LeaseInv, RecordLeaseReview, CanRecordLeaseReview, LiveIsHeld
  <2>7. OneUnresolvedPerLabel'
    BY <1>15 DEF LeaseInv, RecordLeaseReview, CanRecordLeaseReview, OneUnresolvedPerLabel
  <2>8. SettledWithServer'
    BY <1>15 DEF LeaseInv, RecordLeaseReview, CanRecordLeaseReview, SettledWithServer
  <2>9. QED
    BY <1>15, <2>1, <2>2, <2>3, <2>4, <2>5, <2>6, <2>7, <2>8 DEF LeaseInv,
       RecordLeaseReview, CanRecordLeaseReview, OneLiveCentralLease
<1>16. ASSUME NEW l \in Leases, NEW i \in Intents, CentralConsume(l, i),
              UNCHANGED <<leaseDb, exchange, expired, preflight>>
       PROVE LeaseInv'
  <2>1. LeaseTypeOK'
    BY <1>16 DEF LeaseInv, CentralConsume
  <2>2. PreflightSound'
    BY <1>16 DEF LeaseInv, CentralConsume, PreflightSound
  <2>3. UnseenIsPending'
    BY <1>16 DEF LeaseInv, CentralConsume, UnseenIsPending
  <2>4. ConsumerSound'
    BY <1>16 DEF LeaseInv, CentralConsume, ConsumerSound
  <2>5. LiveIsHeld'
    BY <1>16 DEF LeaseInv, CentralConsume, LiveIsHeld, ConsumerSound
  <2>6. OneLiveCentralLease'
    BY <1>16 DEF LeaseInv, CentralConsume, OneLiveCentralLease
  <2>7. SettledWithServer'
    BY <1>16 DEF LeaseInv, CentralConsume, SettledWithServer
  <2>8. QED
    BY <1>16, <2>1, <2>2, <2>3, <2>4, <2>5, <2>6, <2>7 DEF LeaseInv, CentralConsume,
       ExchangeSound, OneUnresolvedPerLabel
<1>17. CASE UNCHANGED leaseVars
  BY <1>17 DEF leaseVars, LeaseInv, PreflightSound, UnseenIsPending, ExchangeSound, ConsumerSound,
     LiveIsHeld, OneUnresolvedPerLabel, OneLiveCentralLease, SettledWithServer
<1>18. QED
  BY <1>1, <1>2, <1>3, <1>4, <1>5, <1>6, <1>7, <1>8, <1>9, <1>10, <1>11, <1>12, <1>13,
     <1>14, <1>15, <1>16, <1>17 DEF LeaseNext, PreflightNext, RotationNext, CentralNext,
     UseNext

(* ... and it holds of the empty database.                                 *)
LEMMA LeaseInvInit == LeaseInit => LeaseInv
  BY LeaseConstants
     DEF LeaseInit, LeaseInv, LeaseTypeOK, PreflightSound, UnseenIsPending, ExchangeSound,
         ConsumerSound, LiveIsHeld, OneUnresolvedPerLabel, OneLiveCentralLease,
         SettledWithServer, NoPreflight, IssueStatus, Unresolved, TerminalIssue, CentralStatus,
         CentralLive, PreflightSteps

(* The parts of LeaseInv hold in every reachable state of the lease store.  *)
THEOREM LeaseInvariant == LeaseSpec => []LeaseInv
  BY LeaseInvInit, LeaseInvStep, PTL DEF LeaseSpec

(* Type correctness of the lease store and of the preflight in memory.      *)
THEOREM LeaseTypeCorrect == LeaseSpec => []LeaseTypeOK
  BY LeaseInvariant, PTL DEF LeaseInv

(* begin_issue_attempt can always replay THE unresolved attempt of a label. *)
THEOREM OneUnresolvedAttempt == LeaseSpec => []OneUnresolvedPerLabel
  BY LeaseInvariant, PTL DEF LeaseInv

(* A physical label is never under two leases that could be consumed.       *)
THEOREM OneLiveLease == LeaseSpec => []OneLiveCentralLease
  BY LeaseInvariant, PTL DEF LeaseInv

(* ACKED and RELEASED at the terminal agree with the server.                *)
THEOREM SettledAgrees == LeaseSpec => []SettledWithServer
  BY LeaseInvariant, PTL DEF LeaseInv

(* A step taken under LeaseInv keeps the history.                          *)
LEMMA HistoryStepHolds ==
  LeaseInv /\ [LeaseNext]_leaseVars => [LeaseHistoryStep]_leaseVars
<1> SUFFICES ASSUME LeaseInv, LeaseNext PROVE LeaseHistoryStep
  OBVIOUS
<1> USE LeaseConstants DEF LeaseHistoryStep, leaseDb, leaseCentral, LeaseInv, LeaseTypeOK, TerminalIssue
<1>1. ASSUME UNCHANGED <<issue, completion>> PROVE LeaseHistoryStep
  BY <1>1
<1>2. CASE PreflightNext
  BY <1>1, <1>2 DEF PreflightNext, StartPreflight, RetryReleased, BeginIssueAttempt, FreshFor,
     IssueReply, PreflightFails, SavePrefetched, CanSavePrefetched, RecordAuthenticatedNonactive
<1>3. CASE RotationNext
  <2>1. ASSUME NEW l \in Leases, NEW m \in Leases, RecordRotation(l, m) PROVE LeaseHistoryStep
    BY <2>1 DEF RecordRotation, ConsumerSound, Unresolved
  <2>2. QED
    BY <1>1, <1>3, <2>1 DEF RotationNext, BeginExchange, EndExchange, CentralRotate
<1>4. CASE CentralNext \/ LeaseCrash
  BY <1>1, <1>4 DEF CentralNext, CentralIssue, Expire, CentralReview, LeaseCrash
<1>5. CASE UseNext
  BY <1>1, <1>5 DEF UseNext, RecordLocalCompletion, CanRecordLocalCompletion, RecordLeaseReceipt,
     CanRecordLeaseReceipt, RecordLeaseReview, CanRecordLeaseReview, CentralConsume
<1>6. QED
  BY <1>2, <1>3, <1>4, <1>5 DEF LeaseNext

(* No step reopens a settled attempt or gives a completion to another       *)
(* intent.                                                                  *)
THEOREM HistoryKept == LeaseSpec => LeaseHistoryKept
  BY LeaseInvariant, HistoryStepHolds, PTL DEF LeaseSpec, LeaseHistoryKept

-----------------------------------------------------------------------------
(* The transfer seal.                                                      *)

(* The completion of i's lease, if i has one, is recorded for i.           *)
Linked(i) == Leased(i) => completion[LeaseOf[i]] = i

(* A confirmed intent has its row and its linked completion.               *)
CheckpointSound == \A i \in checkpoint : status[i] # "NONE" /\ Linked(i)

(* The steps of _attempt_row, and those of them that need a command.       *)
Commanded  == {"send", "wait", "query", "queryCommitted", "recheck", "receipt", "ack"}
Attempting == Commanded \cup {"bind", "review"}

(* A completing task knows its intent and, past prepare, has it linked.    *)
CompletionSound ==
  /\ lane.task = "complete" => lane.target \in Intents /\ status[lane.target] # "NONE"
  /\ lane.step \in {"prepared", "contract", "confirm", "finish"} =>
       lane.task = "complete" /\ lane.cur = lane.target
  /\ lane.step = "prepared" => Leased(lane.cur) /\ LeaseOf[lane.cur] \notin exchange
  /\ lane.step \in {"contract", "confirm"} => Linked(lane.target)

(* What a task still has to attempt is confirmed and pending.              *)
QueueSound ==
  \A j \in lane.queue : j \in checkpoint /\ status[j] \in Pending /\ j # lane.cur

(* What an attempt relies on, step by step.                                *)
AttemptSound ==
  /\ lane.step \in Attempting =>
       lane.cur \in checkpoint /\ status[lane.cur] \in Pending \cup {"OPERATOR_REVIEW"}
  /\ lane.step = "bind" => status[lane.cur] \in Pending /\ command[lane.cur] = NoPayload
  /\ lane.step \in Commanded => command[lane.cur] # NoPayload
  /\ lane.step \in {"receipt", "review"} => Leased(lane.cur)
  /\ lane.step \in {"receipt", "ack"} => sealed[lane.cur] = command[lane.cur]
  /\ lane.step = "ack" /\ Leased(lane.cur) =>
       LeaseOf[lane.cur] \in leaseReceipts /\ issue[LeaseOf[lane.cur]] = "ACKED"
  /\ lane.step = "send" /\ status[lane.cur] = "OPERATOR_REVIEW" =>
       reviewPosts[lane.cur] < audits[lane.cur]

SealInv ==
  /\ SealTypeOK
  /\ LeaseInv
  /\ CheckpointSound
  /\ CompletionSound
  /\ QueueSound
  /\ AttemptSound
  /\ CommandAfterEvidence
  /\ OnePayloadPerKey
  /\ AckedIsProved
  /\ ResendIsAudited

-----------------------------------------------------------------------------
(* Every step of the seal is a step of the lease store, or leaves it alone.*)
LEMMA SealStepIsLeaseStep == SealInv /\ [SealNext]_sealVars => [LeaseNext]_leaseVars
<1> SUFFICES ASSUME SealInv, SealNext PROVE [LeaseNext]_leaseVars
  BY DEF sealVars
<1> USE LeaseConstants, SealConstants DEF SealInv, SealTypeOK
<1>1. ASSUME UNCHANGED leaseVars PROVE [LeaseNext]_leaseVars
  BY <1>1
<1>2. CASE LinkCompletion
  <2>1. lane.cur \in Intents /\ LeaseOf[lane.cur] \in Leases \ exchange
    BY <1>2 DEF LinkCompletion, CompletionSound, Leased
  <2>2. Verified(LeaseOf[lane.cur]) /\ RecordLocalCompletion(LeaseOf[lane.cur], lane.cur)
    BY <1>2 DEF LinkCompletion
  <2>3. QED
    BY <2>1, <2>2 DEF LeaseNext, UseNext
<1>3. CASE AckLease
  <2>1. lane.cur \in Intents /\ LeaseOf[lane.cur] \in Leases
    BY <1>3 DEF AckLease, AttemptSound, Leased
  <2>2. RecordLeaseReceipt(LeaseOf[lane.cur], lane.cur)
    BY <1>3 DEF AckLease
  <2>3. QED
    BY <2>1, <2>2 DEF LeaseNext, UseNext
<1>4. CASE ReviewLease
  <2>1. lane.cur \in Intents /\ LeaseOf[lane.cur] \in Leases
    BY <1>4 DEF ReviewLease, AttemptSound, Leased
  <2>2. RecordLeaseReview(LeaseOf[lane.cur], lane.cur) \/ UNCHANGED leaseVars
    BY <1>4 DEF ReviewLease
  <2>3. QED
    BY <2>1, <2>2 DEF LeaseNext, UseNext
<1>5. ASSUME NEW i \in Intents, NEW q \in Payloads, ServerSeal(i, q)
      PROVE [LeaseNext]_leaseVars
  <2>1. command[i] # NoPayload
    BY <1>5 DEF ServerSeal, OnePayloadPerKey
  <2>2. Leased(i) => completion[LeaseOf[i]] = i /\ LeaseOf[i] \in Leases
    BY <2>1 DEF CommandAfterEvidence, Leased
  <2>3. /\ Leased(i) => CentralConsume(LeaseOf[i], i)
        /\ ~Leased(i) => UNCHANGED leaseCentral
        /\ UNCHANGED <<leaseDb, exchange, expired, preflight>>
    BY <1>5 DEF ServerSeal
  <2>4. QED
    BY <2>2, <2>3 DEF LeaseNext, UseNext, leaseVars
<1>6. CASE Crash \/ Restart
  BY <1>6 DEF Crash, Restart, LeaseNext, LeaseCrash, leaseVars
<1>7. CASE LeaseSide
  BY <1>7 DEF LeaseSide, LeaseNext
<1>8. QED
  BY <1>1, <1>2, <1>3, <1>4, <1>5, <1>6, <1>7
     DEF SealNext, CompletionNext, AttemptNext, TaskNext, ServerSide, Prepare, LinkRefused,
         PersistContract, ConfirmCheckpoint, FinishCompletion, BindCommand, BuildFails,
         AnswerError, ReceiptMissing, PostSeal, AnswerReceipt, AnswerCommitted, PostTimeout,
         ReceiptFound, AckLeaseFails, RecordReceipt, AttemptFails, StartDrain, StartRetry,
         StartRecheck, LaneFails

(* The type of the lane.                                                   *)
LaneTypeOK ==
  /\ lane \in [task : Tasks, step : Steps, cur : Intents \cup {NoIntent},
               target : Intents \cup {NoIntent}, queue : SUBSET Intents]
  /\ lane.step = "idle" <=> lane.cur = NoIntent

(* What the invariant says of the lane, and of the two stores.             *)
LaneSound == LaneTypeOK /\ CompletionSound /\ QueueSound /\ AttemptSound

StoreSound == CheckpointSound /\ CommandAfterEvidence /\ OnePayloadPerKey /\ AckedIsProved

(* An idle lane claims nothing.                                            *)
LEMMA IdleSound == ASSUME lane' = NoLane PROVE LaneSound'
  BY LeaseConstants
     DEF NoLane, LaneSound, LaneTypeOK, Tasks, Steps, CompletionSound, QueueSound, AttemptSound,
         Attempting, Commanded

(* Proceed leaves a sound lane if what it chooses from is confirmed and    *)
(* pending once the step is taken.                                         *)
LEMMA ProceedSound ==
  ASSUME SealInv, NEW q \in SUBSET Intents, Proceed(q) \/ lane' = Finished, UNCHANGED command,
         \A j \in q : j \in checkpoint' /\ status'[j] \in Pending,
         \A j \in Intents : status[j] # "NONE" => status'[j] # "NONE"
  PROVE  LaneSound'
<1> USE LeaseConstants DEF Tasks, Steps, Pending
<1>1. LaneTypeOK /\ CompletionSound
  BY DEF SealInv, SealTypeOK, LaneTypeOK
<1>2. CASE lane' = NoLane
  BY <1>2, IdleSound
<1>3. CASE /\ lane.task = "complete"
           /\ lane' = [lane EXCEPT !.step = "finish", !.cur = lane.target, !.queue = {}]
  <2>1. lane.target \in Intents /\ status'[lane.target] # "NONE"
    BY <1>1, <1>3 DEF CompletionSound
  <2>2. LaneTypeOK'
    BY <1>1, <1>3, <2>1 DEF LaneTypeOK
  <2>3. QED
    BY <1>1, <1>3, <2>1, <2>2
       DEF LaneTypeOK, LaneSound, CompletionSound, QueueSound, AttemptSound, Attempting, Commanded
<1>4. ASSUME NEW c \in q,
             lane' = [lane EXCEPT !.cur = c, !.queue = q \ {c},
                                  !.step = IF command[c] = NoPayload THEN "bind" ELSE "send"]
      PROVE  LaneSound'
  <2>1. LaneTypeOK'
    BY <1>1, <1>4 DEF LaneTypeOK
  <2>2. CompletionSound'
    BY <1>1, <1>4 DEF LaneTypeOK, CompletionSound
  <2>3. QueueSound' /\ AttemptSound'
    BY <1>1, <1>4 DEF LaneTypeOK, QueueSound, AttemptSound, Attempting, Commanded
  <2>4. QED
    BY <2>1, <2>2, <2>3 DEF LaneSound
<1>5. QED
  BY <1>2, <1>3, <1>4 DEF Proceed, Finished

(* SealInv from its parts: the lease store's is known from the step.       *)
LEMMA SealInvFromParts ==
  ASSUME SealInv, [SealNext]_sealVars, LaneSound', StoreSound', ResendIsAudited',
         status' \in [Intents -> {"NONE"} \cup Pending \cup Settled],
         older' \subseteq Intents \X Intents, checkpoint' \subseteq Intents,
         command' \in [Intents -> Payloads \cup {NoPayload}], reviewCases' \subseteq Intents,
         sealed' \in [Intents -> Payloads \cup {NoPayload}], late' \subseteq Intents \X Payloads,
         startup' \in BOOLEAN, audits' \in [Intents -> Nat], reviewPosts' \in [Intents -> Nat],
         faults' \in Nat
  PROVE  SealInv'
<1>1. LeaseInv'
  BY SealStepIsLeaseStep, LeaseInvStep DEF SealInv
<1>2. LeaseTypeOK'
  BY <1>1 DEF LeaseInv
<1>3. QED
  BY <1>1, <1>2 DEF SealInv, SealTypeOK, LaneSound, LaneTypeOK, StoreSound

(* A step that leaves the databases and the server alone.                  *)
LEMMA LaneStep ==
  ASSUME SealInv, SealNext, UNCHANGED <<leaseVars, storeVars, netVars>>, LaneSound',
         ResendIsAudited', startup' \in BOOLEAN, audits' \in [Intents -> Nat],
         reviewPosts' \in [Intents -> Nat], faults' \in Nat
  PROVE  SealInv'
<1>1. StoreSound'
  BY DEF SealInv, StoreSound, CheckpointSound, Linked, CommandAfterEvidence, OnePayloadPerKey,
         AckedIsProved, leaseVars, leaseDb, storeVars, netVars
<1>2. QED
  BY <1>1, SealInvFromParts DEF SealInv, SealTypeOK, storeVars, netVars

(* record_error keeps the invariant, whatever step of an attempt fails.    *)
LEMMA RecordErrorSound ==
  ASSUME SealInv, SealNext, NEW class \in Classes, RecordError(class),
         lane.step \in Attempting \ {"review"},
         UNCHANGED <<leaseVars, netVars, startup, audits, reviewPosts>>, faults' \in Nat
  PROVE  SealInv'
<1> USE LeaseConstants, SealConstants
<1>1. /\ lane.cur \in Intents /\ lane.cur \in checkpoint
      /\ status[lane.cur] \in Pending \cup {"OPERATOR_REVIEW"}
      /\ status \in [Intents -> {"NONE"} \cup Pending \cup Settled]
      /\ checkpoint \subseteq Intents /\ reviewCases \subseteq Intents
      /\ UNCHANGED <<older, checkpoint, command>>
      /\ LaneTypeOK
  BY DEF SealInv, SealTypeOK, AttemptSound, RecordError, LaneTypeOK
<1>2. /\ status' \in [Intents -> {"NONE"} \cup Pending \cup Settled]
      /\ \A j \in Intents : j # lane.cur => status'[j] = status[j]
      /\ status'[lane.cur] \in {"OPERATOR_REVIEW", "RETRY_WAIT"}
      /\ reviewCases' \subseteq Intents
  BY <1>1 DEF RecordError, Pending, Settled
<1>3. StoreSound'
  BY <1>1, <1>2 DEF SealInv, StoreSound, CheckpointSound, Linked, CommandAfterEvidence,
     OnePayloadPerKey, AckedIsProved, leaseVars, leaseDb, netVars
<1>4. LaneSound'
  <2>1. CASE Proceed(lane.queue)
    <3>1. \A j \in lane.queue : j \in checkpoint' /\ status'[j] \in Pending
      BY <1>1, <1>2 DEF SealInv, QueueSound, LaneTypeOK
    <3>2. QED
      BY <1>1, <1>2, <2>1, <3>1, ProceedSound DEF LaneTypeOK
  <2>2. CASE /\ lane' = [lane EXCEPT !.step = "review"]
             /\ Leased(lane.cur) /\ status'[lane.cur] = "OPERATOR_REVIEW"
    <3>1. LaneTypeOK'
      BY <1>1, <2>2 DEF LaneTypeOK, Tasks, Steps
    <3>2. CompletionSound' /\ QueueSound'
      BY <1>1, <1>2, <2>2 DEF LaneTypeOK, SealInv, CompletionSound, QueueSound
    <3>3. AttemptSound'
      BY <1>1, <1>2, <2>2 DEF LaneTypeOK, AttemptSound, Attempting, Commanded
    <3>4. QED
      BY <3>1, <3>2, <3>3 DEF LaneSound
  <2>3. QED
    BY <1>1, <2>1, <2>2 DEF RecordError
<1>5. QED
  BY <1>1, <1>2, <1>3, <1>4, SealInvFromParts
     DEF SealInv, SealTypeOK, ResendIsAudited, netVars

-----------------------------------------------------------------------------
(* The inductive step.  A step that only moves the lane needs the lane's   *)
(* parts; one that writes a database or the server's ledger the store's.   *)
LEMMA SealInvStep == SealInv /\ [SealNext]_sealVars => SealInv'
<1> USE LeaseConstants, SealConstants
<1>0. CASE SealInv /\ UNCHANGED sealVars
  <2>1. /\ UNCHANGED <<status, older, checkpoint, command, reviewCases, sealed, late, lane,
                       startup, audits, reviewPosts, faults>>
        /\ UNCHANGED leaseVars
    BY <1>0 DEF sealVars, sealOnly, storeVars, netVars
  <2>2. SealTypeOK' /\ LaneSound' /\ StoreSound' /\ ResendIsAudited'
    BY <1>0, <2>1
       DEF SealInv, SealTypeOK, LeaseTypeOK, LaneSound, LaneTypeOK, CompletionSound, QueueSound,
           AttemptSound, StoreSound, CheckpointSound, Linked, CommandAfterEvidence,
           OnePayloadPerKey, AckedIsProved, ResendIsAudited, leaseVars, leaseDb, leaseCentral
  <2>3. QED
    BY <1>0, <2>1, <2>2, LeaseInvStep DEF SealInv, LaneSound, StoreSound
<1> SUFFICES ASSUME SealInv, SealNext PROVE SealInv'
  BY <1>0
<1> USE DEF Classes
<1>1. /\ LaneTypeOK
      /\ startup \in BOOLEAN /\ audits \in [Intents -> Nat] /\ reviewPosts \in [Intents -> Nat]
      /\ faults \in Nat /\ MaxFaults \in Nat
      /\ status \in [Intents -> {"NONE"} \cup Pending \cup Settled]
      /\ older \subseteq Intents \X Intents /\ checkpoint \subseteq Intents
      /\ command \in [Intents -> Payloads \cup {NoPayload}] /\ reviewCases \subseteq Intents
      /\ sealed \in [Intents -> Payloads \cup {NoPayload}] /\ late \subseteq Intents \X Payloads
      /\ ResendIsAudited
  BY DEF SealInv, SealTypeOK, LaneTypeOK
<1>2. ASSUME Fault PROVE faults' \in Nat
  BY <1>1, <1>2 DEF Fault
<1>3. ASSUME UNCHANGED <<audits, reviewPosts>> PROVE ResendIsAudited'
  BY <1>1, <1>3 DEF ResendIsAudited
<1>4. ASSUME NEW i \in Intents, Prepare(i) PROVE SealInv'
  <2>1. /\ status' \in [Intents -> {"NONE"} \cup Pending \cup Settled]
        /\ \A j \in Intents : status[j] # "NONE" => status'[j] = status[j]
        /\ status'[i] # "NONE" /\ (status[i] # "ACKED" => status'[i] # "ACKED")
        /\ \A j \in Intents : j # i => status'[j] = status[j]
        /\ older' \subseteq Intents \X Intents
    BY <1>1, <1>4 DEF Prepare, Pending, Settled
  <2>2. StoreSound'
    BY <1>1, <1>4, <2>1 DEF Prepare, SealInv, StoreSound, CheckpointSound, Linked,
       CommandAfterEvidence, OnePayloadPerKey, AckedIsProved, leaseVars, leaseDb, netVars
  <2>3. LaneTypeOK'
    BY <1>1, <1>4 DEF Prepare, LaneTypeOK, Tasks, Steps
  <2>4. CompletionSound' /\ QueueSound' /\ AttemptSound'
    BY <1>1, <1>4, <2>1 DEF Prepare, CompletionSound, QueueSound, AttemptSound, Attempting,
       Commanded, Linked, Leased, leaseVars
  <2>5. QED
    BY <1>1, <1>3, <1>4, <2>1, <2>2, <2>3, <2>4, SealInvFromParts DEF Prepare, LaneSound, netVars
<1>5. CASE LinkCompletion
  <2>1. /\ lane.cur = lane.target /\ lane.cur \in Intents /\ lane.task = "complete"
        /\ status[lane.cur] # "NONE" /\ LeaseOf[lane.cur] \in Leases
    BY <1>1, <1>5 DEF SealInv, LinkCompletion, CompletionSound, LaneTypeOK, Leased
  <2>2. /\ completion' = [completion EXCEPT ![LeaseOf[lane.cur]] = lane.cur]
        /\ completion[LeaseOf[lane.cur]] \in {NoIntent, lane.cur}
        /\ issue' = [issue EXCEPT ![LeaseOf[lane.cur]] = "LOCAL_COMPLETED"]
        /\ issue[LeaseOf[lane.cur]] # "ACKED"
        /\ UNCHANGED leaseReceipts
        /\ completion \in [Leases -> Intents \cup {NoIntent}] /\ issue \in [Leases -> IssueStatus]
    BY <1>5 DEF LinkCompletion, RecordLocalCompletion, CanRecordLocalCompletion, SealInv,
       LeaseInv, LeaseTypeOK
  <2>3. StoreSound'
    BY <1>1, <1>5, <2>1, <2>2 DEF LinkCompletion, SealInv, StoreSound, CheckpointSound, Linked,
       Leased, CommandAfterEvidence, OnePayloadPerKey, AckedIsProved, storeVars, netVars
  <2>4. LaneTypeOK'
    BY <1>1, <1>5 DEF LinkCompletion, LaneTypeOK, Tasks, Steps
  <2>5. CompletionSound' /\ QueueSound' /\ AttemptSound'
    BY <1>1, <1>5, <2>1, <2>2 DEF LinkCompletion, SealInv, CompletionSound, QueueSound,
       AttemptSound, Attempting, Commanded, Linked, Leased, LaneTypeOK, storeVars, netVars
  <2>6. QED
    BY <1>1, <1>3, <1>5, <2>3, <2>4, <2>5, SealInvFromParts
       DEF LinkCompletion, LaneSound, storeVars, netVars
<1>6. CASE LinkRefused \/ FinishCompletion
  BY <1>1, <1>3, <1>6, IdleSound, LaneStep DEF LinkRefused, FinishCompletion
<1>7. CASE PersistContract
  <2>1. LaneTypeOK'
    BY <1>1, <1>7 DEF PersistContract, LaneTypeOK, Tasks, Steps
  <2>2. CompletionSound' /\ QueueSound' /\ AttemptSound'
    BY <1>1, <1>7 DEF PersistContract, SealInv, CompletionSound, QueueSound, AttemptSound,
       Attempting, Commanded, Linked, LaneTypeOK, storeVars, netVars, leaseVars, leaseDb
  <2>3. QED
    BY <1>1, <1>3, <1>7, <2>1, <2>2, LaneStep DEF PersistContract, LaneSound
<1>8. CASE ConfirmCheckpoint
  <2>1. /\ lane.cur = lane.target /\ lane.cur \in Intents /\ status[lane.cur] # "NONE"
        /\ Linked(lane.cur)
    BY <1>1, <1>8 DEF SealInv, ConfirmCheckpoint, CompletionSound, LaneTypeOK
  <2>2. StoreSound'
    BY <1>1, <1>8, <2>1 DEF ConfirmCheckpoint, SealInv, StoreSound, CheckpointSound, Linked,
       CommandAfterEvidence, OnePayloadPerKey, AckedIsProved, netVars, leaseVars, leaseDb
  <2>3. CASE status[lane.target] \in Pending
    <3> DEFINE q == {j \in PendingIds \cup {lane.target} :
                       j = lane.target \/ <<j, lane.target>> \in older}
    <3>1. q \in SUBSET Intents /\ \A j \in q : j \in checkpoint' /\ status'[j] \in Pending
      BY <1>1, <1>8, <2>1, <2>3 DEF ConfirmCheckpoint, PendingIds
    <3>2. Proceed(q)
      BY <1>8, <2>3 DEF ConfirmCheckpoint
    <3> HIDE DEF q
    <3>3. LaneSound'
      BY <1>8, <3>1, <3>2, ProceedSound DEF ConfirmCheckpoint
    <3>4. QED
      BY <1>1, <1>3, <1>8, <2>1, <2>2, <3>3, SealInvFromParts DEF ConfirmCheckpoint, netVars
  <2>4. CASE status[lane.target] \notin Pending
    <3>1. LaneSound'
      <4>1. lane' = Finished /\ {} \in SUBSET Intents
        BY <1>8, <2>4 DEF ConfirmCheckpoint
      <4>2. QED
        BY <1>8, <4>1, ProceedSound DEF ConfirmCheckpoint
    <3>2. QED
      BY <1>1, <1>3, <1>8, <2>1, <2>2, <3>1, SealInvFromParts DEF ConfirmCheckpoint, netVars
  <2>5. QED
    BY <2>3, <2>4
<1>9. ASSUME NEW p \in Payloads, BindCommand(p) PROVE SealInv'
  <2>1. /\ lane.cur \in Intents /\ status[lane.cur] \in Pending /\ lane.cur \in checkpoint
        /\ command[lane.cur] = NoPayload
    BY <1>1, <1>9 DEF SealInv, BindCommand, AttemptSound, LaneTypeOK
  <2>2. /\ command' = [command EXCEPT ![lane.cur] = p]
        /\ status' = [status EXCEPT ![lane.cur] = "COMMAND_READY"]
    BY <1>9 DEF BindCommand
  <2>3. StoreSound'
    <3>1. CheckpointSound' /\ CommandAfterEvidence'
      BY <1>1, <1>9, <2>1, <2>2 DEF BindCommand, SealInv, CheckpointSound, Linked,
         CommandAfterEvidence, leaseVars, leaseDb
    <3>2. OnePayloadPerKey'
      BY <1>1, <1>9, <2>1, <2>2 DEF BindCommand, SealInv, OnePayloadPerKey, netVars
    <3>3. AckedIsProved'
      BY <1>1, <1>9, <2>1, <2>2 DEF BindCommand, SealInv, AckedIsProved, Pending, netVars,
         leaseVars, leaseDb
    <3>4. QED
      BY <3>1, <3>2, <3>3 DEF StoreSound
  <2>4. LaneTypeOK'
    BY <1>1, <1>9 DEF BindCommand, LaneTypeOK, Tasks, Steps
  <2>5. CompletionSound' /\ QueueSound' /\ AttemptSound'
    BY <1>1, <1>9, <2>1, <2>2 DEF BindCommand, SealInv, CompletionSound, QueueSound,
       AttemptSound, Attempting, Commanded, LaneTypeOK, Pending
  <2>6. QED
    BY <1>1, <1>3, <1>9, <2>2, <2>3, <2>4, <2>5, SealInvFromParts
       DEF BindCommand, LaneSound, netVars, Pending
<1>10. ASSUME NEW c \in Classes, BuildFails(c) \/ AnswerError(c) PROVE SealInv'
  BY <1>1, <1>10, RecordErrorSound DEF BuildFails, AnswerError, Attempting, Commanded
<1>11. ASSUME NEW c \in Classes, ReceiptMissing(c) PROVE SealInv'
  <2>1. CASE lane' = NoLane /\ UNCHANGED storeVars
    BY <1>1, <1>3, <1>11, <2>1, IdleSound, LaneStep DEF ReceiptMissing
  <2>2. CASE RecordError(c) /\ lane.step \in {"query", "queryCommitted"}
    BY <1>1, <1>11, <2>2, RecordErrorSound DEF ReceiptMissing, Attempting, Commanded
  <2>3. QED
    BY <1>11, <2>1, <2>2 DEF ReceiptMissing
<1>12. CASE PostSeal
  <2>1. lane.cur \in Intents
    BY <1>1, <1>12 DEF PostSeal, LaneTypeOK
  <2>2. reviewPosts' \in [Intents -> Nat] /\ ResendIsAudited'
    BY <1>1, <1>12, <2>1 DEF PostSeal, SealInv, AttemptSound, ResendIsAudited
  <2>3. LaneTypeOK'
    BY <1>1, <1>12 DEF PostSeal, LaneTypeOK, Tasks, Steps
  <2>4. CompletionSound' /\ QueueSound' /\ AttemptSound'
    BY <1>1, <1>12 DEF PostSeal, SealInv, CompletionSound, QueueSound, AttemptSound,
       Attempting, Commanded, LaneTypeOK, storeVars
  <2>5. QED
    BY <1>1, <1>12, <2>2, <2>3, <2>4, LaneStep DEF PostSeal, LaneSound
<1>13. CASE AnswerReceipt \/ ReceiptFound
  <2>1. LaneTypeOK'
    BY <1>1, <1>13 DEF AnswerReceipt, ReceiptFound, GotReceipt, LaneTypeOK, Tasks, Steps
  <2>2. CompletionSound' /\ QueueSound' /\ AttemptSound'
    BY <1>1, <1>13 DEF AnswerReceipt, ReceiptFound, GotReceipt, SealInv, CompletionSound,
       QueueSound, AttemptSound, Attempting, Commanded, LaneTypeOK, storeVars, netVars
  <2>3. QED
    BY <1>1, <1>3, <1>13, <2>1, <2>2, LaneStep DEF AnswerReceipt, ReceiptFound, LaneSound
<1>14. CASE AnswerCommitted
  <2>1. LaneTypeOK'
    BY <1>1, <1>14 DEF AnswerCommitted, LaneTypeOK, Tasks, Steps
  <2>2. CompletionSound' /\ QueueSound' /\ AttemptSound'
    BY <1>1, <1>14 DEF AnswerCommitted, SealInv, CompletionSound,
       QueueSound, AttemptSound, Attempting, Commanded, LaneTypeOK, storeVars
  <2>3. QED
    BY <1>1, <1>3, <1>14, <2>1, <2>2, LaneStep DEF AnswerCommitted, LaneSound
<1>15. ASSUME late' \in {late, late \cup {<<lane.cur, command[lane.cur]>>}},
              lane.step = "wait", UNCHANGED command
       PROVE  /\ late' \subseteq Intents \X Payloads
              /\ \A i \in Intents, p \in Payloads : <<i, p>> \in late' => p = command[i]
  <2>1. lane.cur \in Intents /\ command[lane.cur] \in Payloads
    BY <1>1, <1>15 DEF SealInv, AttemptSound, Commanded, LaneTypeOK
  <2>2. QED
    BY <1>1, <1>15, <2>1 DEF SealInv, OnePayloadPerKey
<1>16. CASE PostTimeout
  <2>1. StoreSound'
    BY <1>15, <1>16 DEF PostTimeout, SealInv, StoreSound, CheckpointSound, Linked,
       CommandAfterEvidence, OnePayloadPerKey, AckedIsProved, storeVars, leaseVars, leaseDb
  <2>2. LaneTypeOK'
    BY <1>1, <1>16 DEF PostTimeout, LaneTypeOK, Tasks, Steps
  <2>3. CompletionSound' /\ QueueSound' /\ AttemptSound'
    BY <1>1, <1>16 DEF PostTimeout, SealInv, CompletionSound,
       QueueSound, AttemptSound, Attempting, Commanded, LaneTypeOK, storeVars
  <2>4. QED
    BY <1>1, <1>3, <1>15, <1>16, <2>1, <2>2, <2>3, SealInvFromParts
       DEF PostTimeout, LaneSound, storeVars
<1>17. CASE AckLease
  <2>1. lane.cur \in Intents /\ LeaseOf[lane.cur] \in Leases
    BY <1>1, <1>17 DEF AckLease, SealInv, AttemptSound, Leased, LaneTypeOK
  <2>2. /\ leaseReceipts' = leaseReceipts \cup {LeaseOf[lane.cur]}
        /\ issue' = [issue EXCEPT ![LeaseOf[lane.cur]] = "ACKED"]
        /\ issue \in [Leases -> IssueStatus]
        /\ UNCHANGED <<completion, storeVars, netVars>>
    BY <1>17 DEF AckLease, RecordLeaseReceipt, SealInv, LeaseInv, LeaseTypeOK
  <2>3. StoreSound'
    BY <1>1, <2>1, <2>2 DEF SealInv, StoreSound, CheckpointSound, Linked, Leased,
       CommandAfterEvidence, OnePayloadPerKey, AckedIsProved, storeVars, netVars
  <2>4. LaneTypeOK'
    BY <1>1, <1>17 DEF AckLease, LaneTypeOK, Tasks, Steps
  <2>5. CompletionSound' /\ QueueSound' /\ AttemptSound'
    BY <1>1, <1>17, <2>1, <2>2 DEF AckLease, SealInv, CompletionSound,
       QueueSound, AttemptSound, Attempting, Commanded, LaneTypeOK, storeVars, netVars
  <2>6. QED
    BY <1>1, <1>3, <1>17, <2>3, <2>4, <2>5, SealInvFromParts
       DEF AckLease, LaneSound, storeVars, netVars
<1>18. CASE AckLeaseFails
  <2>1. faults' \in Nat
    BY <1>1, <1>2, <1>18 DEF AckLeaseFails
  <2>2. CASE lane' = NoLane /\ UNCHANGED storeVars
    BY <1>1, <1>3, <1>18, <2>1, <2>2, IdleSound, LaneStep DEF AckLeaseFails
  <2>3. CASE RecordError("review")
    BY <1>18, <2>1, <2>3, RecordErrorSound DEF AckLeaseFails, Attempting, Commanded
  <2>4. QED
    BY <1>18, <2>2, <2>3 DEF AckLeaseFails
<1>19. CASE RecordReceipt \/ AttemptFails
  <2>1. /\ lane.cur \in Intents /\ lane.cur \in checkpoint
        /\ status[lane.cur] \in Pending \cup {"OPERATOR_REVIEW"}
        /\ UNCHANGED <<leaseVars, older, checkpoint, command, reviewCases, netVars, startup,
                       audits, reviewPosts>>
        /\ faults' \in Nat
    BY <1>1, <1>2, <1>19 DEF RecordReceipt, AttemptFails, SealInv, AttemptSound, Attempting,
       Commanded, LaneTypeOK
  <2>2. /\ status' \in [Intents -> {"NONE"} \cup Pending \cup Settled]
        /\ \A j \in Intents : j # lane.cur => status'[j] = status[j]
        /\ status'[lane.cur] # "NONE"
        /\ status'[lane.cur] = "ACKED" => lane.step = "ack"
    BY <1>1, <1>19, <2>1 DEF RecordReceipt, AttemptFails, Pending, Settled
  <2>3. StoreSound'
    <3>1. CheckpointSound' /\ CommandAfterEvidence' /\ OnePayloadPerKey'
      BY <1>1, <2>1, <2>2 DEF SealInv, CheckpointSound, Linked, CommandAfterEvidence,
         OnePayloadPerKey, netVars, leaseVars, leaseDb
    <3>2. AckedIsProved'
      BY <1>1, <2>1, <2>2 DEF SealInv, AckedIsProved, AttemptSound, Commanded, netVars,
         leaseVars, leaseDb
    <3>3. QED
      BY <3>1, <3>2 DEF StoreSound
  <2>4. LaneSound'
    <3>1. \A j \in lane.queue : j \in checkpoint' /\ status'[j] \in Pending
      BY <1>1, <2>1, <2>2 DEF SealInv, QueueSound, LaneTypeOK
    <3>2. Proceed(lane.queue) /\ lane.queue \in SUBSET Intents
      BY <1>1, <1>19 DEF RecordReceipt, AttemptFails, LaneTypeOK
    <3>3. QED
      BY <2>1, <2>2, <3>1, <3>2, ProceedSound
  <2>5. QED
    BY <1>1, <1>3, <2>1, <2>2, <2>3, <2>4, SealInvFromParts DEF netVars
<1>20. CASE ReviewLease
  <2>1. /\ lane.cur \in Intents /\ LeaseOf[lane.cur] \in Leases
        /\ UNCHANGED <<storeVars, netVars, startup, audits, reviewPosts, faults>>
    BY <1>1, <1>20 DEF ReviewLease, SealInv, AttemptSound, Leased, LaneTypeOK
  <2>2. /\ UNCHANGED <<completion, leaseReceipts>>
        /\ \A l \in Leases : issue[l] = "ACKED" => issue'[l] = "ACKED"
    BY <1>20, <2>1 DEF ReviewLease, RecordLeaseReview, CanRecordLeaseReview, SealInv, LeaseInv,
       LeaseTypeOK, leaseVars, leaseDb
  <2>3. StoreSound'
    BY <1>1, <2>1, <2>2 DEF SealInv, StoreSound, CheckpointSound, Linked, Leased,
       CommandAfterEvidence, OnePayloadPerKey, AckedIsProved, storeVars, netVars
  <2>4. LaneSound'
    <3>1. \A j \in lane.queue : j \in checkpoint' /\ status'[j] \in Pending
      BY <1>1, <2>1 DEF SealInv, QueueSound, LaneTypeOK, storeVars
    <3>2. Proceed(lane.queue) /\ lane.queue \in SUBSET Intents
      BY <1>1, <1>20 DEF ReviewLease, LaneTypeOK
    <3>3. QED
      BY <2>1, <3>1, <3>2, ProceedSound DEF storeVars
  <2>5. QED
    BY <1>1, <1>3, <2>1, <2>3, <2>4, SealInvFromParts DEF storeVars, netVars
<1>21. CASE StartDrain
  <2>1. CASE UNCHANGED lane
    <3>1. LaneSound'
      BY <1>1, <1>21, <2>1 DEF StartDrain, SealInv, LaneSound, LaneTypeOK, CompletionSound,
         QueueSound, AttemptSound, Linked, storeVars, netVars, leaseVars, leaseDb
    <3>2. QED
      BY <1>1, <1>3, <1>21, <3>1, LaneStep DEF StartDrain
  <2>2. ASSUME NEW c \in PendingIds,
               lane' = [task |-> "drain", cur |-> c, target |-> NoIntent,
                        queue |-> PendingIds \ {c},
                        step |-> IF command[c] = NoPayload THEN "bind" ELSE "send"]
        PROVE  SealInv'
    <3>1. LaneTypeOK'
      BY <1>1, <2>2 DEF LaneTypeOK, Tasks, Steps, PendingIds
    <3>2. CompletionSound' /\ QueueSound' /\ AttemptSound'
      BY <1>1, <1>21, <2>2 DEF StartDrain, CompletionSound, QueueSound, AttemptSound, Attempting,
         Commanded, PendingIds, Pending, storeVars
    <3>3. QED
      BY <1>1, <1>3, <1>21, <3>1, <3>2, LaneStep DEF StartDrain, LaneSound
  <2>3. QED
    BY <1>21, <2>1, <2>2 DEF StartDrain
<1>22. ASSUME NEW i \in Intents, StartRetry(i) \/ StartRecheck(i) PROVE SealInv'
  <2>1. audits' \in [Intents -> Nat] /\ UNCHANGED reviewPosts /\ ResendIsAudited'
    BY <1>1, <1>22 DEF StartRetry, StartRecheck, ResendIsAudited
  <2>2. LaneTypeOK'
    BY <1>1, <1>22 DEF StartRetry, StartRecheck, LaneTypeOK, Tasks, Steps
  <2>3. CompletionSound' /\ QueueSound'
    BY <1>1, <1>22 DEF StartRetry, StartRecheck, CompletionSound, QueueSound
  <2>4. AttemptSound'
    BY <1>1, <1>22, <2>1 DEF StartRetry, StartRecheck, SealInv, CommandAfterEvidence,
       ResendIsAudited, AttemptSound, Attempting, Commanded, storeVars
  <2>5. QED
    BY <1>1, <1>22, <2>1, <2>2, <2>3, <2>4, LaneStep DEF StartRetry, StartRecheck, LaneSound
<1>23. CASE LaneFails
  BY <1>1, <1>2, <1>3, <1>23, IdleSound, LaneStep DEF LaneFails
<1>24. CASE Crash
  <2>1. /\ late' \subseteq Intents \X Payloads
        /\ \A i \in Intents, p \in Payloads : <<i, p>> \in late' => p = command[i]
    BY <1>1, <1>15, <1>24 DEF Crash, Orphaned, storeVars, SealInv, OnePayloadPerKey
  <2>2. StoreSound'
    BY <1>24, <2>1 DEF Crash, SealInv, StoreSound, CheckpointSound, Linked,
       CommandAfterEvidence, OnePayloadPerKey, AckedIsProved, storeVars, leaseDb
  <2>3. QED
    BY <1>1, <1>2, <1>3, <1>24, <2>1, <2>2, IdleSound, SealInvFromParts DEF Crash, storeVars
<1>25. CASE Restart
  <2>1. StoreSound'
    BY <1>25 DEF Restart, SealInv, StoreSound, CheckpointSound, Linked,
       CommandAfterEvidence, OnePayloadPerKey, AckedIsProved, storeVars, netVars, leaseDb
  <2>2. LaneSound'
    BY <1>1, <1>25 DEF Restart, SealInv, LaneSound, LaneTypeOK, CompletionSound,
       QueueSound, AttemptSound, Linked, storeVars, netVars, leaseDb
  <2>3. QED
    BY <1>1, <1>3, <1>25, <2>1, <2>2, SealInvFromParts DEF Restart, storeVars, netVars
<1>26. CASE LeaseSide
  <2>1. [LeaseHistoryStep]_leaseVars
    BY SealStepIsLeaseStep, HistoryStepHolds DEF SealInv
  <2>2. /\ UNCHANGED leaseReceipts
        /\ lane.step # "idle" => UNCHANGED exchange
    BY <1>26 DEF LeaseSide, PreflightNext, RotationNext, CentralNext, StartPreflight,
       RetryReleased, IssueReply, PreflightFails, SavePrefetched, RecordAuthenticatedNonactive,
       BeginExchange, EndExchange, CentralRotate, RecordRotation, CentralIssue, Expire,
       CentralReview, leaseDb
  <2>3. \A l \in Leases : /\ issue[l] = "ACKED" => issue'[l] = "ACKED"
                          /\ completion[l] # NoIntent => completion'[l] = completion[l]
    BY <2>1 DEF LeaseHistoryStep, TerminalIssue, leaseVars, leaseDb
  <2>4. UNCHANGED <<status, older, checkpoint, command, reviewCases, sealed, late, lane,
                    startup, audits, reviewPosts, faults>>
    BY <1>26 DEF LeaseSide, sealOnly, storeVars, netVars
  <2>5. \A i \in Intents : Linked(i) => Linked(i)'
    BY <2>3 DEF Linked, Leased
  <2>6. StoreSound'
    BY <1>1, <2>2, <2>3, <2>4, <2>5 DEF SealInv, StoreSound, CheckpointSound, Linked, Leased,
       CommandAfterEvidence, OnePayloadPerKey, AckedIsProved
  <2>7. LaneSound'
    BY <1>1, <2>2, <2>3, <2>4, <2>5 DEF SealInv, LaneSound, LaneTypeOK, CompletionSound,
       QueueSound, AttemptSound, Leased
  <2>8. QED
    BY <1>1, <1>3, <2>4, <2>6, <2>7, SealInvFromParts
<1>27. ASSUME NEW i \in Intents, NEW p \in Payloads, ServerSeal(i, p) PROVE SealInv'
  <2>1. command[i] = p /\ sealed[i] = NoPayload /\ p # NoPayload
    BY <1>27 DEF ServerSeal, SealInv, OnePayloadPerKey
  <2>2. /\ sealed' = [sealed EXCEPT ![i] = p] /\ late' \subseteq late
        /\ UNCHANGED <<status, older, checkpoint, command, reviewCases, lane,
                       startup, audits, reviewPosts, faults>>
        /\ UNCHANGED <<issue, completion, leaseReceipts, exchange>>
    BY <1>27 DEF ServerSeal, storeVars, leaseDb
  <2>3. StoreSound'
    BY <1>1, <2>1, <2>2 DEF SealInv, StoreSound, CheckpointSound, Linked,
       CommandAfterEvidence, OnePayloadPerKey, AckedIsProved
  <2>4. LaneSound'
    BY <1>1, <2>1, <2>2 DEF SealInv, LaneSound, LaneTypeOK, CompletionSound,
       QueueSound, AttemptSound, Linked, Commanded
  <2>5. QED
    BY <1>1, <1>3, <2>1, <2>2, <2>3, <2>4, SealInvFromParts
<1>28. QED
  BY <1>4, <1>5, <1>6, <1>7, <1>8, <1>9, <1>10, <1>11, <1>12, <1>13, <1>14, <1>16, <1>17,
     <1>18, <1>19, <1>20, <1>21, <1>22, <1>23, <1>24, <1>25, <1>26, <1>27
     DEF SealNext, CompletionNext, AttemptNext, TaskNext, ServerSide

(* ... and it holds of the empty store.                                    *)
LEMMA SealInvInit == SealInit => SealInv
<1> SUFFICES ASSUME SealInit PROVE SealInv
  OBVIOUS
<1>1. LeaseInv
  BY LeaseInvInit DEF SealInit
<1>2. SealTypeOK
  BY <1>1, LeaseConstants, SealConstants DEF SealInit, SealTypeOK, LeaseInv, NoLane, Tasks, Steps
<1>3. CheckpointSound /\ CompletionSound /\ QueueSound /\ AttemptSound
  BY DEF SealInit, NoLane, CheckpointSound, CompletionSound, QueueSound, AttemptSound,
         Attempting, Commanded
<1>4. CommandAfterEvidence /\ OnePayloadPerKey /\ AckedIsProved /\ ResendIsAudited
  BY DEF SealInit, CommandAfterEvidence, OnePayloadPerKey, AckedIsProved, ResendIsAudited
<1>5. QED
  BY <1>1, <1>2, <1>3, <1>4 DEF SealInv

(* SealInv is an invariant of the seal composed with the lease store.      *)
THEOREM SealInvariant == SealSpec => []SealInv
  BY SealInvInit, SealInvStep, PTL DEF SealSpec

(* Type correctness of the transfer store, the lane and the lease store.   *)
THEOREM SealTypeCorrect == SealSpec => []SealTypeOK
  BY SealInvariant, PTL DEF SealInv

(* The composed system uses the lease store only as LeaseSpec allows, so   *)
(* every theorem about LeaseSpec holds of it.                              *)
THEOREM SealUsesLeases == SealSpec => LeaseSpec
<1>1. SealInit => LeaseInit
  BY DEF SealInit
<1>2. QED
  BY <1>1, SealInvariant, SealStepIsLeaseStep, PTL DEF SealSpec, LeaseSpec

(* No command is bound before the completion contract is durable and,      *)
(* under a lease, this intent's completion is.                             *)
THEOREM EvidenceFirst == SealSpec => []CommandAfterEvidence
  BY SealInvariant, PTL DEF SealInv

(* Whatever is resent, late or sealed under a key is the bound command.    *)
THEOREM OnePayload == SealSpec => []OnePayloadPerKey
  BY SealInvariant, PTL DEF SealInv

(* Two intents over one lease never both get a command.                    *)
THEOREM OneCommand == SealSpec => []OneCommandPerLease
<1>1. SealInv => OneCommandPerLease
  BY DEF SealInv, CommandAfterEvidence, OneCommandPerLease, Leased
<1>2. QED
  BY <1>1, SealInvariant, PTL

(* ACKED is reported only after the server sealed the command and the      *)
(* lease database holds the receipt.                                       *)
THEOREM AckedProved == SealSpec => []AckedIsProved
  BY SealInvariant, PTL DEF SealInv

(* A reviewed intent is resent at most once per durable audit record.      *)
THEOREM ResendAudited == SealSpec => []ResendIsAudited
  BY SealInvariant, PTL DEF SealInv

-----------------------------------------------------------------------------
(* Outcomes and the contract.                                              *)

(* The report of an intent, as the refinement mapping computes it.         *)
ReportOf(st) == IF st = "ACKED" THEN "acked" ELSE IF st = "OPERATOR_REVIEW" THEN "review" ELSE "open"

ContractStep == [Contract!ContractNext]_(Contract!contractVars)

(* A step that accepts, seals and reports nothing.                         *)
LEMMA QuietStep ==
  ASSUME UNCHANGED <<checkpoint, sealed>>,
         \A i \in Intents : ReportOf(status'[i]) = ReportOf(status[i])
  PROVE  ContractStep
  BY DEF ContractStep, Contract!contractVars, ReportOf

(* record_error reports a review, once, or nothing.                        *)
LEMMA RecordErrorOutcome ==
  ASSUME SealInv, NEW class, RecordError(class), lane.step \in Attempting \ {"review"},
         UNCHANGED sealed
  PROVE  OutcomeStep /\ ContractStep
<1>1. /\ lane.cur \in checkpoint /\ checkpoint \subseteq Intents
      /\ status[lane.cur] \in Pending \cup {"OPERATOR_REVIEW"}
      /\ status \in [Intents -> {"NONE"} \cup Pending \cup Settled]
      /\ UNCHANGED <<checkpoint, command>>
  BY DEF SealInv, SealTypeOK, AttemptSound, RecordError
<1>2. PICK st \in {"OPERATOR_REVIEW", "RETRY_WAIT"} :
        /\ status' = [status EXCEPT ![lane.cur] = st]
        /\ status[lane.cur] = "OPERATOR_REVIEW" => st = "OPERATOR_REVIEW"
  BY DEF RecordError
<1>3. OutcomeStep
  BY <1>1, <1>2 DEF OutcomeStep, Pending, Settled
<1>4. CASE st = "RETRY_WAIT" \/ status[lane.cur] = "OPERATOR_REVIEW"
  <2>1. \A i \in Intents : ReportOf(status'[i]) = ReportOf(status[i])
    BY <1>1, <1>2, <1>4 DEF ReportOf, Pending
  <2>2. QED
    BY <1>1, <1>3, <2>1, QuietStep
<1>5. CASE st = "OPERATOR_REVIEW" /\ status[lane.cur] # "OPERATOR_REVIEW"
  <2>1. PICK i \in Intents : i = lane.cur
    BY <1>1
  <2>2. Contract!Review(i)
    BY <1>1, <1>2, <1>5, <2>1 DEF Contract!Review, Pending
  <2>3. QED
    BY <1>3, <2>2 DEF ContractStep, Contract!ContractNext
<1>6. QED
  BY <1>2, <1>4, <1>5

(* Every step keeps what was bound and settled, and is a contract step.    *)
LEMMA SealStepOutcome ==
  SealInv /\ [SealNext]_sealVars => [OutcomeStep]_sealVars /\ ContractStep
<1>1. ASSUME SealInv, UNCHANGED <<status, command, checkpoint, sealed>>
      PROVE  OutcomeStep /\ ContractStep
  BY <1>1, QuietStep DEF OutcomeStep, Settled
<1>2. SealInv /\ UNCHANGED sealVars => ContractStep
  BY <1>1 DEF sealVars, sealOnly, storeVars, netVars
<1> SUFFICES ASSUME SealInv, SealNext PROVE OutcomeStep /\ ContractStep
  BY <1>2
<1> USE LeaseConstants, SealConstants
<1>3. /\ status \in [Intents -> {"NONE"} \cup Pending \cup Settled]
      /\ command \in [Intents -> Payloads \cup {NoPayload}]
      /\ sealed \in [Intents -> Payloads \cup {NoPayload}]
      /\ checkpoint \subseteq Intents /\ lane.cur \in Intents \cup {NoIntent}
  BY DEF SealInv, SealTypeOK
<1>4. ASSUME NEW i \in Intents, Prepare(i) PROVE OutcomeStep /\ ContractStep
  <2>1. \A j \in Intents : ReportOf(status'[j]) = ReportOf(status[j])
    BY <1>3, <1>4 DEF Prepare, ReportOf
  <2>2. QED
    BY <1>3, <1>4, <2>1, QuietStep DEF Prepare, OutcomeStep, Settled, netVars
<1>5. CASE ConfirmCheckpoint
  <2>1. /\ UNCHANGED <<status, command, sealed>>
        /\ checkpoint' = checkpoint \cup {lane.target} /\ lane.target \in Intents
    BY <1>5 DEF ConfirmCheckpoint, netVars, SealInv, CompletionSound
  <2>2. CASE lane.target \in checkpoint
    BY <1>1, <2>1, <2>2
  <2>3. CASE lane.target \notin checkpoint
    <3>1. Contract!Accept(lane.target)
      BY <2>1, <2>3 DEF Contract!Accept
    <3>2. QED
      BY <2>1, <3>1 DEF ContractStep, Contract!ContractNext, OutcomeStep, Settled
  <2>4. QED
    BY <2>2, <2>3
<1>6. ASSUME NEW p \in Payloads, BindCommand(p) PROVE OutcomeStep /\ ContractStep
  <2>1. /\ lane.cur \in Intents /\ status[lane.cur] \in Pending
        /\ command[lane.cur] = NoPayload
    BY <1>3, <1>6 DEF BindCommand, SealInv, AttemptSound
  <2>2. \A j \in Intents : ReportOf(status'[j]) = ReportOf(status[j])
    BY <1>3, <1>6, <2>1 DEF BindCommand, ReportOf, Pending
  <2>3. OutcomeStep
    BY <1>3, <1>6, <2>1 DEF BindCommand, OutcomeStep, Settled, Pending
  <2>4. QED
    BY <1>6, <2>2, <2>3, QuietStep DEF BindCommand, netVars
<1>7. ASSUME NEW c \in Classes, BuildFails(c) \/ AnswerError(c) \/ ReceiptMissing(c)
      PROVE  OutcomeStep /\ ContractStep
  <2>1. CASE RecordError(c) /\ lane.step \in {"bind", "wait", "query", "queryCommitted"}
    BY <1>7, <2>1, RecordErrorOutcome
       DEF BuildFails, AnswerError, ReceiptMissing, Attempting, Commanded, netVars
  <2>2. CASE UNCHANGED storeVars
    BY <1>1, <1>7, <2>2 DEF BuildFails, AnswerError, ReceiptMissing, storeVars, netVars
  <2>3. QED
    BY <1>7, <2>1, <2>2 DEF BuildFails, AnswerError, ReceiptMissing
<1>8. CASE AckLeaseFails
  <2>1. CASE RecordError("review")
    BY <1>8, <2>1, RecordErrorOutcome DEF AckLeaseFails, Attempting, Commanded, netVars
  <2>2. CASE UNCHANGED storeVars
    BY <1>1, <1>8, <2>2 DEF AckLeaseFails, storeVars, netVars
  <2>3. QED
    BY <1>8, <2>1, <2>2 DEF AckLeaseFails
<1>9. CASE RecordReceipt
  <2>1. /\ lane.cur \in Intents /\ sealed[lane.cur] # NoPayload
        /\ status[lane.cur] \in Pending \cup {"OPERATOR_REVIEW"}
        /\ status' = [status EXCEPT ![lane.cur] = "ACKED"]
        /\ UNCHANGED <<command, checkpoint, sealed>>
    BY <1>3, <1>9 DEF RecordReceipt, SealInv, AttemptSound, Attempting, Commanded, netVars
  <2>2. OutcomeStep
    BY <1>3, <2>1 DEF OutcomeStep, Settled
  <2>3. PICK i \in Intents : i = lane.cur
    BY <2>1
  <2>4. Contract!Ack(i)
    BY <1>3, <2>1, <2>3 DEF Contract!Ack, Pending
  <2>5. QED
    BY <2>2, <2>4 DEF ContractStep, Contract!ContractNext
<1>10. CASE AttemptFails
  <2>1. /\ lane.cur \in Intents /\ status[lane.cur] \in Pending \cup {"OPERATOR_REVIEW"}
        /\ UNCHANGED <<command, checkpoint, sealed>>
    BY <1>3, <1>10 DEF AttemptFails, SealInv, AttemptSound, Attempting, Commanded, netVars
  <2>2. OutcomeStep /\ \A j \in Intents : ReportOf(status'[j]) = ReportOf(status[j])
    BY <1>3, <1>10, <2>1 DEF AttemptFails, OutcomeStep, ReportOf, Settled, Pending
  <2>3. QED
    BY <2>1, <2>2, QuietStep
<1>11. ASSUME NEW i \in Intents, NEW p \in Payloads, ServerSeal(i, p)
       PROVE  OutcomeStep /\ ContractStep
  <2>1. /\ i \in checkpoint /\ sealed[i] = NoPayload /\ sealed' = [sealed EXCEPT ![i] = p]
        /\ UNCHANGED <<status, command, checkpoint>>
    BY <1>11 DEF ServerSeal, SealInv, OnePayloadPerKey, CommandAfterEvidence, storeVars
  <2>2. Contract!Seal(i)
    BY <1>3, <2>1 DEF Contract!Seal
  <2>3. QED
    BY <2>1, <2>2 DEF ContractStep, Contract!ContractNext, OutcomeStep, Settled
<1>12. QED
  BY <1>1, <1>4, <1>5, <1>6, <1>7, <1>8, <1>9, <1>10, <1>11
     DEF SealNext, CompletionNext, AttemptNext, TaskNext, LeaseSide, ServerSide, sealOnly,
         storeVars, netVars, LinkCompletion, LinkRefused, PersistContract, FinishCompletion,
         PostSeal, AnswerReceipt, AnswerCommitted, PostTimeout, ReceiptFound, AckLease,
         ReviewLease, StartDrain, StartRetry, StartRecheck, LaneFails, Crash, Restart

(* Nothing undoes a bound command or an ACK, and a review ends only in an  *)
(* ACK.                                                                    *)
THEOREM OutcomesKept == SealSpec => OutcomeKept
  BY SealInvariant, SealStepOutcome, PTL DEF SealSpec, OutcomeKept

(* The seal, with its two databases, lost answers and restarts, implements *)
(* SealContract.                                                           *)
THEOREM SealImplementsContract == SealSpec => ImplementsContract
<1>1. SealInit => Contract!ContractInit
  BY DEF SealInit, Contract!ContractInit
<1>2. QED
  BY <1>1, SealInvariant, SealStepOutcome, PTL
     DEF SealSpec, ImplementsContract, Contract!ContractSpec, ContractStep

-----------------------------------------------------------------------------
(* First in, first out.                                                    *)

(* created_at, rowid orders the rows that exist.                           *)
RowOrder ==
  /\ \A i, j \in Intents : <<j, i>> \in older => status[i] # "NONE" /\ status[j] # "NONE"
  /\ \A i, j, k \in Intents : <<i, j>> \in older /\ <<j, k>> \in older => <<i, k>> \in older

(* The intents a task has under way or still ahead of it.                  *)
Ahead == lane.queue \cup (IF lane.step \in Attempting THEN {lane.cur} ELSE {})

(* Whatever waits for its first attempt and is older than an intent the    *)
(* task has ahead is ahead too, and a command is bound for the oldest.     *)
OldestFirst ==
  /\ \A c \in lane.queue \cup (IF lane.step = "bind" THEN {lane.cur} ELSE {}) :
       \A j \in checkpoint : status[j] = "PREPARED" /\ <<j, c>> \in older => j \in Ahead
  /\ lane.step = "bind" => \A j \in Ahead : <<j, lane.cur>> \notin older
  /\ lane.step = "review" => status[lane.cur] # "PREPARED"

FifoInv == RowOrder /\ OldestFirst

(* A task that takes the oldest of q next is in order, if nothing older    *)
(* than an intent of q is outside q.                                       *)
LEMMA ProceedInOrder ==
  ASSUME SealInv, NEW q \in SUBSET Intents, Proceed(q) \/ (q = {} /\ lane' = Finished),
         UNCHANGED older,
         \A c \in q : \A j \in checkpoint' :
           status'[j] = "PREPARED" /\ <<j, c>> \in older => j \in q
  PROVE  OldestFirst'
<1>1. LaneTypeOK
  BY DEF SealInv, SealTypeOK, LaneTypeOK
<1>2. CASE lane' = Finished
  BY <1>1, <1>2 DEF Finished, NoLane, OldestFirst, LaneTypeOK
<1>3. ASSUME NEW c \in q, \A j \in q : <<j, c>> \notin older,
             lane' = [lane EXCEPT !.cur = c, !.queue = q \ {c},
                                  !.step = IF command[c] = NoPayload THEN "bind" ELSE "send"]
      PROVE  OldestFirst'
  <2>1. /\ lane'.queue = q \ {c} /\ lane'.cur = c /\ lane'.step \in {"bind", "send"}
    BY <1>1, <1>3 DEF LaneTypeOK
  <2>2. Ahead' = q
    BY <1>3, <2>1 DEF Ahead, Attempting, Commanded
  <2>3. QED
    BY <1>3, <2>1, <2>2 DEF OldestFirst
<1>4. QED
  BY <1>2, <1>3 DEF Proceed

(* A step within an attempt keeps the order.                               *)
LEMMA AttemptInOrder ==
  ASSUME SealInv, FifoInv, lane.step \in Attempting, UNCHANGED <<older, checkpoint>>,
         NEW st \in Attempting \ {"bind"}, lane' = [lane EXCEPT !.step = st],
         \A j \in Intents : status'[j] = "PREPARED" => status[j] = "PREPARED",
         st = "review" => status'[lane.cur] # "PREPARED"
  PROVE  OldestFirst'
<1>1. LaneTypeOK /\ checkpoint \subseteq Intents
  BY DEF SealInv, SealTypeOK, LaneTypeOK
<1>2. lane'.queue = lane.queue /\ lane'.cur = lane.cur /\ lane'.step = st
  BY <1>1 DEF LaneTypeOK
<1>3. Ahead' = Ahead
  BY <1>2 DEF Ahead
<1>4. QED
  BY <1>1, <1>2, <1>3 DEF FifoInv, OldestFirst

(* The walk goes on once the current intent has had its first attempt.     *)
LEMMA WalkInOrder ==
  ASSUME SealInv, FifoInv, lane.step \in Attempting, UNCHANGED <<older, checkpoint>>,
         Proceed(lane.queue),
         \A j \in Intents : status'[j] = "PREPARED" => status[j] = "PREPARED" /\ j # lane.cur
  PROVE  OldestFirst'
<1>1. LaneTypeOK /\ checkpoint \subseteq Intents
  BY DEF SealInv, SealTypeOK, LaneTypeOK
<1>2. \A c \in lane.queue : \A j \in checkpoint' :
        status'[j] = "PREPARED" /\ <<j, c>> \in older => j \in lane.queue
  BY <1>1 DEF FifoInv, OldestFirst, Ahead
<1>3. QED
  BY <1>1, <1>2, ProceedInOrder DEF LaneTypeOK

(* record_error leaves no intent waiting for its first attempt behind.     *)
LEMMA RecordErrorInOrder ==
  ASSUME SealInv, FifoInv, NEW class, RecordError(class), lane.step \in Attempting \ {"review"}
  PROVE  FifoInv'
<1>1. /\ lane.cur \in checkpoint /\ checkpoint \subseteq Intents
      /\ status \in [Intents -> {"NONE"} \cup Pending \cup Settled]
      /\ status[lane.cur] # "NONE"
      /\ UNCHANGED <<older, checkpoint, command>>
  BY DEF SealInv, SealTypeOK, AttemptSound, CheckpointSound, RecordError
<1>2. PICK st \in {"OPERATOR_REVIEW", "RETRY_WAIT"} : status' = [status EXCEPT ![lane.cur] = st]
  BY DEF RecordError
<1>3. /\ \A j \in Intents : status'[j] = "PREPARED" => status[j] = "PREPARED" /\ j # lane.cur
      /\ \A j \in Intents : status[j] # "NONE" => status'[j] # "NONE"
  BY <1>1, <1>2
<1>4. RowOrder'
  BY <1>1, <1>3 DEF FifoInv, RowOrder
<1>5. CASE Proceed(lane.queue)
  BY <1>1, <1>3, <1>4, <1>5, WalkInOrder DEF FifoInv
<1>6. CASE lane' = [lane EXCEPT !.step = "review"]
  <2>1. OldestFirst'
    BY <1>1, <1>3, <1>6, AttemptInOrder DEF Attempting
  <2>2. QED
    BY <1>4, <2>1 DEF FifoInv
<1>7. QED
  BY <1>5, <1>6 DEF RecordError

LEMMA FifoStep == SealInv /\ FifoInv /\ [SealNext]_sealVars => FifoInv'
<1> SUFFICES ASSUME SealInv, FifoInv, [SealNext]_sealVars PROVE FifoInv'
  OBVIOUS
<1>1. /\ LaneTypeOK /\ checkpoint \subseteq Intents /\ older \subseteq Intents \X Intents
      /\ status \in [Intents -> {"NONE"} \cup Pending \cup Settled]
  BY DEF SealInv, SealTypeOK, LaneTypeOK
<1>2. ASSUME UNCHANGED <<status, older>> PROVE RowOrder'
  BY <1>2 DEF FifoInv, RowOrder
<1>3. ASSUME UNCHANGED <<status, older, checkpoint, lane>> PROVE FifoInv'
  BY <1>3 DEF FifoInv, RowOrder, OldestFirst, Ahead
<1>4. ASSUME UNCHANGED <<status, older>>, lane'.queue = {}, lane'.step \notin {"bind", "review"}
      PROVE  FifoInv'
  BY <1>2, <1>4 DEF FifoInv, OldestFirst
<1>5. NoLane.queue = {} /\ NoLane.step = "idle"
  BY DEF NoLane
<1>6. ASSUME NEW i \in Intents, Prepare(i) PROVE FifoInv'
  <2>1. /\ lane'.queue = {} /\ lane'.step \in {"prepared", "contract"}
    BY <1>6 DEF Prepare
  <2>2. CASE UNCHANGED <<status, older>>
    BY <1>4, <2>1, <2>2
  <2>3. CASE /\ status[i] = "NONE" /\ status' = [status EXCEPT ![i] = "PREPARED"]
             /\ older' = older \cup {<<j, i>> : j \in {k \in Intents : status[k] # "NONE"}}
    <3>1. \A a, b \in Intents :
            <<a, b>> \in older' <=> <<a, b>> \in older \/ (b = i /\ status[a] # "NONE")
      BY <2>3
    <3>2. \A a, b \in Intents : <<a, b>> \in older => a # i /\ b # i
      BY <2>3 DEF FifoInv, RowOrder
    <3>3. RowOrder'
      BY <1>1, <2>3, <3>1, <3>2 DEF FifoInv, RowOrder
    <3>4. QED
      BY <2>1, <3>3 DEF FifoInv, OldestFirst
  <2>4. QED
    BY <1>6, <2>2, <2>3 DEF Prepare
<1>7. CASE LinkCompletion \/ PersistContract
  <2>1. /\ UNCHANGED <<status, older>> /\ lane'.step \in {"contract", "confirm"}
        /\ lane'.queue = lane.queue /\ UNCHANGED checkpoint
        /\ lane.step \in {"prepared", "contract"}
    BY <1>1, <1>7 DEF LinkCompletion, PersistContract, storeVars, LaneTypeOK
  <2>2. OldestFirst'
    BY <2>1 DEF FifoInv, OldestFirst, Ahead, Attempting, Commanded
  <2>3. QED
    BY <1>2, <2>1, <2>2 DEF FifoInv
<1>8. CASE ConfirmCheckpoint
  <2>1. /\ lane.target \in Intents /\ UNCHANGED <<status, older, command>>
        /\ checkpoint' = checkpoint \cup {lane.target}
    BY <1>8 DEF ConfirmCheckpoint, SealInv, CompletionSound
  <2>2. CASE status[lane.target] \in Pending
    <3> DEFINE q == {j \in PendingIds \cup {lane.target} :
                       j = lane.target \/ <<j, lane.target>> \in older}
    <3>1. Proceed(q) /\ q \in SUBSET Intents
      BY <1>1, <1>8, <2>1, <2>2 DEF ConfirmCheckpoint, PendingIds
    <3>2. \A c \in q : \A j \in checkpoint' :
            status'[j] = "PREPARED" /\ <<j, c>> \in older => j \in q
      BY <1>1, <2>1 DEF PendingIds, Pending, FifoInv, RowOrder
    <3> HIDE DEF q
    <3>3. OldestFirst'
      BY <2>1, <3>1, <3>2, ProceedInOrder
    <3>4. QED
      BY <1>2, <2>1, <3>3 DEF FifoInv
  <2>3. CASE status[lane.target] \notin Pending
    <3>1. lane' = Finished /\ {} \in SUBSET Intents
      BY <1>8, <2>3 DEF ConfirmCheckpoint
    <3>2. OldestFirst'
      BY <2>1, <3>1, ProceedInOrder
    <3>3. QED
      BY <1>2, <2>1, <3>2 DEF FifoInv
  <2>4. QED
    BY <2>2, <2>3
<1>9. ASSUME lane.step \in Attempting, lane' = [lane EXCEPT !.step = lane'.step],
             lane'.step \in Attempting \ {"bind", "review"}, UNCHANGED storeVars
      PROVE  FifoInv'
  <2>1. UNCHANGED <<status, older, checkpoint>>
    BY <1>9 DEF storeVars
  <2>2. OldestFirst'
    BY <1>9, <2>1, AttemptInOrder
  <2>3. QED
    BY <1>2, <2>1, <2>2 DEF FifoInv
<1>10. ASSUME NEW p \in Payloads, BindCommand(p) PROVE FifoInv'
  <2>1. /\ lane.cur \in Intents /\ status[lane.cur] # "NONE" /\ lane.step \in Attempting
        /\ status' = [status EXCEPT ![lane.cur] = "COMMAND_READY"]
        /\ UNCHANGED <<older, checkpoint>> /\ lane' = [lane EXCEPT !.step = "send"]
    BY <1>1, <1>10 DEF BindCommand, SealInv, CheckpointSound, Attempting
  <2>2. RowOrder'
    BY <1>1, <2>1 DEF FifoInv, RowOrder
  <2>3. "send" \in Attempting \ {"bind"}
    BY DEF Attempting, Commanded
  <2>4. OldestFirst'
    BY <1>1, <2>1, <2>3, AttemptInOrder
  <2>5. QED
    BY <2>2, <2>4 DEF FifoInv
<1>11. CASE PostSeal \/ AnswerReceipt \/ ReceiptFound \/ AnswerCommitted \/ PostTimeout \/ AckLease
  <2>1. PICK st \in {"wait", "query", "queryCommitted", "receipt", "ack"} :
          lane' = [lane EXCEPT !.step = st]
    BY <1>11 DEF PostSeal, AnswerReceipt, ReceiptFound, GotReceipt, AnswerCommitted, PostTimeout,
       AckLease
  <2>2. lane'.step = st
    BY <1>1, <2>1 DEF LaneTypeOK
  <2>3. lane.step \in Attempting /\ UNCHANGED storeVars /\ st \in Attempting \ {"bind", "review"}
    BY <1>11 DEF PostSeal, AnswerReceipt, ReceiptFound, AnswerCommitted, PostTimeout,
       AckLease, Attempting, Commanded
  <2>4. QED
    BY <1>9, <2>1, <2>2, <2>3
<1>12. ASSUME NEW c \in Classes, BuildFails(c) \/ AnswerError(c) \/ ReceiptMissing(c)
       PROVE  FifoInv'
  <2>1. CASE RecordError(c) /\ lane.step \in {"bind", "wait", "query", "queryCommitted"}
    BY <2>1, RecordErrorInOrder DEF Attempting, Commanded
  <2>2. CASE lane' = NoLane /\ UNCHANGED storeVars
    BY <1>4, <1>5, <2>2 DEF storeVars
  <2>3. QED
    BY <1>12, <2>1, <2>2 DEF BuildFails, AnswerError, ReceiptMissing
<1>13. CASE AckLeaseFails
  <2>1. CASE RecordError("review")
    BY <1>13, <2>1, RecordErrorInOrder DEF AckLeaseFails, Attempting, Commanded
  <2>2. CASE lane' = NoLane /\ UNCHANGED storeVars
    BY <1>4, <1>5, <2>2 DEF storeVars
  <2>3. QED
    BY <1>13, <2>1, <2>2 DEF AckLeaseFails
<1>14. CASE RecordReceipt \/ AttemptFails
  <2>1. /\ lane.cur \in Intents /\ lane.step \in Attempting /\ UNCHANGED <<older, checkpoint>>
        /\ Proceed(lane.queue) /\ status[lane.cur] # "NONE"
    BY <1>1, <1>14 DEF RecordReceipt, AttemptFails, SealInv, AttemptSound, CheckpointSound,
       Attempting, Commanded
  <2>2. /\ \A j \in Intents : status'[j] = "PREPARED" => status[j] = "PREPARED" /\ j # lane.cur
        /\ \A j \in Intents : status[j] # "NONE" => status'[j] # "NONE"
    BY <1>1, <1>14, <2>1 DEF RecordReceipt, AttemptFails
  <2>3. RowOrder'
    BY <2>1, <2>2 DEF FifoInv, RowOrder
  <2>4. QED
    BY <2>1, <2>2, <2>3, WalkInOrder DEF FifoInv
<1>15. CASE ReviewLease
  <2>1. /\ lane.step \in Attempting /\ UNCHANGED <<older, checkpoint, status>>
        /\ Proceed(lane.queue) /\ status[lane.cur] # "PREPARED"
    BY <1>15 DEF ReviewLease, storeVars, Attempting, FifoInv, OldestFirst
  <2>2. OldestFirst'
    BY <2>1, WalkInOrder
  <2>3. QED
    BY <1>2, <2>1, <2>2 DEF FifoInv
<1>16. CASE StartDrain
  <2>1. CASE UNCHANGED lane
    BY <1>3, <1>16, <2>1 DEF StartDrain, storeVars
  <2>2. ASSUME NEW c \in PendingIds, \A j \in PendingIds : <<j, c>> \notin older,
               lane' = [task |-> "drain", cur |-> c, target |-> NoIntent,
                        queue |-> PendingIds \ {c},
                        step |-> IF command[c] = NoPayload THEN "bind" ELSE "send"]
        PROVE  FifoInv'
    <3>1. UNCHANGED <<status, older, checkpoint>>
      BY <1>16 DEF StartDrain, storeVars
    <3>2. /\ lane'.queue = PendingIds \ {c} /\ lane'.cur = c /\ lane'.step \in {"bind", "send"}
      BY <2>2
    <3>3. Ahead' = PendingIds
      BY <2>2, <3>2 DEF Ahead, Attempting, Commanded
    <3>4. OldestFirst'
      BY <2>2, <3>1, <3>2, <3>3 DEF OldestFirst, PendingIds, Pending
    <3>5. QED
      BY <1>2, <3>1, <3>4 DEF FifoInv
  <2>3. QED
    BY <1>16, <2>1, <2>2 DEF StartDrain
<1>17. ASSUME NEW i \in Intents, StartRetry(i) \/ StartRecheck(i) PROVE FifoInv'
  BY <1>4, <1>17 DEF StartRetry, StartRecheck, storeVars
<1>18. CASE LinkRefused \/ FinishCompletion \/ LaneFails \/ Crash
  BY <1>4, <1>5, <1>18 DEF LinkRefused, FinishCompletion, LaneFails, Crash, storeVars
<1>19. CASE Restart \/ LeaseSide \/ ServerSide \/ UNCHANGED sealVars
  BY <1>3, <1>19 DEF Restart, LeaseSide, ServerSide, ServerSeal, sealVars, sealOnly, storeVars
<1>20. QED
  BY <1>6, <1>7, <1>8, <1>10, <1>11, <1>12, <1>13, <1>14, <1>15, <1>16, <1>17, <1>18, <1>19
     DEF SealNext, CompletionNext, AttemptNext, TaskNext

(* A command is first bound for the oldest confirmed intent that waits for *)
(* its first attempt; of intents attempted before nothing is said          *)
(* (TransferSealStore.pending).                                            *)
THEOREM OldestBoundFirst == SealSpec => NeverOvertakes
<1> DEFINE Bound == \A i, j \in Intents :
                      command[i] = NoPayload /\ command'[i] # NoPayload /\ <<j, i>> \in older
                        => ~(j \in checkpoint /\ status[j] = "PREPARED")
<1>1. SealInit => FifoInv
  BY DEF SealInit, NoLane, FifoInv, RowOrder, OldestFirst
<1>2. SealInv /\ FifoInv /\ [SealNext]_sealVars => [Bound]_sealVars
  <2> SUFFICES ASSUME SealInv, FifoInv, SealNext PROVE Bound
    OBVIOUS
  <2>1. ASSUME UNCHANGED command PROVE Bound
    BY <2>1
  <2>2. ASSUME NEW p \in Payloads, BindCommand(p) PROVE Bound
    <3>1. /\ lane.step = "bind" /\ command' = [command EXCEPT ![lane.cur] = p]
          /\ command \in [Intents -> Payloads \cup {NoPayload}]
      BY <2>2 DEF BindCommand, SealInv, SealTypeOK
    <3>2. \A i \in Intents : command[i] = NoPayload /\ command'[i] # NoPayload => i = lane.cur
      BY <3>1
    <3>3. QED
      BY <3>1, <3>2 DEF FifoInv, OldestFirst
  <2>3. QED
    BY <2>1, <2>2
       DEF SealNext, CompletionNext, AttemptNext, TaskNext, LeaseSide, ServerSide, sealOnly,
           storeVars, Prepare, LinkCompletion, LinkRefused, PersistContract, ConfirmCheckpoint,
           FinishCompletion, BuildFails, AnswerError, ReceiptMissing, RecordError, PostSeal,
           AnswerReceipt, AnswerCommitted, PostTimeout, ReceiptFound, AckLease, AckLeaseFails,
           RecordReceipt, AttemptFails, ReviewLease, ServerSeal, StartDrain, StartRetry,
           StartRecheck, LaneFails, Crash, Restart
<1>3. QED
  BY <1>1, <1>2, FifoStep, SealInvariant, PTL DEF SealSpec, NeverOvertakes
=============================================================================
