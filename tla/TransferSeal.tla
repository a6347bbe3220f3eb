---------------------------- MODULE TransferSeal ----------------------------
(***************************************************************************)
(* The transfer seal: how a completed tray becomes exactly one sealed      *)
(* transfer bundle on the server.                                          *)
(*                                                                         *)
(* transfer_store.py keeps one durable row per intent; transfer_seal.py    *)
(* (TransferSealCoordinator) drives it; transfer_client.py talks to the    *)
(* server; Container_Audit.py runs all of it on one foreground lane, so a  *)
(* single task is under way at a time.  The lease of an intent lives in    *)
(* another SQLite file (OperationLease): the two are never written in one  *)
(* transaction, and each write below is a step of its own between which    *)
(* the process may die.                                                    *)
(*                                                                         *)
(* An intent stands for its label, source, item, scan list and lease, of   *)
(* which its id is a hash; a payload stands for the rest of a command,     *)
(* which for an intent without a lease depends on what the server resolves *)
(* at that moment.                                                         *)
(***************************************************************************)
EXTENDS OperationLease

CONSTANTS LeaseOf,     \* the lease an intent was scanned under, or NoLease
          Payloads, NoPayload,
          MaxFaults,   \* bound: crashes and local write failures
          MaxAudits    \* bound: supervisor retries per intent

ASSUME SealConstants ==
  /\ LeaseOf \in [Intents -> Leases \cup {NoLease}]
  /\ NoPayload \notin Payloads
  /\ Payloads # {}
  /\ MaxFaults \in Nat
  /\ MaxAudits \in Nat

VARIABLES
  status,      \* transfer_seal_intents.status; "NONE": no row
  older,       \* pairs <<i, j>>: i's row precedes j's in created_at, rowid
  checkpoint,  \* intents with completion_checkpoint_confirmed = 1
  command,     \* command_json, bound once
  reviewCases, \* intents with a transfer_post_review_cases row
  sealed,      \* the server's ledger: the payload sealed under an intent's key
  late,        \* POSTs the terminal gave up on that may still arrive
  lane,        \* the task of the foreground lane (volatile)
  startup,     \* startup recovery is still to run in this process (volatile)
  audits,      \* durable supervisor-retry audit records per intent
  reviewPosts, \* history: POSTs made for an intent already in OPERATOR_REVIEW
  faults

storeVars == <<status, older, checkpoint, command, reviewCases>>
netVars   == <<sealed, late>>
sealOnly  == <<storeVars, netVars, lane, startup, audits, reviewPosts, faults>>
sealVars  == <<leaseVars, sealOnly>>

Pending == {"PREPARED", "COMMAND_READY", "RETRY_WAIT"}
Settled == {"ACKED", "OPERATOR_REVIEW"}

Tasks == {"none", "complete", "drain", "retry", "recheck"}
Steps == {"idle", "prepared", "contract", "confirm", "bind", "send", "wait", "query",
          "queryCommitted", "recheck", "receipt", "ack", "review", "finish"}

NoLane == [task |-> "none", step |-> "idle", cur |-> NoIntent, target |-> NoIntent,
           queue |-> {}]

SealTypeOK ==
  /\ LeaseTypeOK
  /\ status \in [Intents -> {"NONE"} \cup Pending \cup Settled]
  /\ older \subseteq Intents \X Intents
  /\ checkpoint \subseteq Intents
  /\ command \in [Intents -> Payloads \cup {NoPayload}]
  /\ reviewCases \subseteq Intents
  /\ sealed \in [Intents -> Payloads \cup {NoPayload}]
  /\ late \subseteq Intents \X Payloads
  /\ lane \in [task : Tasks, step : Steps, cur : Intents \cup {NoIntent},
               target : Intents \cup {NoIntent}, queue : SUBSET Intents]
  /\ lane.step = "idle" <=> lane.cur = NoIntent
  /\ startup \in BOOLEAN
  /\ audits \in [Intents -> Nat]
  /\ reviewPosts \in [Intents -> Nat]
  /\ faults \in Nat

SealInit ==
  /\ LeaseInit
  /\ status = [i \in Intents |-> "NONE"]
  /\ older = {}
  /\ checkpoint = {}
  /\ command = [i \in Intents |-> NoPayload]
  /\ reviewCases = {}
  /\ sealed = [i \in Intents |-> NoPayload]
  /\ late = {}
  /\ lane = NoLane
  /\ startup = TRUE
  /\ audits = [i \in Intents |-> 0]
  /\ reviewPosts = [i \in Intents |-> 0]
  /\ faults = 0

Leased(i) == LeaseOf[i] # NoLease

LaneIdle == lane.step = "idle" /\ PreflightIdle

Fault == faults < MaxFaults /\ faults' = faults + 1

-----------------------------------------------------------------------------
(* The walk over pending intents.                                          *)

(* Mutant: reviewed intents stay in the automatic queue.                   *)
PendingIds_Reviewed == {i \in checkpoint : status[i] \in Pending \cup {"OPERATOR_REVIEW"}}

(* Mutant: an intent that failed once is not picked up again.              *)
PendingIds_NoRetry == {i \in checkpoint : status[i] \in Pending \ {"RETRY_WAIT"}}

(* pending_ids: pending and confirmed.                                     *)
PendingIds == {i \in checkpoint : status[i] \in Pending}

(* The task's last attempt is made: a completion goes on to the tray.      *)
Finished == IF lane.task = "complete"
            THEN [lane EXCEPT !.step = "finish", !.cur = lane.target, !.queue = {}]
            ELSE NoLane

(* Mutant: newest first.                                                   *)
Proceed_Newest(q) ==
  \/ q = {} /\ lane' = Finished
  \/ \E c \in q :
       /\ \A j \in q : <<c, j>> \notin older
       /\ lane' = [lane EXCEPT !.cur = c, !.queue = q \ {c},
                               !.step = IF command[c] = NoPayload THEN "bind" ELSE "send"]

(* Mutant: every attempt builds its command anew.                          *)
Proceed_Rebuild(q) ==
  \/ q = {} /\ lane' = Finished
  \/ \E c \in q :
       /\ \A j \in q : <<j, c>> \notin older
       /\ lane' = [lane EXCEPT !.cur = c, !.queue = q \ {c}, !.step = "bind"]

(* attempt the oldest intent of q, or end the task when q is exhausted.    *)
Proceed(q) ==
  \/ q = {} /\ lane' = Finished
  \/ \E c \in q :
       /\ \A j \in q : <<j, c>> \notin older
       /\ lane' = [lane EXCEPT !.cur = c, !.queue = q \ {c},
                               !.step = IF command[c] = NoPayload THEN "bind" ELSE "send"]

-----------------------------------------------------------------------------
(* Completion of a tray: prepare, completion contract, checkpoint.         *)

(* Mutant: the row is inserted as already confirmed.                       *)
Prepare_Confirmed(i) ==
  /\ LaneIdle
  /\ Leased(i) => Verified(LeaseOf[i]) /\ LeaseOf[i] \notin exchange
  /\ status' = [status EXCEPT ![i] = IF @ = "NONE" THEN "PREPARED" ELSE @]
  /\ checkpoint' = checkpoint \cup {i}
  /\ lane' = [task |-> "complete", cur |-> i, target |-> i, queue |-> {},
              step |-> IF Leased(i) THEN "prepared" ELSE "contract"]
  /\ UNCHANGED <<leaseVars, older, command, reviewCases, netVars,
                 startup, audits, reviewPosts, faults>>

(* prepare, first half: the lease is verified and the intent's row is      *)
(* inserted, or found, in one transaction.                                 *)
Prepare(i) ==
  /\ LaneIdle
  /\ Leased(i) => Verified(LeaseOf[i]) /\ LeaseOf[i] \notin exchange
  /\ \/ status[i] = "NONE"
       /\ status' = [status EXCEPT ![i] = "PREPARED"]
       /\ older' = older \cup {<<j, i>> : j \in {k \in Intents : status[k] # "NONE"}}
     \/ status[i] # "NONE" /\ UNCHANGED <<status, older>>
  /\ lane' = [task |-> "complete", cur |-> i, target |-> i, queue |-> {},
              step |-> IF Leased(i) THEN "prepared" ELSE "contract"]
  /\ UNCHANGED <<leaseVars, checkpoint, command, reviewCases, netVars,
                 startup, audits, reviewPosts, faults>>

(* prepare, second half: the lease is verified again and its completion    *)
(* recorded, in the other database.                                        *)
LinkCompletion ==
  /\ lane.step = "prepared"
  /\ Verified(LeaseOf[lane.cur])
  /\ RecordLocalCompletion(LeaseOf[lane.cur], lane.cur)
  /\ lane' = [lane EXCEPT !.step = "contract"]
  /\ UNCHANGED <<storeVars, netVars, startup, audits, reviewPosts, faults>>

(* ... or refused: OPERATION_LEASE_LOCAL_DURABILITY_FAILED ends the task.  *)
LinkRefused ==
  /\ lane.step = "prepared"
  /\ ~(Verified(LeaseOf[lane.cur]) /\ CanRecordLocalCompletion(LeaseOf[lane.cur], lane.cur))
  /\ lane' = NoLane
  /\ UNCHANGED <<leaseVars, storeVars, netVars, startup, audits, reviewPosts, faults>>

(* on_prepared: the completion contract is saved with the tray.            *)
PersistContract ==
  /\ lane.step = "contract"
  /\ lane' = [lane EXCEPT !.step = "confirm"]
  /\ UNCHANGED <<leaseVars, storeVars, netVars, startup, audits, reviewPosts, faults>>

(* confirm_completion_checkpoint, and the list drain_pending_through walks.*)
ConfirmCheckpoint ==
  LET i == lane.target IN
  /\ lane.step = "confirm"
  /\ i \in checkpoint \/ status[i] = "PREPARED"
  /\ checkpoint' = checkpoint \cup {i}
  /\ IF status[i] \in Pending
     THEN Proceed({j \in PendingIds \cup {i} : j = i \/ <<j, i>> \in older})
     ELSE lane' = Finished
  /\ UNCHANGED <<leaseVars, status, older, command, reviewCases, netVars,
                 startup, audits, reviewPosts, faults>>

(* complete_tray goes on with the tray; here the task just ends.           *)
FinishCompletion ==
  /\ lane.step = "finish"
  /\ lane' = NoLane
  /\ UNCHANGED <<leaseVars, storeVars, netVars, startup, audits, reviewPosts, faults>>

-----------------------------------------------------------------------------
(* _attempt_row.                                                           *)

(* Mutant: a failed supervisor retry puts the intent back in the queue.    *)
RecordError_NotSticky(class) ==
  LET i == lane.cur
      review == class = "review"
  IN
  /\ status' = [status EXCEPT ![i] = IF review THEN "OPERATOR_REVIEW" ELSE "RETRY_WAIT"]
  /\ reviewCases' = IF review THEN reviewCases \cup {i} ELSE reviewCases
  /\ IF review /\ Leased(i)
     THEN lane' = [lane EXCEPT !.step = "review"]
     ELSE Proceed(lane.queue)
  /\ UNCHANGED <<older, checkpoint, command>>

(* record_error, and what follows it: a leased intent under review has its *)
(* lease reviewed too, and the walk goes on.                               *)
RecordError(class) ==
  LET i == lane.cur
      review == class = "review" \/ status[i] = "OPERATOR_REVIEW"
  IN
  /\ status' = [status EXCEPT ![i] = IF review THEN "OPERATOR_REVIEW" ELSE "RETRY_WAIT"]
  /\ reviewCases' = IF review THEN reviewCases \cup {i} ELSE reviewCases
  /\ IF review /\ Leased(i)
     THEN lane' = [lane EXCEPT !.step = "review"]
     ELSE Proceed(lane.queue)
  /\ UNCHANGED <<older, checkpoint, command>>

(* record_review; its failure is swallowed.                                *)
ReviewLease ==
  LET i == lane.cur IN
  /\ lane.step = "review"
  /\ \/ RecordLeaseReview(LeaseOf[i], i)
     \/ ~CanRecordLeaseReview(LeaseOf[i], i) /\ UNCHANGED leaseVars
  /\ Proceed(lane.queue)
  /\ UNCHANGED <<storeVars, netVars, startup, audits, reviewPosts, faults>>

CommandsOf(i) == IF Leased(i) THEN {CHOOSE p \in Payloads : TRUE} ELSE Payloads

(* _build_command and bind_command.  A leased command is built from the    *)
(* signed snapshot; an unleased one from what the server resolves now.     *)
BindCommand(p) ==
  LET i == lane.cur IN
  /\ lane.step = "bind"
  /\ Leased(i) => LeaseOf[i] \in artifacts /\ completion[LeaseOf[i]] # NoIntent
  /\ i \in checkpoint
  /\ p \in CommandsOf(i)
  /\ command' = [command EXCEPT ![i] = p]
  /\ status' = [status EXCEPT ![i] = "COMMAND_READY"]
  /\ lane' = [lane EXCEPT !.step = "send"]
  /\ UNCHANGED <<leaseVars, older, checkpoint, reviewCases, netVars,
                 startup, audits, reviewPosts, faults>>

(* No command can be built, retryably (no client is configured, the        *)
(* resolver does not answer) or not (another authority, a source that does *)
(* not match, a leased command without its local completion).              *)
BuildFails(class) ==
  /\ lane.step = "bind"
  /\ RecordError(class)
  /\ UNCHANGED <<leaseVars, netVars, startup, audits, reviewPosts, faults>>

(* seal_transfer: the POST leaves.                                         *)
PostSeal ==
  LET i == lane.cur IN
  /\ lane.step = "send"
  /\ lane' = [lane EXCEPT !.step = "wait"]
  /\ reviewPosts' = IF status[i] = "OPERATOR_REVIEW"
                    THEN [reviewPosts EXCEPT ![i] = @ + 1] ELSE reviewPosts
  /\ UNCHANGED <<leaseVars, storeVars, netVars, startup, audits, faults>>

(* External: the server commits a seal request that reached it, consuming  *)
(* the lease in the same transaction.                                      *)
ServerSeal(i, p) ==
  /\ \/ lane.step = "wait" /\ lane.cur = i /\ command[i] = p
     \/ <<i, p>> \in late
  /\ sealed[i] = NoPayload
  /\ IF Leased(i) THEN CentralConsume(LeaseOf[i], i) ELSE UNCHANGED leaseCentral
  /\ sealed' = [sealed EXCEPT ![i] = p]
  /\ late' = late \ {<<i, p>>}
  /\ UNCHANGED <<leaseDb, exchange, expired, preflight, storeVars, lane,
                 startup, audits, reviewPosts, faults>>

(* Mutant: the lease's own receipt is not recorded.                        *)
GotReceipt_SkipLease == lane' = [lane EXCEPT !.step = "ack"]

GotReceipt == lane' = [lane EXCEPT !.step = IF Leased(lane.cur) THEN "receipt" ELSE "ack"]

(* The POST, or a replay of it, is answered with the receipt.              *)
AnswerReceipt ==
  /\ lane.step = "wait"
  /\ sealed[lane.cur] = command[lane.cur]
  /\ GotReceipt
  /\ UNCHANGED <<leaseVars, storeVars, netVars, startup, audits, reviewPosts, faults>>

(* The POST is answered with an error that does not say "committed".       *)
AnswerError(class) ==
  /\ lane.step = "wait"
  /\ RecordError(class)
  /\ UNCHANGED <<leaseVars, netVars, startup, audits, reviewPosts, faults>>

(* An error that says the command is committed: the receipt is looked up.  *)
AnswerCommitted ==
  /\ lane.step = "wait"
  /\ sealed[lane.cur] # NoPayload
  /\ lane' = [lane EXCEPT !.step = "queryCommitted"]
  /\ UNCHANGED <<leaseVars, storeVars, netVars, startup, audits, reviewPosts, faults>>

(* No answer: the POST is lost, was committed, or is still on its way.     *)
PostTimeout ==
  /\ lane.step = "wait"
  /\ late' \in {late, late \cup {<<lane.cur, command[lane.cur]>>}}
  /\ lane' = [lane EXCEPT !.step = "query"]
  /\ UNCHANGED <<leaseVars, storeVars, sealed, startup, audits, reviewPosts, faults>>

(* get_receipt finds the receipt of the intent's key.                      *)
ReceiptFound ==
  /\ lane.step \in {"query", "queryCommitted", "recheck"}
  /\ sealed[lane.cur] = command[lane.cur]
  /\ GotReceipt
  /\ UNCHANGED <<leaseVars, storeVars, netVars, startup, audits, reviewPosts, faults>>

(* It finds none or fails.  After a transport error that is TRANSPORT_ERROR*)
(* (retryable) unless a receipt came that does not validate; after a       *)
(* committed error it may be any error; a recheck leaves the review as is. *)
ReceiptMissing(class) ==
  /\ \/ /\ lane.step = "query" /\ RecordError(class)
        /\ class = "review" => sealed[lane.cur] # NoPayload
     \/ lane.step = "queryCommitted" /\ RecordError(class)
     \/ lane.step = "recheck" /\ lane' = NoLane /\ UNCHANGED storeVars
  /\ UNCHANGED <<leaseVars, netVars, startup, audits, reviewPosts, faults>>

(* The lease database records the receipt first ...                        *)
AckLease ==
  LET i == lane.cur IN
  /\ lane.step = "receipt"
  /\ RecordLeaseReceipt(LeaseOf[i], i)
  /\ lane' = [lane EXCEPT !.step = "ack"]
  /\ UNCHANGED <<storeVars, netVars, startup, audits, reviewPosts, faults>>

(* ... or refuses it, or cannot be written: a terminal error.              *)
AckLeaseFails ==
  LET i == lane.cur IN
  /\ lane.step = "receipt"
  /\ \/ ~CanRecordLeaseReceipt(LeaseOf[i], i) /\ UNCHANGED faults
     \/ Fault
  /\ IF lane.task = "recheck"
     THEN lane' = NoLane /\ UNCHANGED storeVars
     ELSE RecordError("review")
  /\ UNCHANGED <<leaseVars, netVars, startup, audits, reviewPosts>>

(* ... then the transfer store: the intent is ACKED.                       *)
RecordReceipt ==
  /\ lane.step = "ack"
  /\ status' = [status EXCEPT ![lane.cur] = "ACKED"]
  /\ Proceed(lane.queue)
  /\ UNCHANGED <<leaseVars, older, checkpoint, command, reviewCases, netVars,
                 startup, audits, reviewPosts, faults>>

(* Any other exception of the attempt (a store that cannot be written):    *)
(* LOCAL_TRANSFER_SEAL_ERROR, retryable; the lease is not reviewed here.   *)
AttemptFails ==
  LET i == lane.cur IN
  /\ lane.step \in {"bind", "send", "ack"} /\ Fault
  /\ status' = IF status[i] = "OPERATOR_REVIEW" THEN status
               ELSE [status EXCEPT ![i] = "RETRY_WAIT"]
  /\ Proceed(lane.queue)
  /\ UNCHANGED <<leaseVars, older, checkpoint, command, reviewCases, netVars,
                 startup, audits, reviewPosts>>

-----------------------------------------------------------------------------
(* The other tasks of the lane.                                            *)

(* Startup recovery: drain_pending, once per process.                      *)
StartDrain ==
  /\ LaneIdle /\ startup
  /\ startup' = FALSE
  /\ \/ PendingIds = {} /\ UNCHANGED lane
     \/ \E c \in PendingIds :
          /\ \A j \in PendingIds : <<j, c>> \notin older
          /\ lane' = [task |-> "drain", cur |-> c, target |-> NoIntent,
                      queue |-> PendingIds \ {c},
                      step |-> IF command[c] = NoPayload THEN "bind" ELSE "send"]
  /\ UNCHANGED <<leaseVars, storeVars, netVars, audits, reviewPosts, faults>>

(* retry_operator_review: after a durable audit a supervisor resends the   *)
(* intact command of a reviewed intent.                                    *)
StartRetry(i) ==
  /\ LaneIdle
  /\ status[i] = "OPERATOR_REVIEW" /\ i \in checkpoint /\ command[i] # NoPayload
  /\ i \in reviewCases
  /\ audits[i] < MaxAudits
  /\ audits' = [audits EXCEPT ![i] = @ + 1]
  /\ lane' = [task |-> "retry", step |-> "send", cur |-> i, target |-> NoIntent, queue |-> {}]
  /\ UNCHANGED <<leaseVars, storeVars, netVars, startup, reviewPosts, faults>>

(* recheck_operator_review_receipt: reads the original key, never resends. *)
StartRecheck(i) ==
  /\ LaneIdle
  /\ status[i] = "OPERATOR_REVIEW" /\ command[i] # NoPayload
  /\ lane' = [task |-> "recheck", step |-> "recheck", cur |-> i, target |-> NoIntent, queue |-> {}]
  /\ UNCHANGED <<leaseVars, storeVars, netVars, startup, audits, reviewPosts, faults>>

(* A POST under way when the process dies or the task fails may arrive.    *)
Orphaned == IF lane.step = "wait"
            THEN {late, late \cup {<<lane.cur, command[lane.cur]>>}} ELSE {late}

(* The task fails on a local error (a database or file that cannot be      *)
(* written) and leaves the lane; what it had committed stays.              *)
LaneFails ==
  /\ lane.step \in {"prepared", "contract", "confirm", "bind", "send", "review", "finish"}
  /\ Fault
  /\ lane' = NoLane
  /\ UNCHANGED <<leaseVars, storeVars, netVars, startup, audits, reviewPosts>>

(* The process dies at any point and is started again.                     *)
Crash ==
  /\ Fault
  /\ late' \in Orphaned
  /\ lane' = NoLane
  /\ preflight' = NoPreflight
  /\ startup' = TRUE
  /\ UNCHANGED <<leaseDb, exchange, leaseCentral, expired, storeVars, sealed,
                 audits, reviewPosts>>

(* The program is closed with nothing under way, and started again.        *)
Restart ==
  /\ LaneIdle /\ ~startup
  /\ preflight' = NoPreflight
  /\ startup' = TRUE
  /\ UNCHANGED <<leaseDb, exchange, leaseCentral, expired, storeVars, netVars, lane,
                 audits, reviewPosts, faults>>

-----------------------------------------------------------------------------
(* Each task step, by what it needs of the environment.                    *)
Classes == {"review", "retry"}

CompletionNext ==
  \/ \E i \in Intents : Prepare(i)
  \/ LinkCompletion \/ LinkRefused \/ PersistContract \/ ConfirmCheckpoint
  \/ FinishCompletion

AttemptNext ==
  \/ \E p \in Payloads : BindCommand(p)
  \/ \E c \in Classes : BuildFails(c) \/ AnswerError(c) \/ ReceiptMissing(c)
  \/ PostSeal \/ AnswerReceipt \/ AnswerCommitted \/ PostTimeout \/ ReceiptFound
  \/ AckLease \/ AckLeaseFails \/ RecordReceipt \/ AttemptFails \/ ReviewLease

TaskNext ==
  \/ StartDrain
  \/ \E i \in Intents : StartRetry(i) \/ StartRecheck(i)
  \/ LaneFails \/ Crash \/ Restart

LeaseSide ==
  /\ \/ lane.step = "idle" /\ (PreflightNext \/ RotationNext)
     \/ CentralNext
  /\ UNCHANGED sealOnly

ServerSide == \E i \in Intents, p \in Payloads : ServerSeal(i, p)

SealNext == CompletionNext \/ AttemptNext \/ TaskNext \/ LeaseSide \/ ServerSide

SealSpec == SealInit /\ [][SealNext]_sealVars

(* Fairness.  A task in the lane runs on; the program is started again     *)
(* some day, and startup recovery is rescheduled whenever the lane falls   *)
(* idle until it has run; a server that is asked again and again in the    *)
(* end decides.                                                            *)
LaneRuns ==
  \/ LinkCompletion \/ LinkRefused \/ PersistContract \/ ConfirmCheckpoint
  \/ FinishCompletion \/ AttemptNext

Resolves == (\E p \in Payloads : BindCommand(p)) \/ BuildFails("review")

Decides == AnswerReceipt \/ AnswerError("review")

SealFairness ==
  /\ WF_sealVars(LaneRuns) /\ WF_sealVars(PreflightFails /\ UNCHANGED sealOnly)
  /\ SF_sealVars(Restart) /\ SF_sealVars(StartDrain)
  /\ \A i \in Intents : /\ SF_sealVars(lane.cur = i /\ Resolves)
                        /\ SF_sealVars(lane.cur = i /\ Decides)

-----------------------------------------------------------------------------
(* Properties.                                                             *)

(* No command is bound, and so none can reach the server, before the       *)
(* completion contract is durable and, under a lease, before this very     *)
(* intent's completion is: the evidence a restart needs is there first.    *)
CommandAfterEvidence ==
  \A i \in Intents : command[i] # NoPayload =>
    /\ i \in checkpoint
    /\ Leased(i) => completion[LeaseOf[i]] = i

(* One idempotency key, one payload: every copy of a POST still on its way *)
(* and whatever the server sealed carry the intent's bound command.        *)
OnePayloadPerKey ==
  \A i \in Intents :
    /\ sealed[i] # NoPayload => sealed[i] = command[i]
    /\ \A p \in Payloads : <<i, p>> \in late => p = command[i]

(* Two intents over one lease (the same members scanned in another order)  *)
(* never both get a command: the members of a lease are moved once.        *)
OneCommandPerLease ==
  \A i, j \in Intents :
    Leased(i) /\ LeaseOf[i] = LeaseOf[j] /\ command[i] # NoPayload /\ command[j] # NoPayload
      => i = j

(* ACKED is never reported early: the server sealed exactly the bound      *)
(* command and the lease's own database holds the receipt too, although    *)
(* the two databases are written one after the other.                      *)
AckedIsProved ==
  \A i \in Intents : status[i] = "ACKED" =>
    /\ sealed[i] = command[i] /\ command[i] # NoPayload
    /\ Leased(i) => LeaseOf[i] \in leaseReceipts /\ issue[LeaseOf[i]] = "ACKED"

(* A reviewed intent is resent only on a supervisor's word: never more     *)
(* often than durable audit records exist, restarts and drains included.   *)
ResendIsAudited == \A i \in Intents : reviewPosts[i] <= audits[i]

(* Nothing undoes a bound command or an ACK, and a review ends only in an  *)
(* ACK.                                                                    *)
OutcomeStep ==
  \A i \in Intents :
    /\ command[i] # NoPayload => command'[i] = command[i]
    /\ status[i] = "ACKED" => status'[i] = "ACKED"
    /\ status[i] = "OPERATOR_REVIEW" => status'[i] \in Settled

(* Every step of the seal is such a step.                                  *)
OutcomeKept == [][OutcomeStep]_sealVars

(* First attempts are made in the order of creation: a command is first    *)
(* bound only when no older confirmed intent is still waiting for its      *)
(* first attempt.  Intents attempted before may be overtaken (pending).    *)
NeverOvertakes ==
  [][\A i, j \in Intents :
       command[i] = NoPayload /\ command'[i] # NoPayload /\ <<j, i>> \in older
         => ~(j \in checkpoint /\ status[j] = "PREPARED")]_sealVars

(* A confirmed intent is not forgotten: lost answers, failed writes and    *)
(* older intents that keep failing do not stop it from being settled.      *)
ConfirmedSettles ==
  \A i \in Intents : i \in checkpoint ~> status[i] \in Settled

(* The seal implements SealContract.                                       *)
Contract == INSTANCE SealContract WITH
  accepted <- checkpoint,
  ledger   <- {i \in Intents : sealed[i] # NoPayload},
  outcome  <- [i \in Intents |-> IF status[i] = "ACKED" THEN "acked"
                                 ELSE IF status[i] = "OPERATOR_REVIEW" THEN "review"
                                 ELSE "open"]

ImplementsContract == Contract!ContractSpec

=============================================================================
