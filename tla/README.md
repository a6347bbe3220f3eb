# Container_Audit: TLA+ models, checks and proofs

Container_Audit is the operator's program at a packing station. An operator scans
a master label, scans the products of a tray, and completes the tray; the program
records the completion locally and moves ("transfers") the tray's members on the
central logistics server. Each piece of work passes several stores that no
transaction spans (SQLite files, JSON state files, a CSV log, the server), the
network loses and delays answers, several processes share a data directory, and the
program is closed or killed at any time. What must hold all the same is the subject
of this project: a tray is transferred once, recorded once and never lost, a label is
active only when it is on paper, a row leaves the queue only when the server has it,
and a person is never left with work that nothing can finish.

The project holds 27 specification modules, eleven modules that instantiate them for
TLC, and eight modules of theorems. PROJECT.json has the exact list of runs, the source lines of each
definition, the hazards each property is for, and for every property a mutated
definition that must make TLC refute it.

## 1. Inventory

| Part | State it keeps | What is hard | What makes it correct |
|---|---|---|---|
| Operation leases (`terminal_operation_lease.py`) | SQLite: issue attempts, artifacts, completions, receipts, reviews, rotations | lost issue answers, replays, expiry, the server rotating a lease before the terminal knows | one unresolved attempt and one live lease per label; settled means settled at the server |
| Pinned keyring (same file, `transfer_seal.py`) | JSON pin file, accepted leases | rotating keys, answers applied late, the clock moving between two checks | a pinned kid never changes, accepted leases stay verifiable |
| Transfer intents (`transfer_store.py`), seal coordinator (`transfer_seal.py`) | SQLite: intents, post-review cases, outbox rows | crash between writes of two databases, delayed POSTs, sticky review | evidence before command, one payload per key, audited resends |
| Transfer topology (`transfer_seal.py`) | none | labels, papers and bundles change between the answer and the commit | what is sealed is what was scanned, each unit once |
| Reviews and awaited replacements (`transfer_store.py`, main window) | SQLite outbox rows and receipts | append that is not known to have happened, a replay queued behind another task | one row in all logs, receipt proves it |
| Tray completion (`tray_completion.py`) | completion contract in memory and in the tray file | append that fails after writing, crash before the tray is cleared | recorded once, never lost while a command is out |
| Member exchange (`transfer_member_exchange.py`) | SQLite intent of an exchange | committed centrally, unknown locally; four local places to bring up to date | the saved tray holds what its lease is bound to |
| Preflight hold (`preflight_scan_hold.py`) | hold file, quarantine, writer thread | scans accepted while the lookup, the drain or the quarantine is under way | no scan lost, judged twice or counted for another label |
| Parked trays (`parked_tray_store.py`, `tray_state.py`) | current file, parked files, quarantined originals | two files written one after the other | no work lost, no older copy resumed |
| Paired handoff, evidence (`paired_preflight_handoff.py`, `container_admin_pin.py`) | pair records, PIN intents, archived originals, manager's holds | a PIN consumed with a lost answer; files damaged later | originals kept, labels stay barred, other work opens again |
| PHS labels (`phs_label_workflow.py`, `phs_reconciliation_workflow.py`) | one journal file | printed and not recorded, recorded and not activated | active only on paper, no unexcused copy |
| Event log (`event_log_store.py`) | CSV files, outbox files, lock file | two threads, torn rows, stale locks | staged means it becomes one row |
| Writer fence (`writer_session_fence.py`, `tools/container_writer_fence.ps1`) | gate, fence record, delegation | a deployment session and the program at one directory | nobody writes past the fence |
| UI lane and closing (`tk_serial_ui_lane.py`) | tasks, result queue, close flags | callbacks and joins that fail while closing | all admitted work is applied before the window goes |
| Relay (`direct_sync_*.py`, `producer_runtime_client.py`, `user_relay.py`, relay runner) | SQLite queue, authority row, cursors | claims that run out under a slow process, rotating tokens, replaced files | a row is acknowledged only when stored; no line skipped |
| Registration (`tools/register_container_audit_worker_pc.py`, `recovery_two_phase.py`) | identity, manifest, credentials, journal, the server's generation | a run that dies between two writes | the generation the server switched to is activated |
| Onboarding, removal, restoration (`current_user_onboarding.py`) | Run value, stop file, named lease, receipts | relays at an exclusive gate | stopped means stopped; the queue keeps being checked |
| Profile, catalogue, administrator's code | small sets of files written one after the other | interruption at each write, readers in between | what is present loads and belongs together |
| Update search (`update_service.py`) | none | files replaced between two requests | a notice only of files that belong together |

**Interaction.** The main window runs completions, recoveries, preflights and label
exchanges on one lane (a second request is refused or queued while one runs), so steps
of two such tasks never interleave in one process. What interleaves with a task is the
operator's scans, the writer threads of hold and log, other processes (relay, tools, a
deployment session), the server, the clock, failing writes and the end of the process.
A scan starts a *preflight* which obtains a lease (verified against the pinned keyring);
products scanned meanwhile go to the *hold*. The tray opened under the lease is completed
by *prepare* (intent row, then lease completion), the *completion contract* (tray file),
the *checkpoint*, *attempts* of all older intents and then this one, and the
*TRAY_COMPLETE* row. A member exchange rotates the lease of an open tray; parking,
deferring and handover move the tray between files; the relay ships the day's log.

## 2. Modules

Each module starts with a comment that names its sources. Definitions keep the names of
the functions they model. Definitions commented as mutants are deliberately wrong
variants of the definition after them.

| Module | Models | Builds on |
|---|---|---|
| `OperationLease` | lease store and manager, preflight; server's lease status and clock | |
| `SealContract` | abstract: an intent is accepted, sealed at most once, reported ACKED only after that, or handed to a person | |
| `TransferSeal`, `TransferSeal_proofs` | transfer store, seal coordinator, client, lane; the proofs are also about the lease store | EXTENDS OperationLease, refines SealContract |
| `TrayCompletion`, `TrayCompletion_proofs` | tray, state file, log, scan, startup | EXTENDS TransferSeal |
| `LeaseKeyring`, `LeaseKeyring_proofs` | pinning, merging, online and stored verification, time of completion | |
| `WorkGroupSeal` | resolver answers, exact-scan rule, command versions, receipt checks | |
| `ReviewOutbox` | outbox rows, replay into the logs, receipts, flags and tasks | |
| `MemberExchange` | exchange intent, attempt, dialog, application to the tray, reconcile | |
| `PreflightHold` | hold file, writer thread, lookup, drain, quarantine, restore, close | |
| `ParkedTray` | login recovery, parking, restoring, deferring, handover, reset | |
| `PairedHandoff`, `RecoveryEvidence` | pair under a PIN; what its files bar and how damage is bound | |
| `PhsCentral`, `PhsLabel`, `PhsReconciliation` | print attempts and activation at the server; one label; several labels at once | both EXTEND PhsCentral |
| `WriterFence`, `EventLog` | gate, fence, delegation; log threads, outbox, lock file, rows | EventLog EXTENDS WriterFence |
| `AppClose` | lane worker and pump, hold writer, log thread, closing | |
| `RuntimeAuthority`, `RelayQueue` | token rotation; queue, claims, uploads, settlement, operator | RelayQueue EXTENDS RuntimeAuthority |
| `DeltaScan` | the relay runner's scan of a growing or replaced file | |
| `Enrollment` | first enrollment, reattach, one- and two-phase recovery | |
| `UserLifecycle` | program start, removal, restoration, relay processes at the gate | |
| `ProfileInstall`, `ItemCatalog`, `AdminLogin`, `UpdateCheck` | the component of that name | |
| `MCTrayCompletion`, `MCTransferSeal`, `MCOperationLease`, `MCLeaseKeyring` | instances of one module each | EXTENDS it |
| `Labels`, `Records`, `Push`, `Station`, `TrayFiles`, each with `_proofs` | several components side by side (section 3), with theorems about the whole (section 5) | INSTANCE ... WITH; `Labels` EXTENDS PhsReconciliation, `Push` DeltaScan |
| `MCSettle`, `MCFinish` | instances of several components side by side, for TLC only | INSTANCE ... WITH |

**How state corresponds to the code.** A durable table or file is a variable; what only
one process knows is another and is reset by the action that ends the process (`Crash`,
`Exit`, `Restart`, `RunFails`, `Close`). A `BEGIN IMMEDIATE` transaction or an atomic
rename is one step; two of them are two steps, and the process may end between them. A
network call is a step whose answer may be lost whether or not it took effect. A handler
on the Tk thread that waits for nothing is one step.

- *Leases and seal.* `issue` is the status column of the issue attempts; an attempt and
  its lease have one name, because the server answers each issue key with one lease.
  `lane` is the task under way: its kind, step, intent and queue. An intent's id is a hash
  of label, item, scans and lease, so an intent *is* these; `Payloads` is what remains
  undetermined. `late` holds POSTs the terminal gave up on.
- *Tray.* `tray`/`trayFile` hold the intent the scans amount to and the contract's flag;
  `log` counts rows of a tray's own log file, `logged` remembers all.
- *Keyring.* A keyring is a set of kid and key; answers wait in `replies` and are applied
  later. Signatures are exact: a lease verifies iff its key is in the ring that is used.
- *Work groups.* A bundle is a set of units; the external ledger applies the topology a
  command names when the command's versions are current and works nothing out itself.
- *Outbox.* `rows` and `receipts` are the SQLite tables, `logs` the day's files, and the
  lane holds one task with what it has read; the flags are the window's.
- *Exchange.* Row status, receipt, rotation, saved tray and event are separate variables;
  a product set stands for a tray, a fence for a lease.
- *Hold.* The hold file is its state and sequence of scans; the writer thread's queue is
  `writer`; a scan's verdicts are counted in `log`, `completed`.
- *Parked trays, handoff, evidence.* A tray is its label and number of scans, the bytes of a
  file are a version number, a file's name is its place.
- *PHS.* A label is its instruction; the printer's output is counted per label, so an
  unexcused second copy is visible.
- *Gate and log.* The gate is its holder; the fence a record with one bit for exact or not;
  a row is its entry, a torn row a marker that glues to the next.
- *Relay.* A token is fence and sequence number; an identity a number; a delta's place is
  counted in complete lines and a hash is the file's generation with a length.
- *Registration.* A credential generation is the epoch the server gave it.

Field-by-field validation is reduced to what it decides: exact or not, present or not,
ours or not.

## 3. Runs

The four modules of seal, lease and keyring have runs of their own. The other components
keep their own files and tables and meet only through what each model already takes as
input, so several of them share a run: one module holds an instance of each, a variable
`part` names the one that is picked at the start, and only that one moves. A property of
such a run is a conjunction over its parts, each of named properties of the component
(`ScansKept` is `HoldTypeOK`, `AcceptedNeverLost`, `OneVerdict`, `HeldInOrder`,
`HeldForItsLabel` and `OneHoldPerLabel` of `PreflightHold`); the comment above it says what
they amount to. A component appears in several parts where one instance would be too large:
under different kinds of faults (`park` and `resume`; `log` and `torn`), roles (`shared`,
`refused` and `legacy` relay queues) or numbers.

In `Labels`, `Records`, `Push` and `Station` the components that section 5 proves something
about take their constants from the .cfg file, so that a theorem speaks of every value of them;
the others get theirs in the INSTANCE. Where such a component runs in several parts, a part
restricts the steps and nothing else: no damage in `offline`, no replacement of the file in
`grows`, runners that take turns in `replaced`, both and no damaged copy in `once`. `PROJECT.json` maps the definitions to the
source; small helpers whose lines another definition covers are left out of it.


Section 6 is about the run whose result is *violated*.

| Run | Checks | Shows |
|---|---|---|
| `tray` (`Tray.cfg`) | `CommandAfterEvidence`, `AckedIsProved`, `ResendIsAudited`, `CommandKeepsTray`, `TrayCompleteOnce`, `ImplementsContract` | Two intents over one lease with their trays, state file and log, with failed writes, lost and late POSTs, supervisor retries and restarts: evidence precedes every command, ACKED is proved, a review is resent only when audited, a command keeps its tray, TRAY_COMPLETE is recorded once, and the whole implements SealContract. |
| `seal` (`Seal.cfg`) | `OnePayloadPerKey`, `NeverOvertakes` | An intent under a lease and one without, whose payload depends on what the server resolves, with a fault, an audit, lost and late POSTs: one key never carries two payloads and no intent is attempted for the first time before an older confirmed one. |
| `lease` (`Lease.cfg`) | `OneLiveCentralLease`, `SettledWithServer` | The lease store over one label with three attempts: lost issue answers, replays, the RELEASED retry, expiry, a rotation learned late and process ends never put the label under two live leases, and what is settled at the terminal is settled the same way at the server. |
| `keyring` (`Keyring.cfg`) | `AcceptedStaysPinned`, `CompletedVerifies` | The pinned keyring with rotated keys, answers out of order and completions near a lease's end: an accepted artifact can be verified again for good, and a recorded completion lies within its lease. |
| `tray_files` (`TrayFiles.cfg`) | `ScansKept`, `WorkKept` | The preflight hold and the parked trays with crashes, failed writes, quarantine and restore: no accepted scan is lost, judged twice or put under another label, and no tray is lost, completed twice or taken up with scans missing. |
| `labels` (`Labels.cfg`) | `ExchangeAgrees`, `PhsSound`, `ReconSound`, `GroupSound` | Member exchange, label exchange, reconciliation and work-group seal, each with lost answers, restarts and the other party's changes: tray, lease and server agree after an exchange, no label is active before it is on paper, no central exchange is orphaned, and a tray is sealed with exactly what was scanned. |
| `records` (`Records.cfg`) | `PairKept`, `EvidenceKept`, `LogKept`, `OutboxSound`, `ClosedDrained` | Paired handoff, its evidence, the event log under the writer fence, the review outbox and the closing of the program: originals and rows survive every stop, a row is written once, a label whose evidence is damaged stays barred, and the window is destroyed only when its work has ended. |
| `push` (`Push.cfg`) | `RelaySound`, `CursorIsAcked`, `EachLineOnce` | The relay queue with competing processes, lost and late uploads and authority changes, and the scan of a growing or replaced source file: one claimant per row, ACKED only when stored, replays exact, the cursor only behind acknowledged bytes, no line left out. |
| `station` (`Station.cfg`) | `EnrollSound`, `ProfileSound`, `LifeSound`, `CatalogSound`, `SupervisorProved`, `NoticeVouched` | The operations on a station (registration and recovery, profile, onboarding and removal, catalog, administrator's code and login, update notice), each interrupted anywhere: credentials are never lost, a profile loads until the administrator's failed replacement of it is undone, a removed relay is quiet, a catalog is never rolled back, rights are proved and a notice is vouched for. |
| `settle` (`Settle.cfg`) | `ConfirmedSettles`, `CommittedSettles`, `LabelsSettle` | Under the stated fairness every confirmed seal, every committed member exchange and every begun label exchange or reconciliation is settled or handed to a person, whatever fails before. |
| `finish` (`Finish.cfg`) | `HeldSettles`, `FactsReported`, `RowsSettle`, `CloseEnds`, `EnrollmentEnds` | Under the stated fairness held scans get their verdict and a handoff ends, events and review facts reach the log, relay rows settle, closing ends with every waiter released, and a committed registration is activated. |
| `tray_rescan` (`TrayRescan.cfg`) | `ExactReceiptRecorded` | *Violated.* A rescan of the label after a lost seal answer turns the lease into CONSUMED_UNACKED, and the exact receipt found later cannot be recorded. |

**Bounds.** `MaxFaults` bounds the mishaps of a behaviour, and `FaultKinds` says which
kinds an instance allows (crash, failed write, lost request or answer, damage, slow
thread, an operator's or another terminal's intervention). One fault separates two
writes; a second hits the recovery of the first; a third is allowed where the instance
stays small. Other bounds are the smallest numbers at which the case of interest exists:
two intents or labels for order and sharing, three lease attempts for a release, a rotation
and a fresh attempt, three exchanges for two alternatives and their reversal, two relay
processes for a stolen claim, two generations of a file for a replaced one, two days for
a log that is no longer today's, one change of labels or bundles or one damaged answer for a sealing
(`GroupBounds`), three relays for a stop between two launches, two
workers for a tray taken over, three keys over a ring of two for a merge that is refused.
Work that has ended may stop (a closed program, an exhausted number of sessions, keys or
attempts), so deadlock is checked only where nothing may: `seal`, `tray` and `tray_rescan`.
Symmetry is used only for identifiers that no part of the instance tells apart, and not
in `settle` and `finish`, the runs with liveness properties.

**Fairness.** Each component states its fairness (`Fairness`, `SealFairness`) next to its
specification, and a liveness property reads `Fairness => P` for its own part, so no part
borrows what another one assumes. A part that was not picked stays in its initial state,
where nothing is begun that would have to end.
What is assumed throughout: a thread or task under way runs on (WF), the lane's timer callbacks fire
(WF), and the program is closed and opened again every day (SF of its end or restart, as
stations are). In addition:

- *seal*: a server asked again and again decides (SF of the definite answers, per intent); a
  startup recovery keeps being scheduled until it gets the lane. A station with an unresolved
  hold postpones its recovery, so the claim is about stations without one; holds have
  their own liveness (`HeldSettles`).
- *exchange*: attempt, application and end of a task WF; drain, reconcile and restart SF.
- *hold*: lookups, retries, writer, pump and drain WF; what a person decides takes longer than
  the local writes queued before it (`Quiet`); the operator acknowledges notices and logs in.
- *relay*: cycles start every 15 s, each row is claimed again and again (SF), a claim ends, a
  pause is lifted. A live clone of the installation may renew for ever and is left out.
- *PHS*: the operator opens the tray, answers the question about a reprint when it is asked, and
  resumes (SF). Another terminal's exchange and lost artifacts are left to the safety runs.
- *closing*: threads run and the Tk loop turns; work ends; a broken lane waits for a person.
- *log*: the log thread gets the gate (SF: it waits up to 5 s at each try), a lock file ages,
  the tool leaves the gate, and a session is resumed and released.
- *registration*: runs are started again and end, an authorization is issued, at most
  `MaxFails` runs die. `PromptPrepare` excludes the second registration case of section 6.
- *handoff*: the handler runs, the supervisor starts it again and finishes other work (SF);
  originals do not revert to an earlier content.
- *outbox*: lane worker, pump, callback, acknowledgement and login WF; the callback of an idle
  lane does not lose the race with a click on every day (`AdmitFirst`, SF).

The other modules are checked for safety only.

## 4. What is assumed of the outside

- The server answers one issue key with one lease, seals one key at most once, consumes the lease in
  the same transaction and repeats a receipt byte by byte; it repeats an exchange, a print attempt
  and a registration call under the same key in the same way.
- The ledger of `WorkGroupSeal` applies commands as they stand. A real one may refuse more.
- The clock of a terminal does not run back in `LeaseKeyring` (it does in `EventLog`).
- One coordinator thread per process; one installation or registration tool at a time; the program
  is not started while a removal or restoration is under way; the pin file may be damaged and put back
  intact, it is not removed.
- An atomic rename is atomic; a power loss may undo or tear appends that were not synced.
- The supervisor login's codes, names and texts are different things, and none of them is the
  empty name; no relay process is called "free".
- In `RecoveryEvidence` a file that was just compared is not damaged before the hold is written, and the
  supervisor's PIN is granted or refused (its detail is in `PairedHandoff`). In `ReviewOutbox` one
  generic notice tells all reviews that are active, and a supervisor's retry is any such task.

## 5. Proofs

`TransferSeal_proofs` proves of the lease store, for every set of labels, leases and intents that
satisfies `LeaseConstants` (attempts have one label, intents and leases are different
things), that `LeaseSpec` keeps its types, `OneUnresolvedPerLabel`,
`OneLiveCentralLease`, `SettledWithServer` and `LeaseHistoryKept`.

None of the invariants is inductive alone. `LeaseInv` adds:

- `PreflightSound`: a preflight in memory works for a persisted attempt, so the answer
  it applies never revives an attempt that does not exist, and RELEASED is final;
- `UnseenIsPending`: an attempt the server has not seen is still PENDING, so a late
  request creates a lease only for the attempt that is unresolved now;
- `ConsumerSound`: a rotation's successor is another lease of the same label, has one
  predecessor, and is unknown locally until the predecessor is settled;
- `LiveIsHeld`: whatever the server can still consume is held by an unresolved attempt,
  its own or its predecessor's. With at most one unresolved attempt per label this
  gives at most one live lease per label.

`LeaseInvStep` has one case per action and under it one step per conjunct the action
can disturb; the temporal theorems follow by PTL. `LeaseInv` was model-checked with the
`lease` instance before it was proved.

It proves of the composed system, for every set of intents, leases
and payloads and any number of faults and audits, `SealTypeOK`, `CommandAfterEvidence`,
`OnePayloadPerKey`, `OneCommandPerLease`, `AckedIsProved`, `ResendIsAudited`,
`OutcomeKept` and `ImplementsContract` (assumption `SealConstants`: an intent has at most
one lease, "no payload" is not a payload). The argument has three parts.

- `SealStepIsLeaseStep`: a step of the seal is a step of the lease store or leaves it
  alone, so `LeaseInv` is kept by the first proof and `SealSpec => LeaseSpec`
  (`SealUsesLeases`). This is where the seal must show that it respects what the lease
  store relies on: a completion is recorded only outside a member exchange, and the
  server consumes a lease only for the intent whose completion is recorded.
- `SealInv` adds what a task in memory relies on after each step. `CheckpointSound`: a
  confirmed intent is linked to its lease's completion, which is why a command may be
  bound after a restart by any task. `CompletionSound`: the task knows its tray's
  intent. `QueueSound`: what is still to be attempted is confirmed and pending, although
  the list was read before the attempts that precede it. `AttemptSound`: which facts
  hold between the steps of one attempt (a command from `send` on, the server's seal
  from `receipt` on, the lease's receipt at `ack`, an unused audit at the `send` of a
  reviewed intent).
- `SealStepOutcome`: of all steps only the confirmation accepts, the server seals,
  `record_error` reviews and `record_receipt` acknowledges, each as `SealContract` allows.

`LeaseKeyring_proofs` proves, for any leases, keys, sites, lifetimes, clock skew and number of
answers (assumption `KeyringAssumption`), `KeyringTypeOK`, `NeverRebound`, `AcceptedStaysPinned`
and `CompletedVerifies`. `KeyringInv` adds to the types that every accepted lease is covered
by the pins (`AllTrusted`; merging only adds), that the server has issued a lease once
(`OneToken`, so an answer applied late is the lease that is stored), and that a recorded completion
lies in its lease's time (`Timely`; the clock only moves forward between check and use).

`OldestBoundFirst` proves `NeverOvertakes`: a command is first bound for the oldest confirmed intent
that waits for its first attempt. There is no strict order beyond that: an intent that was attempted
before may be overtaken, as `docs/contracts.md` says. A task works on a list it read earlier, so `FifoInv` says that
whatever waits and is older than an intent the task has ahead is ahead too, and that the order
of creation is one of rows that exist.

`TrayCompletion_proofs` proves of the whole program of the tray, under the assumptions of the seal,
`CommandKeepsTray`, `TrayCompleteOnce`, the three action properties of the seal and
`ImplementsContract`. A step of the tray is a step of the seal or leaves it alone
(`TrayStepIsSealStep`), so `SealInv` is kept. `TrayInv` adds how far the saved tray may lag behind the
one on the screen, that the contract is on disk before the checkpoint is confirmed, and that a row that
may already be in the log is known from the saved contract.

The theorems of the modules below are about the composed specification of the run, for all values
of the constants the assumption admits. A step of another part leaves the component alone, so its
invariant is kept.

- `Station_proofs`. *Update notice* (`NoticeVouched`): what the program holds between two requests
  was announced at some time, and the publisher only adds to what was announced. *Login*
  (`SupervisorProved`): the installation's temporary file is narrowed before it is filled, and the
  mark of a proved code stands only while the field shows the administrator's name. *Lifecycle*
  (`LifeSound`): who holds the gate and the lease follows from the step each process is at, and
  from the moment a removal or containment stops looking, no relay is left that could begin to send;
  one case for each of 46 actions. *Catalogue* (`CatalogSound`): for each token, the files that
  are written so far, and the sequence that is still to be written, hold a list the server gave under
  it, not older than what was used under it. In the part without damage one of the two
  files of a completed refresh stays acceptable to a start without the server (`ListKept`). That such a
  start also succeeds is not claimed, see section 6.
  *Profile* (`ProfileSound`), for any values, bundles, tokens and faults. `ProfileInv` says for each
  kind of operation how the files stand to what it found and what it has made: an installation began
  with neither profile nor token and writes the profile last (`WhileInstalling`), a renewal changes
  the token only and both tokens were issued with the profile (`WhileRotating`), a bundle is there
  before the profile refers to it and goes after it (`WhileUpgrading`). What a program has read of
  the files goes with whatever may stand there when it reads on (`ReaderSound`). From the same
  invariant follows that a reported failure left the files as they were, an action property. By hand,
  with the same faults, an installation may write over a profile; `HandInv` says which files are there
  at each write and at each step of the undoing. A profile that loads goes on loading except while a
  failed replacement is undone (`StaysLoadable`), and what loads after a reported failure is what was
  there before (`FailsClosed`).
  *Registration* (`EnrollSound`), for a PC with or without registration files and any number of
  authorizations, failed runs and ended prepares. `EnrollInv` joins four views of a two-phase
  recovery: the server's generations follow each other and only the authorization in the file can
  still bring another (`ServerSound`); the journal is bound to what the server proposed, says
  committed only when the server has, and keeps the sealed package until it is COMPLETE
  (`JournalSound`); a run is where the journal let it take up the work (`RunSound`); a file is
  written only with the server's generation, and COMPLETE comes after all of them (`FilesSound`).
  The last two alone are not inductive: that a package still holds the current generation when a
  journal is taken up again needs that no other authorization has been committed meanwhile, which
  is what `ServerSound` says of the newest one. In one phase (`OnceInv`) the run that was given the
  newest generation is the one that writes, so neither secret nor credential goes back. That an
  authorization is deleted only when used is an action property of both.
- `Push_proofs`. The acknowledged and the queued lines are read back by `_read_delta_progress`, a
  walk along the ranges. It is a recursive function on 0..MaxLen; that it exists and that every line
  it passes is in a range is proved with the least element of a set of numbers (`Least`,
  from `WFMin`), since the induction theorems cannot be used. `NothingSkipped` (types and
  `NoGap` for any number of runners and replacements), `CursorIsAcked` and `EachLineOnce` follow
  from what holds of the delta a runner has built until it is queued and acknowledged.
- `Labels_proofs` (`ReconSound`). Three accounts of the same labels, the journal's, the centre's and
  the paper's, change at different steps; `ReconInv` says for each state of the journal and each step
  of the task what the other two may already or still say.
  *Work groups* (`GroupSound`), for any stations, units, labels, sources, damaged answers and
  receipts, and changes of labels, papers and bundles in between. `GroupInv` says: every unit
  is in one live bundle and of a source and its remainders one is live (`HeldSound`); the recorded
  roots are those of the labels and bundles (`LabelSound`); a bound command partitions the sources it
  names, and while the versions it expects are current it is what the ledger holds and what the label
  lists (`CommandSound`); a committed command left a transfer with just the scanned units, and its
  receipt can be told from the command alone (`SealSound`); a stored contract is that receipt
  (`StationSound`). The identifier of a remainder is never taken twice because each remainder
  has fewer units than the one before it.
- `Records_proofs`. *Outbox* (`OutboxSound`): a row of a fact is only in the log its outbox row names, a
  receipt is only written after its row, and while the lane writes a fact its outbox row is committed and
  names the day the lane has; so a row that is appended again is found by the check before.
  *Paired handoff* (`PairKept`): `PairInv` says where the only copy of an original can be at each step.
  `PlacesSound`: at most one record holds an archived hold file, the current file is archived only
  behind its own hold, and a tray of another label is in the slot or in an archive. `KeySound`: one
  key of a pair is not closed, and a pair is released as recorded only under a key the centre has
  consumed or one the login gave up as unverified and still holds. `OpSound`: what the handler may
  rely on of its key and its record between the durable writes, for each step. That only one pair waits
  at a time follows from these.
- `TrayFiles_proofs` (`ScansKept`), for any labels, products, sizes of tray, hold and queue and any
  faults. `HoldInv` has two halves. The files say what has been judged (`FilesInv`): only the head of
  the active hold may be saved or logged, and only of a hold whose tray is open (`HeadSound`); each
  identity has one hold and one label (`IdsSound`); a hold's scans are what it accepted and has not let
  go, in order (`ScansSound`); every accepted scan is logged or in a hold, and logged SCAN_OK just when
  a tray has it (`LogSound`). The window, the queue and the lane say which file is meant
  (`ControlInv`): an append can only reach the hold of the label on the screen (`AppendSound`,
  `PendingSound`), nothing else is written behind a drain (`DrainSound`, `DrainingSound`), and the hold
  that is drained is the one the window has read (`ReadSound`), although the window learns of each write
  only when the result is pumped. One lemma for each of 27 actions.

The conditions are those under which the code achieves it: the cursor needs runners that take
turns or a file that is not replaced (with both the run of section 6's table passes a waiting line), single queuing
needs turns, an unreplaced file and undamaged copies, a start without the server needs files that are not
damaged.

Every inductive invariant was model-checked on the instance of its run, or a smaller one, before it
was proved. Of the proved properties `LeaseTypeOK`, `OneUnresolvedPerLabel`, `LeaseHistoryKept`,
`SealTypeOK`, `OneCommandPerLease`, `OutcomeKept`, `KeyringTypeOK` and `NeverRebound` hold by proof
alone; the others are checked by a run as well. Only model-checked: `WorkKept`,
`ExchangeAgrees`, `PhsSound`, `EvidenceKept`, `LogKept`, `ClosedDrained`,
`RelaySound`, and, by nature of the prover, liveness.

## 6. Disagreements between code and documents

The run `tray_rescan` expects a violation: after a lost seal answer a rescan of the label makes the
lease CONSUMED_UNACKED, and the exact receipt found later is refused, although the contract says
that an exact receipt ends in ACKED. PROJECT.json quotes the line.

The following were met while modelling. Each is a behaviour of the model, reached under the faults
named; the instances of the passing runs leave out just those faults, or the properties name the case,
so that they say what the code does achieve.

| Component | What happens | Under |
|---|---|---|
| Tray completion | a completion retry is refused once its lease is ACKED or in review, so TRAY_COMPLETE can no longer be recorded by the retry the manual names | one failed append |
| Member exchange | a snapshot that cannot be read at the end of a task leaves the old one in place, and the tray can be taken away while the central result is open | one failed read |
| Member exchange | between the saved tray and its event the program dies; the reconcile marks the exchange APPLIED without any event | one crash |
| Preflight hold | a process that ends between the tray's save and the DRAINING mark leaves a hold that nothing drains or sets aside and that keeps the program from being closed | `crash` in `HeldSettles` |
| Relay queue | in enforce mode a legacy row's acknowledgement disables the authority another row holds; its identity is replaced and that row's receipt cannot be written | `Migrated` rows, `ClientMode = "enforce"` |
| Delta scan | the cursor's prefix hash is not compared after an acknowledgement, so it passes a line that still waits | two runners at once and a replaced file (excluded by `TakeTurns` and `GrowsStep`) |
| Reconciliation | the approval of one label's reprint is used for another label | `crash`, `disk` |
| Reconciliation | print attempts of a linked exchange are counted from 0, and the first request repeats the key of a failed attempt for ever | `elsewhere` in `LabelsSettle` |
| Parked trays | a recovery whose entry cannot be logged opens the work screen without the tray, and the next label writes over its only copy | `log` in `WorkKept` |
| Parked trays | after a crash while parking both copies are offered, and the older may be restored | `crash` in part `resume` |
| Parked trays | a restore contract that stays in memory is written into the next tray's file, which is then refused | `clear` |
| Parked trays | the moved original of a handed-over tray bars the restore of its parked copy | no fault |
| Closing | a close that is given up leaves its drained marks, and the next one skips the drains | `stage`, `flush`, `slowlog` in `ClosedDrained` |
| Profile | a failed replacement by hand unlinks the token it has written over, so the profile that was to be replaced no longer loads; before that, and for good where the tool dies or the unlinking fails, its values stand beside the new token | `write`, `crash`, `unlink` in part `by hand` |
| Catalogue | a start without the server, or after a refused refresh, is refused with REQUEST_FAILED_NO_CACHE although the recovery file holds a valid list, when `last_good` cannot be written again | two failed writes |
| Event log | a row appended behind half a row is lost with its outbox file | `power`, `tear` in `LogKept` |
| Registration | a run that dies after the manifest, whose authorization expires while only the intent is durable, or that dies after the identity file cannot be finished by running it again | `Fresh`, `~PromptPrepare` in `EnrollmentEnds` |
| Paired handoff | at the next login the current original of a recorded pair is put away where the handoff never looks; a PIN consumed with both answers lost is never resumed; an original that changes before the PIN reads it is never marked TARGET_CHANGED | `crash`, `redeem`, `touch` in `HeldSettles` |
| Recovery evidence | a pair whose record is gone, or whose manager's hold is damaged, can never be bound, and all work stays shut out | `damage` |
| Recovery evidence | a damaged log that is still written to undoes its own binding | `SameLogFile` in `EvidenceKept` |
| Lifecycle | a containment that succeeded is not recognised, because the two programs name the line of its result differently | any failed restoration |
| Lifecycle | a relay that waits more than 5 s behind a program start ends, and nothing starts it again within that logon | `slow` |
| Outbox | a queued replay is not run in the session if a completion takes the lane first | no fault |

## 7. Not modelled, and why

- Signatures, hashes, schemas and the fields of commands, answers and files: only their verdict.
- In `PreflightHold` the checks that a hold belongs to the worker who is logged in, when one is prepared
  and when one is restored: the part has one worker.
- Of the registration the one-phase part is checked for `GenerationForward` and `DeletedWhenUsed` only: there the
  secret is in memory alone until it is written, so a run that dies loses it and another registration is due.
- Widgets, layout, sounds, wording, local statistics, best times, label pictures, test trays.
- Access control lists, DPAPI, TLS, scheduled tasks, the registry beyond the Run value.
- The lookups of replacement and product exchange records (sequential and read-only), the append-only
  record of exchange blocks, retention of spooled copies, the operator's read-only reports, the PIN's
  own storage at the server.
- The one-time migration of a legacy installation's folders.
- Builds, packaging, screen capture, source analysis and qualification tools. The tools that
  change a station's state are modelled.

## 8. Plan

What remains is proof, in this order: `ClosedDrained` (what a closing task may still meet), the fence (`FencedOut`,
`DelegatedAlive`), `ExchangeAgrees` and `PhsSound` in the way of `Labels_proofs`, and the
queue (`OneClaimant`, `ReservationIntact`). Each goes into the proof module of its run, which gets
the constants of the component in its .cfg first.
