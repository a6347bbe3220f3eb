----------------------------- MODULE Enrollment -----------------------------
(***************************************************************************)
(* The registration tool of a worker PC: first enrollment with possession  *)
(* reattach, one-phase administrator recovery, and the two-phase recovery  *)
(* whose journal lets a run that died be resumed.  A run is a sequence of  *)
(* durable writes and server calls; RunFails ends it between any two of    *)
(* them (power loss, a lost request or reply, an unreadable answer), and   *)
(* only the files and the server remain.                                   *)
(*                                                                         *)
(* A credential generation is the epoch the server gives it.  The server   *)
(* is external: it is modelled from the answers the tool accepts.          *)
(***************************************************************************)
EXTENDS Naturals, FiniteSets

CONSTANTS
    Modes,         \* ways the tool is started: "self", "recover", "two"
    Fresh,         \* TRUE: the PC has no registration files when it starts
    MaxAuths,      \* bound: authorizations an administrator issues
    MaxFails,      \* bound: runs that die or lose a reply
    MaxEnds,       \* bound: prepares the server expires or aborts
    PromptPrepare  \* TRUE: nothing expires while only the intent is durable

EnrollmentAssumption ==
    /\ Modes \subseteq {"self", "recover", "two"}
    /\ Fresh \in BOOLEAN /\ PromptPrepare \in BOOLEAN
    /\ MaxAuths \in Nat /\ MaxFails \in Nat /\ MaxEnds \in Nat

VARIABLES
    journal,   \* the two-phase journal file
    archived,  \* authorizations whose terminal journal was archived
    package,   \* epoch sealed in the package file, 0 if there is none
    authFile,  \* authorization in the protected file, 0 if there is none
    files,     \* identity and manifest present; epoch of credential, secret
    report,    \* authorization of the last REGISTERED report, 0 if none
    srv,       \* the server: epoch, prepares, expired and spent ones
    run,       \* the running tool: where it is, and what it holds in memory
    fails, ends

vars == <<journal, archived, package, authFile, files, report, srv, run, fails, ends>>

Auths == 1 .. MaxAuths

Terminal == {"COMPLETE", "ABORTED", "EXPIRED"}

Uncommitted == {"PREPARED", "PACKAGED", "COMMIT_INTENT"}

Committed == {"SERVER_COMMITTED", "LOCAL_PERSISTED", "CLEANUP_INTENT"}

JournalStates == {"NONE", "PREPARE_INTENT"} \cup Uncommitted \cup Committed \cup Terminal

\* _ALLOWED_TRANSITIONS: what transition() lets a state become.
Allowed(from, to) ==
    to \in CASE from = "PREPARE_INTENT" -> {"PREPARED", "ABORTED"}
             [] from = "PREPARED" -> {"PACKAGED", "ABORTED", "EXPIRED"}
             [] from = "PACKAGED" -> {"COMMIT_INTENT", "ABORTED", "EXPIRED"}
             [] from = "COMMIT_INTENT" -> {"SERVER_COMMITTED", "ABORTED", "EXPIRED"}
             [] from = "SERVER_COMMITTED" -> {"LOCAL_PERSISTED"}
             [] from = "LOCAL_PERSISTED" -> {"CLEANUP_INTENT"}
             [] from = "CLEANUP_INTENT" -> {"COMPLETE"}
             [] OTHER -> {}

NoJournal == [state |-> "NONE", auth |-> 0, epoch |-> 0, sealed |-> 0]

Epochs == 0 .. (2 + MaxAuths + MaxFails)

PCs == {"idle", "enroll", "recover", "init", "resume", "prepare", "record",
        "stageStatus", "stage", "staged", "commitStatus", "commit",
        "accept", "activate", "identity", "manifest", "credential", "persisted",
        "cleanup", "unlink", "report", "complete", "final", "remove", "expire"}

Init ==
    /\ journal = NoJournal
    /\ archived = {}
    /\ package = 0
    /\ authFile = 0
    /\ files = IF Fresh THEN [identity |-> FALSE, manifest |-> FALSE, credential |-> 0, secret |-> 0]
                        ELSE [identity |-> TRUE, manifest |-> TRUE, credential |-> 1, secret |-> 0]
    /\ report = 0
    /\ srv = [epoch    |-> IF Modes = {"self"} THEN 0 ELSE 1,
              issued   |-> 0,
              expired  |-> {},
              prep     |-> [a \in Auths |-> "NONE"],
              proposed |-> [a \in Auths |-> 0]]
    /\ run = [pc |-> "idle", mode |-> "self", auth |-> 0, epoch |-> 0]
    /\ fails = 0
    /\ ends = 0

RunEnds == run' = [run EXCEPT !.pc = "idle", !.auth = 0, !.epoch = 0]

Goto(pc) == IF pc = "idle" THEN RunEnds ELSE run' = [run EXCEPT !.pc = pc]

\* transition(): a state it may not become raises, and the run ends.
Mark(to, next) ==
    IF Allowed(journal.state, to)
    THEN journal' = [journal EXCEPT !.state = to] /\ Goto(next)
    ELSE journal' = journal /\ RunEnds

LocalUnchanged == UNCHANGED <<archived, package, authFile, files, report>>

ServerUnchanged == UNCHANGED <<srv, fails, ends>>

-----------------------------------------------------------------------------
(* Starting a run *)

\* _load_admin_recovery_authorization: present and not expired.
AuthorizationLoads == authFile # 0 /\ authFile \notin srv.expired

\* _require_explicit_existing_identity_migration: one file without the other.
HalfRegistered == files.manifest # (files.credential # 0)

\* A COMPLETE journal whose REGISTERED report is on disk only needs its end.
CompletedBefore == journal.state = "COMPLETE" /\ authFile = 0 /\ report = journal.auth

\* _initial_possession_key: only a producer without identity may self-enroll.
MayEnroll == ~files.identity

\* The sealed package goes, with a terminal journal only.
RemovePackage == package' = 0

\* read_sealed_package: the file is there and has the hash of the journal.
PackageReadable == package # 0 /\ package = journal.sealed

\* A terminal journal loses its package, and gives way to another authorization.
ReopenTerminal ==
    /\ RemovePackage
    /\ IF AuthorizationLoads /\ authFile # journal.auth
       THEN /\ archived' = archived \cup {journal.auth}
            /\ journal' = NoJournal
            /\ run' = [pc |-> "init", mode |-> "two", auth |-> authFile, epoch |-> 0]
       ELSE UNCHANGED <<archived, journal, run>>
    /\ UNCHANGED <<authFile, files, report>>

\* Mutant: the journal of a committed recovery asks for its authorization again.
ResumeAt_Committed ==
    CASE journal.state = "NONE" -> IF AuthorizationLoads THEN "init" ELSE "idle"
      [] journal.state = "PREPARE_INTENT" ->
            IF AuthorizationLoads /\ authFile = journal.auth THEN "prepare" ELSE "idle"
      [] journal.state = "PREPARED" -> "resume"
      [] journal.state \in {"PACKAGED", "COMMIT_INTENT"} -> "commitStatus"
      [] OTHER -> "prepare"

\* The journal decides where a two-phase run takes up the work.
ResumeAt ==
    CASE journal.state = "NONE" -> IF AuthorizationLoads THEN "init" ELSE "idle"
      [] journal.state = "PREPARE_INTENT" ->
            IF AuthorizationLoads /\ authFile = journal.auth THEN "prepare" ELSE "idle"
      [] journal.state = "PREPARED" -> "resume"
      [] journal.state = "PACKAGED" -> "commitStatus"
      [] journal.state = "COMMIT_INTENT" -> "commitStatus"
      [] OTHER -> "activate"

StartTwoPhase ==
    /\ run.pc = "idle" /\ "two" \in Modes
    /\ IF CompletedBefore
       THEN /\ run' = [pc |-> "final", mode |-> "two", auth |-> journal.auth, epoch |-> journal.epoch]
            /\ UNCHANGED <<journal, archived, package, authFile, files, report>>
       ELSE /\ ~HalfRegistered
            /\ IF journal.state \in Terminal
               THEN ReopenTerminal
               ELSE /\ ResumeAt # "idle"
                    /\ run' = [pc |-> ResumeAt, mode |-> "two", epoch |-> journal.epoch,
                               auth |-> IF journal.state = "NONE" THEN authFile ELSE journal.auth]
                    /\ UNCHANGED journal /\ LocalUnchanged
    /\ ServerUnchanged

StartSelfEnroll ==
    /\ run.pc = "idle" /\ "self" \in Modes
    /\ ~HalfRegistered /\ MayEnroll
    /\ run' = [pc |-> "enroll", mode |-> "self", auth |-> 0, epoch |-> 0]
    /\ UNCHANGED journal /\ LocalUnchanged /\ ServerUnchanged

StartRecover ==
    /\ run.pc = "idle" /\ "recover" \in Modes
    /\ ~HalfRegistered /\ AuthorizationLoads
    /\ run' = [pc |-> "recover", mode |-> "recover", auth |-> authFile, epoch |-> 0]
    /\ UNCHANGED journal /\ LocalUnchanged /\ ServerUnchanged

-----------------------------------------------------------------------------
(* First enrollment and one-phase recovery *)

\* A new producer is CREATED at epoch 1.
Enroll ==
    /\ run.pc = "enroll" /\ srv.epoch = 0
    /\ srv' = [srv EXCEPT !.epoch = 1]
    /\ run' = [run EXCEPT !.pc = "activate", !.epoch = 1]
    /\ UNCHANGED <<journal, fails, ends>> /\ LocalUnchanged

\* A known producer proves possession of its key and is rotated.
Reattach ==
    /\ run.pc = "enroll" /\ srv.epoch > 0
    /\ srv' = [srv EXCEPT !.epoch = @ + 1]
    /\ run' = [run EXCEPT !.pc = "activate", !.epoch = srv.epoch + 1]
    /\ UNCHANGED <<journal, fails, ends>> /\ LocalUnchanged

\* The server consumes the authorization and rotates in one request.
Recover ==
    /\ run.pc = "recover"
    /\ IF srv.prep[run.auth] = "NONE" /\ run.auth \notin srv.expired
       THEN /\ srv' = [srv EXCEPT !.epoch = @ + 1, !.prep[run.auth] = "COMMITTED",
                                  !.proposed[run.auth] = srv.epoch + 1]
            /\ run' = [run EXCEPT !.pc = "activate", !.epoch = srv.epoch + 1]
       ELSE UNCHANGED srv /\ RunEnds
    /\ UNCHANGED <<journal, fails, ends>> /\ LocalUnchanged

-----------------------------------------------------------------------------
(* Two-phase recovery *)

Initialize ==
    /\ run.pc = "init"
    /\ run.auth \notin archived
    /\ journal' = [NoJournal EXCEPT !.state = "PREPARE_INTENT", !.auth = run.auth]
    /\ Goto("prepare")
    /\ LocalUnchanged /\ ServerUnchanged

\* The status the server signs for the prepare the journal is bound to.
SignedStatus == srv.prep[journal.auth]

\* What the signed status makes of an uncommitted journal.
Reconcile(stillPrepared, committed) ==
    CASE SignedStatus = "EXPIRED" -> Mark("EXPIRED", "expire")
      [] SignedStatus = "ABORTED" -> Mark("ABORTED", "idle")
      [] SignedStatus = "COMMITTED" -> committed
      [] OTHER -> stillPrepared

\* PREPARED is reconciled before the authorization file is read.
ResumePrepared ==
    /\ run.pc = "resume"
    /\ Reconcile(/\ IF AuthorizationLoads /\ authFile = journal.auth
                    THEN Goto("prepare") ELSE RunEnds
                 /\ UNCHANGED journal,
                 RunEnds /\ UNCHANGED journal)
    /\ LocalUnchanged /\ ServerUnchanged

\* The prepare request is idempotent: a pending one answers with its package.
Prepare ==
    /\ run.pc = "prepare"
    /\ LET a == run.auth
           available == \/ srv.prep[a] = "PREPARED"
                        \/ srv.prep[a] = "NONE" /\ a \notin srv.expired
           epoch == IF srv.prep[a] = "NONE" THEN srv.epoch + 1 ELSE srv.proposed[a]
       IN  IF available
           THEN /\ srv' = [srv EXCEPT !.prep[a] = "PREPARED", !.proposed[a] = epoch]
                /\ run' = [run EXCEPT !.pc = "record", !.epoch = epoch]
                /\ UNCHANGED journal
           ELSE /\ IF journal.state = "PREPARED"
                   THEN Reconcile(RunEnds /\ UNCHANGED journal, RunEnds /\ UNCHANGED journal)
                   ELSE RunEnds /\ UNCHANGED journal
                /\ UNCHANGED srv
    /\ LocalUnchanged /\ UNCHANGED <<fails, ends>>

\* The answer proves a pending generation above the first.
ProvesPending(epoch) == epoch >= 2

\* The answer proves the activation of the generation the journal prepared.
ProvesActivation == srv.prep[journal.auth] = "COMMITTED" /\ srv.proposed[journal.auth] = journal.epoch

\* record_prepared, or the comparison of a replayed answer with the journal.
RecordPrepared ==
    /\ run.pc = "record"
    /\ ProvesPending(run.epoch)
    /\ IF journal.state = "PREPARE_INTENT"
       THEN /\ journal' = [journal EXCEPT !.state = "PREPARED", !.epoch = run.epoch]
            /\ Goto("stageStatus")
       ELSE /\ UNCHANGED journal
            /\ IF journal.epoch = run.epoch THEN Goto("stageStatus") ELSE RunEnds
    /\ LocalUnchanged /\ ServerUnchanged

StageStatus ==
    /\ run.pc = "stageStatus"
    /\ Reconcile(Goto("stage") /\ UNCHANGED journal, RunEnds /\ UNCHANGED journal)
    /\ LocalUnchanged /\ ServerUnchanged

\* Mutant: only the journal is written.
StagePackage_Not ==
    /\ run.pc = "stage"
    /\ Goto("staged")
    /\ UNCHANGED <<journal, archived, package, authFile, files, report>> /\ ServerUnchanged

\* stage_sealed_package writes the package before the journal names its hash.
StagePackage ==
    /\ run.pc = "stage"
    /\ package' = run.epoch
    /\ Goto("staged")
    /\ UNCHANGED <<journal, archived, authFile, files, report>> /\ ServerUnchanged

StageMark ==
    /\ run.pc = "staged"
    /\ journal' = [journal EXCEPT !.state = "PACKAGED", !.sealed = package]
    /\ Goto("commitStatus")
    /\ LocalUnchanged /\ ServerUnchanged

\* The intent is durable before the status that decides about the commit.
CommitIntent ==
    /\ run.pc = "commitStatus" /\ journal.state = "PACKAGED"
    /\ Mark("COMMIT_INTENT", "commitStatus")
    /\ LocalUnchanged /\ ServerUnchanged

CommitStatus ==
    /\ run.pc = "commitStatus" /\ journal.state = "COMMIT_INTENT"
    /\ Reconcile(Goto("commit") /\ UNCHANGED journal, Goto("accept") /\ UNCHANGED journal)
    /\ LocalUnchanged /\ ServerUnchanged

\* The server activates a pending prepare once; an ended one is refused.
CommitRequest ==
    /\ run.pc = "commit"
    /\ LET a == journal.auth
       IN  IF srv.prep[a] = "PREPARED"
           THEN /\ srv' = [srv EXCEPT !.prep[a] = "COMMITTED", !.epoch = srv.proposed[a]]
                /\ Goto("accept")
           ELSE UNCHANGED srv /\ RunEnds
    /\ UNCHANGED <<journal, fails, ends>> /\ LocalUnchanged

AcceptCommit ==
    /\ run.pc = "accept"
    /\ ProvesActivation
    /\ Mark("SERVER_COMMITTED", "activate")
    /\ LocalUnchanged /\ ServerUnchanged

\* An expired journal loses its package at once.
RemoveExpired ==
    /\ run.pc = "expire"
    /\ RemovePackage
    /\ RunEnds
    /\ UNCHANGED <<journal, archived, authFile, files, report>> /\ ServerUnchanged

-----------------------------------------------------------------------------
(* Local persistence, shared by the three ways *)

\* The secret that is written and read back: that of the answer or the package.
NewSecret == IF run.mode = "two" THEN package ELSE run.epoch

\* _finalize_server_registration; a two-phase run takes the secret from the
\* sealed package, whose hash the journal holds.
Activate ==
    /\ run.pc = "activate"
    /\ IF run.mode = "two" /\ ~PackageReadable
       THEN RunEnds /\ UNCHANGED files
       ELSE /\ files' = [files EXCEPT !.secret = NewSecret]
            /\ run' = [run EXCEPT !.pc = "identity", !.epoch = NewSecret]
    /\ UNCHANGED <<journal, archived, package, authFile, report>> /\ ServerUnchanged

PersistIdentity ==
    /\ run.pc = "identity"
    /\ files' = [files EXCEPT !.identity = TRUE]
    /\ Goto("manifest")
    /\ UNCHANGED <<journal, archived, package, authFile, report>> /\ ServerUnchanged

PersistManifest ==
    /\ run.pc = "manifest"
    /\ files' = [files EXCEPT !.manifest = TRUE]
    /\ Goto("credential")
    /\ UNCHANGED <<journal, archived, package, authFile, report>> /\ ServerUnchanged

PersistCredential ==
    /\ run.pc = "credential"
    /\ files' = [files EXCEPT !.credential = run.epoch]
    /\ Goto(CASE run.mode = "two" -> "persisted" [] run.mode = "recover" -> "unlink"
              [] OTHER -> "report")
    /\ UNCHANGED <<journal, archived, package, authFile, report>> /\ ServerUnchanged

\* A resumed run may find these two transitions made.
MarkLocalPersisted ==
    /\ run.pc = "persisted"
    /\ IF journal.state = "SERVER_COMMITTED"
       THEN Mark("LOCAL_PERSISTED", "cleanup")
       ELSE Goto("cleanup") /\ UNCHANGED journal
    /\ LocalUnchanged /\ ServerUnchanged

MarkCleanupIntent ==
    /\ run.pc = "cleanup"
    /\ IF journal.state = "LOCAL_PERSISTED"
       THEN Mark("CLEANUP_INTENT", "unlink")
       ELSE Goto("unlink") /\ UNCHANGED journal
    /\ LocalUnchanged /\ ServerUnchanged

UnlinkAuthorization ==
    /\ run.pc = "unlink"
    /\ authFile' = 0
    /\ Goto("report")
    /\ UNCHANGED <<journal, archived, package, files, report>> /\ ServerUnchanged

WriteReport ==
    /\ run.pc = "report"
    /\ report' = run.auth
    /\ IF run.mode = "two" THEN Goto("complete") ELSE RunEnds
    /\ UNCHANGED <<journal, archived, package, authFile, files>> /\ ServerUnchanged

MarkComplete ==
    /\ run.pc = "complete"
    /\ Mark("COMPLETE", "final")
    /\ LocalUnchanged /\ ServerUnchanged

FinishComplete ==
    /\ run.pc = "final"
    /\ report' = journal.auth
    /\ RemovePackage
    /\ RunEnds
    /\ UNCHANGED <<journal, archived, authFile, files>> /\ ServerUnchanged

-----------------------------------------------------------------------------
(* The world around a run *)

RunFails ==
    /\ run.pc # "idle" /\ fails < MaxFails
    /\ RunEnds
    /\ fails' = fails + 1
    /\ UNCHANGED <<journal, srv, ends>> /\ LocalUnchanged

\* An administrator issues another authorization into the protected file,
\* when no run is under way and the one there cannot be used any more.
IssueAuthorization ==
    /\ run.pc = "idle" /\ srv.issued < MaxAuths
    /\ {"two", "recover"} \cap Modes # {}
    /\ journal.state \notin Committed
    /\ authFile # 0 => authFile \in srv.expired \/ srv.prep[authFile] = "COMMITTED"
    /\ authFile' = srv.issued + 1
    /\ srv' = [srv EXCEPT !.issued = @ + 1]
    /\ UNCHANGED <<journal, archived, package, files, report, run, fails, ends>>

AuthorizationExpires ==
    /\ ends < MaxEnds
    /\ \E a \in 1 .. srv.issued :
          /\ a \notin srv.expired /\ srv.prep[a] = "NONE"
          /\ ~PromptPrepare
          /\ srv' = [srv EXCEPT !.expired = @ \cup {a}]
    /\ ends' = ends + 1
    /\ UNCHANGED <<journal, run, fails>> /\ LocalUnchanged

PrepareEnds ==
    /\ ends < MaxEnds
    /\ \E a \in 1 .. srv.issued, how \in {"EXPIRED", "ABORTED"} :
          /\ srv.prep[a] = "PREPARED"
          /\ PromptPrepare => journal.state # "PREPARE_INTENT"
          /\ srv' = [srv EXCEPT !.prep[a] = how, !.expired = @ \cup {a}]
    /\ ends' = ends + 1
    /\ UNCHANGED <<journal, run, fails>> /\ LocalUnchanged

Starts == StartTwoPhase \/ StartSelfEnroll \/ StartRecover

Steps ==
    \/ Enroll \/ Reattach \/ Recover \/ Initialize \/ ResumePrepared \/ Prepare \/ RecordPrepared
    \/ StageStatus \/ StagePackage \/ StageMark \/ CommitIntent \/ CommitStatus
    \/ CommitRequest \/ AcceptCommit \/ RemoveExpired \/ Activate \/ PersistIdentity
    \/ PersistManifest \/ PersistCredential \/ MarkLocalPersisted \/ MarkCleanupIntent
    \/ UnlinkAuthorization \/ WriteReport \/ MarkComplete \/ FinishComplete

Next == Starts \/ Steps \/ RunFails \/ IssueAuthorization \/ AuthorizationExpires \/ PrepareEnds

Spec == Init /\ [][Next]_vars

\* A started run goes on by itself; an operator starts the tool again until it
\* succeeds, and an administrator answers the need for another authorization.
Fairness == WF_vars(Starts) /\ WF_vars(Steps) /\ WF_vars(IssueAuthorization)

-----------------------------------------------------------------------------
(* Properties *)

\* The type invariant of the registration tool's files, memory and server.
EnrollmentTypeOK ==
    /\ journal \in [state : JournalStates, auth : 0 .. MaxAuths, epoch : Epochs, sealed : Epochs]
    /\ archived \subseteq Auths
    /\ package \in Epochs
    /\ authFile \in 0 .. MaxAuths
    /\ files \in [identity : BOOLEAN, manifest : BOOLEAN, credential : Epochs, secret : Epochs]
    /\ report \in 0 .. MaxAuths
    /\ srv.epoch \in Epochs /\ srv.issued \in 0 .. MaxAuths /\ srv.expired \subseteq Auths
    /\ srv.prep \in [Auths -> {"NONE", "PREPARED", "COMMITTED", "ABORTED", "EXPIRED"}]
    /\ srv.proposed \in [Auths -> Epochs]
    /\ run \in [pc : PCs, mode : {"self", "recover", "two"}, auth : 0 .. MaxAuths, epoch : Epochs]
    /\ fails \in 0 .. MaxFails /\ ends \in 0 .. MaxEnds

\* Once the server has switched to a prepared generation, its secret is on this
\* PC: activated, or in the sealed package under a journal that still leads to
\* it.  The server shows the secret of a prepare only while it is pending.
SecretKept ==
    \A a \in Auths :
        srv.prep[a] = "COMMITTED" /\ srv.epoch = srv.proposed[a] =>
            \/ files.credential = srv.epoch /\ files.secret = srv.epoch
            \/ /\ journal.auth = a /\ journal.state \in {"COMMIT_INTENT"} \cup Committed
               /\ package = srv.epoch /\ journal.sealed = package

\* A COMPLETE journal means that the PC holds the server's generation, whole,
\* and that the authorization it used up is no longer on disk.
CompleteMeansActive ==
    journal.state = "COMPLETE" =>
        /\ files.identity /\ files.manifest
        /\ files.credential = srv.epoch /\ files.secret = srv.epoch
        /\ authFile # journal.auth
        /\ report = journal.auth

\* A recovery recorded as expired or aborted is never committed by the server,
\* neither before nor after the record: the old credential stays the valid one.
EndedNeverCommits ==
    \A a \in Auths :
        \/ a = journal.auth /\ journal.state \in {"ABORTED", "EXPIRED"}
        \/ a \in archived /\ srv.prep[a] # "COMMITTED"
        => srv.prep[a] \in {"ABORTED", "EXPIRED"}

\* The protected authorization is deleted only when what it was issued for is
\* done: the credential on this PC is the server's current one.
DeletedWhenUsed ==
    [][authFile # 0 /\ authFile' = 0 =>
          files.credential = srv.epoch /\ files.secret = srv.epoch]_vars

\* Neither the stored secret nor the credential ever goes back to an earlier
\* generation, whatever run is resumed after whatever other run.
GenerationForward == files'.secret >= files.secret /\ files'.credential >= files.credential

Active == files.credential = srv.epoch /\ files.secret = srv.epoch

\* A generation the server has switched to becomes the PC's own: while the PC
\* lags behind, a run of the tool in the end catches up.
CommittedActivated == srv.epoch > files.credential ~> Active

\* A recovery whose intent is durable ends: it completes, is aborted or expires.
RecoveryEnds == journal.state = "PREPARE_INTENT" ~> journal.state \in Terminal

=============================================================================
