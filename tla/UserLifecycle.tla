---------------------------- MODULE UserLifecycle ----------------------------
(***************************************************************************)
(* Setting the program up for a worker and taking it down again            *)
(* (current_user_onboarding.py, user_relay.py): the start of the program   *)
(* with its onboarding, the removal, the restoration after a replacement   *)
(* that was undone, and the relay processes they start and stop by a Run   *)
(* value, a stop file and a named lease.  The writer gate is exclusive: a  *)
(* start and a restoration hold it from beginning to end, everyone else    *)
(* for one write, and a writer that waits longer than 5 s fails.           *)
(***************************************************************************)
EXTENDS Naturals, FiniteSets

CONSTANTS
  Relays,         \* relay processes that can exist at a time (bound)
  FaultKinds, MaxFaults

(* No process has the name of the lease that nobody holds.                 *)
LifecycleAssumption == MaxFaults \in Nat /\ IsFiniteSet(Relays) /\ "free" \notin Relays

VARIABLES
  owner,     \* identity, credential, profile: "absent", "retry", "partial", "admin" or "ready"
  run,       \* the Run value that starts a relay at logon
  stop,      \* the stop file
  gate,      \* the writer gate
  gui,       \* the program
  tool,      \* a removal or a restoration: [kind, pc, wrong], wrong being what a restoration finds amiss
  relays, lease,
  report,    \* what onboarding, removal and restoration reported last
  faults

vars == <<owner, run, stop, gate, gui, tool, relays, lease, report, faults>>

Idle == [kind |-> "none", pc |-> "none", wrong |-> "none"]
NoReport == [onboard |-> "none", removal |-> "none", restore |-> "none", contain |-> "none", adapter |-> "none"]

Init ==
  /\ owner \in {"absent", "partial"} /\ run = FALSE /\ stop = FALSE /\ gate = "free"
  /\ gui = "closed" /\ tool = Idle /\ relays = [r \in Relays |-> "none"] /\ lease = "free"
  /\ report = NoReport /\ faults = 0

Mishap(kind) == kind \in FaultKinds /\ faults < MaxFaults /\ faults' = faults + 1
Smooth == faults' = faults

(* ------------------------------------------------------ the writer gate -- *)
Waiting == gui = "gate" \/ tool.pc \in {"run", "stop", "report", "gate"} \/ \E r \in Relays : relays[r] \in {"admit", "status", "final"}
Free == gate = "free"
(* Nobody waits for ever: 5 s at a gate that is held, and the first to be  *)
(* let in after its holder died is turned away as well.                    *)
WRITER_GATE_TIMEOUT == gate \in {"gui", "tool"} /\ Mishap("slow") /\ UNCHANGED gate
WRITER_GATE_ABANDONED == gate = "abandoned" /\ Smooth /\ gate' = "free"
Denied == WRITER_GATE_TIMEOUT \/ WRITER_GATE_ABANDONED
Released == gate' = "free"

(* ----------------------------------------------------- a relay process -- *)
Spare == {r \in Relays : relays[r] = "none"}
Launched == relays' = IF Spare = {} THEN relays ELSE [relays EXCEPT ![CHOOSE r \in Spare : TRUE] = "admit"]
To(r, pc) == relays' = [relays EXCEPT ![r] = pc]
Ended(r) == To(r, "none") /\ lease' = IF lease = r THEN "free" ELSE lease

Admission(r) ==
  /\ relays[r] = "admit"
  /\ \/ Free /\ Smooth /\ To(r, "check") /\ UNCHANGED gate
     \/ Denied /\ To(r, "none")
  /\ UNCHANGED <<owner, run, stop, gui, tool, lease, report>>
main(r) ==
  /\ relays[r] = "check" /\ Smooth /\ To(r, IF stop THEN "none" ELSE "lease")
  /\ UNCHANGED <<owner, run, stop, gate, gui, tool, lease, report>>

acquire_runtime_instance(r) ==
  /\ relays[r] = "lease" /\ Smooth
  /\ IF lease = "free" THEN lease' = r /\ To(r, "loop") ELSE UNCHANGED lease /\ To(r, "none")
  /\ UNCHANGED <<owner, run, stop, gate, gui, tool, report>>

run_persistent_relay_loop(r) ==
  /\ relays[r] = "loop" /\ Smooth /\ To(r, IF stop THEN "final" ELSE "cycle")
  /\ UNCHANGED <<owner, run, stop, gate, gui, tool, lease, report>>
_runtime_cycle(r) ==
  /\ relays[r] = "cycle" /\ Smooth /\ To(r, "status")
  /\ UNCHANGED <<owner, run, stop, gate, gui, tool, lease, report>>
(* The status is written outside the try: a writer that is turned away     *)
(* ends the process.                                                       *)
WriteStatus(r) ==
  /\ relays[r] = "status"
  /\ \/ Free /\ Smooth /\ To(r, "wait") /\ UNCHANGED <<gate, lease>>
     \/ Denied /\ Ended(r)
  /\ UNCHANGED <<owner, run, stop, gui, tool, report>>
_wait_with_stop_checks(r) ==
  /\ relays[r] = "wait" /\ Smooth /\ To(r, IF stop THEN "final" ELSE "loop")
  /\ UNCHANGED <<owner, run, stop, gate, gui, tool, lease, report>>
WriteStopped(r) ==
  /\ relays[r] = "final"
  /\ (Free /\ Smooth /\ UNCHANGED gate) \/ Denied
  /\ Ended(r) /\ UNCHANGED <<owner, run, stop, gui, tool, report>>

(* --------------------------------------- the program and its onboarding -- *)
Step(pc) == gui' = pc
Failed == Step("fail") /\ UNCHANGED <<owner, run, stop, relays>>

OpenProgram ==
  /\ gui = "closed" /\ tool = Idle /\ Smooth /\ Step("gate")
  /\ UNCHANGED <<owner, run, stop, gate, tool, relays, lease, report>>
_prepare_gui_startup ==
  /\ gui = "gate"
  /\ \/ Free /\ Smooth /\ gate' = "gui" /\ Step("inspect")
     \/ Denied /\ Step("closed")
  /\ UNCHANGED <<owner, run, stop, tool, relays, lease, report>>
verify_bootstrap_integrity ==
  /\ gui = "inspect" /\ Mishap("integrity") /\ Failed
  /\ UNCHANGED <<gate, tool, lease, report>>
inspect_current_user_state ==
  /\ gui = "inspect" /\ Smooth
  /\ Step(CASE owner = "ready" -> "ledger" [] owner \in {"absent", "retry"} -> "register"
            [] owner \in {"partial", "admin"} -> "fail")
  /\ UNCHANGED <<owner, run, stop, gate, tool, relays, lease, report>>
_registration_runner ==
  /\ gui = "register"
  /\ \/ Smooth /\ owner' = "ready" /\ Step("ledger")
     \/ Mishap("register") /\ owner' \in {"retry", "partial", "admin"} /\ Step("fail")
  /\ UNCHANGED <<run, stop, gate, tool, relays, lease, report>>
_create_ledger ==
  /\ gui = "ledger"
  /\ \/ Smooth /\ Step("unstop") /\ UNCHANGED <<owner, run, stop, relays>>
     \/ Mishap("ledger") /\ Failed
  /\ UNCHANGED <<gate, tool, lease, report>>
Again == report' = [report EXCEPT !.removal = "none", !.restore = "none", !.contain = "none"]

Unstop ==
  /\ gui = "unstop" /\ Smooth /\ stop' = FALSE /\ Again /\ Step("run")
  /\ UNCHANGED <<owner, run, gate, tool, relays, lease>>
install_user_relay_autostart ==
  /\ gui = "run"
  /\ \/ Smooth /\ run' = TRUE /\ Step("launch")
     \/ Mishap("registry") /\ run' \in {TRUE, run} /\ Step("fail")
  /\ UNCHANGED <<owner, stop, gate, tool, relays, lease, report>>
start_user_relay_process ==
  /\ gui = "launch"
  /\ \/ Smooth /\ Launched /\ Step("report") /\ UNCHANGED <<owner, run, stop>>
     \/ Mishap("launch") /\ Failed
  /\ UNCHANGED <<gate, tool, lease, report>>
onboard_current_user ==
  /\ gui \in {"report", "fail"} /\ Smooth
  /\ report' = [report EXCEPT !.onboard = IF gui = "report" THEN "READY" ELSE "FAILED"]
  /\ IF gui = "report" THEN Step("startup") /\ UNCHANGED gate ELSE Step("closed") /\ Released
  /\ UNCHANGED <<owner, run, stop, tool, relays, lease>>
(* The rest of the start, its dialogs included, under the same gate.       *)
Started ==
  /\ gui = "startup" /\ Smooth /\ Released /\ Step("open")
  /\ UNCHANGED <<owner, run, stop, tool, relays, lease, report>>
Close ==
  /\ gui = "open" /\ Smooth /\ Step("closed")
  /\ UNCHANGED <<owner, run, stop, gate, tool, relays, lease, report>>

(* ------------------------------------------------------------- removal -- *)
Tool(pc) == tool' = [tool EXCEPT !.pc = pc]
(* By hand, or by the session adapter to contain a restoration that failed.*)
StartRemoval(kind) ==
  /\ tool = Idle /\ gui \in {"closed", "open"} /\ Smooth
  /\ kind = "contain" => report.restore = "FAILED"
  /\ tool' = [kind |-> kind, pc |-> "run", wrong |-> "none"]
  /\ report' = [report EXCEPT !.removal = "none", !.adapter = "none"]
  /\ UNCHANGED <<owner, run, stop, gate, gui, relays, lease>>
remove_user_relay_autostart ==
  /\ tool.pc = "run" /\ tool.kind # "restore"
  /\ \/ Free /\ Smooth /\ run' = FALSE /\ Tool("stop") /\ UNCHANGED gate
     \/ Denied /\ Tool("failed") /\ UNCHANGED run
     \/ Free /\ Mishap("registry") /\ Tool("failed") /\ UNCHANGED <<run, gate>>
  /\ UNCHANGED <<owner, stop, gui, relays, lease, report>>
request_user_relay_stop ==
  /\ tool.pc = "stop"
  /\ \/ Free /\ Smooth /\ stop' = TRUE /\ Tool("poll") /\ UNCHANGED gate
     \/ Denied /\ Tool("failed") /\ UNCHANGED stop
  /\ UNCHANGED <<owner, run, gui, relays, lease, report>>

(* Mutant: the end of the wait counts as the end of the relay.             *)
MutPoll ==
  /\ tool.pc = "poll" /\ Smooth /\ Tool("report")
  /\ UNCHANGED <<owner, run, stop, gate, gui, relays, lease, report>>

(* The lease is free, or 10 s are over.                                    *)
PollLease ==
  /\ tool.pc = "poll" /\ Smooth
  /\ (lease = "free" /\ Tool("report")) \/ (lease # "free" /\ Tool("unknown"))
  /\ UNCHANGED <<owner, run, stop, gate, gui, relays, lease, report>>
Outcome == CASE tool.pc = "report" -> "PASS" [] tool.pc = "unknown" -> "UNKNOWN" [] tool.pc = "failed" -> "FAILED"

(* What the command prints, and what the adapter looks for in it.          *)
removal_main == {"current_user_removal_status", "data_preserved", "current_user_removal_report"}
LooksFor == {"removal_status", "removal_report"}
Verdict == IF Outcome = "PASS" /\ LooksFor \subseteq removal_main THEN "PASS" ELSE "FAIL"

remove_current_user_setup ==
  /\ tool.pc \in {"report", "unknown", "failed"} /\ tool.kind # "restore"
  /\ \/ Free /\ Smooth /\ UNCHANGED gate
        /\ report' = [report EXCEPT !.removal = Outcome,
                        !.adapter = IF tool.kind = "contain" THEN Verdict ELSE "none"]
     \/ Denied /\ UNCHANGED report
  /\ tool' = Idle /\ UNCHANGED <<owner, run, stop, gui, relays, lease>>

(* --------------------------- restoration after a replacement was undone -- *)
Wrongs == {"artifact", "elevated", "arguments", "receipt", "siblings", "restored_tree", "failed_tree", "contract", "changed"}

(* The adapter has taken the old setup down before.                        *)
StartRestore ==
  /\ tool = Idle /\ gui = "closed" /\ report.removal = "PASS"
  /\ \/ Smooth /\ tool' = [kind |-> "restore", pc |-> "gate", wrong |-> "none"]
     \/ Mishap("receipt") /\ \E w \in Wrongs : tool' = [kind |-> "restore", pc |-> "gate", wrong |-> w]
  /\ UNCHANGED <<owner, run, stop, gate, gui, relays, lease, report>>
GateRestore ==
  /\ tool.pc = "gate"
  /\ \/ Free /\ Smooth /\ gate' = "tool" /\ Tool("verify")
     \/ Denied /\ tool' = Idle
  /\ UNCHANGED <<owner, run, stop, gui, relays, lease, report>>
(* One stage after the other; the first that does not hold ends it before  *)
(* anything was changed.                                                   *)
Stage(pc, next, holds) ==
  /\ tool.pc = pc /\ Smooth /\ Tool(IF holds THEN next ELSE "refused")
  /\ UNCHANGED <<owner, run, stop, gate, gui, relays, lease, report>>
_owner_artifact_fingerprints == tool.wrong # "artifact"
_inspect_current_process_execution_context == tool.wrong # "elevated"
BoundArguments == tool.wrong # "arguments"
_read_pinned_json == tool.wrong # "receipt"
NoOtherTransaction == tool.wrong # "siblings"
_read_replacement_tree_identity == tool.wrong \notin {"restored_tree", "failed_tree"}
WriterContractBound == tool.wrong # "contract"
OWNER_ARTIFACT_READBACK == Stage("verify", "context", _owner_artifact_fingerprints)
EXECUTION_CONTEXT == Stage("context", "binding", _inspect_current_process_execution_context)
RECEIPT_BINDING == Stage("binding", "trees", BoundArguments /\ _read_pinned_json /\ NoOtherTransaction)
RESTORED_CODE_READBACK == Stage("trees", "owner", _read_replacement_tree_identity /\ WriterContractBound)
OWNER_STATE_READBACK == Stage("owner", "unstop", owner = "ready")
QUIESCENCE_RELEASE ==
  /\ tool.pc = "unstop" /\ Smooth
  /\ IF stop THEN stop' = FALSE /\ Tool("rrun") /\ Again ELSE UNCHANGED <<stop, report>> /\ Tool("refused")
  /\ UNCHANGED <<owner, run, gate, gui, relays, lease>>
RUN_RESTORE ==
  /\ tool.pc = "rrun"
  /\ \/ Smooth /\ run' = TRUE /\ Tool("rlaunch")
     \/ Mishap("registry") /\ run' \in {TRUE, run} /\ Tool("crun")
  /\ UNCHANGED <<owner, stop, gate, gui, relays, lease, report>>
RELAY_START ==
  /\ tool.pc = "rlaunch"
  /\ \/ Smooth /\ Launched /\ Tool("rfinal")
     \/ Mishap("launch") /\ UNCHANGED relays /\ Tool("crun")
  /\ UNCHANGED <<owner, run, stop, gate, gui, lease, report>>
(* The owner's files are as they were before.                              *)
OWNER_ARTIFACT_FINAL_READBACK ==
  /\ tool.pc = "rfinal" /\ Smooth /\ Tool(IF tool.wrong = "changed" THEN "crun" ELSE "rreport")
  /\ UNCHANGED <<owner, run, stop, gate, gui, relays, lease, report>>
REPORT_PERSISTENCE ==
  /\ tool.pc = "rreport"
  /\ \/ /\ Smooth /\ report' = [report EXCEPT !.restore = "READY"] /\ tool' = Idle /\ Released
     \/ /\ Mishap("report") /\ Tool("crun") /\ UNCHANGED <<report, gate>>
  /\ UNCHANGED <<owner, run, stop, gui, relays, lease>>
ContainRun ==
  /\ tool.pc = "crun"
  /\ \/ Smooth /\ run' = FALSE /\ Tool("cstop")
     \/ Mishap("registry") /\ UNCHANGED run /\ Tool("cfailed")
  /\ UNCHANGED <<owner, stop, gate, gui, relays, lease, report>>

ContainStop ==
  /\ tool.pc = "cstop" /\ Smooth /\ stop' = TRUE /\ Tool("cpoll")
  /\ UNCHANGED <<owner, run, gate, gui, relays, lease, report>>
(* The wait is within the gate, unlike the removal's: a relay that is      *)
(* already running cannot write its last status.                           *)
ContainPoll ==
  /\ tool.pc = "cpoll" /\ Smooth
  /\ Tool(IF lease = "free" THEN "cpass" ELSE "cfailed")
  /\ UNCHANGED <<owner, run, stop, gate, gui, relays, lease, report>>
restore_current_user_lifecycle_after_replacement ==
  /\ tool.pc \in {"refused", "cpass", "cfailed"} /\ Smooth
  /\ report' = [report EXCEPT !.restore = "FAILED",
        !.contain = CASE tool.pc = "refused" -> "NOT_REQUIRED" [] tool.pc = "cpass" -> "PASS_SAFE_QUIESCENT"
                      [] tool.pc = "cfailed" -> "FAILED"]
  /\ tool' = Idle /\ Released /\ UNCHANGED <<owner, run, stop, gui, relays, lease>>

----------------------------------------------------------------------------
(* -------------------------------------------------------- surroundings -- *)
(* The day ends: every process ends, the Run value starts a relay at the   *)
(* next logon.  A day is longer than the start of a relay.                 *)
Fresh ==
  /\ gui' = "closed" /\ tool' = Idle /\ gate' = "free" /\ lease' = "free"
  /\ LET none == [r \in Relays |-> "none"] IN
     relays' = IF run THEN [none EXCEPT ![CHOOSE r \in Relays : TRUE] = "admit"] ELSE none
Relogon ==
  /\ gui = "closed" /\ tool = Idle /\ Smooth /\ Fresh
  /\ \A r \in Relays : relays[r] \notin {"admit", "check", "lease", "loop"}
  /\ UNCHANGED <<owner, run, stop, report>>
Crash ==
  /\ gui \notin {"closed", "open", "gate"} /\ Mishap("crash") /\ Step("closed")
  /\ gate' = IF Waiting THEN "abandoned" ELSE "free"
  /\ owner' = IF gui = "register" THEN "partial" ELSE owner
  /\ UNCHANGED <<run, stop, tool, relays, lease, report>>
(* Nobody waits any longer: the gate goes with its last user.              *)
Forgotten ==
  /\ gate = "abandoned" /\ ~Waiting /\ gate' = "free" /\ Smooth
  /\ UNCHANGED <<owner, run, stop, gui, tool, relays, lease, report>>
AdminRepairs ==
  /\ owner \in {"partial", "admin"} /\ gui = "closed" /\ Smooth /\ owner' \in {"absent", "ready"}
  /\ UNCHANGED <<run, stop, gate, gui, tool, relays, lease, report>>

Relay(r) ==
  \/ Admission(r) \/ main(r) \/ acquire_runtime_instance(r) \/ run_persistent_relay_loop(r)
  \/ _runtime_cycle(r) \/ WriteStatus(r) \/ _wait_with_stop_checks(r) \/ WriteStopped(r)
Program ==
  \/ _prepare_gui_startup \/ verify_bootstrap_integrity \/ inspect_current_user_state
  \/ _registration_runner \/ _create_ledger \/ Unstop \/ install_user_relay_autostart
  \/ start_user_relay_process \/ onboard_current_user \/ Started
Tools ==
  \/ remove_user_relay_autostart \/ request_user_relay_stop \/ PollLease \/ remove_current_user_setup
  \/ GateRestore \/ OWNER_ARTIFACT_READBACK \/ EXECUTION_CONTEXT \/ RECEIPT_BINDING
  \/ RESTORED_CODE_READBACK \/ OWNER_STATE_READBACK \/ QUIESCENCE_RELEASE \/ RUN_RESTORE \/ RELAY_START
  \/ OWNER_ARTIFACT_FINAL_READBACK \/ REPORT_PERSISTENCE \/ ContainRun \/ ContainStop \/ ContainPoll
  \/ restore_current_user_lifecycle_after_replacement
Next ==
  \/ \E r \in Relays : Relay(r)
  \/ Program \/ Tools \/ OpenProgram \/ Close
  \/ \E k \in {"remove", "contain"} : StartRemoval(k)
  \/ StartRestore \/ Relogon \/ Crash \/ Forgotten \/ AdminRepairs
Spec == Init /\ [][Next]_vars

----------------------------------------------------------------------------
(* Types; the gate is held by the program or the tool that is at work, and *)
(* the lease by a relay that runs.                                         *)
LifecycleTypeOK ==
  /\ run \in BOOLEAN /\ stop \in BOOLEAN /\ faults \in 0..MaxFaults
  /\ (gate = "gui") = (gui \notin {"closed", "gate", "open"})
  /\ (gate = "tool") => tool.kind = "restore"
  /\ \A r \in Relays : (lease = r) = (relays[r] \in {"loop", "cycle", "status", "wait", "final"})

(* A removal that reported success has really ended the sending: no Run    *)
(* value, no relay in a cycle and none that will begin one, whichever      *)
(* relay was between two of its own checks at that time.                   *)
Quiet == ~run /\ stop /\ \A r \in Relays : relays[r] \notin {"cycle", "status"}
RemovedIsQuiet == report.removal = "PASS" => Quiet

(* A restoration that failed and reports that it contained itself, or that *)
(* there was nothing to contain, leaves everything as quiet as it found it.*)
ContainedIsQuiet ==
  report.restore = "FAILED" /\ report.contain # "FAILED" => Quiet

LifeSound == LifecycleTypeOK /\ RemovedIsQuiet /\ ContainedIsQuiet
=============================================================================
