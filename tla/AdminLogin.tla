------------------------------ MODULE AdminLogin ------------------------------
(***************************************************************************)
(* The administrator's code and the login screen: the tool that installs   *)
(* the protected verifier (tools/install_protected_admin.py), its use at   *)
(* login (protected_admin.py, Container_Audit.py) and the list of workers  *)
(* (worker_registry.py).                                                   *)
(***************************************************************************)
EXTENDS Naturals, FiniteSets

CONSTANTS Codes, Names, FaultKinds, MaxFaults, None

Admin == "admin"      \* the operator's id
Shown == "shown"      \* the name the field shows for it

(* A name is no code (is_protected_admin_candidate) and neither of the     *)
(* administrator's two names (WorkerRegistry._validate_name).              *)
LoginAssumption ==
  /\ MaxFaults \in Nat /\ Codes \cap Names = {}
  /\ {None, Admin, Shown, "empty"} \cap (Codes \cup Names) = {}
  /\ None \notin {Admin, Shown, "empty"}

VARIABLES
  file, temp,   \* the profile and the file it is renamed from: [code, acl]
  tool,         \* the installation: [pc, code, prev]
  outcome,      \* how the last one ended: [status, code, prev]
  entry, flag,  \* the login field and _authenticated_protected_admin
  worker, role, \* who is logged in
  reg,          \* the list of workers
  proof,        \* the code accepted since the login screen was shown
  faults

vars == <<file, temp, tool, outcome, entry, flag, worker, role, reg, proof, faults>>
toolvars == <<file, temp, tool, outcome>>
loginvars == <<entry, flag, worker, role, reg, proof>>

Texts == Codes \cup Names \cup {Shown, Admin, None}
Absent == [code |-> None, acl |-> "loose"]
NoTool == [pc |-> "none", code |-> None, prev |-> None]
NoOutcome == [status |-> "none", code |-> None, prev |-> None]

Init ==
  /\ file = Absent /\ temp = Absent /\ tool = NoTool /\ outcome = NoOutcome
  /\ entry = None /\ flag = FALSE /\ worker = None /\ role = "" /\ proof = None
  /\ reg \in {{}, Codes} /\ faults = 0

Mishap(kind) == kind \in FaultKinds /\ faults < MaxFaults /\ faults' = faults + 1
Smooth == faults' = faults

(* --------------------------------------------- installing the verifier -- *)
To(pc) == tool' = [tool EXCEPT !.pc = pc]
End(status) == tool' = NoTool /\ outcome' = [status |-> status, code |-> tool.code, prev |-> tool.prev]
load_protected_admin_profile(f) == IF f.code \in Codes THEN f.code ELSE None
_harden_profile_file(f) == [f EXCEPT !.acl = "exact"]

(* An existing profile is hardened and kept for the case of failure.       *)
install_protected_admin_profile(code, replace) ==
  /\ tool = NoTool /\ Smooth /\ UNCHANGED <<temp, loginvars>>
  /\ IF file.code # None /\ ~replace
     THEN outcome' = [NoOutcome EXCEPT !.status = "refused"] /\ UNCHANGED <<file, tool>>
     ELSE /\ tool' = [pc |-> "create", code |-> code, prev |-> load_protected_admin_profile(file)]
          /\ file' = IF file.code = None THEN file ELSE _harden_profile_file(file)
          /\ outcome' = NoOutcome
_resolve_reader_sid ==
  /\ tool = NoTool /\ Mishap("reader") /\ outcome' = [NoOutcome EXCEPT !.status = "refused"]
  /\ UNCHANGED <<file, temp, tool, loginvars>>
(* Created empty, hardened, and only then filled; removed when a step fails.*)
NotWritten == Mishap("write") /\ temp' = Absent /\ To("fail") /\ UNCHANGED file
CreateTemp ==
  /\ tool.pc = "create"
  /\ (Smooth /\ temp' = [code |-> "empty", acl |-> "loose"] /\ To("harden") /\ UNCHANGED file) \/ NotWritten
  /\ UNCHANGED <<outcome, loginvars>>

HardenTemp ==
  /\ tool.pc = "harden"
  /\ (Smooth /\ temp' = _harden_profile_file(temp) /\ To("fill") /\ UNCHANGED file) \/ NotWritten
  /\ UNCHANGED <<outcome, loginvars>>

_write_and_sync ==
  /\ tool.pc = "fill"
  /\ (Smooth /\ temp' = [temp EXCEPT !.code = tool.code] /\ To("replace") /\ UNCHANGED file) \/ NotWritten
  /\ UNCHANGED <<outcome, loginvars>>
_atomic_write ==
  /\ tool.pc = "replace"
  /\ (Smooth /\ file' = temp /\ temp' = Absent /\ To("readback")) \/ NotWritten
  /\ UNCHANGED <<outcome, loginvars>>
load_installed_profile ==
  /\ tool.pc = "readback"
  /\ (Smooth /\ IF file.code = tool.code THEN End("installed") ELSE To("fail") /\ UNCHANGED outcome) \/ (Mishap("readback") /\ To("fail") /\ UNCHANGED outcome)
  /\ UNCHANGED <<file, temp, loginvars>>

(* Mutant: a failure leaves what is there.                                 *)
MutRestore ==
  /\ tool.pc = "fail" /\ Smooth /\ End("failed") /\ UNCHANGED <<file, temp, loginvars>>

(* The previous profile comes back; without one, or when it does not, the  *)
(* new one is removed or emptied.                                          *)
_restore_previous_profile ==
  /\ tool.pc = "fail" /\ UNCHANGED <<temp, loginvars>>
  /\ IF tool.prev = None THEN Smooth /\ To("remove") /\ UNCHANGED <<file, outcome>>
     ELSE \/ Smooth /\ file' = [code |-> tool.prev, acl |-> "exact"] /\ End("failed")
          \/ Mishap("write") /\ To("remove") /\ UNCHANGED <<file, outcome>>
_remove_or_invalidate_failed_profile ==
  /\ tool.pc = "remove" /\ UNCHANGED <<temp, loginvars>>
  /\ \/ Smooth /\ file' = Absent /\ End(IF tool.prev = None THEN "failed" ELSE "invalidated")
     \/ Mishap("unlink") /\ file' = [code |-> "empty", acl |-> "exact"] /\ End(IF tool.prev = None THEN "failed" ELSE "invalidated")
     \/ Mishap("unlink") /\ End("unknown") /\ UNCHANGED file
Crash ==
  /\ tool # NoTool /\ Mishap("crash") /\ tool' = NoTool /\ outcome' = NoOutcome
  /\ UNCHANGED <<file, temp, loginvars>>

(* ---------------------------------------------------- the list of workers -- *)
_validate_name(name) == name \in Names
_sanitize_worker_entries(names) == {n \in names : _validate_name(n)}
(* A file that cannot be parsed is put aside; one that cannot be read just  *)
(* then counts as empty, and is written over.                              *)
Readings == {_sanitize_worker_entries(reg)} \cup (IF faults < MaxFaults /\ FaultKinds \cap {"junk", "share"} # {} THEN {{}} ELSE {})
_read_payload(seen) == IF seen = _sanitize_worker_entries(reg) THEN Smooth ELSE faults' = faults + 1
register(name, seen) == reg' = seen \cup {name}
mark_recent(name, seen) == reg' = seen \cup {name}

(* ------------------------------------------------------- the login screen -- *)
LoginScreen == worker = None
is_protected_admin_code(text) == text \in Codes /\ text = load_protected_admin_profile(file)

(* Whatever else is typed or chosen ends the authentication.               *)
_update_worker_input_mask(text) == flag' = (flag /\ text = Shown)
Type(text) ==
  /\ LoginScreen /\ Smooth /\ entry' = text /\ _update_worker_input_mask(text)
  /\ UNCHANGED <<toolvars, worker, role, reg, proof>>
Authenticated(code) == flag' = TRUE /\ entry' = Shown /\ proof' = code
LogIn(who) ==
  /\ worker' = who /\ role' = IF who = Admin THEN "ADMIN" ELSE "WORKER"

ShownAndProved == entry = Shown /\ flag
_resolve_worker_login_candidate ==
  /\ LoginScreen /\ Smooth /\ UNCHANGED <<toolvars, reg>>
  /\ IF entry \in Codes
     THEN IF is_protected_admin_code(entry) THEN Authenticated(entry) /\ LogIn(Admin)
          ELSE flag' = FALSE /\ UNCHANGED <<entry, worker, role, proof>>
     ELSE ShownAndProved /\ LogIn(Admin) /\ UNCHANGED <<entry, flag, proof>>
(* A worker of the list, or one that is added to it on being asked.        *)
start_work ==
  /\ LoginScreen /\ entry \in Names
  /\ \E seen \in Readings : _read_payload(seen) /\ mark_recent(entry, seen)
  /\ LogIn(entry) /\ UNCHANGED <<toolvars, entry, flag, proof>>
register_worker_from_login(text) ==
  /\ LoginScreen /\ entry \in {text, None} /\ UNCHANGED <<toolvars, worker, role>>
  /\ IF text \in Codes
     THEN /\ Smooth /\ UNCHANGED reg
          /\ IF is_protected_admin_code(text) THEN Authenticated(text) ELSE flag' = FALSE /\ UNCHANGED <<entry, proof>>
     ELSE /\ _validate_name(text) /\ entry' = text /\ UNCHANGED <<flag, proof>>
          /\ \E seen \in Readings : _read_payload(seen) /\ register(text, seen)
(* The worker is changed, or stops at the question about an earlier tray.  *)
LogOut ==
  /\ ~LoginScreen /\ Smooth /\ worker' = None /\ role' = "" /\ flag' = FALSE /\ proof' = None
  /\ entry' \in {entry, None} /\ UNCHANGED <<toolvars, reg>>

Next ==
  \/ \E c \in Codes, r \in BOOLEAN : install_protected_admin_profile(c, r)
  \/ _resolve_reader_sid \/ CreateTemp \/ HardenTemp \/ _write_and_sync \/ _atomic_write \/ load_installed_profile
  \/ _restore_previous_profile \/ _remove_or_invalidate_failed_profile \/ Crash
  \/ \E t \in Texts : Type(t) \/ register_worker_from_login(t)
  \/ _resolve_worker_login_candidate \/ start_work \/ LogOut
Spec == Init /\ [][Next]_vars

----------------------------------------------------------------------------
(* Types; an installation that fills its file has made it for its code.    *)
LoginTypeOK ==
  /\ {file.code, temp.code} \subseteq Codes \cup {None, "empty"} /\ faults \in 0..MaxFaults
  /\ tool.pc = "replace" => temp.code = tool.code

(* Whoever has an administrator's rights has given the code that was valid *)
(* at that moment, since the screen was last shown, and is logged in as    *)
(* nobody else.                                                            *)
_is_preflight_hold_supervisor == role = "ADMIN" \/ flag
SupervisorProved == worker # None /\ _is_preflight_hold_supervisor => worker = Admin /\ proof # None

(* Nobody works under the text of a code or under the administrator's name *)
(* without having proved it, and no code is kept in the list of workers    *)
(* once it has been written.                                               *)
NoCodeAsName == worker \in Names \cup {Admin, None} /\ (worker \in Names => reg \subseteq Names)

(* An installation reported as failed grants nothing: the code before it   *)
(* is the one after it, or there is none, whichever steps of it and of its *)
(* undoing failed.                                                         *)
FailedGrantsNothing ==
  /\ outcome.status = "failed" => load_protected_admin_profile(file) = outcome.prev
  /\ outcome.status = "invalidated" => load_protected_admin_profile(file) = None

(* A verifier is only ever in a file whose access is narrowed, whatever    *)
(* was cut short.                                                          *)
VerifierGuarded == \A f \in {file, temp} : f.code \in Codes => f.acl = "exact"
=============================================================================
