---------------------------- MODULE ProfileInstall ----------------------------
(***************************************************************************)
(* The logistics profile of a PC                                           *)
(* (tools/install_logistics_runtime_profile.py,                            *)
(* logistics_runtime_profile.py): three files, a CA bundle, a protected    *)
(* token and the profile that refers to both, written one after the other  *)
(* by an enrollment, a recovery (which may replace the token only), the    *)
(* later addition of a CA bundle and an installation by hand, any of which *)
(* may fail or be cut short at every write, while programs load them.      *)
(***************************************************************************)
EXTENDS Naturals, FiniteSets

CONSTANTS
  Values,        \* what a profile says: server, authority, epochs, device
  CAs,           \* contents of CA bundles
  Tokens,        \* tokens the server can issue (bound)
  Ops,           \* of {"enroll", "recover", "upgrade", "install", "replace"}
  FaultKinds, MaxFaults,
  None

ProfileAssumption == MaxFaults \in Nat /\ None \notin Values \cup CAs \cup Tokens

VARIABLES
  disk,      \* the files: [profile, secret, ca]
  tool,      \* the operation at work: [op, pc, b, before, made]
  issued,    \* what the server issued: pairs of values and token
  outcome,   \* how the last operation ended
  reader,    \* a program that loads the profile: [pc, profile, secret]
  loaded,    \* what it has loaded
  faults

vars == <<disk, tool, issued, outcome, reader, loaded, faults>>

Bundle == [v : Values, token : Tokens, ca : CAs \cup {None}]
NoFiles == [profile |-> None, secret |-> None, ca |-> None]
NoTool == [op |-> "none", pc |-> "none", b |-> None, before |-> NoFiles, made |-> {}]
NoReader == [pc |-> "none", profile |-> None, secret |-> None]

Init ==
  /\ disk = NoFiles /\ tool = NoTool /\ issued = {} /\ outcome = "none"
  /\ reader = NoReader /\ loaded = None /\ faults = 0

Mishap(kind) == kind \in FaultKinds /\ faults < MaxFaults /\ faults' = faults + 1
Smooth == faults' = faults

(* --------------------------------------------------- loading a profile -- *)
ProfileOf(b) == [v |-> b.v, ca |-> b.ca # None]
(* A profile that refers to a CA bundle needs the file; every profile needs *)
(* its token.                                                              *)
Loads(d) == d.profile # None /\ d.secret # None /\ (d.profile.ca => d.ca # None)
Content(d) == [v |-> d.profile.v, token |-> d.secret, ca |-> d.profile.ca]
profile_from_values(b) == [v |-> b.v, token |-> b.token, ca |-> b.ca # None]

_read_profile ==
  /\ reader = NoReader /\ disk.profile # None
  /\ reader' = [pc |-> "secret", profile |-> disk.profile, secret |-> None]
  /\ Smooth /\ UNCHANGED <<disk, tool, issued, outcome, loaded>>
_resolve_secret_path ==
  /\ reader.pc = "secret"
  /\ reader' = IF disk.secret = None THEN NoReader ELSE [reader EXCEPT !.pc = "ca", !.secret = disk.secret]
  /\ Smooth /\ UNCHANGED <<disk, tool, issued, outcome, loaded>>
_resolve_tls_ca_bundle_path ==
  /\ reader.pc = "ca" /\ reader' = NoReader
  /\ loaded' = IF reader.profile.ca /\ disk.ca = None THEN loaded
               ELSE [v |-> reader.profile.v, token |-> reader.secret, ca |-> reader.profile.ca]
  /\ Smooth /\ UNCHANGED <<disk, tool, issued, outcome>>

(* --------------------------------------------------- beginning to write -- *)
End(result) == tool' = NoTool /\ outcome' = result
(* Every file is written beside its place, flushed and renamed.            *)
_atomic_write(file, content) == disk' = [disk EXCEPT ![file] = content]
Unlink(file) == disk' = [disk EXCEPT ![file] = None]
To(pc) == tool' = [tool EXCEPT !.pc = pc]

(* Only the token of an existing profile may differ.                       *)
SameBinding(b) == Loads(disk) /\ disk.profile = ProfileOf(b)
SameCa(b) == b.ca # None => disk.ca = b.ca
Orphan(b) == disk.secret # None \/ (b.ca # None /\ disk.ca # None)

(* Where ensure_runtime_profile_from_enrollment_bundle goes, given what is *)
(* on the disk.                                                            *)
Route(op, b) ==
  IF disk.profile # None
  THEN IF ~Loads(disk) \/ ~SameCa(b) THEN "refused"
       ELSE IF Content(disk) = profile_from_values(b) THEN "reused"
       ELSE IF op = "recover" /\ SameBinding(b) THEN "rotate" ELSE "refused"
  ELSE IF Orphan(b) THEN "refused" ELSE "install"
(* The installation by hand.                                               *)
ByHand(op, b) ==
  IF op = "replace" \/ (disk.profile = None /\ (b.ca # None => disk.ca = None)) THEN "install" ELSE "refused"
(* A CA bundle for a profile that has none, or has this one.               *)
ForUpgrade(b) ==
  IF b.ca = None \/ ~Loads(disk) THEN "refused"
  ELSE IF disk.profile.ca THEN IF disk.ca = b.ca THEN "reused" ELSE "refused"
  ELSE IF disk.ca \in {None, b.ca} THEN "upgrade" ELSE "refused"

FirstStep(b) == [install |-> IF b.ca = None THEN "secret" ELSE "ca", rotate |-> "rotate",
                 upgrade |-> IF disk.ca = None THEN "upca" ELSE "upprofile"]
Run(op, b, route) ==
  IF route \in {"refused", "reused"} THEN tool' = tool /\ outcome' = route
  ELSE /\ tool' = [op |-> op, pc |-> FirstStep(b)[route], b |-> b, before |-> disk, made |-> {}]
       /\ outcome' = "none"

(* An operation begins with an exchange with the server or with typing: a  *)
(* loading that began before the previous one ended is over by then.       *)
Begins == tool = NoTool /\ reader = NoReader

(* What the server sends is checked first, field by field.                 *)
ensure_runtime_profile_from_enrollment_bundle(op, b) ==
  /\ op \in {"enroll", "recover"} \cap Ops /\ Begins
  /\ \A i \in issued : i.token # b.token
  /\ \/ Smooth /\ issued' = issued \cup {[v |-> b.v, token |-> b.token]} /\ Run(op, b, Route(op, b))
     \/ Mishap("bundle") /\ outcome' = "refused" /\ UNCHANGED <<tool, issued>>
  /\ UNCHANGED <<disk, reader, loaded>>
(* By hand: the administrator types in what the server has issued.         *)
install_runtime_profile(op, b) ==
  /\ op \in {"install", "replace"} \cap Ops /\ Begins /\ Smooth
  /\ issued' = issued \cup {[v |-> b.v, token |-> b.token]} /\ Run(op, b, ByHand(op, b))
  /\ UNCHANGED <<disk, reader, loaded>>
_resolve_tls_ca_bundle(b) ==
  /\ "upgrade" \in Ops /\ Begins
  /\ \/ Smooth /\ Run("upgrade", b, ForUpgrade(b))
     \/ Mishap("ca") /\ outcome' = "refused" /\ UNCHANGED tool
  /\ UNCHANGED <<disk, issued, reader, loaded>>

(* ------------------------------------------------------- an installation -- *)
Made(file, pc) == tool' = [tool EXCEPT !.made = @ \cup {file}, !.pc = pc]
NotMade == Mishap("write") /\ To("undo") /\ UNCHANGED disk
WriteCa ==
  /\ tool.pc = "ca"
  /\ (Smooth /\ _atomic_write("ca", tool.b.ca) /\ Made("ca", "secret")) \/ NotMade
  /\ UNCHANGED <<issued, outcome, reader, loaded>>

WriteSecret ==
  /\ tool.pc = "secret"
  /\ (Smooth /\ _atomic_write("secret", tool.b.token) /\ Made("secret", "profile")) \/ NotMade
  /\ UNCHANGED <<issued, outcome, reader, loaded>>
WriteProfile ==
  /\ tool.pc = "profile"
  /\ (Smooth /\ _atomic_write("profile", ProfileOf(tool.b)) /\ Made("profile", "readback")) \/ NotMade
  /\ UNCHANGED <<issued, outcome, reader, loaded>>
Exact == Loads(disk) /\ Content(disk) = profile_from_values(tool.b) /\ (tool.b.ca # None => disk.ca = tool.b.ca)
ReadBack ==
  /\ tool.pc = "readback"
  /\ \/ Smooth /\ IF Exact THEN End("installed") ELSE To("undo") /\ UNCHANGED outcome
     \/ Mishap("readback") /\ To("undo") /\ UNCHANGED outcome
  /\ UNCHANGED <<disk, issued, reader, loaded>>

(* What was made is removed in the opposite order: profile, token, bundle. *)
Undo ==
  /\ tool.pc = "undo" /\ UNCHANGED <<issued, reader, loaded>>
  /\ IF tool.made = {} THEN Smooth /\ End("failed") /\ UNCHANGED disk
     ELSE LET last == IF "profile" \in tool.made THEN "profile" ELSE IF "secret" \in tool.made THEN "secret" ELSE "ca" IN
          \/ Smooth /\ Unlink(last) /\ tool' = [tool EXCEPT !.made = @ \ {last}] /\ UNCHANGED outcome
          \/ Mishap("unlink") /\ End("broken") /\ UNCHANGED disk

(* -------------------------------------------------------- a new token -- *)
_rotate_existing_profile_token ==
  /\ tool.pc = "rotate"
  /\ \/ Smooth /\ _atomic_write("secret", tool.b.token) /\ To("rotated") /\ UNCHANGED outcome
     \/ Mishap("write") /\ End("failed") /\ UNCHANGED disk
  /\ UNCHANGED <<issued, reader, loaded>>
ReadBackRotated ==
  /\ tool.pc = "rotated"
  /\ \/ Smooth /\ IF Exact THEN End("rotated") ELSE To("rollback") /\ UNCHANGED outcome
     \/ Mishap("readback") /\ To("rollback") /\ UNCHANGED outcome
  /\ UNCHANGED <<disk, issued, reader, loaded>>

Rollback ==
  /\ tool.pc = "rollback"
  /\ \/ Smooth /\ _atomic_write("secret", tool.before.secret) /\ End("failed")
     \/ Mishap("write") /\ End("broken") /\ UNCHANGED disk
  /\ UNCHANGED <<issued, reader, loaded>>

(* ------------------------------------------------- a CA bundle is added -- *)
UpgradeCa ==
  /\ tool.pc = "upca"
  /\ \/ Smooth /\ _atomic_write("ca", tool.b.ca) /\ To("upprofile")
     \/ Mishap("write") /\ To("restore") /\ UNCHANGED disk
  /\ UNCHANGED <<issued, outcome, reader, loaded>>
install_tls_ca_bundle_for_existing_profile ==
  /\ tool.pc = "upprofile"
  /\ \/ Smooth /\ _atomic_write("profile", [disk.profile EXCEPT !.ca = TRUE]) /\ To("upread")
     \/ Mishap("write") /\ To("restore") /\ UNCHANGED disk
  /\ UNCHANGED <<issued, outcome, reader, loaded>>
ReadBackUpgraded ==
  /\ tool.pc = "upread"
  /\ \/ Smooth /\ IF Loads(disk) /\ disk.profile.ca /\ disk.ca = tool.b.ca THEN End("upgraded") ELSE To("restore") /\ UNCHANGED outcome
     \/ Mishap("readback") /\ To("restore") /\ UNCHANGED outcome
  /\ UNCHANGED <<disk, issued, reader, loaded>>

(* Mutant: the bundle goes before the profile that refers to it.           *)
MutRestore ==
  /\ tool.pc = "restore" /\ Smooth /\ disk' = [disk EXCEPT !.ca = tool.before.ca] /\ To("unlinkca")
  /\ UNCHANGED <<issued, outcome, reader, loaded>>

RestoreProfile ==
  /\ tool.pc = "restore"
  /\ \/ Smooth /\ _atomic_write("profile", tool.before.profile) /\ To("unlinkca") /\ UNCHANGED outcome
     \/ Mishap("write") /\ End("broken") /\ UNCHANGED disk
  /\ UNCHANGED <<issued, reader, loaded>>
UnlinkCa ==
  /\ tool.pc = "unlinkca"
  /\ \/ Smooth /\ disk' = [disk EXCEPT !.ca = tool.before.ca] /\ End("failed")
     \/ tool.before.ca = None /\ Mishap("unlink") /\ End("broken") /\ UNCHANGED disk
  /\ UNCHANGED <<issued, reader, loaded>>

Crash ==
  /\ tool # NoTool /\ Mishap("crash") /\ End("crash")
  /\ UNCHANGED <<disk, issued, reader, loaded>>
(* An administrator clears what an operation that was cut short has left.  *)
CleanUp ==
  /\ tool = NoTool /\ outcome = "refused" /\ ~Loads(disk) /\ disk # NoFiles /\ Smooth
  /\ disk' = NoFiles /\ outcome' = "none" /\ UNCHANGED <<tool, issued, reader, loaded>>

Next ==
  \/ \E b \in Bundle :
       \/ \E op \in {"enroll", "recover"} : ensure_runtime_profile_from_enrollment_bundle(op, b)
       \/ \E op \in {"install", "replace"} : install_runtime_profile(op, b)
       \/ _resolve_tls_ca_bundle(b)
  \/ WriteCa \/ WriteSecret \/ WriteProfile \/ ReadBack \/ Undo
  \/ _rotate_existing_profile_token \/ ReadBackRotated \/ Rollback
  \/ UpgradeCa \/ install_tls_ca_bundle_for_existing_profile \/ ReadBackUpgraded \/ RestoreProfile \/ UnlinkCa
  \/ _read_profile \/ _resolve_secret_path \/ _resolve_tls_ca_bundle_path
  \/ Crash \/ CleanUp
Spec == Init /\ [][Next]_vars

----------------------------------------------------------------------------
(* Types of the files; an enrollment or a recovery that installs has found *)
(* neither a profile nor a token.                                          *)
ProfileTypeOK ==
  /\ disk.profile \in [v : Values, ca : BOOLEAN] \cup {None}
  /\ disk.secret \in Tokens \cup {None} /\ disk.ca \in CAs \cup {None}
  /\ faults \in 0..MaxFaults /\ tool.made \subseteq DOMAIN disk
  /\ tool.op \in {"enroll", "recover"} /\ tool.pc \in {"ca", "secret"} => disk.profile = None /\ disk.secret = None

(* A profile that is there can be loaded, at every moment and wherever an  *)
(* operation failed or was cut short: a program started then finds the old *)
(* profile or the new one.                                                 *)
PresentLoads == disk.profile # None => Loads(disk)

(* A program never works with values and a token that were not issued      *)
(* together, however its reading of the files interleaves with a writing.  *)
IssuedTogether == loaded # None => [v |-> loaded.v, token |-> loaded.token] \in issued

(* An operation that reports a failure it has dealt with has left the      *)
(* files as it found them.                                                 *)
FailureUndone == tool # NoTool /\ outcome' = "failed" => disk' = tool.before

(* A profile that is there and loads goes on to load, unless the           *)
(* administrator's replacement of it has failed: what that has written is  *)
(* unlinked, the token of the profile it was to replace among it.          *)
StaysLoadable == PresentLoads => PresentLoads' \/ (tool.op = "replace" /\ tool.pc = "undo")

(* After an operation that reports a failure it has dealt with, nothing    *)
(* loads, or what loads is what was there before: never values of the one  *)
(* with a token of the other.                                              *)
FailsClosed == tool # NoTool /\ outcome' = "failed" /\ Loads(disk') => Content(disk') = Content(tool.before)
=============================================================================
