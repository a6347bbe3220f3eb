---------------------------- MODULE Station_proofs ----------------------------
(***************************************************************************)
(* Proofs about how a station is set up and kept: the notice of an update, *)
(* the supervisor login, the item catalogue, the life of the program and   *)
(* its relays, the logistics profile, and the registration of the PC with  *)
(* its recovery.  The components share no variable; each theorem is about  *)
(* one of them and holds for every value of the constants that             *)
(* StationAssumption admits.                                               *)
(***************************************************************************)
EXTENDS Station, Sequences, TLAPS

(* A step of the station is one of its part, and leaves the others alone.  *)
LEMMA StationSteps ==
  ASSUME [Next]_vars
  PROVE  /\ [Update!Next]_(Update!vars) /\ [Login!Next]_(Login!vars)
         /\ [Life!Next]_(Life!vars) /\ [Catalog!Next]_(Catalog!vars)
         /\ part' = part /\ (part = "offline" => [Catalog!Next /\ ~Catalog!Damage]_(Catalog!vars))
  BY DEF Next, EnrollStep, OnceStep, ProfileStep, ByHandStep, LifeStep, CatalogStep,
     OfflineStep, LoginStep, UpdateStep, vars, enrollVars, profVars, lifeVars, catVars, loginVars,
     updVars, Update!vars, Login!vars, Login!loginvars, Life!vars, Catalog!vars

-----------------------------------------------------------------------------
(* The notice of an update.                                                *)

(* What the publisher announced, for this PC.                              *)
Announced(c) ==
  /\ c.ver > Installed
  /\ c.by = "private" =>
       \E m \in signed : m.ver = c.ver /\ Update!update_candidate_from_private_manifest(m)
  /\ c.by = "github" => <<c.ver, c.sha>> \in listed

(* A digest the publisher holds is listed.                                 *)
Listed(r) == r.ver \in AppVersions /\ (r.digest # None => <<r.ver, r.digest>> \in listed)

UpdateInv ==
  /\ DOMAIN sums = AppVersions
  /\ site.sig # None => site.sig \in signed
  /\ hub # None => Listed(hub)
  /\ \A v \in AppVersions : sums[v] \in Shas => <<v, sums[v]>> \in listed
  /\ pc = "signature" => got # None
  /\ pc = "checksum" => Listed(got) /\ got.ver > Installed
  /\ pc = "prompt" => Announced(cand)
  /\ Update!NoticeVouched

(* The publisher's steps only add to what was announced.                   *)
LEMMA PublisherStep ==
  ASSUME UpdateInv, UNCHANGED <<bucket, pc, got, cand, shown>>,
         signed \subseteq signed', listed \subseteq listed',
         DOMAIN sums' = AppVersions, site'.sig # None => site'.sig \in signed',
         hub' # None => Listed(hub)',
         \A v \in AppVersions : sums'[v] \in Shas => <<v, sums'[v]>> \in listed'
  PROVE  UpdateInv'
  BY DEF UpdateInv, Announced, Listed, Update!NoticeVouched, Update!NoCandidate,
     Update!update_candidate_from_private_manifest, Update!is_newer_version,
     Update!rollout_allows_current_pc

LEMMA UpdateKeeps == UpdateInv /\ [Update!Next]_(Update!vars) => UpdateInv'
<1> SUFFICES ASSUME UpdateInv, [Update!Next]_(Update!vars) PROVE UpdateInv'
  OBVIOUS
<1> USE DEF Update!publisher, Update!program
<1>1. CASE UNCHANGED Update!vars
  BY <1>1, PublisherStep DEF Update!vars, UpdateInv, Listed
<1>2. ASSUME Update!Unpublished, UNCHANGED shown, pc' = "prompt" => Announced(cand)',
             pc' = "signature" => got' # None,
             pc' = "checksum" => Listed(got') /\ got'.ver > Installed
      PROVE  UpdateInv'
  BY <1>2 DEF Update!Unpublished, UpdateInv, Announced, Listed, Update!NoticeVouched,
     Update!NoCandidate, Update!update_candidate_from_private_manifest, Update!is_newer_version,
     Update!rollout_allows_current_pc
<1>3. CASE Update!schedule_update_check
  BY <1>3 DEF Update!schedule_update_check, Update!Unpublished, UpdateInv, Listed,
     Update!NoticeVouched
<1>4. CASE Update!_check_update_candidate \/ Update!RequestFails
  BY <1>2, <1>4 DEF Update!_check_update_candidate, Update!RequestFails, Update!Nothing, Update!To
<1>5. CASE Update!ReadManifest
  BY <1>2, <1>5 DEF Update!ReadManifest, Update!Nothing, Update!To
<1>6. CASE Update!_check_private_manifest_for_updates
  <2>1. CASE /\ got = site.sig /\ Update!update_candidate_from_private_manifest(got)
             /\ cand' = [ver |-> got.ver, sha |-> None, by |-> "private"]
             /\ pc' = "prompt" /\ UNCHANGED <<shown, bucket, signed, listed>>
    <3>1. got \in signed /\ got.ver > Installed
      BY <1>6, <2>1 DEF UpdateInv, Update!_check_private_manifest_for_updates,
         Update!update_candidate_from_private_manifest, Update!is_newer_version
    <3>2. Announced(cand)'
      BY <2>1, <3>1 DEF Announced, Update!update_candidate_from_private_manifest,
         Update!is_newer_version, Update!rollout_allows_current_pc
    <3>3. QED
      BY <1>2, <1>6, <2>1, <3>2 DEF Update!_check_private_manifest_for_updates
  <2>2. CASE pc' = "done" /\ UNCHANGED shown
    BY <1>2, <1>6, <2>2 DEF Update!_check_private_manifest_for_updates
  <2>3. QED
    BY <1>6, <2>1, <2>2 DEF Update!_check_private_manifest_for_updates, Update!Candidate,
       Update!Nothing, Update!To, Update!Unpublished, Update!verify_update_manifest_signature
<1>7. CASE Update!ReadRelease
  <2>1. CASE pc' = "done" /\ UNCHANGED shown
    BY <1>2, <1>7, <2>1 DEF Update!ReadRelease
  <2>2. CASE pc' = "checksum" /\ got' = hub /\ hub # None /\ hub.ver > Installed /\ UNCHANGED shown
    BY <1>2, <1>7, <2>2 DEF Update!ReadRelease, UpdateInv
  <2>3. QED
    BY <1>7, <2>1, <2>2 DEF Update!ReadRelease, Update!Nothing, Update!To, Update!is_newer_version
<1>8. CASE Update!_check_github_release_for_updates
  <2>1. CASE pc' = "done" /\ UNCHANGED shown
    BY <1>2, <1>8, <2>1 DEF Update!_check_github_release_for_updates
  <2>2. CASE pc' = "prompt" /\ UNCHANGED <<shown, listed>>
    <3>1. PICK sha : /\ sha # None /\ cand' = [ver |-> got.ver, sha |-> sha, by |-> "github"]
                     /\ sha = got.digest \/ (sha = sums[got.ver] /\ sha \in Shas)
      BY <1>8, <2>2 DEF Update!_check_github_release_for_updates, Update!Candidate,
         Update!Nothing, Update!To, Update!parse_sha256_checksum
    <3>2. Announced(cand)'
      BY <1>8, <2>2, <3>1 DEF Update!_check_github_release_for_updates, UpdateInv, Listed, Announced
    <3>3. QED
      BY <1>2, <1>8, <2>2, <3>2 DEF Update!_check_github_release_for_updates
  <2>3. QED
    BY <1>8, <2>1, <2>2 DEF Update!_check_github_release_for_updates, Update!Candidate,
       Update!Nothing, Update!To, Update!Unpublished
<1>9. CASE Update!_prompt_and_apply_update
  BY <1>9 DEF Update!_prompt_and_apply_update, Update!Unpublished, UpdateInv, Announced, Listed,
     Update!NoticeVouched, Update!update_candidate_from_private_manifest, Update!is_newer_version,
     Update!rollout_allows_current_pc
<1>10. CASE Update!Close
  BY <1>2, <1>10 DEF Update!Close
<1>11. ASSUME NEW m \in Update!Manifest, Update!Upload(m) PROVE UpdateInv'
  <2>1. site'.sig = site.sig
    BY <1>11 DEF Update!Upload
  <2>2. QED
    BY <1>11, <2>1, PublisherStep DEF Update!Upload, Update!Publish, UpdateInv, Listed
<1>12. CASE Update!Sign
  <2>1. site'.sig = site.manifest
    BY <1>12 DEF Update!Sign
  <2>2. QED
    BY <1>12, PublisherStep DEF Update!Sign, Update!Publish, UpdateInv, Listed
<1>13. ASSUME NEW r \in Update!Release, Update!Tag(r) PROVE UpdateInv'
  BY <1>13, PublisherStep DEF Update!Tag, Update!Publish, Update!Release, UpdateInv, Listed
<1>14. ASSUME NEW v \in AppVersions, NEW text, Update!PutSum(v, text) PROVE UpdateInv'
  BY <1>14, PublisherStep DEF Update!PutSum, Update!Publish, UpdateInv, Listed
<1>15. QED
  BY <1>1, <1>3, <1>4, <1>5, <1>6, <1>7, <1>8, <1>9, <1>10, <1>11, <1>12, <1>13, <1>14
     DEF Update!Next, Update!Step

(* A notice names a newer release that the publisher really announced,     *)
(* whatever was half written while it was read (_check_update_candidate).  *)
THEOREM NoticesVouched == Spec => []NoticeVouched
<1>1. Init => UpdateInv
  <2> SUFFICES ASSUME Update!Init, Update!UpdateAssumption PROVE UpdateInv
    BY StationAssumption DEF StationAssumption, Init
  <2> QED
    BY DEF Update!UpdateAssumption, Update!Init, UpdateInv, Update!NoticeVouched
<1>2. UpdateInv /\ [Next]_vars => UpdateInv'
  BY StationSteps, UpdateKeeps
<1>3. UpdateInv => NoticeVouched
  BY DEF UpdateInv, NoticeVouched
<1>4. QED
  BY <1>1, <1>2, <1>3, PTL DEF Spec

-----------------------------------------------------------------------------
(* The administrator's code and the login screen.                          *)

Profiles == [code : Codes \cup {None, "empty"}, acl : {"loose", "exact"}]

(* The installation: it fills a narrowed file with its own code, and has   *)
(* reported nothing before it ends.                                        *)
InstallSound ==
  /\ file \in Profiles /\ temp \in Profiles /\ loginFaults \in 0..MaxLoginFaults
  /\ loginTool \in [pc : {"none", "create", "harden", "fill", "replace", "readback", "fail", "remove"},
                   code : Codes \cup {None}, prev : Codes \cup {None}]
  /\ loginOutcome \in [status : {"none", "refused", "installed", "failed", "invalidated", "unknown"},
                      code : Codes \cup {None}, prev : Codes \cup {None}]
  /\ loginTool.pc # "none" => loginTool.code \in Codes /\ loginOutcome.status = "none"
  /\ loginTool.pc = "harden" => temp.code = "empty"
  /\ loginTool.pc \in {"fill", "replace"} => temp.acl = "exact"
  /\ loginTool.pc = "replace" => temp.code = loginTool.code
  /\ Login!FailedGrantsNothing
  /\ Login!VerifierGuarded

(* The screen: the mark of a proved code stands only while the field shows *)
(* the administrator's name, and only for the administrator.               *)
ScreenSound ==
  /\ flag \in BOOLEAN
  /\ worker \in Names \cup {Login!Admin, None}
  /\ role = "ADMIN" => worker = Login!Admin
  /\ flag \/ worker = Login!Admin => proof # None
  /\ flag => (worker = None /\ entry = Login!Shown) \/ worker = Login!Admin
  /\ worker \in Names => reg \subseteq Names

LoginInv == InstallSound /\ ScreenSound

LEMMA InstallKeeps ==
  ASSUME Login!LoginAssumption, InstallSound, [Login!Next]_(Login!vars)
  PROVE  InstallSound'
<1> USE DEF Profiles, InstallSound, Login!LoginAssumption, Login!Admin, Login!Shown
<1>1. ASSUME UNCHANGED <<file, temp, loginTool, loginOutcome>>, loginFaults' \in 0..MaxLoginFaults
      PROVE  InstallSound'
  BY <1>1 DEF Login!FailedGrantsNothing, Login!VerifierGuarded, Login!load_protected_admin_profile
<1>2. ASSUME NEW k, Login!Mishap(k) PROVE loginFaults' \in 0..MaxLoginFaults
  BY <1>2 DEF Login!Mishap
<1>3. ASSUME Login!Smooth PROVE loginFaults' \in 0..MaxLoginFaults
  BY <1>3 DEF Login!Smooth
<1>4. CASE UNCHANGED Login!vars
  BY <1>1, <1>4 DEF Login!vars
<1>5. ASSUME NEW c \in Codes, NEW r \in BOOLEAN, Login!install_protected_admin_profile(c, r)
      PROVE  InstallSound'
  BY <1>3, <1>5 DEF Login!install_protected_admin_profile, Login!NoTool, Login!NoOutcome,
     Login!load_protected_admin_profile, Login!_harden_profile_file, Login!FailedGrantsNothing,
     Login!VerifierGuarded
<1>6. CASE Login!_resolve_reader_sid
  BY <1>2, <1>6 DEF Login!_resolve_reader_sid, Login!NoTool, Login!NoOutcome,
     Login!FailedGrantsNothing, Login!VerifierGuarded
<1>7. ASSUME Login!NotWritten, loginTool.pc # "none", UNCHANGED loginOutcome PROVE InstallSound'
  BY <1>2, <1>7 DEF Login!NotWritten, Login!To, Login!Absent, Login!FailedGrantsNothing,
     Login!VerifierGuarded
<1>8. CASE Login!CreateTemp
  BY <1>3, <1>7, <1>8 DEF Login!CreateTemp, Login!To, Login!FailedGrantsNothing,
     Login!VerifierGuarded
<1>9. CASE Login!HardenTemp
  BY <1>3, <1>7, <1>9 DEF Login!HardenTemp, Login!To, Login!_harden_profile_file,
     Login!FailedGrantsNothing, Login!VerifierGuarded
<1>10. CASE Login!_write_and_sync
  BY <1>3, <1>7, <1>10 DEF Login!_write_and_sync, Login!To, Login!FailedGrantsNothing,
     Login!VerifierGuarded
<1>11. CASE Login!_atomic_write
  BY <1>3, <1>7, <1>11 DEF Login!_atomic_write, Login!To, Login!Absent, Login!FailedGrantsNothing,
     Login!VerifierGuarded
<1>12. CASE Login!load_installed_profile
  BY <1>2, <1>3, <1>12 DEF Login!load_installed_profile, Login!To, Login!End, Login!NoTool,
     Login!FailedGrantsNothing, Login!VerifierGuarded
<1>13. CASE Login!_restore_previous_profile
  BY <1>2, <1>3, <1>13 DEF Login!_restore_previous_profile, Login!To, Login!End, Login!NoTool,
     Login!load_protected_admin_profile, Login!FailedGrantsNothing, Login!VerifierGuarded
<1>14. CASE Login!_remove_or_invalidate_failed_profile
  BY <1>2, <1>3, <1>14 DEF Login!_remove_or_invalidate_failed_profile, Login!End, Login!NoTool,
     Login!Absent, Login!load_protected_admin_profile, Login!FailedGrantsNothing,
     Login!VerifierGuarded
<1>15. CASE Login!Crash
  BY <1>2, <1>15 DEF Login!Crash, Login!NoTool, Login!NoOutcome, Login!FailedGrantsNothing,
     Login!VerifierGuarded
<1>16. ASSUME NEW seen \in Login!Readings, Login!_read_payload(seen)
       PROVE  loginFaults' \in 0..MaxLoginFaults
  BY <1>3, <1>16 DEF Login!Readings, Login!_read_payload
<1>17. ASSUME NEW t \in Login!Texts, Login!Type(t) \/ Login!register_worker_from_login(t)
       PROVE  InstallSound'
  BY <1>1, <1>3, <1>16, <1>17 DEF Login!Type, Login!register_worker_from_login, Login!toolvars
<1>18. CASE Login!_resolve_worker_login_candidate \/ Login!start_work \/ Login!LogOut
  BY <1>1, <1>3, <1>16, <1>18 DEF Login!_resolve_worker_login_candidate, Login!start_work,
     Login!LogOut, Login!toolvars
<1>19. QED
  BY <1>4, <1>5, <1>6, <1>8, <1>9, <1>10, <1>11, <1>12, <1>13, <1>14, <1>15, <1>17, <1>18
     DEF Login!Next

LEMMA ScreenKeeps ==
  ASSUME Login!LoginAssumption, ScreenSound, [Login!Next]_(Login!vars)
  PROVE  ScreenSound'
<1> USE DEF ScreenSound, Login!LoginAssumption, Login!Admin, Login!Shown, Login!LoginScreen
<1>1. CASE UNCHANGED Login!loginvars
  BY <1>1 DEF Login!loginvars
<1>2. ASSUME NEW t \in Login!Texts, Login!Type(t) PROVE ScreenSound'
  BY <1>2 DEF Login!Type, Login!_update_worker_input_mask
<1>3. ASSUME NEW seen \in Login!Readings PROVE seen \subseteq Names
  BY <1>3 DEF Login!Readings, Login!_sanitize_worker_entries, Login!_validate_name
<1>4. ASSUME NEW t \in Login!Texts, Login!register_worker_from_login(t) PROVE ScreenSound'
  BY <1>4 DEF Login!register_worker_from_login, Login!Authenticated, Login!_validate_name
<1>5. CASE Login!_resolve_worker_login_candidate
  BY <1>5 DEF Login!_resolve_worker_login_candidate, Login!Authenticated, Login!LogIn,
     Login!ShownAndProved
<1>6. CASE Login!start_work
  BY <1>3, <1>6 DEF Login!start_work, Login!mark_recent, Login!LogIn
<1>7. CASE Login!LogOut
  BY <1>7 DEF Login!LogOut
<1>8. QED
  BY <1>1, <1>2, <1>4, <1>5, <1>6, <1>7
     DEF Login!Next, Login!vars, Login!loginvars, Login!install_protected_admin_profile,
         Login!_resolve_reader_sid, Login!CreateTemp, Login!HardenTemp, Login!_write_and_sync,
         Login!_atomic_write, Login!load_installed_profile, Login!_restore_previous_profile,
         Login!_remove_or_invalidate_failed_profile, Login!Crash

(* Whoever has a supervisor's rights has proved the code; no code is kept  *)
(* as a name; a failed installation grants nothing; and a verifier is only *)
(* in a narrowed file (protected_admin.py, install_protected_admin.py).    *)
THEOREM SupervisorsProved == Spec => []SupervisorProved
<1>1. Init => LoginInv
  <2> SUFFICES ASSUME Login!Init, Login!LoginAssumption PROVE LoginInv
    BY StationAssumption DEF StationAssumption, Init
  <2>1. InstallSound
    <3>1. file = Login!Absent /\ temp = Login!Absent /\ Login!Absent \in Profiles
      BY DEF Login!Init, Login!Absent, Profiles
    <3>2. None \notin Codes
      BY DEF Login!LoginAssumption
    <3>3. Login!VerifierGuarded
      BY <3>1, <3>2 DEF Login!Absent, Login!VerifierGuarded
    <3>4. /\ loginTool \in [pc : {"none"}, code : {None}, prev : {None}]
          /\ loginOutcome \in [status : {"none"}, code : {None}, prev : {None}]
      BY DEF Login!Init, Login!NoTool, Login!NoOutcome
    <3>5. loginFaults = 0 /\ MaxLoginFaults \in Nat
      BY Zenon DEF Login!Init, Login!LoginAssumption
    <3>6. loginTool.pc = "none" /\ loginOutcome.status = "none"
      BY DEF Login!Init, Login!NoTool, Login!NoOutcome
    <3>7. QED
      BY <3>1, <3>6, <3>3, <3>4, <3>5 DEF InstallSound, Login!FailedGrantsNothing
  <2>2. ScreenSound
    BY DEF Login!LoginAssumption, Login!Init, ScreenSound, Login!Admin, Login!Shown
  <2>3. QED
    BY <2>1, <2>2 DEF LoginInv
<1>2. LoginInv /\ [Next]_vars => LoginInv'
  BY StationAssumption, StationSteps, InstallKeeps, ScreenKeeps DEF LoginInv, StationAssumption
<1>3. LoginInv => SupervisorProved
  BY DEF LoginInv, InstallSound, ScreenSound, Profiles, Login!LoginTypeOK, Login!SupervisorProved,
     Login!_is_preflight_hold_supervisor, SupervisorProved, Login!NoCodeAsName, Login!Admin, Login!Shown
<1>4. QED
  BY <1>1, <1>2, <1>3, PTL DEF Spec

-----------------------------------------------------------------------------
(* The life of the program and its relays.                                 *)

RemovalPcs == {"run", "stop", "poll", "report", "unknown", "failed"}
CheckPcs == {"gate", "verify", "context", "binding", "trees", "owner", "unstop", "refused"}
RestorePcs == {"rrun", "rlaunch", "rfinal", "rreport"}
ContainPcs == {"crun", "cstop", "cpoll", "cpass", "cfailed"}
Running == {"loop", "cycle", "status", "wait", "final"}

Reports == [onboard : {"none", "READY", "FAILED"},
            removal : {"none", "PASS", "UNKNOWN", "FAILED"},
            restore : {"none", "READY", "FAILED"},
            contain : {"none", "NOT_REQUIRED", "PASS_SAFE_QUIESCENT", "FAILED"},
            adapter : {"none", "PASS", "FAIL"}]

LifeTypes ==
  /\ owner \in {"absent", "retry", "partial", "admin", "ready"}
  /\ relays \in [Relays -> {"none", "admit", "check", "lease"} \cup Running]
  /\ lease \in Relays \cup {"free"}
  /\ lifeTool \in [kind : {"none", "remove", "contain", "restore"},
                  pc : {"none"} \cup RemovalPcs \cup CheckPcs \cup RestorePcs \cup ContainPcs,
                  wrong : {"none"} \cup Life!Wrongs]
  /\ lifeReport \in Reports

(* What holds the gate, and who may be at work beside whom.                *)
Turns ==
  /\ Life!LifecycleTypeOK
  /\ gate = "tool" => lifeTool.pc # "gate"
  /\ gui \notin {"closed", "open"} => lifeTool = Life!Idle
  /\ lifeTool.kind = "none" => lifeTool.pc = "none"
  /\ lifeTool.kind \in {"remove", "contain"} => lifeTool.pc \in RemovalPcs
  /\ lifeTool.kind = "restore" => lifeTool.pc \in CheckPcs \cup RestorePcs \cup ContainPcs

(* How far a removal has silenced the relays, and that a restoration, like *)
(* a start, lets them begin only after it has withdrawn the earlier report.*)
Silencing ==
  /\ gui = "run" \/ lifeTool.pc \in RestorePcs \cup ContainPcs =>
       lifeReport.removal # "PASS" /\ lifeReport.restore # "FAILED"
  /\ lifeTool.pc \in CheckPcs => lifeReport.removal = "PASS"
  /\ lifeTool.pc \in {"stop", "poll", "report", "unknown", "cstop", "cpoll", "cpass"} => ~lifeRun
  /\ lifeTool.pc \in {"poll", "report", "unknown", "cpoll", "cpass"} => stop
  /\ lifeTool.pc \in {"report", "cpass"} => Life!Quiet
  /\ Life!RemovedIsQuiet /\ Life!ContainedIsQuiet

LifeInv == LifeTypes /\ Turns /\ Silencing
(* A start or a restoration withdraws what was reported before.            *)
LEMMA AgainWithdraws ==
  ASSUME lifeReport \in Reports, Life!Again
  PROVE  /\ lifeReport' \in Reports
         /\ lifeReport'.removal = "none" /\ lifeReport'.restore = "none"
  BY DEF Reports, Life!Again

(* A relay that is launched has yet to be admitted.                        *)
LEMMA LaunchedWaits ==
  ASSUME LifeTypes, Life!Launched
  PROVE  /\ relays' \in [Relays -> {"none", "admit", "check", "lease"} \cup Running]
         /\ \A r \in Relays : relays'[r] = relays[r] \/ (relays[r] = "none" /\ relays'[r] = "admit")
  BY DEF LifeTypes, Running, Life!Launched, Life!Spare

LEMMA FaultsCounted ==
  ASSUME Life!LifecycleAssumption, Turns, NEW k, Life!Smooth \/ Life!Mishap(k)
  PROVE  lifeFaults' \in 0..MaxLifeFaults
  BY DEF Life!LifecycleAssumption, Turns, Life!LifecycleTypeOK, Life!Smooth, Life!Mishap

LEMMA LifeKeeps ==
  ASSUME Life!LifecycleAssumption, LifeInv, [Life!Next]_(Life!vars)
  PROVE  LifeInv'
<1> USE DEF LifeInv, LifeTypes, Turns, Silencing, RemovalPcs, CheckPcs, RestorePcs,
  ContainPcs, Running, Reports, Life!LifecycleAssumption, Life!LifecycleTypeOK, Life!Quiet,
  Life!RemovedIsQuiet, Life!ContainedIsQuiet, Life!Idle, Life!Smooth, Life!Mishap, Life!Wrongs
<1>1. CASE UNCHANGED Life!vars
  BY <1>1 DEF Life!vars
<1>2. ASSUME NEW r \in Relays, Life!Admission(r) PROVE LifeInv'
  BY <1>2 DEF Life!Admission, Life!To, Life!Denied, Life!WRITER_GATE_TIMEOUT, Life!WRITER_GATE_ABANDONED, Life!Free
<1>3. ASSUME NEW r \in Relays, Life!main(r) PROVE LifeInv'
  BY <1>3 DEF Life!main, Life!To
<1>4. ASSUME NEW r \in Relays, Life!acquire_runtime_instance(r) PROVE LifeInv'
  BY <1>4 DEF Life!acquire_runtime_instance, Life!To
<1>5. ASSUME NEW r \in Relays, Life!run_persistent_relay_loop(r) PROVE LifeInv'
  BY <1>5 DEF Life!run_persistent_relay_loop, Life!To
<1>6. ASSUME NEW r \in Relays, Life!_runtime_cycle(r) PROVE LifeInv'
  BY <1>6 DEF Life!_runtime_cycle, Life!To
<1>7. ASSUME NEW r \in Relays, Life!WriteStatus(r) PROVE LifeInv'
  BY <1>7 DEF Life!WriteStatus, Life!To, Life!Ended, Life!Denied, Life!WRITER_GATE_TIMEOUT, Life!WRITER_GATE_ABANDONED, Life!Free
<1>8. ASSUME NEW r \in Relays, Life!_wait_with_stop_checks(r) PROVE LifeInv'
  BY <1>8 DEF Life!_wait_with_stop_checks, Life!To
<1>9. ASSUME NEW r \in Relays, Life!WriteStopped(r) PROVE LifeInv'
  BY <1>9 DEF Life!WriteStopped, Life!To, Life!Ended, Life!Denied, Life!WRITER_GATE_TIMEOUT, Life!WRITER_GATE_ABANDONED, Life!Free
<1>10. CASE Life!_prepare_gui_startup
  BY <1>10 DEF Life!_prepare_gui_startup, Life!Step, Life!Denied, Life!WRITER_GATE_TIMEOUT, Life!WRITER_GATE_ABANDONED, Life!Free
<1>11. CASE Life!verify_bootstrap_integrity
  BY <1>11 DEF Life!verify_bootstrap_integrity, Life!Step, Life!Failed
<1>12. CASE Life!inspect_current_user_state
  <2>1. gui' \in {"ledger", "register", "fail"}
    BY <1>12 DEF Life!inspect_current_user_state, Life!Step
  <2>2. LifeTypes'
    BY <1>12, <2>1 DEF Life!inspect_current_user_state
  <2>3. Turns'
    BY <1>12, <2>1 DEF Life!inspect_current_user_state
  <2>4. Silencing'
    BY <1>12, <2>1 DEF Life!inspect_current_user_state
  <2>5. QED
    BY <2>2, <2>3, <2>4
<1>13. CASE Life!_registration_runner
  BY <1>13 DEF Life!_registration_runner, Life!Step
<1>14. CASE Life!_create_ledger
  BY <1>14 DEF Life!_create_ledger, Life!Step, Life!Failed
<1>15. CASE Life!Unstop
  <2>1. /\ lifeReport' \in Reports
        /\ lifeReport'.removal = "none" /\ lifeReport'.restore = "none"
    BY <1>15, AgainWithdraws DEF Life!Unstop
  <2>2. LifeTypes'
    BY <1>15, <2>1 DEF Life!Unstop, Life!Step
  <2>3. Turns'
    BY <1>15, <2>1 DEF Life!Unstop, Life!Step
  <2>4. Silencing'
    BY <1>15, <2>1 DEF Life!Unstop, Life!Step
  <2>5. QED
    BY <2>2, <2>3, <2>4
<1>16. CASE Life!install_user_relay_autostart
  <2>1. /\ lifeRun' \in BOOLEAN /\ gui = "run" /\ gui' \in {"launch", "fail"}
        /\ UNCHANGED <<owner, stop, gate, lifeTool, relays, lease, lifeReport>>
    BY <1>16, Zenon DEF Life!install_user_relay_autostart, Life!Step
  <2>2. lifeFaults' \in 0..MaxLifeFaults
    BY <1>16, FaultsCounted DEF Life!install_user_relay_autostart
  <2>3. QED
    BY <2>1, <2>2
<1>17. CASE Life!start_user_relay_process
  <2>1. CASE Life!Launched /\ gui' = "report" /\ UNCHANGED lifeFaults
    BY <1>17, <2>1, LaunchedWaits DEF Life!start_user_relay_process
  <2>2. CASE Life!Failed /\ lifeFaults' \in 0..MaxLifeFaults
    BY <1>17, <2>2 DEF Life!start_user_relay_process, Life!Failed, Life!Step
  <2>3. QED
    BY <1>17, <2>1, <2>2, FaultsCounted DEF Life!start_user_relay_process, Life!Step
<1>18. CASE Life!onboard_current_user
  BY <1>18 DEF Life!onboard_current_user, Life!Step, Life!Released
<1>19. CASE Life!Started
  BY <1>19 DEF Life!Started, Life!Step, Life!Released
<1>20. CASE Life!remove_user_relay_autostart
  <2>1. lifeRun' \in BOOLEAN
    BY <1>20, Zenon DEF Life!remove_user_relay_autostart
  <2>2. LifeTypes'
    BY <1>20, <2>1 DEF Life!remove_user_relay_autostart, Life!Tool, Life!Denied, Life!WRITER_GATE_TIMEOUT, Life!WRITER_GATE_ABANDONED, Life!Free
  <2>3. Turns'
    BY <1>20, <2>1 DEF Life!remove_user_relay_autostart, Life!Tool, Life!Denied, Life!WRITER_GATE_TIMEOUT, Life!WRITER_GATE_ABANDONED, Life!Free
  <2>4. Silencing'
    BY <1>20, <2>1 DEF Life!remove_user_relay_autostart, Life!Tool, Life!Denied, Life!WRITER_GATE_TIMEOUT, Life!WRITER_GATE_ABANDONED, Life!Free
  <2>5. QED
    BY <2>2, <2>3, <2>4
<1>21. CASE Life!request_user_relay_stop
  <2>1. stop' \in BOOLEAN
    BY <1>21, Zenon DEF Life!request_user_relay_stop
  <2>2. LifeTypes'
    BY <1>21, <2>1 DEF Life!request_user_relay_stop, Life!Tool, Life!Denied, Life!WRITER_GATE_TIMEOUT, Life!WRITER_GATE_ABANDONED, Life!Free
  <2>3. Turns'
    BY <1>21, <2>1 DEF Life!request_user_relay_stop, Life!Tool, Life!Denied, Life!WRITER_GATE_TIMEOUT, Life!WRITER_GATE_ABANDONED, Life!Free
  <2>4. Silencing'
    BY <1>21, <2>1 DEF Life!request_user_relay_stop, Life!Tool, Life!Denied, Life!WRITER_GATE_TIMEOUT, Life!WRITER_GATE_ABANDONED, Life!Free
  <2>5. QED
    BY <2>2, <2>3, <2>4
<1>22. CASE Life!PollLease
  BY <1>22 DEF Life!PollLease, Life!Tool
<1>23. CASE Life!remove_current_user_setup
  <2>1. lifeTool' = Life!Idle /\ lifeFaults' \in 0..MaxLifeFaults /\ UNCHANGED <<owner, lifeRun, stop, gui, relays, lease>>
    BY <1>23, FaultsCounted DEF Life!remove_current_user_setup, Life!Denied, Life!WRITER_GATE_TIMEOUT,
       Life!WRITER_GATE_ABANDONED, Life!Free
  <2>2. gate' = gate \/ (gate' = "free" /\ gate = "abandoned")
    BY <1>23 DEF Life!remove_current_user_setup, Life!Denied, Life!WRITER_GATE_TIMEOUT,
       Life!WRITER_GATE_ABANDONED, Life!Free
  <2>3. CASE UNCHANGED lifeReport
    BY <1>23, <2>1, <2>2, <2>3 DEF Life!remove_current_user_setup
  <2>4. CASE lifeReport' # lifeReport
    <3>1. Life!Outcome \in {"PASS", "UNKNOWN", "FAILED"} /\ (Life!Outcome = "PASS" => lifeTool.pc = "report")
      BY <1>23 DEF Life!remove_current_user_setup, Life!Outcome
    <3>2. (IF lifeTool.kind = "contain" THEN Life!Verdict ELSE "none") \in {"none", "PASS", "FAIL"}
      BY DEF Life!Verdict
    <3>3. PICK verdict \in {"none", "PASS", "FAIL"} :
            lifeReport' = [lifeReport EXCEPT !.removal = Life!Outcome, !.adapter = verdict]
      BY <1>23, <2>4, <3>2, Zenon DEF Life!remove_current_user_setup
    <3>4. /\ lifeReport' \in Reports /\ lifeReport'.removal = Life!Outcome
          /\ lifeReport'.restore = lifeReport.restore /\ lifeReport'.contain = lifeReport.contain
      BY <3>1, <3>3
    <3>5. QED
      BY <1>23, <2>1, <2>2, <3>1, <3>4 DEF Life!remove_current_user_setup
  <2>5. QED
    BY <2>3, <2>4
<1>24. CASE Life!GateRestore
  BY <1>24 DEF Life!GateRestore, Life!Tool, Life!Denied, Life!WRITER_GATE_TIMEOUT, Life!WRITER_GATE_ABANDONED, Life!Free
<1>25. CASE Life!OWNER_ARTIFACT_READBACK
  BY <1>25 DEF Life!OWNER_ARTIFACT_READBACK, Life!Stage, Life!Tool
<1>26. CASE Life!EXECUTION_CONTEXT
  BY <1>26 DEF Life!EXECUTION_CONTEXT, Life!Stage, Life!Tool
<1>27. CASE Life!RECEIPT_BINDING
  BY <1>27 DEF Life!RECEIPT_BINDING, Life!Stage, Life!Tool
<1>28. CASE Life!RESTORED_CODE_READBACK
  BY <1>28 DEF Life!RESTORED_CODE_READBACK, Life!Stage, Life!Tool
<1>29. CASE Life!OWNER_STATE_READBACK
  BY <1>29 DEF Life!OWNER_STATE_READBACK, Life!Stage, Life!Tool
<1>30. CASE Life!QUIESCENCE_RELEASE
  <2>1. stop = TRUE
    BY <1>30 DEF Life!QUIESCENCE_RELEASE
  <2>2. Life!Again /\ stop' \in BOOLEAN /\ Life!Tool("rrun") /\ lifeTool.pc = "unstop"
        /\ UNCHANGED <<owner, lifeRun, gate, gui, relays, lease, lifeFaults>>
    BY <1>30, <2>1, Zenon DEF Life!QUIESCENCE_RELEASE
  <2>3. /\ lifeTool'.pc = "rrun" /\ lifeTool'.kind = lifeTool.kind /\ lifeTool'.wrong = lifeTool.wrong
        /\ lifeTool' \in [kind : {"none", "remove", "contain", "restore"}, pc : RestorePcs, wrong : {"none"} \cup Life!Wrongs]
    BY <2>2 DEF Life!Tool
  <2>4. LifeTypes'
    BY <2>2, <2>3, AgainWithdraws
  <2>5. Turns'
    BY <2>2, <2>3
  <2>6. Silencing'
    BY <2>2, <2>3, AgainWithdraws
  <2>7. QED
    BY <2>4, <2>5, <2>6
<1>31. CASE Life!RUN_RESTORE
  <2>1. /\ lifeRun' \in BOOLEAN /\ lifeTool.pc = "rrun" /\ (Life!Tool("rlaunch") \/ Life!Tool("crun"))
        /\ UNCHANGED <<owner, stop, gate, gui, relays, lease, lifeReport>>
    BY <1>31, Zenon DEF Life!RUN_RESTORE
  <2>2. lifeFaults' \in 0..MaxLifeFaults
    BY <1>31, FaultsCounted DEF Life!RUN_RESTORE
  <2>3. /\ lifeTool'.pc \in {"rlaunch", "crun"} /\ lifeTool'.kind = lifeTool.kind
        /\ lifeTool' \in [kind : {"none", "remove", "contain", "restore"},
                          pc : RestorePcs \cup ContainPcs, wrong : {"none"} \cup Life!Wrongs]
    BY <2>1 DEF Life!Tool
  <2>4. LifeTypes'
    BY <2>1, <2>3
  <2>5. Turns'
    BY <2>1, <2>2, <2>3
  <2>6. Silencing'
    BY <2>1, <2>3
  <2>7. QED
    BY <2>4, <2>5, <2>6
<1>32. CASE Life!RELAY_START
  <2>1. CASE Life!Launched /\ Life!Tool("rfinal") /\ UNCHANGED lifeFaults
    BY <1>32, <2>1, LaunchedWaits DEF Life!RELAY_START, Life!Tool
  <2>2. CASE UNCHANGED relays /\ Life!Tool("crun") /\ lifeFaults' \in 0..MaxLifeFaults
    BY <1>32, <2>2 DEF Life!RELAY_START, Life!Tool
  <2>3. QED
    BY <1>32, <2>1, <2>2, FaultsCounted DEF Life!RELAY_START
<1>33. CASE Life!OWNER_ARTIFACT_FINAL_READBACK
  BY <1>33 DEF Life!OWNER_ARTIFACT_FINAL_READBACK, Life!Tool
<1>34. CASE Life!REPORT_PERSISTENCE
  BY <1>34 DEF Life!REPORT_PERSISTENCE, Life!Tool, Life!Released
<1>35. CASE Life!ContainRun
  <2>1. lifeRun' \in BOOLEAN
    BY <1>35, Zenon DEF Life!ContainRun
  <2>2. LifeTypes'
    BY <1>35, <2>1 DEF Life!ContainRun, Life!Tool
  <2>3. Turns'
    BY <1>35, <2>1 DEF Life!ContainRun, Life!Tool
  <2>4. Silencing'
    BY <1>35, <2>1 DEF Life!ContainRun, Life!Tool
  <2>5. QED
    BY <2>2, <2>3, <2>4
<1>36. CASE Life!ContainStop
  BY <1>36 DEF Life!ContainStop, Life!Tool
<1>37. CASE Life!ContainPoll
  BY <1>37 DEF Life!ContainPoll, Life!Tool
<1>38. CASE Life!restore_current_user_lifecycle_after_replacement
  <2>1. PICK out \in {"NOT_REQUIRED", "PASS_SAFE_QUIESCENT", "FAILED"} :
          /\ lifeReport' = [lifeReport EXCEPT !.restore = "FAILED", !.contain = out]
          /\ out # "FAILED" => lifeTool.pc \in {"refused", "cpass"}
    BY <1>38 DEF Life!restore_current_user_lifecycle_after_replacement
  <2>2. /\ lifeReport' \in Reports /\ lifeReport'.removal = lifeReport.removal
        /\ lifeReport'.restore = "FAILED" /\ lifeReport'.contain = out
    BY <2>1
  <2>3. /\ gate' = "free" /\ lifeTool' = Life!Idle /\ gui \in {"closed", "open"}
        /\ UNCHANGED <<owner, lifeRun, stop, gui, relays, lease, lifeFaults>>
    BY <1>38 DEF Life!restore_current_user_lifecycle_after_replacement, Life!Released
  <2>4. LifeTypes' /\ Turns'
    BY <2>2, <2>3
  <2>5. Silencing'
    BY <1>38, <2>1, <2>2, <2>3
  <2>6. QED
    BY <2>4, <2>5
<1>39. CASE Life!OpenProgram
  BY <1>39 DEF Life!OpenProgram, Life!Step
<1>40. CASE Life!Close
  BY <1>40 DEF Life!Close, Life!Step
<1>41. ASSUME NEW k \in {"remove", "contain"}, Life!StartRemoval(k) PROVE LifeInv'
  <2>1. LifeTypes'
    BY <1>41 DEF Life!StartRemoval
  <2>2. Turns'
    BY <1>41 DEF Life!StartRemoval
  <2>3. Silencing'
    BY <1>41 DEF Life!StartRemoval
  <2>4. QED
    BY <2>1, <2>2, <2>3
<1>42. CASE Life!StartRestore
  BY <1>42 DEF Life!StartRestore
<1>43. CASE Life!Relogon
  <2>1. relays' \in [Relays -> {"none", "admit"}]
    BY <1>43 DEF Life!Relogon, Life!Fresh
  <2>2. QED
    BY <1>43, <2>1 DEF Life!Relogon, Life!Fresh
<1>44. CASE Life!Crash
  BY <1>44 DEF Life!Crash, Life!Step
<1>45. CASE Life!Forgotten
  BY <1>45 DEF Life!Forgotten
<1>46. CASE Life!AdminRepairs
  BY <1>46 DEF Life!AdminRepairs
<1>47. QED
  BY <1>1, <1>2, <1>3, <1>4, <1>5, <1>6, <1>7, <1>8, <1>9, <1>10, <1>11, <1>12, <1>13, <1>14, <1>15, <1>16, <1>17, <1>18, <1>19, <1>20, <1>21, <1>22, <1>23, <1>24, <1>25, <1>26, <1>27, <1>28, <1>29, <1>30, <1>31, <1>32, <1>33, <1>34, <1>35, <1>36, <1>37, <1>38, <1>39, <1>40, <1>41, <1>42, <1>43, <1>44, <1>45, <1>46
     DEF Life!Next, Life!Relay, Life!Program, Life!Tools

(* A removal that reported success, and a restoration that reports that it *)
(* contained itself, leave no relay that sends or will begin to, and the   *)
(* gate and the lease are held by who is at work                           *)
(* (current_user_onboarding.py, user_relay.py).                            *)
THEOREM RemovalSilences == Spec => []LifeSound
<1>1. Init => LifeInv
  <2> SUFFICES ASSUME Life!Init, Life!LifecycleAssumption PROVE LifeInv
    BY StationAssumption DEF StationAssumption, Init
  <2>1. LifeTypes
    BY DEF Life!Init, LifeTypes, Reports, Running, Life!Idle, Life!NoReport
  <2>2. /\ lifeRun \in BOOLEAN /\ stop \in BOOLEAN /\ gate = "free" /\ gui = "closed"
        /\ lifeTool = Life!Idle /\ lifeReport = Life!NoReport
    BY Zenon DEF Life!Init
  <2>3. Turns
    BY <2>2 DEF Life!LifecycleAssumption, Life!Init, Life!LifecycleTypeOK, Life!Idle, Turns
  <2>4. Silencing
    BY <2>2 DEF Silencing, RestorePcs, ContainPcs, CheckPcs, Life!Idle, Life!NoReport,
       Life!RemovedIsQuiet, Life!ContainedIsQuiet
  <2>5. QED
    BY <2>1, <2>3, <2>4 DEF LifeInv
<1>2. LifeInv /\ [Next]_vars => LifeInv'
  BY StationAssumption, StationSteps, LifeKeeps DEF StationAssumption
<1>3. LifeInv => LifeSound
  BY DEF LifeInv, Turns, Silencing, Life!LifeSound, LifeSound
<1>4. QED
  BY <1>1, <1>2, <1>3, PTL DEF Spec

-----------------------------------------------------------------------------
(* The item catalogue.                                                     *)

(* What is still to be written of a list received under a token, and of    *)
(* one received without.                                                   *)
Kept(v, t) == [v |-> v, t |-> t]
Blank == [v |-> 0, t |-> 0]
Signed1(v, t) == << <<"cache", Kept(v, 0)>>, <<"authority", Kept(v, t)>>, <<"last", Blank>> >>
Signed2(v, t) == << <<"authority", Kept(v, t)>>, <<"last", Blank>> >>
Last == << <<"last", Blank>> >>
Plain1(v) == << <<"recovery", Blank>>, <<"last", Blank>>, <<"cache", Kept(v, 0)>> >>
Plain2(v) == << <<"last", Blank>>, <<"cache", Kept(v, 0)>> >>
Plain3(v) == << <<"cache", Kept(v, 0)>> >>

DiskTypes ==
  /\ catDisk \in [Catalog!Files -> [v : 0..MaxVersion, t : 0..MaxToken] \cup {Catalog!Bad}]
  /\ catDisk["cache"].t \in {0, Catalog!Broken}
GhostTypes ==
  /\ catIssued \in [1..MaxToken -> SUBSET (1..MaxVersion)] /\ best \in [1..MaxToken -> 0..MaxVersion]
  /\ done \subseteq 1..MaxToken
CatalogTypes ==
  /\ DiskTypes /\ GhostTypes
  /\ token \in 0..Catalog!Broken /\ central \in 1..MaxVersion /\ catFaults \in 0..MaxCatFaults
  /\ app.items \in 0..MaxVersion /\ app.t \in 0..MaxToken
  /\ DOMAIN op = {"pc", "menu", "v", "todo"} /\ op.v \in 0..MaxVersion

(* What a token stands on was given by the server under it, and no older   *)
(* than what was in use under it; the recovery file is never behind.       *)
Pair(t) == /\ catDisk["cache"] \notin {Catalog!Absent, Catalog!Bad}
           /\ catDisk["authority"].v = catDisk["cache"].v /\ catDisk["authority"].t = t
Prov(t) ==
  /\ \A x \in catIssued[t] : x <= central
  /\ best[t] \in catIssued[t] \cup {0}
  /\ \A f \in {"authority", "recovery"} : catDisk[f].t = t => catDisk[f].v \in catIssued[t]
  /\ Pair(t) => catDisk["cache"].v >= best[t]
  /\ catDisk["recovery"].t = t => catDisk["recovery"].v >= best[t]
  /\ Pair(t) /\ catDisk["recovery"].t = t => catDisk["recovery"].v >= catDisk["cache"].v
Provenance == \A t \in 1..MaxToken : Prov(t)

(* How far the list that is being kept has been written.                   *)
WrittenSigned(v, t) ==
  /\ v \in catIssued[t]
  /\ \/ op.todo = Catalog!_write_authenticated_cache(v, t)
     \/ /\ op.todo \in {Signed1(v, t), Signed2(v, t), Last, <<>>}
        /\ catDisk["recovery"] \in {Kept(v, t), Catalog!Bad}
        /\ op.todo = Signed1(v, t) \/ catDisk["cache"] \in {Kept(v, 0), Catalog!Bad}
WrittenPlain(v) ==
  \/ op.todo = Catalog!WriteUnauthenticated(v)
  \/ /\ op.todo \in {Plain1(v), Plain2(v), Plain3(v), <<>>}
     /\ catDisk["authority"] \in {Blank, Catalog!Bad}
Writing ==
  /\ op.pc # "write" => op.todo = <<>>
  /\ op.pc \in {"get", "write", "except"} => token # Catalog!Broken
  /\ op.pc = "write" => /\ op.v \in 1..MaxVersion
                        /\ \A t \in 1..MaxToken : \A x \in catIssued[t] : x <= op.v
  /\ op.pc = "write" /\ token \in 1..MaxToken => WrittenSigned(op.v, token)
  /\ op.pc = "write" /\ token = 0 => WrittenPlain(op.v)

CatalogInv == CatalogTypes /\ Provenance /\ Writing /\ Catalog!FromTheServer /\ Catalog!NoRollback

(* Where nothing is damaged, the recovery file of a completed refresh stays.*)
RecoveryStays ==
  /\ \A t \in done : catIssued[t] # {}
  /\ token \in done => catDisk["recovery"].t = token /\ catDisk["recovery"].v # 0
  /\ op.pc = "write" /\ token \in 1..MaxToken =>
       \/ op.todo = Catalog!_write_authenticated_cache(op.v, token)
       \/ catDisk["recovery"] = Kept(op.v, token)

(* A write is the first of those that are left, and leaves the others.     *)
LEMMA NextWrite ==
  ASSUME NEW v, NEW t
  PROVE  /\ Head(Catalog!_write_authenticated_cache(v, t)) = <<"recovery", Kept(v, t)>>
         /\ Tail(Catalog!_write_authenticated_cache(v, t)) = Signed1(v, t)
         /\ Head(Signed1(v, t)) = <<"cache", Kept(v, 0)>> /\ Tail(Signed1(v, t)) = Signed2(v, t)
         /\ Head(Signed2(v, t)) = <<"authority", Kept(v, t)>> /\ Tail(Signed2(v, t)) = Last
         /\ Head(Last) = <<"last", Blank>> /\ Tail(Last) = <<>>
         /\ Head(Catalog!WriteUnauthenticated(v)) = <<"authority", Blank>>
         /\ Tail(Catalog!WriteUnauthenticated(v)) = Plain1(v)
         /\ Head(Plain1(v)) = <<"recovery", Blank>> /\ Tail(Plain1(v)) = Plain2(v)
         /\ Head(Plain2(v)) = <<"last", Blank>> /\ Tail(Plain2(v)) = Plain3(v)
         /\ Head(Plain3(v)) = <<"cache", Kept(v, 0)>> /\ Tail(Plain3(v)) = <<>>
  BY DEF Catalog!_write_authenticated_cache, Catalog!WriteUnauthenticated, Catalog!Content,
     Catalog!Absent, Kept, Blank, Signed1, Signed2, Last, Plain1, Plain2, Plain3

LEMMA WriteLengths ==
  ASSUME NEW v, NEW t
  PROVE  /\ Len(Catalog!_write_authenticated_cache(v, t)) = 4 /\ Len(Signed1(v, t)) = 3
         /\ Len(Signed2(v, t)) = 2 /\ Len(Last) = 1 /\ Len(<<>>) = 0
         /\ Len(Catalog!WriteUnauthenticated(v)) = 4 /\ Len(Plain1(v)) = 3
         /\ Len(Plain2(v)) = 2 /\ Len(Plain3(v)) = 1
  BY DEF Catalog!_write_authenticated_cache, Catalog!WriteUnauthenticated, Signed1, Signed2, Last,
     Plain1, Plain2, Plain3

LEMMA Shortest ==
  ASSUME NEW v, NEW t, op.todo = <<>> \/ WrittenSigned(v, t) \/ WrittenPlain(v) PROVE Len(op.todo) <= 4
<1>1. op.todo \in {<<>>, Catalog!_write_authenticated_cache(v, t), Signed1(v, t), Signed2(v, t), Last,
                  Catalog!WriteUnauthenticated(v), Plain1(v), Plain2(v), Plain3(v)}
  BY DEF WrittenSigned, WrittenPlain
<1>2. \A n \in {0, 1, 2, 3, 4} : n <= 4
  OBVIOUS
<1>3. Len(op.todo) \in {0, 1, 2, 3, 4}
  BY <1>1, WriteLengths
<1>4. QED
  BY <1>2, <1>3, Zenon

LEMMA WritesDiffer ==
  ASSUME NEW v, NEW t
  PROVE  /\ Catalog!_write_authenticated_cache(v, t) \notin {Signed1(v, t), Signed2(v, t), Last, <<>>}
         /\ Signed1(v, t) \notin {Signed2(v, t), Last, <<>>}
         /\ Catalog!WriteUnauthenticated(v) \notin {Plain1(v), Plain2(v), Plain3(v), <<>>}
  BY WriteLengths

(* Nothing that is recorded changes.                                       *)
LEMMA SameRecords ==
  ASSUME Provenance, UNCHANGED <<catDisk, catIssued, best, central>>
  PROVE  Provenance'
  BY DEF Provenance, Prov, Pair

LEMMA SameTypes ==
  /\ DiskTypes /\ UNCHANGED catDisk => DiskTypes'
  /\ GhostTypes /\ UNCHANGED <<catIssued, best, done>> => GhostTypes'
  BY DEF DiskTypes, GhostTypes

LEMMA DiskVersions ==
  ASSUME Catalog!CatalogAssumption, DiskTypes, NEW f \in Catalog!Files PROVE catDisk[f].v \in 0..MaxVersion
  BY DEF Catalog!CatalogAssumption, DiskTypes, Catalog!Bad

(* The first write that is left is made, and only that.                    *)
Contents == [v : 0..MaxVersion, t : 0..MaxToken]
Store ==
  /\ catDisk' = [catDisk EXCEPT ![Head(op.todo)[1]] = Head(op.todo)[2]]
  /\ op' = [op EXCEPT !.todo = Tail(@)]
  /\ UNCHANGED <<token, central, app, catIssued, best, done, catFaults>>
Stored(f, c, rest) ==
  /\ CatalogTypes' /\ op'.todo = rest /\ op'.pc = "write" /\ op'.v = op.v
  /\ catDisk'[f] = c /\ \A g \in Catalog!Files \ {f} : catDisk'[g] = catDisk[g]
LEMMA StoreOne ==
  ASSUME Catalog!CatalogAssumption, CatalogTypes, op.pc = "write", Store,
         NEW f \in Catalog!Files, NEW c \in Contents, NEW rest, f = "cache" => c.t = 0,
         Head(op.todo) = <<f, c>>, Tail(op.todo) = rest
  PROVE  Stored(f, c, rest)
<1>1. catDisk' = [catDisk EXCEPT ![f] = c] /\ op' = [op EXCEPT !.todo = rest]
  <2>1. Head(op.todo)[1] = f /\ Head(op.todo)[2] = c
    OBVIOUS
  <2>2. QED
    BY <2>1, Zenon DEF Store
<1>2. op'.todo = rest /\ op'.pc = "write" /\ op'.v = op.v /\ DOMAIN op' = DOMAIN op
  BY <1>1 DEF CatalogTypes
<1>3. catDisk'[f] = c /\ \A g \in Catalog!Files \ {f} : catDisk'[g] = catDisk[g]
  BY <1>1 DEF CatalogTypes, DiskTypes
<1>4. DiskTypes'
  BY <1>1 DEF CatalogTypes, DiskTypes, Contents, Catalog!Files
<1>5. QED
  BY <1>2, <1>3, <1>4, SameTypes DEF CatalogTypes, Store, Stored

(* A list that is no older than the newest one used under the token is     *)
(* then the newest one used.                                               *)
LEMMA UsedIsNewest ==
  ASSUME Catalog!CatalogAssumption, GhostTypes, token \in 1..MaxToken, NEW v \in catIssued[token],
         v >= best[token], Catalog!Use(v, token), Catalog!Used(v), UNCHANGED <<catIssued, token>>
  PROVE  /\ best' \in [1..MaxToken -> 0..MaxVersion] /\ best'[token] = v
         /\ \A t \in 1..MaxToken \ {token} : best'[t] = best[t]
         /\ app'.items \in 0..MaxVersion /\ app'.t \in 0..MaxToken
         /\ Catalog!FromTheServer' /\ Catalog!NoRollback'
<1>1. v \in 1..MaxVersion /\ best[token] \in 0..MaxVersion
  BY DEF GhostTypes
<1>2. IF v > best[token] THEN best' = [best EXCEPT ![token] = v] ELSE best' = best
  BY DEF Catalog!Used, Catalog!Enrolled, Catalog!Tokens
<1>3. /\ best'[token] = v /\ \A t \in 1..MaxToken \ {token} : best'[t] = best[t]
      /\ best' \in [1..MaxToken -> 0..MaxVersion]
  BY <1>1, <1>2 DEF GhostTypes, Catalog!CatalogAssumption
<1>4. app'.items = v /\ app'.t = token
  BY DEF Catalog!Use
<1>5. QED
  BY <1>1, <1>3, <1>4 DEF GhostTypes, Catalog!FromTheServer, Catalog!NoRollback

LEMMA CatalogKeeps ==
  ASSUME Catalog!CatalogAssumption, CatalogInv, [Catalog!Next]_(Catalog!vars)
  PROVE  CatalogInv'
<1> USE DEF Catalog!CatalogAssumption, Catalog!Broken, Catalog!Bad, Catalog!Absent,
  Catalog!Files, Catalog!Idle, Catalog!Off, Catalog!Smooth, Catalog!Mishap, Catalog!Enrolled,
  Catalog!Tokens, Catalog!Bundled, Catalog!Versions
<1>0. CatalogTypes /\ Provenance /\ Writing /\ Catalog!FromTheServer /\ Catalog!NoRollback
  BY DEF CatalogInv
<1>1. CASE UNCHANGED Catalog!vars
  <2>1. CatalogTypes'
    BY SameTypes, <1>0, <1>1 DEF Catalog!vars, CatalogTypes
  <2>2. Writing'
    BY <1>0, <1>1 DEF Catalog!vars, Writing, WrittenSigned, WrittenPlain
  <2>3. Catalog!FromTheServer' /\ Catalog!NoRollback'
    BY <1>0, <1>1 DEF Catalog!vars, Catalog!FromTheServer, Catalog!NoRollback
  <2>4. QED
    BY <1>0, <1>1, <2>1, <2>2, <2>3, SameRecords DEF Catalog!vars, CatalogInv
<1>2. ASSUME UNCHANGED <<catDisk, catIssued, best, central>>, CatalogTypes',
             op'.pc \in {"idle", "profile"}, op'.todo = <<>>,
             (app' = app /\ token' = token) \/ ~app'.up \/ app'.t = 0
      PROVE  CatalogInv'
  <2>1. Writing'
    BY <1>2 DEF Writing
  <2>2. Catalog!FromTheServer' /\ Catalog!NoRollback'
    BY <1>0, <1>2 DEF Catalog!FromTheServer, Catalog!NoRollback
  <2>3. QED
    BY <1>0, <1>2, <2>1, <2>2, SameRecords DEF CatalogInv
<1>3. CASE Catalog!Start
  <2>1. CatalogTypes'
    BY SameTypes, <1>0, <1>3 DEF CatalogTypes, Catalog!Start, Catalog!Begin
  <2>2. QED
    BY <1>2, <1>3, <2>1 DEF Catalog!Start, Catalog!Begin
<1>4. CASE Catalog!_refresh_item_catalog
  <2>1. CatalogTypes'
    BY SameTypes, <1>0, <1>4 DEF CatalogTypes, Catalog!_refresh_item_catalog, Catalog!Begin
  <2>2. QED
    BY <1>2, <1>4, <2>1 DEF Catalog!_refresh_item_catalog, Catalog!Begin
<1>5. CASE Catalog!NoCache
  <2>1. CatalogTypes'
    BY SameTypes, <1>0, <1>5 DEF CatalogTypes, Catalog!NoCache, Catalog!Refuse
  <2>2. QED
    BY <1>2, <1>5, <2>1 DEF Catalog!NoCache, Catalog!Refuse
<1>6. CASE Catalog!LocalCache
  <2>1. CatalogTypes'
    BY SameTypes, <1>0, <1>6, DiskVersions DEF CatalogTypes, Catalog!LocalCache, Catalog!Use, Catalog!Fallback, Catalog!_is_valid_catalog
  <2>2. QED
    BY <1>2, <1>6, <2>1 DEF Catalog!LocalCache, Catalog!Use, Catalog!Fallback, Catalog!_is_valid_catalog
<1>7. CASE Catalog!Enroll
  <2>1. CatalogTypes'
    <3>1. token' \in 0..MaxToken /\ UNCHANGED <<catDisk, central, app, op, catIssued, best, done, catFaults>>
      BY <1>7 DEF Catalog!Enroll
    <3>2. QED
      BY <1>0, <3>1, SameTypes DEF CatalogTypes
  <2>2. QED
    BY <1>0, <1>2, <1>7, <2>1 DEF Writing, Catalog!Enroll
<1>8. CASE Catalog!Close
  <2>1. CatalogTypes'
    BY SameTypes, <1>0, <1>8 DEF CatalogTypes, Catalog!Close
  <2>2. QED
    BY <1>0, <1>2, <1>8, <2>1 DEF Writing, Catalog!Close
<1>9. CASE Catalog!Crash
  <2>1. CatalogTypes'
    BY SameTypes, <1>0, <1>9 DEF CatalogTypes, Catalog!Crash
  <2>2. QED
    BY <1>2, <1>9, <2>1 DEF Catalog!Crash
<1>10. CASE Catalog!BreakProfile
  <2>1. CatalogTypes'
    BY SameTypes, <1>0, <1>10 DEF CatalogTypes, Catalog!BreakProfile
  <2>2. QED
    BY <1>0, <1>2, <1>10, <2>1 DEF Writing, Catalog!BreakProfile

<1>11. ASSUME UNCHANGED <<catDisk, catIssued, best, central, app, token>>, CatalogTypes', Writing'
       PROVE  CatalogInv'
  BY <1>0, <1>11, SameRecords DEF CatalogInv, Catalog!FromTheServer, Catalog!NoRollback
<1>12. CASE Catalog!_load_item_catalog_logistics_profile
  <2>1. CASE token \in {0, Catalog!Broken} /\ op' = Catalog!Idle
    <3>1. CatalogTypes'
      <4>1. Catalog!Fallback \in 0..MaxVersion
        BY <1>0, DiskVersions DEF CatalogTypes, Catalog!Fallback, Catalog!_is_valid_catalog
      <4>2. \/ UNCHANGED app \/ app' = [Catalog!Off EXCEPT !.why = "profile"]
            \/ app' = [up |-> TRUE, items |-> Catalog!Fallback, t |-> 0, why |-> "none"]
        BY <1>12, <2>1 DEF Catalog!_load_item_catalog_logistics_profile, Catalog!Use, Catalog!Refuse
      <4>3. app'.items \in 0..MaxVersion /\ app'.t \in 0..MaxToken
        BY <1>0, <4>1, <4>2 DEF CatalogTypes
      <4>4. QED
        BY <1>0, <1>12, <2>1, <4>3, SameTypes DEF CatalogTypes,
           Catalog!_load_item_catalog_logistics_profile
    <3>2. QED
      BY <1>2, <1>12, <2>1, <3>1 DEF Catalog!_load_item_catalog_logistics_profile, Catalog!Use,
         Catalog!Refuse
  <2>2. CASE token # Catalog!Broken /\ op' = [op EXCEPT !.pc = "get"] /\ UNCHANGED app
    <3>1. CatalogTypes'
      BY SameTypes, <1>0, <1>12, <2>2 DEF CatalogTypes, Catalog!_load_item_catalog_logistics_profile
    <3>2. Writing'
      BY <1>0, <1>12, <2>2 DEF CatalogTypes, Writing, Catalog!_load_item_catalog_logistics_profile
    <3>3. QED
      BY <1>11, <1>12, <2>2, <3>1, <3>2 DEF Catalog!_load_item_catalog_logistics_profile
  <2>3. QED
    BY <1>12, <2>1, <2>2 DEF Catalog!_load_item_catalog_logistics_profile
<1>13. CASE Catalog!_hardened_get
  <2>1. /\ op.pc = "get" /\ token # Catalog!Broken /\ op.todo = <<>>
        /\ UNCHANGED <<catDisk, token, central, app, best, done>>
    BY <1>0, <1>13 DEF Writing, Catalog!_hardened_get
  <2>2. CASE op' = [op EXCEPT !.pc = "except"] /\ UNCHANGED catIssued /\ Catalog!Mishap("get")
    <3>1. CatalogTypes'
      BY SameTypes, <1>0, <2>1, <2>2 DEF CatalogTypes
    <3>2. Writing'
      BY <1>0, <2>1, <2>2 DEF CatalogTypes, Writing
    <3>3. QED
      BY <1>11, <2>1, <2>2, <3>1, <3>2
  <2>3. CASE /\ token \in 1..MaxToken /\ UNCHANGED catFaults
             /\ op' = [op EXCEPT !.pc = "write", !.v = central,
                         !.todo = Catalog!_write_authenticated_cache(central, token)]
             /\ catIssued' = [catIssued EXCEPT ![token] = @ \cup {central}]
    <3>1. CatalogTypes'
      <4>1. GhostTypes'
        BY <1>0, <2>1, <2>3 DEF CatalogTypes, GhostTypes
      <4>2. QED
        BY SameTypes, <1>0, <2>1, <2>3, <4>1 DEF CatalogTypes
    <3>2. /\ op'.pc = "write" /\ op'.v = central
          /\ op'.todo = Catalog!_write_authenticated_cache(central, token)
      BY <1>0, <2>3 DEF CatalogTypes
    <3>3. \A t \in 1..MaxToken : catIssued'[t] = catIssued[t] \cup (IF t = token THEN {central} ELSE {})
      BY <1>0, <2>3 DEF CatalogTypes, GhostTypes
    <3>4. Provenance'
      <4>1. central \in Nat /\ central' = central
        BY <1>0, <2>1 DEF CatalogTypes
      <4>2. QED
        BY <1>0, <2>1, <3>3, <4>1 DEF Provenance, Prov, Pair
    <3>5. Writing'
      BY <1>0, <2>1, <2>3, <3>2, <3>3 DEF CatalogTypes, GhostTypes, Provenance, Prov, Writing, WrittenSigned
    <3>6. QED
      <4>1. Catalog!FromTheServer' /\ Catalog!NoRollback'
        BY <1>0, <2>1, <3>3 DEF CatalogTypes, Catalog!FromTheServer, Catalog!NoRollback
      <4>2. QED
        BY <3>1, <3>4, <3>5, <4>1 DEF CatalogInv
  <2>4. CASE /\ token = 0 /\ UNCHANGED <<catFaults, catIssued>>
             /\ op' = [op EXCEPT !.pc = "write", !.v = central,
                         !.todo = Catalog!WriteUnauthenticated(central)]
    <3>1. CatalogTypes'
      BY SameTypes, <1>0, <2>1, <2>4 DEF CatalogTypes
    <3>2. Writing'
      BY <1>0, <2>1, <2>4 DEF CatalogTypes, GhostTypes, Provenance, Prov, Writing, WrittenPlain
    <3>3. QED
      BY <1>11, <2>1, <2>4, <3>1, <3>2
  <2>5. token \in 1..MaxToken \/ token = 0
    BY <1>0, <2>1 DEF CatalogTypes
  <2>6. QED
    BY <1>13, <2>2, <2>3, <2>4, <2>5 DEF Catalog!_hardened_get
<1>14. CASE Catalog!_atomic_write
  <2>1. /\ op.pc = "write" /\ op.todo # <<>> /\ op.v \in 1..MaxVersion
        /\ UNCHANGED <<token, central, app, catIssued, best, done>>
    BY <1>0, <1>14 DEF Writing, Catalog!_atomic_write
  <2>2. CASE op' = [op EXCEPT !.pc = "except", !.todo = <<>>] /\ UNCHANGED catDisk /\ Catalog!Mishap("write")
    <3>1. CatalogTypes'
      BY <1>0, <2>1, <2>2, SameTypes DEF CatalogTypes
    <3>2. Writing'
      BY <1>0, <2>1, <2>2 DEF CatalogTypes, Writing
    <3>3. QED
      BY <1>11, <2>1, <2>2, <3>1, <3>2
  <2>3. CASE Store
    <3> /\ Kept(op.v, 0) \in Contents /\ Blank \in Contents /\ Kept(op.v, 0).t = 0
        /\ token \in 1..MaxToken => Kept(op.v, token) \in Contents
      BY <2>1 DEF Kept, Blank, Contents
    <3> /\ CatalogTypes /\ op.pc = "write"
        /\ \A f \in {"recovery", "cache", "authority", "last"} : f \in Catalog!Files
      BY <1>0, <2>1
    <3>0. ASSUME CatalogTypes', Provenance', Writing' PROVE CatalogInv'
      BY <1>0, <2>1, <3>0 DEF CatalogInv, Catalog!FromTheServer, Catalog!NoRollback
    <3>4. /\ op.v \in 1..MaxVersion /\ \A f \in Catalog!Files : catDisk[f].v \in Nat
          /\ \A t \in 1..MaxToken :
               /\ best[t] \in Nat /\ catIssued[t] \subseteq Nat /\ op.v >= best[t]
               /\ \A x \in catIssued[t] : x <= op.v
      <4>1. \A f \in Catalog!Files : catDisk[f].v \in Nat
        BY <1>0, DiskVersions DEF CatalogTypes
      <4>2. QED
        BY <1>0, <2>1, <4>1 DEF CatalogTypes, GhostTypes, Provenance, Prov, Writing
    <3>5. \A t \in 1..MaxToken : Prov(t)
      BY <1>0 DEF Provenance
    <3>1. CASE token \in 1..MaxToken
      <4>1. /\ op.v \in catIssued[token]
            /\ op.todo \in {Signed1(op.v, token), Signed2(op.v, token), Last} =>
                 catDisk["recovery"] \in {Kept(op.v, token), Catalog!Bad}
            /\ op.todo \in {Signed2(op.v, token), Last} =>
                 catDisk["cache"] \in {Kept(op.v, 0), Catalog!Bad}
        BY <1>0, <2>1, <3>1, WritesDiffer DEF Writing, WrittenSigned
      <4>2. CASE op.todo = Catalog!_write_authenticated_cache(op.v, token)
        <5>1. Head(op.todo) = <<"recovery", Kept(op.v, token)>> /\ Tail(op.todo) = Signed1(op.v, token)
          BY <4>2, NextWrite, Zenon
        <5>2. Stored("recovery", Kept(op.v, token), Signed1(op.v, token))
          BY <2>3, <3>1, <5>1, StoreOne
        <5>3. ASSUME NEW t \in 1..MaxToken PROVE Prov(t)'
          BY <2>1, <3>1, <3>4, <3>5, <4>1, <4>2, <5>2, <5>3 DEF Stored, Prov, Pair, Kept, Blank
        <5>4. Writing'
          BY <1>0, <2>1, <3>1, <4>1, <4>2, <5>2 DEF Stored, Writing, WrittenSigned, WrittenPlain
        <5>5. QED
          BY <3>0, <5>2, <5>3, <5>4 DEF Stored, Provenance
      <4>3. CASE op.todo = Signed1(op.v, token)
        <5>1. Head(op.todo) = <<"cache", Kept(op.v, 0)>> /\ Tail(op.todo) = Signed2(op.v, token)
          BY <4>3, NextWrite, Zenon
        <5>2. Stored("cache", Kept(op.v, 0), Signed2(op.v, token))
          BY <2>3, <3>1, <5>1, StoreOne
        <5>3. ASSUME NEW t \in 1..MaxToken PROVE Prov(t)'
          BY <2>1, <3>1, <3>4, <3>5, <4>1, <4>3, <5>2, <5>3 DEF Stored, Prov, Pair, Kept, Blank
        <5>4. Writing'
          BY <1>0, <2>1, <3>1, <4>1, <4>3, <5>2 DEF Stored, Writing, WrittenSigned, WrittenPlain
        <5>5. QED
          BY <3>0, <5>2, <5>3, <5>4 DEF Stored, Provenance
      <4>4. CASE op.todo = Signed2(op.v, token)
        <5>1. Head(op.todo) = <<"authority", Kept(op.v, token)>> /\ Tail(op.todo) = Last
          BY <4>4, NextWrite, Zenon
        <5>2. Stored("authority", Kept(op.v, token), Last)
          BY <2>3, <3>1, <5>1, StoreOne
        <5>3. ASSUME NEW t \in 1..MaxToken PROVE Prov(t)'
          BY <2>1, <3>1, <3>4, <3>5, <4>1, <4>4, <5>2, <5>3 DEF Stored, Prov, Pair, Kept, Blank
        <5>4. Writing'
          BY <1>0, <2>1, <3>1, <4>1, <4>4, <5>2 DEF Stored, Writing, WrittenSigned, WrittenPlain
        <5>5. QED
          BY <3>0, <5>2, <5>3, <5>4 DEF Stored, Provenance
      <4>5. CASE op.todo = Last
        <5>1. Head(op.todo) = <<"last", Blank>> /\ Tail(op.todo) = <<>>
          BY <4>5, NextWrite, Zenon
        <5>2. Stored("last", Blank, <<>>)
          BY <2>3, <3>1, <5>1, StoreOne
        <5>3. ASSUME NEW t \in 1..MaxToken PROVE Prov(t)'
          BY <2>1, <3>1, <3>4, <3>5, <4>1, <4>5, <5>2, <5>3 DEF Stored, Prov, Pair, Kept, Blank
        <5>4. Writing'
          BY <1>0, <2>1, <3>1, <4>1, <4>5, <5>2 DEF Stored, Writing, WrittenSigned, WrittenPlain
        <5>5. QED
          BY <3>0, <5>2, <5>3, <5>4 DEF Stored, Provenance
      <4>6. QED
        BY <1>0, <2>1, <3>1, <4>2, <4>3, <4>4, <4>5 DEF Writing, WrittenSigned
    <3>2. CASE token = 0
      <4>1. op.todo \in {Plain1(op.v), Plain2(op.v), Plain3(op.v)} =>
              catDisk["authority"] \in {Blank, Catalog!Bad}
        BY <1>0, <2>1, <3>2, WritesDiffer DEF Writing, WrittenPlain
      <4>2. CASE op.todo = Catalog!WriteUnauthenticated(op.v)
        <5>1. Head(op.todo) = <<"authority", Blank>> /\ Tail(op.todo) = Plain1(op.v)
          BY <4>2, NextWrite, Zenon
        <5>2. Stored("authority", Blank, Plain1(op.v))
          BY <2>3, <3>2, <5>1, StoreOne
        <5>3. ASSUME NEW t \in 1..MaxToken PROVE Prov(t)'
          BY <2>1, <3>2, <3>4, <3>5, <4>1, <4>2, <5>2, <5>3 DEF Stored, Prov, Pair, Kept, Blank
        <5>4. Writing'
          BY <1>0, <2>1, <3>2, <4>1, <4>2, <5>2 DEF Stored, Writing, WrittenSigned, WrittenPlain
        <5>5. QED
          BY <3>0, <5>2, <5>3, <5>4 DEF Stored, Provenance
      <4>3. CASE op.todo = Plain1(op.v)
        <5>1. Head(op.todo) = <<"recovery", Blank>> /\ Tail(op.todo) = Plain2(op.v)
          BY <4>3, NextWrite, Zenon
        <5>2. Stored("recovery", Blank, Plain2(op.v))
          BY <2>3, <3>2, <5>1, StoreOne
        <5>3. ASSUME NEW t \in 1..MaxToken PROVE Prov(t)'
          BY <2>1, <3>2, <3>4, <3>5, <4>1, <4>3, <5>2, <5>3 DEF Stored, Prov, Pair, Kept, Blank
        <5>4. Writing'
          BY <1>0, <2>1, <3>2, <4>1, <4>3, <5>2 DEF Stored, Writing, WrittenSigned, WrittenPlain
        <5>5. QED
          BY <3>0, <5>2, <5>3, <5>4 DEF Stored, Provenance
      <4>4. CASE op.todo = Plain2(op.v)
        <5>1. Head(op.todo) = <<"last", Blank>> /\ Tail(op.todo) = Plain3(op.v)
          BY <4>4, NextWrite, Zenon
        <5>2. Stored("last", Blank, Plain3(op.v))
          BY <2>3, <3>2, <5>1, StoreOne
        <5>3. ASSUME NEW t \in 1..MaxToken PROVE Prov(t)'
          BY <2>1, <3>2, <3>4, <3>5, <4>1, <4>4, <5>2, <5>3 DEF Stored, Prov, Pair, Kept, Blank
        <5>4. Writing'
          BY <1>0, <2>1, <3>2, <4>1, <4>4, <5>2 DEF Stored, Writing, WrittenSigned, WrittenPlain
        <5>5. QED
          BY <3>0, <5>2, <5>3, <5>4 DEF Stored, Provenance
      <4>5. CASE op.todo = Plain3(op.v)
        <5>1. Head(op.todo) = <<"cache", Kept(op.v, 0)>> /\ Tail(op.todo) = <<>>
          BY <4>5, NextWrite, Zenon
        <5>2. Stored("cache", Kept(op.v, 0), <<>>)
          BY <2>3, <3>2, <5>1, StoreOne
        <5>3. ASSUME NEW t \in 1..MaxToken PROVE Prov(t)'
          BY <2>1, <3>2, <3>4, <3>5, <4>1, <4>5, <5>2, <5>3 DEF Stored, Prov, Pair, Kept, Blank
        <5>4. Writing'
          BY <1>0, <2>1, <3>2, <4>1, <4>5, <5>2 DEF Stored, Writing, WrittenSigned, WrittenPlain
        <5>5. QED
          BY <3>0, <5>2, <5>3, <5>4 DEF Stored, Provenance
      <4>6. QED
        BY <1>0, <2>1, <3>2, <4>2, <4>3, <4>4, <4>5 DEF Writing, WrittenPlain
    <3>3. QED
      BY <1>0, <2>1, <3>1, <3>2 DEF CatalogTypes, Writing
  <2>4. QED
    BY <1>14, <2>1, <2>2, <2>3 DEF Catalog!_atomic_write, Store
<1>15. /\ \A f \in Catalog!Files : catDisk[f].v \in Nat
       /\ \A t \in 1..MaxToken : Prov(t) /\ best[t] \in Nat /\ catIssued[t] \subseteq Nat
  <2>1. \A f \in Catalog!Files : catDisk[f].v \in Nat
    BY <1>0, DiskVersions DEF CatalogTypes
  <2>2. QED
    BY <1>0, <2>1 DEF CatalogTypes, GhostTypes, Provenance
<1>16. CASE Catalog!_remember_verified_catalog_snapshot
  <2>1. /\ op.pc = "write" /\ op.todo = <<>> /\ op.v \in 1..MaxVersion /\ op' = Catalog!Idle
        /\ token # Catalog!Broken /\ Catalog!Use(op.v, token) /\ Catalog!Used(op.v)
        /\ UNCHANGED <<catDisk, token, central, catIssued, catFaults>>
    BY <1>0, <1>16 DEF Writing, Catalog!_remember_verified_catalog_snapshot
  <2>2. CASE token \in 1..MaxToken
    <3>1. /\ op.v \in catIssued[token] /\ op.v >= best[token]
          /\ catDisk["recovery"] \in {Kept(op.v, token), Catalog!Bad}
          /\ catDisk["cache"] \in {Kept(op.v, 0), Catalog!Bad}
      BY <1>0, <1>15, <2>1, <2>2, WritesDiffer DEF Prov, Writing, WrittenSigned
    <3>2. /\ best' \in [1..MaxToken -> 0..MaxVersion] /\ best'[token] = op.v
          /\ \A t \in 1..MaxToken \ {token} : best'[t] = best[t]
          /\ app'.items \in 0..MaxVersion /\ app'.t \in 0..MaxToken
          /\ Catalog!FromTheServer' /\ Catalog!NoRollback'
      BY <1>0, <2>1, <2>2, <3>1, UsedIsNewest DEF CatalogTypes
    <3>3. CatalogTypes'
      <4>1. GhostTypes'
        BY <1>0, <1>16, <2>1, <2>2, <3>2
           DEF CatalogTypes, GhostTypes, Catalog!_remember_verified_catalog_snapshot
      <4>2. QED
        BY <1>0, <2>1, <3>2, <4>1, SameTypes DEF CatalogTypes
    <3>4. ASSUME NEW t \in 1..MaxToken PROVE Prov(t)'
      <4>1. CASE t # token
        BY <1>15, <2>1, <3>2, <3>4, <4>1 DEF Prov, Pair
      <4>2. CASE t = token
        <5>1. /\ Pair(t) => catDisk["cache"].v = op.v
              /\ catDisk["recovery"].t = t => catDisk["recovery"].v = op.v
          BY <2>2, <3>1, <4>2 DEF Pair, Kept
        <5>2. QED
          BY <1>15, <2>1, <3>1, <3>2, <3>4, <4>2, <5>1 DEF Prov, Pair
      <4>3. QED
        BY <4>1, <4>2
    <3>5. Writing'
      BY <2>1 DEF Writing
    <3>6. QED
      BY <3>2, <3>3, <3>4, <3>5 DEF CatalogInv, Provenance
  <2>3. CASE token = 0
    <3>1. /\ UNCHANGED best /\ app'.items = op.v /\ app'.t = 0 /\ done' = {}
      BY <1>16, <2>1, <2>3 DEF Catalog!Used, Catalog!Use, Catalog!_remember_verified_catalog_snapshot
    <3>2. CatalogTypes'
      <4>1. GhostTypes'
        BY <1>0, <2>1, <3>1 DEF CatalogTypes, GhostTypes
      <4>2. QED
        BY <1>0, <2>1, <3>1, <4>1, SameTypes DEF CatalogTypes
    <3>3. QED
      BY <1>2, <2>1, <3>1, <3>2
  <2>4. QED
    BY <1>0, <2>1, <2>2, <2>3 DEF CatalogTypes
<1>17. ASSUME NEW v, token \in 1..MaxToken, v \in catIssued[token], v >= best[token],
              Catalog!Use(v, token), Catalog!Used(v), op' = Catalog!Idle,
              UNCHANGED <<token, central, catIssued, done, catFaults>>, DiskTypes',
              \A f \in {"cache", "authority", "recovery"} : catDisk'[f] = catDisk[f],
              Pair(token) => catDisk["cache"].v >= v,
              catDisk["recovery"].t = token => catDisk["recovery"].v >= v
       PROVE  CatalogInv'
  <2>1. /\ best' \in [1..MaxToken -> 0..MaxVersion] /\ best'[token] = v
        /\ \A t \in 1..MaxToken \ {token} : best'[t] = best[t]
        /\ app'.items \in 0..MaxVersion /\ app'.t \in 0..MaxToken
        /\ Catalog!FromTheServer' /\ Catalog!NoRollback'
    BY <1>0, <1>17, UsedIsNewest DEF CatalogTypes
  <2>2. CatalogTypes'
    BY <1>0, <1>17, <2>1 DEF CatalogTypes, GhostTypes
  <2>3. ASSUME NEW t \in 1..MaxToken PROVE Prov(t)'
    BY <1>15, <1>17, <2>1 DEF Prov, Pair
  <2>4. Writing'
    BY <1>17 DEF Writing
  <2>5. QED
    BY <2>1, <2>2, <2>3, <2>4 DEF CatalogInv, Provenance
<1>18. CASE Catalog!VerifiedCache
  <2>1. token \in 1..MaxToken /\ Pair(token)
    BY <1>18 DEF Catalog!VerifiedCache, Catalog!_read_authenticated_cache_payload,
       Catalog!_is_valid_catalog, Catalog!is_valid_authenticated_payload, Pair
  <2>2. CASE UNCHANGED <<app, best>>
    <3>1. CatalogTypes'
      BY <1>0, <1>18, <2>2, SameTypes DEF CatalogTypes, Catalog!VerifiedCache
    <3>2. QED
      BY <1>2, <1>18, <2>2, <3>1 DEF Catalog!VerifiedCache
  <2>3. CASE Catalog!Use(catDisk["cache"].v, token) /\ Catalog!Used(catDisk["cache"].v)
    <3>1. catDisk["cache"].v \in catIssued[token] /\ catDisk["cache"].v >= best[token]
      BY <1>15, <2>1 DEF Prov, Pair
    <3>2. catDisk["recovery"].t = token => catDisk["recovery"].v >= catDisk["cache"].v
      BY <1>15, <2>1 DEF Prov
    <3>3. DiskTypes'
      BY <1>0, <1>18, SameTypes DEF CatalogTypes, Catalog!VerifiedCache
    <3>4. QED
      BY <1>15, <1>17, <1>18, <2>1, <2>3, <3>1, <3>2, <3>3 DEF Catalog!VerifiedCache
  <2>4. QED
    BY <1>18, <2>2, <2>3 DEF Catalog!VerifiedCache
<1>19. CASE Catalog!_recover_authenticated_cache
  <2>1. /\ token \in 1..MaxToken /\ ~Pair(token) /\ catDisk["recovery"].t = token
        /\ op' = Catalog!Idle /\ UNCHANGED <<token, central, catIssued, done>>
    BY <1>19 DEF Catalog!_recover_authenticated_cache, Catalog!_read_authenticated_cache_payload,
       Catalog!_is_valid_catalog, Catalog!is_valid_authenticated_payload,
       Catalog!_read_authenticated_recovery_payload, Pair
  <2>2. CASE UNCHANGED <<catDisk, best>> /\ Catalog!Refuse("no_cache") /\ Catalog!Mishap("write")
    <3>1. CatalogTypes'
      BY <1>0, <2>1, <2>2, SameTypes DEF CatalogTypes, Catalog!Refuse
    <3>2. QED
      BY <1>2, <2>1, <2>2, <3>1 DEF Catalog!Refuse
  <2>3. CASE /\ catDisk' = [catDisk EXCEPT !["last"] = Catalog!Content(catDisk["recovery"].v, 0)]
             /\ UNCHANGED catFaults
             /\ \/ UNCHANGED <<app, best>>
                \/ Catalog!Use(catDisk["recovery"].v, token) /\ Catalog!Used(catDisk["recovery"].v)
    <3>1. DiskTypes' /\ \A f \in {"cache", "authority", "recovery"} : catDisk'[f] = catDisk[f]
      <4>1. catDisk["recovery"].v \in 0..MaxVersion
        BY <1>0, DiskVersions DEF CatalogTypes
      <4>2. QED
        BY <1>0, <2>3, <4>1 DEF CatalogTypes, DiskTypes, Catalog!Content
    <3>2. CASE UNCHANGED <<app, best>>
      <4>1. CatalogTypes'
        BY <1>0, <2>1, <2>3, <3>1, <3>2, SameTypes DEF CatalogTypes
      <4>2. Writing' /\ Catalog!FromTheServer' /\ Catalog!NoRollback'
        BY <1>0, <2>1, <3>2 DEF Writing, Catalog!FromTheServer, Catalog!NoRollback
      <4>3. ASSUME NEW t \in 1..MaxToken PROVE Prov(t)'
        BY <1>15, <2>1, <3>1, <3>2 DEF Prov, Pair
      <4>4. QED
        BY <4>1, <4>2, <4>3 DEF CatalogInv, Provenance
    <3>3. CASE Catalog!Use(catDisk["recovery"].v, token) /\ Catalog!Used(catDisk["recovery"].v)
      <4>1. /\ catDisk["recovery"].v \in catIssued[token] /\ catDisk["recovery"].v >= best[token]
            /\ catDisk["recovery"].v >= catDisk["recovery"].v
        BY <1>15, <2>1 DEF Prov
      <4>2. QED
        BY <1>17, <2>1, <2>3, <3>1, <3>3, <4>1
    <3>4. QED
      BY <2>3, <3>2, <3>3
  <2>4. QED
    BY <1>19, <2>2, <2>3 DEF Catalog!_recover_authenticated_cache
<1>20. CASE Catalog!Publish
  <2>1. CatalogTypes'
    BY <1>0, <1>20, SameTypes DEF CatalogTypes, Catalog!Publish
  <2>2. ASSUME NEW t \in 1..MaxToken PROVE Prov(t)'
    <3>1. central \in Nat /\ central' = central + 1
      BY <1>0, <1>20 DEF CatalogTypes, Catalog!Publish
    <3>2. QED
      BY <1>15, <1>20, <3>1 DEF Prov, Pair, Catalog!Publish
  <2>3. Writing' /\ Catalog!FromTheServer' /\ Catalog!NoRollback'
    BY <1>0, <1>20 DEF Catalog!Publish, Writing, WrittenSigned, WrittenPlain, Catalog!FromTheServer,
       Catalog!NoRollback
  <2>4. QED
    BY <2>1, <2>2, <2>3 DEF CatalogInv, Provenance
<1>21. CASE Catalog!Damage
  <2>1. PICK f \in Catalog!Files : catDisk' = [catDisk EXCEPT ![f] = Catalog!Bad]
    BY <1>21 DEF Catalog!Damage
  <2>2. DiskTypes' /\ \A g \in Catalog!Files : catDisk'[g] = catDisk[g] \/ catDisk'[g] = Catalog!Bad
    BY <1>0, <2>1 DEF CatalogTypes, DiskTypes
  <2>3. CatalogTypes'
    BY <1>0, <1>21, <2>2, SameTypes DEF CatalogTypes, Catalog!Damage
  <2>4. ASSUME NEW t \in 1..MaxToken PROVE Prov(t)'
    BY <1>15, <1>21, <2>2 DEF Prov, Pair, Catalog!Damage
  <2>5. Writing' /\ Catalog!FromTheServer' /\ Catalog!NoRollback'
    BY <1>0, <1>21, <2>2 DEF Catalog!Damage, Writing, WrittenSigned, WrittenPlain,
       Catalog!FromTheServer, Catalog!NoRollback
  <2>6. QED
    BY <2>3, <2>4, <2>5 DEF CatalogInv, Provenance
<1>22. QED
  BY <1>1, <1>3, <1>4, <1>5, <1>6, <1>7, <1>8, <1>9, <1>10, <1>12, <1>13, <1>14, <1>16, <1>18, <1>19,
     <1>20, <1>21 DEF Catalog!Next

(* Every list on disk or in memory, with the files that are being written, *)
(* was given by the server under the token it is kept for                  *)
(* (item_catalog_sync.py _write_authenticated_cache).                      *)
THEOREM CatalogInvariant == Spec => []CatalogInv
<1>1. Init => CatalogInv
  <2> SUFFICES ASSUME Catalog!Init, Catalog!CatalogAssumption PROVE CatalogInv
    BY StationAssumption DEF StationAssumption, Init
  <2> USE DEF Catalog!CatalogAssumption, Catalog!Init, Catalog!Absent, Catalog!Off, Catalog!Idle, Catalog!Bundled,
     Catalog!Broken, Catalog!Files, Catalog!Tokens
  <2>1. CatalogTypes
    BY DEF CatalogTypes, DiskTypes, GhostTypes
  <2>2. Provenance
    BY DEF Provenance, Prov, Pair
  <2>3. Writing
    BY DEF Writing
  <2>4. Catalog!FromTheServer /\ Catalog!NoRollback
    BY DEF Catalog!FromTheServer, Catalog!NoRollback
  <2>5. QED
    BY <2>1, <2>2, <2>3, <2>4 DEF CatalogInv
<1>2. CatalogInv /\ [Next]_vars => CatalogInv'
  BY StationAssumption, StationSteps, CatalogKeeps DEF StationAssumption
<1>3. QED
  BY <1>1, <1>2, PTL DEF Spec

(* What the invariant says of the list in use.                             *)
LEMMA CatalogSays == ASSUME Catalog!CatalogAssumption, CatalogInv PROVE Catalog!CatalogSound
<1> SUFFICES Catalog!CatalogTypeOK
  BY DEF CatalogInv, Catalog!CatalogSound
<1>1. Len(op.todo) <= 4
  <2>1. op.todo = <<>> \/ WrittenSigned(op.v, token) \/ WrittenPlain(op.v)
    BY DEF CatalogInv, CatalogTypes, Writing, Catalog!Broken, Catalog!CatalogAssumption
  <2>2. QED
    BY <2>1, Shortest
<1>2. QED
  BY <1>1 DEF CatalogInv, CatalogTypes, DiskTypes, Catalog!CatalogTypeOK, Catalog!Versions

(* Under a token the recovery file is written first, and then stays.       *)
LEMMA RecoveryFirst ==
  ASSUME Catalog!CatalogAssumption, CatalogInv, op.pc = "write", op.todo # <<>>, Store, token \in 1..MaxToken
  PROVE  /\ op'.pc = "write" /\ op'.v = op.v
         /\ catDisk'["recovery"] =
              IF op.todo = Catalog!_write_authenticated_cache(op.v, token)
              THEN Kept(op.v, token) ELSE catDisk["recovery"]
<1>1. /\ CatalogTypes /\ op.v \in 1..MaxVersion /\ Kept(op.v, 0) \in Contents /\ Kept(op.v, 0).t = 0
      /\ Kept(op.v, token) \in Contents /\ Blank \in Contents
      /\ \A f \in {"recovery", "cache", "authority", "last"} : f \in Catalog!Files
  BY DEF CatalogInv, Writing, Catalog!CatalogAssumption, Catalog!Files, Kept, Blank, Contents
<1>2. CASE op.todo = Catalog!_write_authenticated_cache(op.v, token)
  <2>1. Head(op.todo) = <<"recovery", Kept(op.v, token)>> /\ Tail(op.todo) = Signed1(op.v, token)
    BY <1>2, NextWrite, Zenon
  <2>2. Stored("recovery", Kept(op.v, token), Signed1(op.v, token))
    BY <1>1, <2>1, StoreOne
  <2>3. QED
    BY <1>2, <2>2, WritesDiffer DEF Stored, Catalog!Files
<1>3. CASE op.todo = Signed1(op.v, token)
  <2>1. Head(op.todo) = <<"cache", Kept(op.v, 0)>> /\ Tail(op.todo) = Signed2(op.v, token)
    BY <1>3, NextWrite, Zenon
  <2>2. Stored("cache", Kept(op.v, 0), Signed2(op.v, token))
    BY <1>1, <2>1, StoreOne
  <2>3. QED
    BY <1>3, <2>2, WritesDiffer DEF Stored, Catalog!Files
<1>4. CASE op.todo = Signed2(op.v, token)
  <2>1. Head(op.todo) = <<"authority", Kept(op.v, token)>> /\ Tail(op.todo) = Last
    BY <1>4, NextWrite, Zenon
  <2>2. Stored("authority", Kept(op.v, token), Last)
    BY <1>1, <2>1, StoreOne
  <2>3. QED
    BY <1>4, <2>2, WritesDiffer DEF Stored, Catalog!Files
<1>5. CASE op.todo = Last
  <2>1. Head(op.todo) = <<"last", Blank>> /\ Tail(op.todo) = <<>>
    BY <1>5, NextWrite, Zenon
  <2>2. Stored("last", Blank, <<>>)
    BY <1>1, <2>1, StoreOne
  <2>3. QED
    BY <1>5, <2>2, WritesDiffer DEF Stored, Catalog!Files
<1>6. QED
  BY <1>2, <1>3, <1>4, <1>5 DEF CatalogInv, Writing, WrittenSigned

LEMMA RecoveryKeeps ==
  ASSUME Catalog!CatalogAssumption, CatalogInv, RecoveryStays,
         [Catalog!Next /\ ~Catalog!Damage]_(Catalog!vars)
  PROVE  RecoveryStays'
<1> USE DEF Catalog!CatalogAssumption, Catalog!Broken, Catalog!Idle, Catalog!Off, Catalog!Enrolled,
  Catalog!Tokens
<1>0. /\ done \subseteq 1..MaxToken /\ 0 \notin done /\ Catalog!Broken \notin done
      /\ DOMAIN op = {"pc", "menu", "v", "todo"}
  BY DEF CatalogInv, CatalogTypes, GhostTypes
<1>1. ASSUME UNCHANGED <<catDisk, catIssued, done, token>>, op'.pc # "write" \/ UNCHANGED op
      PROVE  RecoveryStays'
  BY <1>1 DEF RecoveryStays
<1>2. CASE UNCHANGED Catalog!vars
  BY <1>1, <1>2 DEF Catalog!vars
<1>3. CASE Catalog!Start \/ Catalog!_refresh_item_catalog
  <2>1. op'.pc = "profile"
    BY <1>3 DEF Catalog!Start, Catalog!_refresh_item_catalog, Catalog!Begin
  <2>2. UNCHANGED <<catDisk, catIssued, done, token>>
    BY <1>3 DEF Catalog!Start, Catalog!_refresh_item_catalog
  <2>3. QED
    BY <1>1, <2>1, <2>2
<1>4. CASE Catalog!_load_item_catalog_logistics_profile
  BY <1>0, <1>1, <1>4 DEF Catalog!_load_item_catalog_logistics_profile, Catalog!Refuse, Catalog!Use
<1>5. CASE Catalog!_hardened_get
  <2>1. /\ op'.pc = "write" /\ token \in 1..MaxToken =>
             op'.todo = Catalog!_write_authenticated_cache(op'.v, token)
        /\ UNCHANGED <<catDisk, done, token>>
    BY <1>0, <1>5 DEF Catalog!_hardened_get
  <2>2. \A t \in done : catIssued'[t] # {}
    <3>1. \/ catIssued' = catIssued
          \/ token \in 1..MaxToken /\ catIssued' = [catIssued EXCEPT ![token] = @ \cup {central}]
      BY <1>5 DEF Catalog!_hardened_get
    <3>2. ASSUME NEW t \in done PROVE catIssued[t] \subseteq catIssued'[t]
      BY <1>0, <3>1, <3>2 DEF CatalogInv, CatalogTypes, GhostTypes
    <3>3. QED
      BY <3>2 DEF RecoveryStays
  <2>3. QED
    BY <2>1, <2>2 DEF RecoveryStays
<1>6. CASE Catalog!_atomic_write
  <2>1. CASE op' = [op EXCEPT !.pc = "except", !.todo = <<>>] /\ UNCHANGED catDisk
    BY <1>0, <1>1, <1>6, <2>1 DEF Catalog!_atomic_write
  <2>2. CASE Store
    <3>1. CASE token \in 1..MaxToken
      <4>1. op.v \in 1..MaxVersion /\ Kept(op.v, token).t = token /\ Kept(op.v, token).v = op.v
        BY <1>6, <3>1 DEF CatalogInv, Writing, Kept, Catalog!_atomic_write
      <4>2. /\ op'.v = op.v /\ op'.pc = "write"
            /\ catDisk'["recovery"] =
                 IF op.todo = Catalog!_write_authenticated_cache(op.v, token)
                 THEN Kept(op.v, token) ELSE catDisk["recovery"]
        BY <1>6, <2>2, <3>1, RecoveryFirst DEF Catalog!_atomic_write
      <4>3. catDisk'["recovery"] = Kept(op.v, token)
        BY <1>6, <3>1, <4>2 DEF RecoveryStays, Catalog!_atomic_write
      <4>4. UNCHANGED <<token, done, catIssued>>
        BY <2>2 DEF Store
      <4>5. QED
        BY <4>1, <4>2, <4>3, <4>4 DEF RecoveryStays
    <3>2. CASE token \notin 1..MaxToken
      BY <1>0, <2>2, <3>2 DEF RecoveryStays, Store
    <3>3. QED
      BY <3>1, <3>2
  <2>3. QED
    BY <1>6, <2>1, <2>2 DEF Catalog!_atomic_write, Catalog!Smooth, Store
<1>7. CASE Catalog!_remember_verified_catalog_snapshot
  <2>1. /\ op.pc = "write" /\ op.todo = <<>> /\ op'.pc = "idle"
        /\ done' = IF token \in 1..MaxToken THEN done \cup {token} ELSE {}
        /\ UNCHANGED <<catDisk, token, catIssued>>
    BY <1>7 DEF Catalog!_remember_verified_catalog_snapshot
  <2>2. CASE token \in 1..MaxToken
    <3>1. /\ op.v \in 1..MaxVersion /\ op.v \in catIssued[token]
          /\ catDisk["recovery"] = Kept(op.v, token)
      BY <2>1, <2>2, WritesDiffer DEF CatalogInv, Writing, WrittenSigned, RecoveryStays
    <3>2. QED
      BY <2>1, <2>2, <3>1 DEF RecoveryStays, Kept
  <2>3. CASE token \notin 1..MaxToken
    BY <2>1, <2>3 DEF RecoveryStays
  <2>4. QED
    BY <2>2, <2>3
<1>8. CASE Catalog!VerifiedCache
  BY <1>1, <1>8 DEF Catalog!VerifiedCache
<1>9. CASE Catalog!_recover_authenticated_cache
  <2>1. /\ catDisk'["recovery"] = catDisk["recovery"] /\ op'.pc = "idle"
        /\ UNCHANGED <<token, catIssued, done>>
    BY <1>9 DEF CatalogInv, CatalogTypes, DiskTypes, Catalog!Files, Catalog!_recover_authenticated_cache
  <2>2. QED
    BY <2>1 DEF RecoveryStays
<1>10. CASE Catalog!NoCache
  BY <1>1, <1>10 DEF Catalog!NoCache
<1>11. CASE Catalog!LocalCache
  BY <1>1, <1>11 DEF Catalog!LocalCache
<1>12. CASE Catalog!Publish \/ Catalog!Close \/ Catalog!Crash
  BY <1>1, <1>12 DEF Catalog!Publish, Catalog!Close, Catalog!Crash
<1>13. CASE Catalog!Enroll
  <2>1. token' \notin done /\ op.pc = "idle" /\ UNCHANGED <<catDisk, op, catIssued, done>>
    BY <1>0, <1>13 DEF RecoveryStays, Catalog!Enroll
  <2>2. QED
    BY <2>1 DEF RecoveryStays
<1>14. CASE Catalog!BreakProfile
  BY <1>0, <1>14 DEF RecoveryStays, Catalog!BreakProfile
<1>15. QED
  BY <1>2, <1>3, <1>4, <1>5, <1>6, <1>7, <1>8, <1>9, <1>10, <1>11, <1>12, <1>13, <1>14
     DEF Catalog!Next

(* The list in use was given by the server under the present token and is  *)
(* the newest one used under it, wherever the writing of the files was cut *)
(* short and whichever of them was damaged; and where none is damaged, the *)
(* files hold, from the first refresh completed under the present token    *)
(* on, a list that a start without the server accepts                      *)
(* (item_catalog_sync.py).                                                 *)
THEOREM CatalogTrusted == Spec => []CatalogSound
<1>1. Init => RecoveryStays
  <2> SUFFICES ASSUME Catalog!Init PROVE RecoveryStays
    BY DEF Init
  <2> QED
    BY DEF Catalog!Init, Catalog!Off, Catalog!Idle, RecoveryStays
<1>2. CatalogInv /\ (part = "offline" => RecoveryStays) /\ [Next]_vars
      => (part = "offline" => RecoveryStays)'
  BY StationAssumption, StationSteps, RecoveryKeeps DEF StationAssumption
<1>3. CatalogInv /\ (part = "offline" => RecoveryStays) => CatalogSound
  <2> SUFFICES ASSUME CatalogInv, part = "offline" => RecoveryStays PROVE CatalogSound
    OBVIOUS
  <2>1. part = "catalog" => Catalog!CatalogSound
    BY StationAssumption, CatalogSays DEF CatalogSound, StationAssumption
  <2>2. done \subseteq 1..MaxToken
    BY DEF CatalogInv, CatalogTypes, GhostTypes
  <2>3. part = "offline" => Catalog!ListKept
    BY <2>2 DEF RecoveryStays, Catalog!ListKept, Catalog!_read_authenticated_recovery_payload,
       Catalog!is_valid_authenticated_payload, Catalog!Enrolled, Catalog!Tokens
  <2>4. QED
    BY <2>1, <2>3 DEF CatalogSound
<1>4. QED
  BY <1>1, <1>2, <1>3, CatalogInvariant, PTL DEF Spec

-----------------------------------------------------------------------------
(* The logistics profile, under the tools and by hand.                     *)
ProfileFiles == [profile : [v : Values, ca : BOOLEAN] \cup {None}, secret : ProfTokens \cup {None},
                 ca : CAs \cup {None}]
Installing == {"ca", "secret", "profile", "readback", "undo"}
Rotating   == {"rotate", "rotated", "rollback"}
Upgrading  == {"upca", "upprofile", "upread", "restore", "unlinkca"}
AtWork == [op : {"enroll", "recover", "upgrade", "install", "replace"},
           pc : Installing \cup Rotating \cup Upgrading, b : Profile!Bundle, before : ProfileFiles,
           made : SUBSET {"profile", "secret", "ca"}]
Loading == [pc : {"secret", "ca"}, profile : [v : Values, ca : BOOLEAN], secret : ProfTokens \cup {None}]

ProfileTypes ==
  /\ profDisk \in ProfileFiles /\ profFaults \in 0..MaxProfFaults
  /\ profTool = Profile!NoTool \/ (profTool \in AtWork /\ profOutcome = "none")
  /\ reader = Profile!NoReader \/ reader \in Loading

(* An installation found neither a profile nor a token, and what it made   *)
(* stands beside what it found.                                            *)
WhileInstalling == profTool.pc \in Installing =>
  /\ profTool.op \in {"enroll", "recover"}
  /\ profTool.before.profile = None /\ profTool.before.secret = None
  /\ profDisk.profile = IF "profile" \in profTool.made THEN Profile!ProfileOf(profTool.b) ELSE None
  /\ profDisk.secret = IF "secret" \in profTool.made THEN profTool.b.token ELSE None
  /\ profDisk.ca = IF "ca" \in profTool.made THEN profTool.b.ca ELSE profTool.before.ca
  /\ "profile" \in profTool.made => "secret" \in profTool.made
  /\ "secret" \in profTool.made /\ profTool.b.ca # None => "ca" \in profTool.made
  /\ "ca" \in profTool.made => profTool.before.ca = None
  /\ profTool.pc = "ca" => profTool.made = {} /\ profTool.before.ca = None
  /\ profTool.pc = "secret" => /\ profTool.made \subseteq {"ca"}
                               /\ profTool.b.ca # None => "ca" \in profTool.made
  /\ profTool.pc = "profile" => "secret" \in profTool.made /\ "profile" \notin profTool.made

(* A new token stands beside the same profile and bundle.                  *)
WhileRotating == profTool.pc \in Rotating =>
  /\ profTool.op = "recover" /\ Profile!Loads(profTool.before)
  /\ profDisk.profile = profTool.before.profile /\ profDisk.ca = profTool.before.ca
  /\ profDisk.profile = Profile!ProfileOf(profTool.b)
  /\ profDisk.secret \in {profTool.before.secret, profTool.b.token}
  /\ profTool.pc = "rotate" => profDisk.secret = profTool.before.secret
  /\ [v |-> profTool.before.profile.v, token |-> profTool.before.secret] \in profIssued

(* A bundle is added before the profile refers to it.                      *)
WhileUpgrading == profTool.pc \in Upgrading =>
  /\ profTool.op = "upgrade" /\ Profile!Loads(profTool.before) /\ ~profTool.before.profile.ca
  /\ [v |-> profTool.before.profile.v, token |-> profTool.before.secret] \in profIssued
  /\ profTool.b.ca # None /\ profTool.before.ca \in {None, profTool.b.ca}
  /\ profDisk.secret = profTool.before.secret
  /\ profDisk.ca \in {profTool.before.ca, profTool.b.ca}
  /\ profTool.pc = "upca" => profDisk.ca = profTool.before.ca
  /\ profTool.pc \in {"upprofile", "upread"} => profDisk.ca = profTool.b.ca
  /\ profTool.pc \in {"upca", "upprofile", "unlinkca"} => profDisk.profile = profTool.before.profile
  /\ \/ profDisk.profile = profTool.before.profile
     \/ /\ profDisk.profile = [v |-> profTool.before.profile.v, ca |-> TRUE]
        /\ profDisk.ca = profTool.b.ca

(* What is on the disk, and what a program is about to load, was issued    *)
(* together.                                                               *)
IssuedSound ==
  /\ profDisk.profile # None /\ profDisk.secret # None =>
       [v |-> profDisk.profile.v, token |-> profDisk.secret] \in profIssued
  /\ profTool # Profile!NoTool /\ profTool.op \in {"enroll", "recover"} =>
       [v |-> profTool.b.v, token |-> profTool.b.token] \in profIssued
ReaderSound ==
  /\ reader.pc = "secret" =>
       /\ profDisk.secret # None => [v |-> reader.profile.v, token |-> profDisk.secret] \in profIssued
       /\ profTool.pc \notin {"ca", "secret", "profile"}
       /\ profTool.pc \in Rotating => reader.profile.v = profTool.b.v
  /\ reader.pc = "ca" => [v |-> reader.profile.v, token |-> reader.secret] \in profIssued

ProfileInv ==
  /\ ProfileTypes /\ WhileInstalling /\ WhileRotating /\ WhileUpgrading
  /\ IssuedSound /\ ReaderSound /\ Profile!PresentLoads /\ Profile!IssuedTogether

(* By hand a profile that is there may be written over: what is on the     *)
(* disk is what was there before, or what the operation has made, and only *)
(* a replacement has a profile before it that it did not make.             *)
HandInstalling ==
  /\ profTool.pc = "ca" => profTool.b.ca # None
  /\ profTool.pc \in {"secret", "profile", "readback"} /\ profTool.b.ca # None => profDisk.ca = profTool.b.ca
  /\ profTool.pc \in {"profile", "readback"} => profDisk.secret = profTool.b.token
  /\ profTool.pc \in Installing =>
       /\ profDisk.profile \in {None, profTool.before.profile} \/ "profile" \in profTool.made
       /\ profDisk.secret \in {None, profTool.before.secret} \/ "secret" \in profTool.made
       /\ profTool.op # "replace" => "profile" \in profTool.made \/ profDisk.profile = None
HandRotating == profTool.pc \in Rotating =>
  /\ profTool.before.secret # None /\ profDisk.profile = profTool.before.profile
  /\ profTool.pc = "rotate" => profDisk.secret = profTool.before.secret
HandInv ==
  /\ profDisk \in ProfileFiles
  /\ profTool = ByHand!NoTool \/ (profTool \in AtWork /\ profOutcome = "none")
  /\ profTool.pc \in Installing \cup Rotating \cup {"none"}
  /\ HandInstalling /\ HandRotating

LEMMA ProfileFacts ==
  ASSUME StationAssumption, ProfileTypes
  PROVE  /\ None \notin Values /\ None \notin CAs /\ None \notin ProfTokens /\ MaxProfFaults \in Nat
         /\ profDisk.profile \in [v : Values, ca : BOOLEAN] \cup {None}
         /\ profDisk.secret \in ProfTokens \cup {None} /\ profDisk.ca \in CAs \cup {None}
         /\ profDisk = [profile |-> profDisk.profile, secret |-> profDisk.secret, ca |-> profDisk.ca]
         /\ Profile!NoTool.pc = "none" /\ Profile!NoReader.pc = "none"
         /\ profTool # Profile!NoTool => profTool \in AtWork /\ profOutcome = "none" /\ profTool.pc # "none"
         /\ profTool.pc \in Installing \cup Rotating \cup Upgrading => profTool \in AtWork /\ profOutcome = "none"
         /\ reader.pc \in {"secret", "ca"} => reader \in Loading
<1>1. None \notin Values \cup CAs \cup ProfTokens /\ MaxProfFaults \in Nat
  BY DEF StationAssumption, Profile!ProfileAssumption
<1>2. Profile!NoTool.pc = "none" /\ Profile!NoReader.pc = "none"
  BY DEF Profile!NoTool, Profile!NoReader
<1>3. profDisk \in ProfileFiles /\ (reader = Profile!NoReader \/ reader \in Loading)
      /\ (profTool = Profile!NoTool \/ (profTool \in AtWork /\ profOutcome = "none"))
  BY DEF ProfileTypes
<1>4. \A t \in AtWork : t.pc # "none"
  BY DEF AtWork, Installing, Rotating, Upgrading
<1>5. "none" \notin Installing \cup Rotating \cup Upgrading
  BY DEF Installing, Rotating, Upgrading
<1>6. /\ profDisk.profile \in [v : Values, ca : BOOLEAN] \cup {None}
      /\ profDisk.secret \in ProfTokens \cup {None} /\ profDisk.ca \in CAs \cup {None}
      /\ profDisk = [profile |-> profDisk.profile, secret |-> profDisk.secret, ca |-> profDisk.ca]
  BY <1>3 DEF ProfileFiles
<1> QED
  BY <1>1, <1>2, <1>3, <1>4, <1>5, <1>6

(* A tool that works as the disk says: its own record.                     *)
LEMMA ToolFields ==
  ASSUME NEW t \in AtWork
  PROVE  /\ t = [op |-> t.op, pc |-> t.pc, b |-> t.b, before |-> t.before, made |-> t.made]
         /\ t.op \in {"enroll", "recover", "upgrade", "install", "replace"}
         /\ t.pc \in Installing \cup Rotating \cup Upgrading
         /\ t.b.v \in Values /\ t.b.token \in ProfTokens /\ t.b.ca \in CAs \cup {None}
         /\ t.before \in ProfileFiles
         /\ t.before.profile \in [v : Values, ca : BOOLEAN] \cup {None}
         /\ t.before.secret \in ProfTokens \cup {None} /\ t.before.ca \in CAs \cup {None}
         /\ t.made \subseteq {"profile", "secret", "ca"} /\ t.b \in Profile!Bundle
         /\ Profile!ProfileOf(t.b) \in [v : Values, ca : BOOLEAN]
         /\ Profile!ProfileOf(t.b).v = t.b.v /\ (Profile!ProfileOf(t.b).ca <=> t.b.ca # None)
BY DEF AtWork, ProfileFiles, Profile!Bundle, Profile!ProfileOf

(* ---------------------------------------------------- an installation -- *)
LEMMA BundleWritten ==
  ASSUME StationAssumption, ProfileInv, Profile!WriteCa
  PROVE  ProfileInv'
<1>1. profTool.pc \in Installing /\ profTool \in AtWork /\ profTool # Profile!NoTool /\ profOutcome = "none"
  BY ProfileFacts DEF ProfileInv, Profile!WriteCa, Installing
<1>2. PICK t \in AtWork : t = profTool
  BY <1>1
<1>3. /\ t.pc = "ca" /\ UNCHANGED <<profIssued, profOutcome, reader, loaded>> /\ profFaults' \in 0..MaxProfFaults
      /\ \/ profDisk' = [profDisk EXCEPT !.ca = t.b.ca] /\ profTool' = [t EXCEPT !.made = @ \cup {"ca"}, !.pc = "secret"]
         \/ profDisk' = profDisk /\ profTool' = [t EXCEPT !.pc = "undo"]
  BY <1>2, ProfileFacts DEF ProfileInv, ProfileTypes, Profile!WriteCa, Profile!To, Profile!Made, Profile!NotMade, Profile!Mishap, Profile!Smooth, Profile!_atomic_write
<1>4. /\ profTool' \in AtWork /\ profTool'.op = t.op /\ profTool'.b = t.b /\ profTool'.before = t.before
      /\ \/ /\ profTool'.pc = "secret" /\ profTool'.made = t.made \cup {"ca"}
            /\ profDisk'.ca = t.b.ca /\ profDisk' \in ProfileFiles
            /\ profDisk'.secret = profDisk.secret
            /\ profDisk'.profile = profDisk.profile
         \/ profTool'.pc = "undo" /\ profTool'.made = t.made /\ profDisk' = profDisk
  <2>1. CASE profDisk' = profDisk /\ profTool' = [t EXCEPT !.pc = "undo"]
    BY <2>1, ToolFields DEF AtWork, Installing
  <2>2. CASE profDisk' = [profDisk EXCEPT !.ca = t.b.ca] /\ profTool' = [t EXCEPT !.made = @ \cup {"ca"}, !.pc = "secret"]
    <3>1. profTool' \in AtWork /\ profTool'.op = t.op /\ profTool'.b = t.b /\ profTool'.before = t.before
          /\ profTool'.pc = "secret" /\ profTool'.made = t.made \cup {"ca"}
      BY <2>2, ToolFields DEF AtWork, Installing
    <3>2. t.b.ca \in CAs \cup {None}
      BY ToolFields
    <3> QED
      BY <2>2, <3>1, <3>2, ProfileFacts DEF ProfileInv, ProfileFiles
  <2> QED
    BY <1>3, <2>1, <2>2
<1> USE DEF Installing, Rotating, Upgrading
<1>5. ProfileTypes'
  BY <1>1, <1>3, <1>4 DEF ProfileInv, ProfileTypes
<1>6. WhileInstalling'
  BY <1>1, <1>2, <1>3, <1>4, ToolFields DEF ProfileInv, WhileInstalling
<1>7. WhileRotating' /\ WhileUpgrading'
  BY <1>4 DEF WhileRotating, WhileUpgrading
<1>8. IssuedSound'
  BY <1>1, <1>2, <1>3, <1>4, ToolFields, ProfileFacts DEF ProfileInv, WhileInstalling, IssuedSound
<1>9. ReaderSound'
  BY <1>1, <1>2, <1>3, <1>4, ToolFields, ProfileFacts DEF ProfileInv, WhileInstalling, ReaderSound
<1>10. Profile!PresentLoads' /\ Profile!IssuedTogether'
  BY <1>1, <1>2, <1>3, <1>4, ToolFields, ProfileFacts DEF ProfileInv, WhileInstalling, Profile!PresentLoads, Profile!Loads, Profile!IssuedTogether
<1> QED
  BY <1>5, <1>6, <1>7, <1>8, <1>9, <1>10 DEF ProfileInv

LEMMA TokenWritten ==
  ASSUME StationAssumption, ProfileInv, Profile!WriteSecret
  PROVE  ProfileInv'
<1>1. profTool.pc \in Installing /\ profTool \in AtWork /\ profTool # Profile!NoTool /\ profOutcome = "none"
  BY ProfileFacts DEF ProfileInv, Profile!WriteSecret, Installing
<1>2. PICK t \in AtWork : t = profTool
  BY <1>1
<1>3. /\ t.pc = "secret" /\ UNCHANGED <<profIssued, profOutcome, reader, loaded>> /\ profFaults' \in 0..MaxProfFaults
      /\ \/ profDisk' = [profDisk EXCEPT !.secret = t.b.token] /\ profTool' = [t EXCEPT !.made = @ \cup {"secret"}, !.pc = "profile"]
         \/ profDisk' = profDisk /\ profTool' = [t EXCEPT !.pc = "undo"]
  BY <1>2, ProfileFacts DEF ProfileInv, ProfileTypes, Profile!WriteSecret, Profile!To, Profile!Made, Profile!NotMade, Profile!Mishap, Profile!Smooth, Profile!_atomic_write
<1>4. /\ profTool' \in AtWork /\ profTool'.op = t.op /\ profTool'.b = t.b /\ profTool'.before = t.before
      /\ \/ /\ profTool'.pc = "profile" /\ profTool'.made = t.made \cup {"secret"}
            /\ profDisk'.secret = t.b.token /\ profDisk' \in ProfileFiles
            /\ profDisk'.ca = profDisk.ca
            /\ profDisk'.profile = profDisk.profile
         \/ profTool'.pc = "undo" /\ profTool'.made = t.made /\ profDisk' = profDisk
  <2>1. CASE profDisk' = profDisk /\ profTool' = [t EXCEPT !.pc = "undo"]
    BY <2>1, ToolFields DEF AtWork, Installing
  <2>2. CASE profDisk' = [profDisk EXCEPT !.secret = t.b.token] /\ profTool' = [t EXCEPT !.made = @ \cup {"secret"}, !.pc = "profile"]
    <3>1. profTool' \in AtWork /\ profTool'.op = t.op /\ profTool'.b = t.b /\ profTool'.before = t.before
          /\ profTool'.pc = "profile" /\ profTool'.made = t.made \cup {"secret"}
      BY <2>2, ToolFields DEF AtWork, Installing
    <3>2. t.b.token \in ProfTokens \cup {None}
      BY ToolFields
    <3> QED
      BY <2>2, <3>1, <3>2, ProfileFacts DEF ProfileInv, ProfileFiles
  <2> QED
    BY <1>3, <2>1, <2>2
<1> USE DEF Installing, Rotating, Upgrading
<1>5. ProfileTypes'
  BY <1>1, <1>3, <1>4 DEF ProfileInv, ProfileTypes
<1>6. WhileInstalling'
  BY <1>1, <1>2, <1>3, <1>4, ToolFields DEF ProfileInv, WhileInstalling
<1>7. WhileRotating' /\ WhileUpgrading'
  BY <1>4 DEF WhileRotating, WhileUpgrading
<1>8. IssuedSound'
  BY <1>1, <1>2, <1>3, <1>4, ToolFields, ProfileFacts DEF ProfileInv, WhileInstalling, IssuedSound
<1>9. ReaderSound'
  BY <1>1, <1>2, <1>3, <1>4, ToolFields, ProfileFacts DEF ProfileInv, WhileInstalling, ReaderSound
<1>10. Profile!PresentLoads' /\ Profile!IssuedTogether'
  BY <1>1, <1>2, <1>3, <1>4, ToolFields, ProfileFacts DEF ProfileInv, WhileInstalling, Profile!PresentLoads, Profile!Loads, Profile!IssuedTogether
<1> QED
  BY <1>5, <1>6, <1>7, <1>8, <1>9, <1>10 DEF ProfileInv

LEMMA ProfileWritten ==
  ASSUME StationAssumption, ProfileInv, Profile!WriteProfile
  PROVE  ProfileInv'
<1>1. profTool.pc \in Installing /\ profTool \in AtWork /\ profTool # Profile!NoTool /\ profOutcome = "none"
  BY ProfileFacts DEF ProfileInv, Profile!WriteProfile, Installing
<1>2. PICK t \in AtWork : t = profTool
  BY <1>1
<1>3. /\ t.pc = "profile" /\ UNCHANGED <<profIssued, profOutcome, reader, loaded>> /\ profFaults' \in 0..MaxProfFaults
      /\ \/ profDisk' = [profDisk EXCEPT !.profile = Profile!ProfileOf(t.b)] /\ profTool' = [t EXCEPT !.made = @ \cup {"profile"}, !.pc = "readback"]
         \/ profDisk' = profDisk /\ profTool' = [t EXCEPT !.pc = "undo"]
  BY <1>2, ProfileFacts DEF ProfileInv, ProfileTypes, Profile!WriteProfile, Profile!To, Profile!Made, Profile!NotMade, Profile!Mishap, Profile!Smooth, Profile!_atomic_write
<1>4. /\ profTool' \in AtWork /\ profTool'.op = t.op /\ profTool'.b = t.b /\ profTool'.before = t.before
      /\ \/ /\ profTool'.pc = "readback" /\ profTool'.made = t.made \cup {"profile"}
            /\ profDisk'.profile = Profile!ProfileOf(t.b) /\ profDisk' \in ProfileFiles
            /\ profDisk'.ca = profDisk.ca
            /\ profDisk'.secret = profDisk.secret
         \/ profTool'.pc = "undo" /\ profTool'.made = t.made /\ profDisk' = profDisk
  <2>1. CASE profDisk' = profDisk /\ profTool' = [t EXCEPT !.pc = "undo"]
    BY <2>1, ToolFields DEF AtWork, Installing
  <2>2. CASE profDisk' = [profDisk EXCEPT !.profile = Profile!ProfileOf(t.b)] /\ profTool' = [t EXCEPT !.made = @ \cup {"profile"}, !.pc = "readback"]
    <3>1. profTool' \in AtWork /\ profTool'.op = t.op /\ profTool'.b = t.b /\ profTool'.before = t.before
          /\ profTool'.pc = "readback" /\ profTool'.made = t.made \cup {"profile"}
      BY <2>2, ToolFields DEF AtWork, Installing
    <3>2. Profile!ProfileOf(t.b) \in [v : Values, ca : BOOLEAN] \cup {None}
      BY ToolFields
    <3> QED
      BY <2>2, <3>1, <3>2, ProfileFacts DEF ProfileInv, ProfileFiles
  <2> QED
    BY <1>3, <2>1, <2>2
<1> USE DEF Installing, Rotating, Upgrading
<1>5. ProfileTypes'
  BY <1>1, <1>3, <1>4 DEF ProfileInv, ProfileTypes
<1>6. WhileInstalling'
  BY <1>1, <1>2, <1>3, <1>4, ToolFields DEF ProfileInv, WhileInstalling
<1>7. WhileRotating' /\ WhileUpgrading'
  BY <1>4 DEF WhileRotating, WhileUpgrading
<1>8. IssuedSound'
  BY <1>1, <1>2, <1>3, <1>4, ToolFields, ProfileFacts DEF ProfileInv, WhileInstalling, IssuedSound
<1>9. ReaderSound'
  BY <1>1, <1>2, <1>3, <1>4, ToolFields, ProfileFacts DEF ProfileInv, WhileInstalling, ReaderSound
<1>10. Profile!PresentLoads' /\ Profile!IssuedTogether'
  BY <1>1, <1>2, <1>3, <1>4, ToolFields, ProfileFacts DEF ProfileInv, WhileInstalling, Profile!PresentLoads, Profile!Loads, Profile!IssuedTogether
<1> QED
  BY <1>5, <1>6, <1>7, <1>8, <1>9, <1>10 DEF ProfileInv

(* An operation that is over leaves files that load, and were issued       *)
(* together also for a program that has read the profile and not yet the   *)
(* token.                                                                  *)
LEMMA Ended ==
  ASSUME StationAssumption, ProfileInv, profDisk' \in ProfileFiles, profFaults' \in 0..MaxProfFaults,
         profTool' = Profile!NoTool, UNCHANGED <<profIssued, reader, loaded>>, Profile!PresentLoads',
         profDisk'.profile # None /\ profDisk'.secret # None =>
           [v |-> profDisk'.profile.v, token |-> profDisk'.secret] \in profIssued,
         reader.pc = "secret" /\ profDisk'.secret # None =>
           [v |-> reader.profile.v, token |-> profDisk'.secret] \in profIssued
  PROVE  ProfileInv'
<1> USE DEF Installing, Rotating, Upgrading
<1>1. profTool'.pc = "none"
  BY DEF Profile!NoTool
<1>2. ProfileTypes'
  BY DEF ProfileInv, ProfileTypes
<1>3. WhileInstalling' /\ WhileRotating' /\ WhileUpgrading'
  BY <1>1 DEF WhileInstalling, WhileRotating, WhileUpgrading
<1>4. IssuedSound'
  BY DEF ProfileInv, IssuedSound
<1>5. ReaderSound'
  BY <1>1 DEF ProfileInv, ReaderSound
<1>6. Profile!IssuedTogether'
  BY DEF ProfileInv, Profile!IssuedTogether
<1> QED
  BY <1>2, <1>3, <1>4, <1>5, <1>6 DEF ProfileInv

LEMMA EndedAsIs ==
  ASSUME StationAssumption, ProfileInv, UNCHANGED profDisk, profFaults' \in 0..MaxProfFaults,
         profTool' = Profile!NoTool, UNCHANGED <<profIssued, reader, loaded>>
  PROVE  ProfileInv'
<1>1. profDisk' \in ProfileFiles
  BY DEF ProfileInv, ProfileTypes
<1>2. Profile!PresentLoads'
  BY DEF ProfileInv, Profile!PresentLoads, Profile!Loads
<1>3. profDisk'.profile # None /\ profDisk'.secret # None =>
        [v |-> profDisk'.profile.v, token |-> profDisk'.secret] \in profIssued
  BY DEF ProfileInv, IssuedSound
<1>4. reader.pc = "secret" /\ profDisk'.secret # None =>
        [v |-> reader.profile.v, token |-> profDisk'.secret] \in profIssued
  BY DEF ProfileInv, ReaderSound
<1> QED
  BY <1>1, <1>2, <1>3, <1>4, Ended

(* A write or a reading back that failed turns the operation round.        *)
LEMMA TurnedRound ==
  ASSUME StationAssumption, ProfileInv, NEW q,
         \/ profTool.pc \in Installing /\ q = "undo"
         \/ profTool.pc \in Rotating /\ q = "rollback"
         \/ profTool.pc \in Upgrading /\ q = "restore",
         profTool' = [profTool EXCEPT !.pc = q], profFaults' \in 0..MaxProfFaults,
         UNCHANGED <<profDisk, profIssued, profOutcome, reader, loaded>>
  PROVE  ProfileInv'
<1>1. profTool \in AtWork /\ profTool # Profile!NoTool /\ profOutcome = "none"
  BY ProfileFacts DEF ProfileInv, Installing, Rotating, Upgrading
<1>2. PICK t \in AtWork : t = profTool
  BY <1>1
<1>3. /\ profTool' \in AtWork /\ profTool'.op = t.op /\ profTool'.b = t.b /\ profTool'.before = t.before
      /\ profTool'.pc = q /\ profTool'.made = t.made
  BY <1>2, ToolFields DEF AtWork, Installing, Rotating, Upgrading
<1> USE DEF Installing, Rotating, Upgrading
<1>4. ProfileTypes'
  BY <1>1, <1>3 DEF ProfileInv, ProfileTypes
<1>5. WhileInstalling'
  BY <1>2, <1>3 DEF ProfileInv, WhileInstalling
<1>6. WhileRotating'
  BY <1>2, <1>3 DEF ProfileInv, WhileRotating, Profile!Loads
<1>7. WhileUpgrading'
  BY <1>2, <1>3 DEF ProfileInv, WhileUpgrading, Profile!Loads
<1>8. IssuedSound'
  BY <1>1, <1>2, <1>3 DEF ProfileInv, IssuedSound
<1>9. ReaderSound'
  BY <1>2, <1>3 DEF ProfileInv, ReaderSound
<1>10. Profile!PresentLoads' /\ Profile!IssuedTogether'
  BY DEF ProfileInv, Profile!PresentLoads, Profile!Loads, Profile!IssuedTogether
<1> QED
  BY <1>4, <1>5, <1>6, <1>7, <1>8, <1>9, <1>10 DEF ProfileInv

LEMMA ReadBackKeeps ==
  ASSUME StationAssumption, ProfileInv, Profile!ReadBack \/ Profile!ReadBackRotated \/ Profile!ReadBackUpgraded
  PROVE  ProfileInv'
<1>1. /\ UNCHANGED <<profDisk, profIssued, reader, loaded>> /\ profFaults' \in 0..MaxProfFaults
      /\ \/ profTool' = Profile!NoTool
         \/ /\ UNCHANGED profOutcome
            /\ \/ profTool.pc = "readback" /\ profTool' = [profTool EXCEPT !.pc = "undo"]
               \/ profTool.pc = "rotated" /\ profTool' = [profTool EXCEPT !.pc = "rollback"]
               \/ profTool.pc = "upread" /\ profTool' = [profTool EXCEPT !.pc = "restore"]
  BY ProfileFacts DEF ProfileInv, ProfileTypes, Profile!ReadBack, Profile!ReadBackRotated, Profile!ReadBackUpgraded,
     Profile!End, Profile!To, Profile!Mishap, Profile!Smooth
<1>2. CASE profTool' = Profile!NoTool
  BY <1>1, <1>2, EndedAsIs
<1>3. CASE profTool.pc = "readback" /\ UNCHANGED profOutcome /\ profTool' = [profTool EXCEPT !.pc = "undo"]
  BY <1>1, <1>3, TurnedRound DEF Installing
<1>4. CASE profTool.pc = "rotated" /\ UNCHANGED profOutcome /\ profTool' = [profTool EXCEPT !.pc = "rollback"]
  BY <1>1, <1>4, TurnedRound DEF Rotating
<1>5. CASE profTool.pc = "upread" /\ UNCHANGED profOutcome /\ profTool' = [profTool EXCEPT !.pc = "restore"]
  BY <1>1, <1>5, TurnedRound DEF Upgrading
<1> QED
  BY <1>1, <1>2, <1>3, <1>4, <1>5

LEMMA CrashKeeps ==
  ASSUME StationAssumption, ProfileInv, Profile!Crash
  PROVE  ProfileInv'
<1>1. profTool' = Profile!NoTool /\ UNCHANGED <<profDisk, profIssued, reader, loaded>> /\ profFaults' \in 0..MaxProfFaults
  BY ProfileFacts DEF ProfileInv, ProfileTypes, Profile!Crash, Profile!End, Profile!Mishap
<1> QED
  BY <1>1, EndedAsIs

LEMMA RollbackKeeps ==
  ASSUME StationAssumption, ProfileInv, Profile!Rollback
  PROVE  ProfileInv'
<1>1. /\ profTool.pc = "rollback" /\ profTool' = Profile!NoTool /\ UNCHANGED <<profIssued, reader, loaded>>
      /\ profFaults' \in 0..MaxProfFaults
      /\ \/ UNCHANGED profDisk
         \/ profDisk' = [profDisk EXCEPT !["secret"] = profTool.before.secret]
  BY ProfileFacts DEF ProfileInv, ProfileTypes, Profile!Rollback, Profile!End, Profile!_atomic_write,
     Profile!Mishap, Profile!Smooth
<1>2. CASE UNCHANGED profDisk
  BY <1>1, <1>2, EndedAsIs
<1>3. CASE profDisk' = [profDisk EXCEPT !["secret"] = profTool.before.secret]
  <2>1. PICK t \in AtWork : t = profTool
    BY <1>1, ProfileFacts DEF ProfileInv, Rotating
  <2>2. /\ t.before.profile # None /\ t.before.secret # None /\ (t.before.profile.ca => t.before.ca # None)
        /\ profDisk.profile = t.before.profile /\ profDisk.ca = t.before.ca
        /\ profDisk.profile = Profile!ProfileOf(t.b)
        /\ [v |-> t.before.profile.v, token |-> t.before.secret] \in profIssued
        /\ (reader.pc = "secret" => reader.profile.v = t.b.v)
    BY <1>1, <2>1 DEF ProfileInv, WhileRotating, ReaderSound, Rotating, Profile!Loads
  <2>3. /\ profDisk' \in ProfileFiles /\ profDisk'.profile = t.before.profile
        /\ profDisk'.secret = t.before.secret /\ profDisk'.ca = t.before.ca
    BY <1>3, <2>1, <2>2, ToolFields, ProfileFacts DEF ProfileInv, ProfileFiles
  <2>4. Profile!PresentLoads'
    BY <2>2, <2>3 DEF Profile!PresentLoads, Profile!Loads
  <2>5. profDisk'.profile # None /\ profDisk'.secret # None =>
          [v |-> profDisk'.profile.v, token |-> profDisk'.secret] \in profIssued
    BY <2>2, <2>3
  <2>6. reader.pc = "secret" /\ profDisk'.secret # None =>
          [v |-> reader.profile.v, token |-> profDisk'.secret] \in profIssued
    BY <2>1, <2>2, <2>3, ToolFields
  <2> QED
    BY <1>1, <2>3, <2>4, <2>5, <2>6, Ended
<1> QED
  BY <1>1, <1>2, <1>3

LEMMA UnlinkCaKeeps ==
  ASSUME StationAssumption, ProfileInv, Profile!UnlinkCa
  PROVE  ProfileInv'
<1>1. /\ profTool.pc = "unlinkca" /\ profTool' = Profile!NoTool /\ UNCHANGED <<profIssued, reader, loaded>>
      /\ profFaults' \in 0..MaxProfFaults
      /\ \/ UNCHANGED profDisk
         \/ profDisk' = [profDisk EXCEPT !.ca = profTool.before.ca]
  BY ProfileFacts DEF ProfileInv, ProfileTypes, Profile!UnlinkCa, Profile!End, Profile!Mishap, Profile!Smooth
<1>2. CASE UNCHANGED profDisk
  BY <1>1, <1>2, EndedAsIs
<1>3. CASE profDisk' = [profDisk EXCEPT !.ca = profTool.before.ca]
  <2>1. PICK t \in AtWork : t = profTool
    BY <1>1, ProfileFacts DEF ProfileInv, Upgrading
  <2>2. /\ t.before.profile # None /\ t.before.secret # None /\ ~t.before.profile.ca
        /\ profDisk.profile = t.before.profile /\ profDisk.secret = t.before.secret
    BY <1>1, <2>1 DEF ProfileInv, WhileUpgrading, Upgrading, Profile!Loads
  <2>3. /\ profDisk' \in ProfileFiles /\ profDisk'.profile = t.before.profile
        /\ profDisk'.secret = profDisk.secret /\ profDisk'.profile = profDisk.profile
        /\ profDisk'.secret = t.before.secret
    BY <1>3, <2>1, <2>2, ToolFields, ProfileFacts DEF ProfileInv, ProfileFiles
  <2>4. Profile!PresentLoads'
    BY <2>2, <2>3 DEF Profile!PresentLoads, Profile!Loads
  <2>5. profDisk'.profile # None /\ profDisk'.secret # None =>
          [v |-> profDisk'.profile.v, token |-> profDisk'.secret] \in profIssued
    BY <2>3 DEF ProfileInv, IssuedSound
  <2>6. reader.pc = "secret" /\ profDisk'.secret # None =>
          [v |-> reader.profile.v, token |-> profDisk'.secret] \in profIssued
    BY <2>3 DEF ProfileInv, ReaderSound
  <2> QED
    BY <1>1, <2>3, <2>4, <2>5, <2>6, Ended
<1> QED
  BY <1>1, <1>2, <1>3

(* ---------------------------------- a new token, and a bundle added later -- *)
LEMMA Rotates ==
  ASSUME StationAssumption, ProfileInv, Profile!_rotate_existing_profile_token
  PROVE  ProfileInv'
<1>1. /\ profTool.pc = "rotate" /\ UNCHANGED <<profIssued, reader, loaded>> /\ profFaults' \in 0..MaxProfFaults
      /\ \/ UNCHANGED profDisk /\ profTool' = Profile!NoTool
         \/ /\ profDisk' = [profDisk EXCEPT !["secret"] = profTool.b.token] /\ UNCHANGED profOutcome
            /\ profTool' = [profTool EXCEPT !.pc = "rotated"]
  BY ProfileFacts DEF ProfileInv, ProfileTypes, Profile!_rotate_existing_profile_token, Profile!End, Profile!To,
     Profile!_atomic_write, Profile!Mishap, Profile!Smooth
<1>2. CASE UNCHANGED profDisk /\ profTool' = Profile!NoTool
  BY <1>1, <1>2, EndedAsIs
<1>3. CASE /\ profDisk' = [profDisk EXCEPT !["secret"] = profTool.b.token] /\ UNCHANGED profOutcome
           /\ profTool' = [profTool EXCEPT !.pc = "rotated"]
  <2>1. profTool \in AtWork /\ profTool # Profile!NoTool /\ profOutcome = "none"
    BY <1>1, ProfileFacts DEF ProfileInv, Rotating
  <2>2. PICK t \in AtWork : t = profTool
    BY <2>1
  <2>3. /\ profTool' \in AtWork /\ profTool'.op = t.op /\ profTool'.b = t.b /\ profTool'.before = t.before
        /\ profTool'.pc = "rotated" /\ profTool'.made = t.made
    BY <1>3, <2>2, ToolFields DEF AtWork, Rotating, Upgrading
  <2>4. /\ t.op = "recover" /\ Profile!Loads(t.before)
        /\ profDisk.profile = t.before.profile /\ profDisk.ca = t.before.ca
        /\ profDisk.profile = Profile!ProfileOf(t.b) /\ profDisk.profile # None
        /\ profDisk.profile.v = t.b.v /\ (profDisk.profile.ca => profDisk.ca # None)
        /\ [v |-> t.before.profile.v, token |-> t.before.secret] \in profIssued
        /\ [v |-> t.b.v, token |-> t.b.token] \in profIssued /\ t.b.token # None
        /\ (reader.pc = "secret" => reader.profile.v = t.b.v)
    BY <1>1, <2>1, <2>2, ToolFields, ProfileFacts
    DEF ProfileInv, WhileRotating, IssuedSound, ReaderSound, Rotating, Profile!Loads
  <2>5. /\ profDisk' \in ProfileFiles /\ profDisk'.secret = t.b.token
        /\ profDisk'.ca = profDisk.ca /\ profDisk'.profile = profDisk.profile
    BY <1>3, <2>2, <2>4, ToolFields, ProfileFacts DEF ProfileInv, ProfileFiles
  <2> USE DEF Installing, Rotating, Upgrading
  <2>11. ProfileTypes'
    BY <1>1, <1>3, <2>1, <2>3, <2>5 DEF ProfileInv, ProfileTypes
  <2>12. WhileInstalling' /\ WhileUpgrading'
    BY <2>3 DEF WhileInstalling, WhileUpgrading
  <2>13. WhileRotating'
    BY <1>1, <2>3, <2>4, <2>5 DEF WhileRotating, Profile!Loads
  <2>14. IssuedSound'
    BY <1>1, <2>1, <2>2, <2>3, <2>4, <2>5 DEF ProfileInv, IssuedSound
  <2>15. ReaderSound'
    BY <1>1, <2>2, <2>3, <2>4, <2>5 DEF ProfileInv, ReaderSound
  <2>16. Profile!PresentLoads'
    BY <2>4, <2>5 DEF ProfileInv, Profile!PresentLoads, Profile!Loads
  <2>17. Profile!IssuedTogether'
    BY <1>1 DEF ProfileInv, Profile!IssuedTogether
  <2> QED
    BY <2>11, <2>12, <2>13, <2>14, <2>15, <2>16, <2>17 DEF ProfileInv
<1> QED
  BY <1>1, <1>2, <1>3

LEMMA AddsCa ==
  ASSUME StationAssumption, ProfileInv, Profile!UpgradeCa
  PROVE  ProfileInv'
<1>1. /\ profTool.pc = "upca" /\ UNCHANGED <<profIssued, reader, loaded>> /\ profFaults' \in 0..MaxProfFaults
      /\ \/ UNCHANGED profDisk /\ UNCHANGED profOutcome /\ profTool' = [profTool EXCEPT !.pc = "restore"]
         \/ /\ profDisk' = [profDisk EXCEPT !["ca"] = profTool.b.ca] /\ UNCHANGED profOutcome
            /\ profTool' = [profTool EXCEPT !.pc = "upprofile"]
  BY ProfileFacts DEF ProfileInv, ProfileTypes, Profile!UpgradeCa, Profile!End, Profile!To,
     Profile!_atomic_write, Profile!Mishap, Profile!Smooth
<1>2. CASE UNCHANGED profDisk /\ UNCHANGED profOutcome /\ profTool' = [profTool EXCEPT !.pc = "restore"]
  BY <1>1, <1>2, TurnedRound DEF Upgrading
<1>3. CASE /\ profDisk' = [profDisk EXCEPT !["ca"] = profTool.b.ca] /\ UNCHANGED profOutcome
           /\ profTool' = [profTool EXCEPT !.pc = "upprofile"]
  <2>1. profTool \in AtWork /\ profTool # Profile!NoTool /\ profOutcome = "none"
    BY <1>1, ProfileFacts DEF ProfileInv, Upgrading
  <2>2. PICK t \in AtWork : t = profTool
    BY <2>1
  <2>3. /\ profTool' \in AtWork /\ profTool'.op = t.op /\ profTool'.b = t.b /\ profTool'.before = t.before
        /\ profTool'.pc = "upprofile" /\ profTool'.made = t.made
    BY <1>3, <2>2, ToolFields DEF AtWork, Rotating, Upgrading
  <2>41. /\ t.op = "upgrade" /\ Profile!Loads(t.before) /\ ~t.before.profile.ca
         /\ t.b.ca # None /\ t.before.ca \in {None, t.b.ca} /\ profDisk.secret = t.before.secret
         /\ profDisk.ca \in {t.before.ca, t.b.ca}
         /\ [v |-> t.before.profile.v, token |-> t.before.secret] \in profIssued
         /\ \/ profDisk.profile = t.before.profile
            \/ profDisk.profile = [v |-> t.before.profile.v, ca |-> TRUE]
         /\ profDisk.profile = t.before.profile /\ profDisk.ca = t.before.ca
    BY <1>1, <2>2 DEF ProfileInv, WhileUpgrading, Upgrading
  <2>42. t.before.profile # None /\ t.before.secret # None /\ t.before.profile \in [v : Values, ca : BOOLEAN]
    BY <2>2, <2>41, ToolFields DEF Profile!Loads
  <2>43. profDisk.profile \in [v : Values, ca : BOOLEAN]
    BY <2>41, <2>42
  <2>44. profDisk.profile.v = t.before.profile.v
    BY <2>41
  <2>4. /\ Profile!Loads(t.before) /\ ~t.before.profile.ca /\ t.before.profile # None
        /\ profDisk.secret = t.before.secret /\ profDisk.secret # None
    BY <2>41, <2>42
  <2>5. /\ profDisk' \in ProfileFiles /\ profDisk'.ca = t.b.ca
        /\ profDisk'.secret = profDisk.secret /\ profDisk'.profile = profDisk.profile
    BY <1>3, <2>2, <2>4, <2>41, <2>42, <2>43, <2>44, ToolFields, ProfileFacts DEF ProfileInv, ProfileFiles
  <2> USE DEF Installing, Rotating, Upgrading
  <2>11. ProfileTypes'
    BY <1>1, <1>3, <2>1, <2>3, <2>5 DEF ProfileInv, ProfileTypes
  <2>12. WhileInstalling' /\ WhileRotating'
    BY <2>3 DEF WhileInstalling, WhileRotating
  <2>13. WhileUpgrading'
    BY <1>1, <2>3, <2>4, <2>5, <2>41, <2>42, <2>43, <2>44 DEF WhileUpgrading, Profile!Loads
  <2>14. IssuedSound'
    BY <1>1, <2>1, <2>2, <2>3, <2>4, <2>5, <2>41, <2>42, <2>43, <2>44 DEF ProfileInv, IssuedSound
  <2>15. ReaderSound'
    BY <1>1, <2>2, <2>3, <2>4, <2>5, <2>41, <2>42, <2>43, <2>44 DEF ProfileInv, ReaderSound
  <2>16. Profile!PresentLoads'
    BY <2>4, <2>5, <2>41, <2>42, <2>43, <2>44 DEF ProfileInv, Profile!PresentLoads, Profile!Loads
  <2>17. Profile!IssuedTogether'
    BY <1>1 DEF ProfileInv, Profile!IssuedTogether
  <2> QED
    BY <2>11, <2>12, <2>13, <2>14, <2>15, <2>16, <2>17 DEF ProfileInv
<1> QED
  BY <1>1, <1>2, <1>3

LEMMA RefersToCa ==
  ASSUME StationAssumption, ProfileInv, Profile!install_tls_ca_bundle_for_existing_profile
  PROVE  ProfileInv'
<1>1. /\ profTool.pc = "upprofile" /\ UNCHANGED <<profIssued, reader, loaded>> /\ profFaults' \in 0..MaxProfFaults
      /\ \/ UNCHANGED profDisk /\ UNCHANGED profOutcome /\ profTool' = [profTool EXCEPT !.pc = "restore"]
         \/ /\ profDisk' = [profDisk EXCEPT !["profile"] = [profDisk.profile EXCEPT !.ca = TRUE]] /\ UNCHANGED profOutcome
            /\ profTool' = [profTool EXCEPT !.pc = "upread"]
  BY ProfileFacts DEF ProfileInv, ProfileTypes, Profile!install_tls_ca_bundle_for_existing_profile, Profile!End, Profile!To,
     Profile!_atomic_write, Profile!Mishap, Profile!Smooth
<1>2. CASE UNCHANGED profDisk /\ UNCHANGED profOutcome /\ profTool' = [profTool EXCEPT !.pc = "restore"]
  BY <1>1, <1>2, TurnedRound DEF Upgrading
<1>3. CASE /\ profDisk' = [profDisk EXCEPT !["profile"] = [profDisk.profile EXCEPT !.ca = TRUE]] /\ UNCHANGED profOutcome
           /\ profTool' = [profTool EXCEPT !.pc = "upread"]
  <2>1. profTool \in AtWork /\ profTool # Profile!NoTool /\ profOutcome = "none"
    BY <1>1, ProfileFacts DEF ProfileInv, Upgrading
  <2>2. PICK t \in AtWork : t = profTool
    BY <2>1
  <2>3. /\ profTool' \in AtWork /\ profTool'.op = t.op /\ profTool'.b = t.b /\ profTool'.before = t.before
        /\ profTool'.pc = "upread" /\ profTool'.made = t.made
    BY <1>3, <2>2, ToolFields DEF AtWork, Rotating, Upgrading
  <2>41. /\ t.op = "upgrade" /\ Profile!Loads(t.before) /\ ~t.before.profile.ca
         /\ t.b.ca # None /\ t.before.ca \in {None, t.b.ca} /\ profDisk.secret = t.before.secret
         /\ profDisk.ca \in {t.before.ca, t.b.ca}
         /\ [v |-> t.before.profile.v, token |-> t.before.secret] \in profIssued
         /\ \/ profDisk.profile = t.before.profile
            \/ profDisk.profile = [v |-> t.before.profile.v, ca |-> TRUE]
         /\ profDisk.profile = t.before.profile /\ profDisk.ca = t.b.ca
    BY <1>1, <2>2 DEF ProfileInv, WhileUpgrading, Upgrading
  <2>42. t.before.profile # None /\ t.before.secret # None /\ t.before.profile \in [v : Values, ca : BOOLEAN]
    BY <2>2, <2>41, ToolFields DEF Profile!Loads
  <2>43. profDisk.profile \in [v : Values, ca : BOOLEAN]
    BY <2>41, <2>42
  <2>44. profDisk.profile.v = t.before.profile.v
    BY <2>41
  <2>4. /\ Profile!Loads(t.before) /\ ~t.before.profile.ca /\ t.before.profile # None
        /\ profDisk.secret = t.before.secret /\ profDisk.secret # None
    BY <2>41, <2>42
  <2>5. /\ profDisk' \in ProfileFiles /\ profDisk'.profile = [profDisk.profile EXCEPT !.ca = TRUE]
        /\ profDisk'.ca = profDisk.ca /\ profDisk'.secret = profDisk.secret
    BY <1>3, <2>2, <2>4, <2>41, <2>42, <2>43, <2>44, ToolFields, ProfileFacts DEF ProfileInv, ProfileFiles
  <2>6. profDisk'.profile = [v |-> t.before.profile.v, ca |-> TRUE]
    BY <2>4, <2>5, <2>41, <2>42, <2>43, <2>44
  <2> USE DEF Installing, Rotating, Upgrading
  <2>11. ProfileTypes'
    BY <1>1, <1>3, <2>1, <2>3, <2>5 DEF ProfileInv, ProfileTypes
  <2>12. WhileInstalling' /\ WhileRotating'
    BY <2>3 DEF WhileInstalling, WhileRotating
  <2>13. WhileUpgrading'
    BY <1>1, <2>3, <2>4, <2>5, <2>6, <2>41, <2>42, <2>43, <2>44 DEF WhileUpgrading, Profile!Loads
  <2>14. IssuedSound'
    BY <1>1, <2>1, <2>2, <2>3, <2>4, <2>5, <2>6, <2>41, <2>42, <2>43, <2>44 DEF ProfileInv, IssuedSound
  <2>15. ReaderSound'
    BY <1>1, <2>2, <2>3, <2>4, <2>5, <2>6, <2>41, <2>42, <2>43, <2>44 DEF ProfileInv, ReaderSound
  <2>16. Profile!PresentLoads'
    BY <2>4, <2>5, <2>6, <2>41, <2>42, <2>43, <2>44 DEF ProfileInv, Profile!PresentLoads, Profile!Loads
  <2>17. Profile!IssuedTogether'
    BY <1>1 DEF ProfileInv, Profile!IssuedTogether
  <2> QED
    BY <2>11, <2>12, <2>13, <2>14, <2>15, <2>16, <2>17 DEF ProfileInv
<1> QED
  BY <1>1, <1>2, <1>3

LEMMA Restores ==
  ASSUME StationAssumption, ProfileInv, Profile!RestoreProfile
  PROVE  ProfileInv'
<1>1. /\ profTool.pc = "restore" /\ UNCHANGED <<profIssued, reader, loaded>> /\ profFaults' \in 0..MaxProfFaults
      /\ \/ UNCHANGED profDisk /\ profTool' = Profile!NoTool
         \/ /\ profDisk' = [profDisk EXCEPT !["profile"] = profTool.before.profile] /\ UNCHANGED profOutcome
            /\ profTool' = [profTool EXCEPT !.pc = "unlinkca"]
  BY ProfileFacts DEF ProfileInv, ProfileTypes, Profile!RestoreProfile, Profile!End, Profile!To,
     Profile!_atomic_write, Profile!Mishap, Profile!Smooth
<1>2. CASE UNCHANGED profDisk /\ profTool' = Profile!NoTool
  BY <1>1, <1>2, EndedAsIs
<1>3. CASE /\ profDisk' = [profDisk EXCEPT !["profile"] = profTool.before.profile] /\ UNCHANGED profOutcome
           /\ profTool' = [profTool EXCEPT !.pc = "unlinkca"]
  <2>1. profTool \in AtWork /\ profTool # Profile!NoTool /\ profOutcome = "none"
    BY <1>1, ProfileFacts DEF ProfileInv, Upgrading
  <2>2. PICK t \in AtWork : t = profTool
    BY <2>1
  <2>3. /\ profTool' \in AtWork /\ profTool'.op = t.op /\ profTool'.b = t.b /\ profTool'.before = t.before
        /\ profTool'.pc = "unlinkca" /\ profTool'.made = t.made
    BY <1>3, <2>2, ToolFields DEF AtWork, Rotating, Upgrading
  <2>41. /\ t.op = "upgrade" /\ Profile!Loads(t.before) /\ ~t.before.profile.ca
         /\ t.b.ca # None /\ t.before.ca \in {None, t.b.ca} /\ profDisk.secret = t.before.secret
         /\ profDisk.ca \in {t.before.ca, t.b.ca}
         /\ [v |-> t.before.profile.v, token |-> t.before.secret] \in profIssued
         /\ \/ profDisk.profile = t.before.profile
            \/ profDisk.profile = [v |-> t.before.profile.v, ca |-> TRUE]
     BY <1>1, <2>2 DEF ProfileInv, WhileUpgrading, Upgrading
  <2>42. t.before.profile # None /\ t.before.secret # None /\ t.before.profile \in [v : Values, ca : BOOLEAN]
    BY <2>2, <2>41, ToolFields DEF Profile!Loads
  <2>44. profDisk.profile.v = t.before.profile.v
    BY <2>41
  <2>4. /\ Profile!Loads(t.before) /\ ~t.before.profile.ca /\ t.before.profile # None
        /\ profDisk.secret = t.before.secret /\ profDisk.secret # None
    BY <2>41, <2>42
  <2>5. /\ profDisk' \in ProfileFiles /\ profDisk'.profile = t.before.profile
        /\ profDisk'.ca = profDisk.ca /\ profDisk'.secret = profDisk.secret
    BY <1>3, <2>2, <2>4, <2>41, <2>42, <2>44, ToolFields, ProfileFacts DEF ProfileInv, ProfileFiles
  <2> USE DEF Installing, Rotating, Upgrading
  <2>11. ProfileTypes'
    BY <1>1, <1>3, <2>1, <2>3, <2>5 DEF ProfileInv, ProfileTypes
  <2>12. WhileInstalling' /\ WhileRotating'
    BY <2>3 DEF WhileInstalling, WhileRotating
  <2>13. WhileUpgrading'
    BY <1>1, <2>3, <2>4, <2>5, <2>41, <2>42, <2>44 DEF WhileUpgrading, Profile!Loads
  <2>14. IssuedSound'
    BY <1>1, <2>1, <2>2, <2>3, <2>4, <2>5, <2>41, <2>42, <2>44 DEF ProfileInv, IssuedSound
  <2>15. ReaderSound'
    BY <1>1, <2>2, <2>3, <2>4, <2>5, <2>41, <2>42, <2>44 DEF ProfileInv, ReaderSound
  <2>16. Profile!PresentLoads'
    BY <2>4, <2>5, <2>41, <2>42, <2>44 DEF ProfileInv, Profile!PresentLoads, Profile!Loads
  <2>17. Profile!IssuedTogether'
    BY <1>1 DEF ProfileInv, Profile!IssuedTogether
  <2> QED
    BY <2>11, <2>12, <2>13, <2>14, <2>15, <2>16, <2>17 DEF ProfileInv
<1> QED
  BY <1>1, <1>2, <1>3

LEMMA UndoKeeps ==
  ASSUME StationAssumption, ProfileInv, Profile!Undo
  PROVE  ProfileInv'
<1>1. profTool.pc = "undo" /\ UNCHANGED <<profIssued, reader, loaded>> /\ profFaults' \in 0..MaxProfFaults
  BY ProfileFacts DEF ProfileInv, ProfileTypes, Profile!Undo, Profile!Mishap, Profile!Smooth
<1>2. CASE UNCHANGED profDisk /\ profTool' = Profile!NoTool
  BY <1>1, <1>2, EndedAsIs
<1>3. ASSUME NEW f \in {"profile", "secret", "ca"}, f \in profTool.made, UNCHANGED profOutcome,
             f # "profile" => "profile" \notin profTool.made, f = "ca" => "secret" \notin profTool.made,
             profDisk' = [profDisk EXCEPT ![f] = None], profTool' = [profTool EXCEPT !.made = @ \ {f}]
      PROVE  ProfileInv'
  <2>1. profTool \in AtWork /\ profTool # Profile!NoTool /\ profOutcome = "none"
    BY <1>1, ProfileFacts DEF ProfileInv, Installing
  <2>2. PICK t \in AtWork : t = profTool
    BY <2>1
  <2>3. /\ profTool' \in AtWork /\ profTool'.op = t.op /\ profTool'.b = t.b /\ profTool'.before = t.before
        /\ profTool'.pc = "undo" /\ profTool'.made = t.made \ {f}
    BY <1>1, <1>3, <2>2, ToolFields DEF AtWork, Installing
  <2>4. /\ profDisk' \in ProfileFiles
        /\ profDisk'.profile = IF f = "profile" THEN None ELSE profDisk.profile
        /\ profDisk'.secret = IF f = "secret" THEN None ELSE profDisk.secret
        /\ profDisk'.ca = IF f = "ca" THEN None ELSE profDisk.ca
    BY <1>3, ProfileFacts DEF ProfileInv, ProfileFiles
  <2> USE DEF Installing, Rotating, Upgrading
  <2>11. ProfileTypes'
    BY <1>1, <1>3, <2>1, <2>3, <2>4 DEF ProfileInv, ProfileTypes
  <2>12. WhileInstalling'
    BY <1>1, <1>3, <2>2, <2>3, <2>4, ToolFields, ProfileFacts DEF ProfileInv, WhileInstalling
  <2>13. WhileRotating' /\ WhileUpgrading'
    BY <2>3 DEF WhileRotating, WhileUpgrading
  <2>14. IssuedSound'
    BY <1>1, <2>1, <2>2, <2>3, <2>4 DEF ProfileInv, IssuedSound
  <2>15. ReaderSound'
    BY <1>1, <2>2, <2>3, <2>4 DEF ProfileInv, ReaderSound
  <2>16. Profile!PresentLoads'
    BY <1>1, <1>3, <2>2, <2>3, <2>4, ToolFields, ProfileFacts
    DEF ProfileInv, WhileInstalling, Profile!PresentLoads, Profile!Loads
  <2>17. Profile!IssuedTogether'
    BY <1>1 DEF ProfileInv, Profile!IssuedTogether
  <2> QED
    BY <2>11, <2>12, <2>13, <2>14, <2>15, <2>16, <2>17 DEF ProfileInv
<1>4. profTool.made \subseteq {"profile", "secret", "ca"}
  BY <1>1, ProfileFacts, ToolFields DEF ProfileInv, Installing
<1>5. \/ UNCHANGED profDisk /\ profTool' = Profile!NoTool
      \/ \E f \in {"profile", "secret", "ca"} :
           /\ f \in profTool.made /\ UNCHANGED profOutcome
           /\ (f # "profile" => "profile" \notin profTool.made) /\ (f = "ca" => "secret" \notin profTool.made)
           /\ profDisk' = [profDisk EXCEPT ![f] = None] /\ profTool' = [profTool EXCEPT !.made = @ \ {f}]
  BY <1>4 DEF Profile!Undo, Profile!End, Profile!Unlink
<1> QED
  BY <1>2, <1>3, <1>5

(* ------------------------------------------------- loading and cleaning -- *)
LEMMA LoadingKeeps ==
  ASSUME StationAssumption, ProfileInv,
         Profile!_read_profile \/ Profile!_resolve_secret_path \/ Profile!_resolve_tls_ca_bundle_path
  PROVE  ProfileInv'
<1>1. /\ UNCHANGED <<profDisk, profTool, profIssued, profOutcome>> /\ profFaults' \in 0..MaxProfFaults
      /\ \/ /\ reader = Profile!NoReader /\ profDisk.profile # None /\ UNCHANGED loaded
            /\ reader' = [pc |-> "secret", profile |-> profDisk.profile, secret |-> None]
         \/ /\ reader.pc = "secret" /\ UNCHANGED loaded /\ reader' = Profile!NoReader
         \/ /\ reader.pc = "secret" /\ UNCHANGED loaded /\ profDisk.secret # None
            /\ reader' = [reader EXCEPT !.pc = "ca", !.secret = profDisk.secret]
         \/ /\ reader.pc = "ca" /\ reader' = Profile!NoReader
            /\ \/ UNCHANGED loaded
               \/ loaded' = [v |-> reader.profile.v, token |-> reader.secret, ca |-> reader.profile.ca]
  BY ProfileFacts DEF ProfileInv, ProfileTypes, Profile!_read_profile, Profile!_resolve_secret_path,
     Profile!_resolve_tls_ca_bundle_path, Profile!Smooth
<1>2. Profile!NoReader.pc = "none"
  BY DEF Profile!NoReader
<1>3. ProfileTypes' /\ ReaderSound' /\ Profile!IssuedTogether'
  <2>1. CASE /\ reader = Profile!NoReader /\ profDisk.profile # None /\ UNCHANGED loaded
             /\ reader' = [pc |-> "secret", profile |-> profDisk.profile, secret |-> None]
    <3>1. reader'.pc = "secret" /\ reader'.profile = profDisk.profile /\ reader' \in Loading
      BY <2>1, ProfileFacts DEF ProfileInv, Loading
    <3>2. ProfileTypes'
      BY <1>1, <3>1 DEF ProfileInv, ProfileTypes
    <3>3. profDisk.secret # None => [v |-> profDisk.profile.v, token |-> profDisk.secret] \in profIssued
      BY <2>1 DEF ProfileInv, IssuedSound
    <3>4. profTool.pc \notin {"ca", "secret", "profile"}
      BY <2>1 DEF ProfileInv, WhileInstalling, Installing
    <3>5. profTool.pc \in Rotating => profDisk.profile.v = profTool.b.v
      BY ProfileFacts, ToolFields DEF ProfileInv, WhileRotating
    <3>6. ReaderSound'
      BY <1>1, <3>1, <3>3, <3>4, <3>5 DEF ReaderSound
    <3> QED
      BY <1>1, <2>1, <3>2, <3>6 DEF ProfileInv, Profile!IssuedTogether
  <2>2. CASE reader.pc = "secret" /\ UNCHANGED loaded /\ reader' = Profile!NoReader
    BY <1>1, <1>2, <2>2 DEF ProfileInv, ProfileTypes, ReaderSound, Profile!IssuedTogether
  <2>3. CASE /\ reader.pc = "secret" /\ UNCHANGED loaded /\ profDisk.secret # None
             /\ reader' = [reader EXCEPT !.pc = "ca", !.secret = profDisk.secret]
    <3>1. reader'.pc = "ca" /\ reader'.profile = reader.profile /\ reader'.secret = profDisk.secret /\ reader' \in Loading
      BY <2>3, ProfileFacts DEF ProfileInv, Loading
    <3> QED
      BY <1>1, <2>3, <3>1 DEF ProfileInv, ProfileTypes, ReaderSound, Profile!IssuedTogether
  <2>4. CASE /\ reader.pc = "ca" /\ reader' = Profile!NoReader
             /\ \/ UNCHANGED loaded
                \/ loaded' = [v |-> reader.profile.v, token |-> reader.secret, ca |-> reader.profile.ca]
    BY <1>1, <1>2, <2>4 DEF ProfileInv, ProfileTypes, ReaderSound, Profile!IssuedTogether
  <2> QED
    BY <1>1, <2>1, <2>2, <2>3, <2>4
<1>4. WhileInstalling' /\ WhileRotating' /\ WhileUpgrading' /\ IssuedSound' /\ Profile!PresentLoads'
  BY <1>1 DEF ProfileInv, WhileInstalling, WhileRotating, WhileUpgrading, IssuedSound, Profile!PresentLoads, Profile!Loads,
     Profile!ProfileOf
<1> QED
  BY <1>3, <1>4 DEF ProfileInv

LEMMA CleanUpKeeps ==
  ASSUME StationAssumption, ProfileInv, Profile!CleanUp
  PROVE  ProfileInv'
<1>1. /\ profTool' = Profile!NoTool /\ UNCHANGED <<profIssued, reader, loaded>> /\ profFaults' \in 0..MaxProfFaults
      /\ profDisk' = [profile |-> None, secret |-> None, ca |-> None]
  BY ProfileFacts DEF ProfileInv, ProfileTypes, Profile!CleanUp, Profile!NoFiles, Profile!Smooth
<1>2. profDisk'.profile = None /\ profDisk'.secret = None /\ profDisk' \in ProfileFiles
  BY <1>1 DEF ProfileFiles
<1> QED
  BY <1>1, <1>2, Ended DEF Profile!PresentLoads

(* ------------------------------------------------- beginning to write -- *)
LEMMA FirstWrites ==
  ASSUME NEW o, NEW b, NEW route \in {"refused", "reused", "install", "rotate", "upgrade"},
         Profile!Run(o, b, route)
  PROVE  \/ UNCHANGED profTool
         \/ /\ profTool' = [op |-> o, pc |-> IF route = "install" THEN IF b.ca = None THEN "secret" ELSE "ca"
                                             ELSE IF route = "rotate" THEN "rotate"
                                             ELSE IF profDisk.ca = None THEN "upca" ELSE "upprofile",
                            b |-> b, before |-> profDisk, made |-> {}]
            /\ profOutcome' = "none" /\ route \in {"install", "rotate", "upgrade"}
BY DEF Profile!Run, Profile!FirstStep

(* Nothing is at work, nothing is loaded, and what the server has issued   *)
(* has grown.                                                              *)
LEMMA StillIdle ==
  ASSUME StationAssumption, ProfileInv, profTool = Profile!NoTool, reader = Profile!NoReader,
         UNCHANGED <<profDisk, profTool, reader, loaded>>, profIssued \subseteq profIssued',
         profFaults' \in 0..MaxProfFaults
  PROVE  ProfileInv'
<1> USE DEF Installing, Rotating, Upgrading
<1>1. profTool'.pc = "none" /\ reader'.pc = "none"
  BY DEF Profile!NoTool, Profile!NoReader
<1>2. ProfileTypes'
  BY DEF ProfileInv, ProfileTypes
<1>3. WhileInstalling' /\ WhileRotating' /\ WhileUpgrading' /\ ReaderSound'
  BY <1>1 DEF WhileInstalling, WhileRotating, WhileUpgrading, ReaderSound
<1>4. IssuedSound'
  BY DEF ProfileInv, IssuedSound
<1>5. Profile!PresentLoads' /\ Profile!IssuedTogether'
  BY DEF ProfileInv, Profile!PresentLoads, Profile!Loads, Profile!IssuedTogether
<1> QED
  BY <1>2, <1>3, <1>4, <1>5 DEF ProfileInv

(* An operation begins beside the files it has found, soundly for its kind.*)
LEMMA Begun ==
  ASSUME StationAssumption, ProfileInv, profTool = Profile!NoTool, reader = Profile!NoReader,
         UNCHANGED <<profDisk, reader, loaded>>, profIssued \subseteq profIssued',
         profFaults' \in 0..MaxProfFaults, profOutcome' = "none",
         profTool' \in AtWork, profTool'.before = profDisk, profTool'.made = {},
         profTool'.op \in {"enroll", "recover"} =>
           [v |-> profTool'.b.v, token |-> profTool'.b.token] \in profIssued',
         WhileInstalling', WhileRotating', WhileUpgrading'
  PROVE  ProfileInv'
<1>1. reader'.pc = "none"
  BY DEF Profile!NoReader
<1>2. ProfileTypes'
  BY DEF ProfileInv, ProfileTypes
<1>3. ReaderSound'
  BY <1>1 DEF ReaderSound
<1>4. IssuedSound'
  BY DEF ProfileInv, IssuedSound
<1>5. Profile!PresentLoads' /\ Profile!IssuedTogether'
  BY DEF ProfileInv, Profile!PresentLoads, Profile!Loads, Profile!IssuedTogether
<1> QED
  BY <1>2, <1>3, <1>4, <1>5 DEF ProfileInv

LEMMA EnsureKeeps ==
  ASSUME StationAssumption, ProfileInv, NEW o \in {"enroll", "recover"}, NEW b \in Profile!Bundle,
         Profile!ensure_runtime_profile_from_enrollment_bundle(o, b)
  PROVE  ProfileInv'
<1>1. /\ profTool = Profile!NoTool /\ reader = Profile!NoReader /\ UNCHANGED <<profDisk, reader, loaded>>
      /\ profFaults' \in 0..MaxProfFaults /\ profIssued \subseteq profIssued'
      /\ \/ UNCHANGED profTool
         \/ /\ profIssued' = profIssued \cup {[v |-> b.v, token |-> b.token]}
            /\ Profile!Run(o, b, Profile!Route(o, b))
  BY ProfileFacts DEF ProfileInv, ProfileTypes, Profile!ensure_runtime_profile_from_enrollment_bundle,
     Profile!Begins, Profile!Mishap, Profile!Smooth
<1>2. CASE UNCHANGED profTool
  BY <1>1, <1>2, StillIdle
<1>3. CASE /\ profIssued' = profIssued \cup {[v |-> b.v, token |-> b.token]}
           /\ Profile!Run(o, b, Profile!Route(o, b)) /\ ~UNCHANGED profTool
  <2>1. /\ Profile!Route(o, b) = "install" => profDisk.profile = None /\ ~Profile!Orphan(b)
        /\ Profile!Route(o, b) = "rotate" => o = "recover" /\ Profile!SameBinding(b)
        /\ Profile!Route(o, b) \in {"refused", "reused", "install", "rotate"}
    BY DEF Profile!Route
  <2>2. /\ profOutcome' = "none" /\ Profile!Route(o, b) \in {"install", "rotate"}
        /\ profTool' = [op |-> o, pc |-> IF Profile!Route(o, b) = "install" THEN IF b.ca = None THEN "secret" ELSE "ca"
                                         ELSE "rotate",
                        b |-> b, before |-> profDisk, made |-> {}]
    BY <1>3, <2>1, FirstWrites
  <2>3. /\ profTool' \in AtWork /\ profTool'.op = o /\ profTool'.b = b /\ profTool'.before = profDisk /\ profTool'.made = {}
        /\ profTool'.pc = IF Profile!Route(o, b) = "install" THEN IF b.ca = None THEN "secret" ELSE "ca" ELSE "rotate"
    BY <2>2 DEF ProfileInv, ProfileTypes, AtWork, Installing, Rotating, Upgrading, Profile!NoTool
  <2> USE DEF Installing, Rotating, Upgrading
  <2>4. WhileInstalling'
    <3>1. CASE Profile!Route(o, b) = "install"
      <4>1. profDisk.profile = None /\ profDisk.secret = None /\ (b.ca # None => profDisk.ca = None)
        BY <2>1, <3>1 DEF Profile!Orphan
      <4> QED
        BY <1>1, <2>3, <3>1, <4>1 DEF WhileInstalling
    <3>2. CASE Profile!Route(o, b) = "rotate"
      BY <2>3, <3>2 DEF WhileInstalling
    <3> QED
      BY <2>2, <3>1, <3>2
  <2>5. WhileRotating'
    <3>1. CASE Profile!Route(o, b) = "install"
      BY <2>3, <3>1 DEF WhileRotating
    <3>2. CASE Profile!Route(o, b) = "rotate"
      <4>1. o = "recover" /\ Profile!Loads(profDisk) /\ profDisk.profile = Profile!ProfileOf(b)
        BY <2>1, <3>2 DEF Profile!SameBinding
      <4>2. [v |-> profDisk.profile.v, token |-> profDisk.secret] \in profIssued
        BY <4>1 DEF ProfileInv, IssuedSound, Profile!Loads
      <4> QED
        BY <1>1, <2>3, <3>2, <4>1, <4>2 DEF WhileRotating, Profile!Loads, Profile!ProfileOf
    <3> QED
      BY <2>2, <3>1, <3>2
  <2>6. WhileUpgrading'
    BY <2>3 DEF WhileUpgrading
  <2>7. [v |-> profTool'.b.v, token |-> profTool'.b.token] \in profIssued'
    BY <1>3, <2>3
  <2> HIDE DEF Installing, Rotating, Upgrading
  <2> QED
    BY <1>1, <2>2, <2>3, <2>4, <2>5, <2>6, <2>7, Begun
<1> QED
  BY <1>1, <1>2, <1>3

LEMMA ResolveKeeps ==
  ASSUME StationAssumption, ProfileInv, NEW b \in Profile!Bundle, Profile!_resolve_tls_ca_bundle(b)
  PROVE  ProfileInv'
<1>1. /\ profTool = Profile!NoTool /\ reader = Profile!NoReader /\ UNCHANGED <<profDisk, reader, loaded, profIssued>>
      /\ profFaults' \in 0..MaxProfFaults
      /\ \/ UNCHANGED profTool
         \/ Profile!Run("upgrade", b, Profile!ForUpgrade(b))
  BY ProfileFacts DEF ProfileInv, ProfileTypes, Profile!_resolve_tls_ca_bundle, Profile!Begins,
     Profile!Mishap, Profile!Smooth
<1>2. CASE UNCHANGED profTool
  BY <1>1, <1>2, StillIdle
<1>3. CASE Profile!Run("upgrade", b, Profile!ForUpgrade(b)) /\ ~UNCHANGED profTool
  <2>1. /\ Profile!ForUpgrade(b) = "upgrade" =>
             /\ b.ca # None /\ Profile!Loads(profDisk) /\ ~profDisk.profile.ca /\ profDisk.ca \in {None, b.ca}
        /\ Profile!ForUpgrade(b) \in {"refused", "reused", "upgrade"}
    BY DEF Profile!ForUpgrade
  <2>2. /\ profOutcome' = "none" /\ Profile!ForUpgrade(b) = "upgrade"
        /\ profTool' = [op |-> "upgrade", pc |-> IF profDisk.ca = None THEN "upca" ELSE "upprofile",
                        b |-> b, before |-> profDisk, made |-> {}]
    BY <1>3, <2>1, FirstWrites
  <2>3. /\ profTool' \in AtWork /\ profTool'.op = "upgrade" /\ profTool'.b = b /\ profTool'.before = profDisk
        /\ profTool'.made = {} /\ profTool'.pc = IF profDisk.ca = None THEN "upca" ELSE "upprofile"
    BY <2>2 DEF ProfileInv, ProfileTypes, AtWork, Installing, Rotating, Upgrading
  <2> USE DEF Installing, Rotating, Upgrading
  <2>4. WhileInstalling' /\ WhileRotating'
    BY <2>3 DEF WhileInstalling, WhileRotating
  <2>5. [v |-> profDisk.profile.v, token |-> profDisk.secret] \in profIssued
    BY <2>1, <2>2 DEF ProfileInv, IssuedSound, Profile!Loads
  <2>6. WhileUpgrading'
    BY <1>1, <2>1, <2>2, <2>3, <2>5 DEF WhileUpgrading, Profile!Loads
  <2> HIDE DEF Installing, Rotating, Upgrading
  <2> QED
    BY <1>1, <2>2, <2>3, <2>4, <2>6, Begun
<1> QED
  BY <1>1, <1>2, <1>3

LEMMA ProfileStands ==
  ASSUME ProfileInv, UNCHANGED profVars
  PROVE  ProfileInv'
BY DEF ProfileInv, ProfileTypes, WhileInstalling, WhileRotating, WhileUpgrading, IssuedSound, ReaderSound, profVars,
   Profile!PresentLoads, Profile!Loads, Profile!IssuedTogether, Profile!ProfileOf

LEMMA ProfileBegins ==
  ASSUME StationAssumption, Profile!Init
  PROVE  ProfileInv
<1>1. /\ profDisk = [profile |-> None, secret |-> None, ca |-> None] /\ profTool = Profile!NoTool
      /\ reader = Profile!NoReader /\ loaded = None /\ profFaults = 0
  BY DEF Profile!Init, Profile!NoFiles
<1>2. profTool.pc = "none" /\ reader.pc = "none"
  BY <1>1 DEF Profile!NoTool, Profile!NoReader
<1>3. ProfileTypes
  BY <1>1 DEF ProfileTypes, ProfileFiles, StationAssumption, Profile!ProfileAssumption
<1> QED
  BY <1>1, <1>2, <1>3 DEF ProfileInv, WhileInstalling, WhileRotating, WhileUpgrading, IssuedSound, ReaderSound,
     Installing, Rotating, Upgrading, Profile!PresentLoads, Profile!IssuedTogether

LEMMA ProfileKeeps ==
  ASSUME StationAssumption, ProfileInv, Profile!Next
  PROVE  ProfileInv'
<1>1. ASSUME NEW b \in Profile!Bundle, NEW o \in {"enroll", "recover"},
             Profile!ensure_runtime_profile_from_enrollment_bundle(o, b)
      PROVE  ProfileInv'
  BY <1>1, EnsureKeeps
<1>2. ASSUME NEW b \in Profile!Bundle, NEW o \in {"install", "replace"}, Profile!install_runtime_profile(o, b)
      PROVE  ProfileInv'
  BY <1>2 DEF Profile!install_runtime_profile
<1>3. ASSUME NEW b \in Profile!Bundle, Profile!_resolve_tls_ca_bundle(b)
      PROVE  ProfileInv'
  BY <1>3, ResolveKeeps
<1>4. Profile!WriteCa => ProfileInv'
  BY BundleWritten
<1>5. Profile!WriteSecret => ProfileInv'
  BY TokenWritten
<1>6. Profile!WriteProfile => ProfileInv'
  BY ProfileWritten
<1>7. Profile!Undo => ProfileInv'
  BY UndoKeeps
<1>8. Profile!_rotate_existing_profile_token => ProfileInv'
  BY Rotates
<1>9. Profile!Rollback => ProfileInv'
  BY RollbackKeeps
<1>10. Profile!UpgradeCa => ProfileInv'
  BY AddsCa
<1>11. Profile!install_tls_ca_bundle_for_existing_profile => ProfileInv'
  BY RefersToCa
<1>12. Profile!RestoreProfile => ProfileInv'
  BY Restores
<1>13. Profile!UnlinkCa => ProfileInv'
  BY UnlinkCaKeeps
<1>14. Profile!ReadBack \/ Profile!ReadBackRotated \/ Profile!ReadBackUpgraded => ProfileInv'
  BY ReadBackKeeps
<1>15. Profile!_read_profile \/ Profile!_resolve_secret_path \/ Profile!_resolve_tls_ca_bundle_path => ProfileInv'
  BY LoadingKeeps
<1>16. Profile!Crash => ProfileInv'
  BY CrashKeeps
<1>17. Profile!CleanUp => ProfileInv'
  BY CleanUpKeeps
<1> QED
  BY <1>1, <1>2, <1>3, <1>4, <1>5, <1>6, <1>7, <1>8, <1>9, <1>10, <1>11, <1>12, <1>13, <1>14, <1>15, <1>16, <1>17
  DEF Profile!Next

LEMMA ProfileShows ==
  ASSUME StationAssumption, ProfileInv
  PROVE  Profile!ProfileTypeOK /\ Profile!PresentLoads /\ Profile!IssuedTogether
<1>1. DOMAIN profDisk = {"profile", "secret", "ca"}
  BY DEF ProfileInv, ProfileTypes, ProfileFiles
<1>2. profTool.made \subseteq {"profile", "secret", "ca"}
  BY ProfileFacts, ToolFields DEF ProfileInv, Profile!NoTool
<1>3. profTool.op \in {"enroll", "recover"} /\ profTool.pc \in {"ca", "secret"} =>
        profDisk.profile = None /\ profDisk.secret = None
  BY DEF ProfileInv, WhileInstalling, Installing
<1> QED
  BY <1>1, <1>2, <1>3, ProfileFacts DEF ProfileInv, ProfileTypes, Profile!ProfileTypeOK

(* The report "failed" comes when what was made is gone, the token is the  *)
(* old one, or the bundle is again as it was.                              *)
LEMMA FailedAsFound ==
  ASSUME StationAssumption, ProfileInv, Profile!Next
  PROVE  Profile!FailureUndone
<1> SUFFICES ASSUME profTool # Profile!NoTool, profOutcome' = "failed"
             PROVE  profDisk' = profTool.before
  BY DEF Profile!FailureUndone
<1>1. profTool \in AtWork /\ profOutcome = "none" /\ profTool.before \in ProfileFiles
  BY ProfileFacts, ToolFields DEF ProfileInv
<1>2. CASE Profile!Undo
  <2>1. profTool.pc = "undo" /\ profTool.made = {} /\ UNCHANGED profDisk
    BY <1>1, <1>2 DEF Profile!Undo, Profile!End
  <2>2. profDisk.profile = None /\ profDisk.secret = None /\ profDisk.ca = profTool.before.ca
        /\ profTool.before.profile = None /\ profTool.before.secret = None
    BY <2>1 DEF ProfileInv, WhileInstalling, Installing
  <2>3. /\ profDisk = [profile |-> profDisk.profile, secret |-> profDisk.secret, ca |-> profDisk.ca]
        /\ profTool.before = [profile |-> profTool.before.profile, secret |-> profTool.before.secret,
                              ca |-> profTool.before.ca]
    BY <1>1 DEF ProfileInv, ProfileTypes, ProfileFiles
  <2> QED
    BY <2>1, <2>2, <2>3
<1>3. CASE Profile!_rotate_existing_profile_token
  <2>1. profTool.pc = "rotate" /\ UNCHANGED profDisk
    BY <1>1, <1>3 DEF Profile!_rotate_existing_profile_token
  <2>2. /\ profDisk.profile = profTool.before.profile /\ profDisk.ca = profTool.before.ca
        /\ profDisk.secret = profTool.before.secret
    BY <2>1 DEF ProfileInv, WhileRotating, Rotating
  <2>3. /\ profDisk = [profile |-> profDisk.profile, secret |-> profDisk.secret, ca |-> profDisk.ca]
        /\ profTool.before = [profile |-> profTool.before.profile, secret |-> profTool.before.secret,
                              ca |-> profTool.before.ca]
    BY <1>1 DEF ProfileInv, ProfileTypes, ProfileFiles
  <2> QED
    BY <2>1, <2>2, <2>3
<1>4. CASE Profile!Rollback
  <2>1. profTool.pc = "rollback" /\ profDisk' = [profDisk EXCEPT !["secret"] = profTool.before.secret]
    BY <1>1, <1>4 DEF Profile!Rollback, Profile!End, Profile!_atomic_write
  <2>2. profDisk.profile = profTool.before.profile /\ profDisk.ca = profTool.before.ca
    BY <2>1 DEF ProfileInv, WhileRotating, Rotating
  <2>3. /\ profDisk = [profile |-> profDisk.profile, secret |-> profDisk.secret, ca |-> profDisk.ca]
        /\ profTool.before = [profile |-> profTool.before.profile, secret |-> profTool.before.secret,
                              ca |-> profTool.before.ca]
    BY <1>1 DEF ProfileInv, ProfileTypes, ProfileFiles
  <2> QED
    BY <2>1, <2>2, <2>3
<1>5. CASE Profile!UnlinkCa
  <2>1. profTool.pc = "unlinkca" /\ profDisk' = [profDisk EXCEPT !.ca = profTool.before.ca]
    BY <1>1, <1>5 DEF Profile!UnlinkCa, Profile!End
  <2>2. profDisk.profile = profTool.before.profile /\ profDisk.secret = profTool.before.secret
    BY <2>1 DEF ProfileInv, WhileUpgrading, Upgrading
  <2>3. /\ profDisk = [profile |-> profDisk.profile, secret |-> profDisk.secret, ca |-> profDisk.ca]
        /\ profTool.before = [profile |-> profTool.before.profile, secret |-> profTool.before.secret,
                              ca |-> profTool.before.ca]
    BY <1>1 DEF ProfileInv, ProfileTypes, ProfileFiles
  <2> QED
    BY <2>1, <2>2, <2>3
<1>6. \A b, o : /\ ~Profile!ensure_runtime_profile_from_enrollment_bundle(o, b)
                /\ ~Profile!install_runtime_profile(o, b) /\ ~Profile!_resolve_tls_ca_bundle(b)
  BY DEF Profile!ensure_runtime_profile_from_enrollment_bundle, Profile!install_runtime_profile,
     Profile!_resolve_tls_ca_bundle, Profile!Begins
<1>7. CASE Profile!WriteCa \/ Profile!WriteSecret \/ Profile!WriteProfile \/ Profile!UpgradeCa
           \/ Profile!install_tls_ca_bundle_for_existing_profile
  BY <1>1, <1>7 DEF Profile!WriteCa, Profile!WriteSecret, Profile!WriteProfile, Profile!UpgradeCa,
     Profile!install_tls_ca_bundle_for_existing_profile
<1>8. CASE Profile!ReadBack \/ Profile!ReadBackRotated \/ Profile!ReadBackUpgraded
  BY <1>1, <1>8 DEF Profile!ReadBack, Profile!ReadBackRotated, Profile!ReadBackUpgraded, Profile!End
<1>9. CASE Profile!RestoreProfile \/ Profile!Crash \/ Profile!CleanUp
  BY <1>1, <1>9 DEF Profile!RestoreProfile, Profile!Crash, Profile!CleanUp, Profile!End
<1>10. CASE Profile!_read_profile \/ Profile!_resolve_secret_path \/ Profile!_resolve_tls_ca_bundle_path
  BY <1>1, <1>10 DEF Profile!_read_profile, Profile!_resolve_secret_path, Profile!_resolve_tls_ca_bundle_path
<1> QED
  BY <1>2, <1>3, <1>4, <1>5, <1>6, <1>7, <1>8, <1>9, <1>10 DEF Profile!Next

(* ---------------------------------------------------------------- by hand -- *)
LEMMA HandFacts ==
  ASSUME StationAssumption, HandInv
  PROVE  /\ None \notin Values /\ None \notin CAs /\ None \notin ProfTokens
         /\ profDisk.profile \in [v : Values, ca : BOOLEAN] \cup {None}
         /\ profDisk.secret \in ProfTokens \cup {None} /\ profDisk.ca \in CAs \cup {None}
         /\ profDisk = [profile |-> profDisk.profile, secret |-> profDisk.secret, ca |-> profDisk.ca]
         /\ profTool.pc \in Installing \cup Rotating => profTool \in AtWork /\ profOutcome = "none"
         /\ profTool # ByHand!NoTool => profTool.pc \in Installing \cup Rotating
<1>1. None \notin Values \cup CAs \cup ProfTokens
  BY DEF StationAssumption, Profile!ProfileAssumption
<1>2. ByHand!NoTool.pc \notin Installing \cup Rotating
  BY DEF ByHand!NoTool, Installing, Rotating
<1>3. profTool.pc \in Installing \cup Rotating => profTool \in AtWork /\ profOutcome = "none"
  BY <1>2 DEF HandInv
<1>4. profTool # ByHand!NoTool => profTool.pc \in Installing \cup Rotating
  <2>1. \A t \in AtWork : t.pc # "none"
    BY DEF AtWork, Installing, Rotating, Upgrading
  <2> QED
    BY <2>1 DEF HandInv
<1>5. /\ profDisk.profile \in [v : Values, ca : BOOLEAN] \cup {None}
      /\ profDisk.secret \in ProfTokens \cup {None} /\ profDisk.ca \in CAs \cup {None}
      /\ profDisk = [profile |-> profDisk.profile, secret |-> profDisk.secret, ca |-> profDisk.ca]
  BY DEF HandInv, ProfileFiles
<1> QED
  BY <1>1, <1>3, <1>4, <1>5

LEMMA HandEnded ==
  ASSUME profDisk' \in ProfileFiles, profTool' = ByHand!NoTool
  PROVE  HandInv'
<1>1. profTool'.pc = "none"
  BY DEF ByHand!NoTool
<1> QED
  BY <1>1 DEF HandInv, HandInstalling, HandRotating, Installing, Rotating

(* A file that could not be written, or did not read back, is undone with  *)
(* those made before it.                                                   *)
LEMMA HandFails ==
  ASSUME StationAssumption, HandInv, profTool.pc \in Installing, UNCHANGED <<profDisk, profOutcome>>, ByHand!To("undo")
  PROVE  HandInv'
<1>1. PICK t \in AtWork : t = profTool /\ profOutcome = "none"
  BY HandFacts
<1>2. /\ profTool' \in AtWork /\ profTool'.pc = "undo" /\ profTool'.op = t.op
      /\ profTool'.before = t.before /\ profTool'.made = t.made
  BY <1>1, ToolFields DEF AtWork, Installing, ByHand!To
<1>3. HandInstalling'
  BY <1>1, <1>2 DEF HandInv, HandInstalling
<1>4. HandRotating'
  BY <1>2 DEF HandRotating, Rotating
<1> QED
  BY <1>1, <1>2, <1>3, <1>4 DEF HandInv, Installing

LEMMA HandInstalls ==
  ASSUME StationAssumption, HandInv, ByHand!WriteCa \/ ByHand!WriteSecret \/ ByHand!WriteProfile
  PROVE  HandInv' /\ profOutcome' = "none" /\ ByHand!StaysLoadable
<1>1. profTool.pc \in Installing /\ profOutcome' = profOutcome
  BY DEF ByHand!WriteCa, ByHand!WriteSecret, ByHand!WriteProfile, Installing
<1>2. PICK t \in AtWork : t = profTool /\ profOutcome = "none"
  BY <1>1, HandFacts
<1>3. CASE UNCHANGED profDisk /\ ByHand!To("undo")
  BY <1>1, <1>2, <1>3, HandFails DEF ByHand!StaysLoadable, ByHand!PresentLoads, ByHand!Loads
<1>4. CASE t.pc = "ca" /\ profDisk' = [profDisk EXCEPT !["ca"] = t.b.ca] /\ ByHand!Made("ca", "secret")
  <2>1. t.b.ca # None /\ t.b.ca \in CAs
    BY <1>2, <1>4, ToolFields DEF HandInv, HandInstalling
  <2>2. /\ profTool' \in AtWork /\ profTool'.pc = "secret" /\ profTool'.b = t.b /\ profTool'.op = t.op
        /\ profTool'.before = t.before /\ profTool'.made = t.made \cup {"ca"}
        /\ profDisk' \in ProfileFiles /\ profDisk'.ca = t.b.ca
        /\ profDisk'.secret = profDisk.secret /\ profDisk'.profile = profDisk.profile
    <3>1. /\ profTool' \in AtWork /\ profTool'.pc = "secret" /\ profTool'.b = t.b /\ profTool'.op = t.op
          /\ profTool'.before = t.before /\ profTool'.made = t.made \cup {"ca"}
      BY <1>2, <1>4, ToolFields DEF AtWork, Installing, ByHand!Made
    <3>2. /\ profDisk' \in ProfileFiles /\ profDisk'.ca = t.b.ca
          /\ profDisk'.secret = profDisk.secret /\ profDisk'.profile = profDisk.profile
      BY <1>4, <2>1 DEF HandInv, ProfileFiles
    <3> QED
      BY <3>1, <3>2
  <2>3. HandInstalling'
    BY <1>1, <1>2, <2>2 DEF HandInv, HandInstalling
  <2>4. HandInv'
    BY <1>1, <1>2, <2>2, <2>3 DEF HandInv, HandRotating, Installing, Rotating
  <2>5. ByHand!StaysLoadable
    BY <2>1, <2>2, HandFacts DEF ByHand!StaysLoadable, ByHand!PresentLoads, ByHand!Loads
  <2> QED
    BY <1>1, <1>2, <2>4, <2>5
<1>5. CASE t.pc = "secret" /\ profDisk' = [profDisk EXCEPT !["secret"] = t.b.token] /\ ByHand!Made("secret", "profile")
  <2>1. t.b.token # None /\ t.b.token \in ProfTokens
    BY ToolFields, HandFacts
  <2>2. /\ profTool' \in AtWork /\ profTool'.pc = "profile" /\ profTool'.b = t.b /\ profTool'.op = t.op
        /\ profTool'.before = t.before /\ profTool'.made = t.made \cup {"secret"}
        /\ profDisk' \in ProfileFiles /\ profDisk'.ca = profDisk.ca
        /\ profDisk'.secret = t.b.token /\ profDisk'.profile = profDisk.profile
    <3>1. /\ profTool' \in AtWork /\ profTool'.pc = "profile" /\ profTool'.b = t.b /\ profTool'.op = t.op
          /\ profTool'.before = t.before /\ profTool'.made = t.made \cup {"secret"}
      BY <1>2, <1>5, ToolFields DEF AtWork, Installing, ByHand!Made
    <3>2. /\ profDisk' \in ProfileFiles /\ profDisk'.ca = profDisk.ca
          /\ profDisk'.secret = t.b.token /\ profDisk'.profile = profDisk.profile
      BY <1>5, <2>1 DEF HandInv, ProfileFiles
    <3> QED
      BY <3>1, <3>2
  <2>3. HandInstalling'
    BY <1>1, <1>2, <1>5, <2>2 DEF HandInv, HandInstalling
  <2>4. HandInv'
    BY <1>1, <1>2, <2>2, <2>3 DEF HandInv, HandRotating, Installing, Rotating
  <2>5. ByHand!StaysLoadable
    BY <2>1, <2>2 DEF ByHand!StaysLoadable, ByHand!PresentLoads, ByHand!Loads
  <2> QED
    BY <1>1, <1>2, <2>4, <2>5
<1>6. CASE /\ t.pc = "profile" /\ profDisk' = [profDisk EXCEPT !["profile"] = ByHand!ProfileOf(t.b)]
           /\ ByHand!Made("profile", "readback")
  <2>1. /\ ByHand!ProfileOf(t.b) \in [v : Values, ca : BOOLEAN] /\ t.b.token # None
        /\ (ByHand!ProfileOf(t.b).ca => t.b.ca # None)
    BY ToolFields, HandFacts DEF ByHand!ProfileOf
  <2>2. /\ profTool' \in AtWork /\ profTool'.pc = "readback" /\ profTool'.b = t.b /\ profTool'.op = t.op
        /\ profTool'.before = t.before /\ profTool'.made = t.made \cup {"profile"}
        /\ profDisk' \in ProfileFiles /\ profDisk'.ca = profDisk.ca
        /\ profDisk'.secret = profDisk.secret /\ profDisk'.profile = ByHand!ProfileOf(t.b)
    <3>1. /\ profTool' \in AtWork /\ profTool'.pc = "readback" /\ profTool'.b = t.b /\ profTool'.op = t.op
          /\ profTool'.before = t.before /\ profTool'.made = t.made \cup {"profile"}
      BY <1>2, <1>6, ToolFields DEF AtWork, Installing, ByHand!Made
    <3>2. /\ profDisk' \in ProfileFiles /\ profDisk'.ca = profDisk.ca
          /\ profDisk'.secret = profDisk.secret /\ profDisk'.profile = ByHand!ProfileOf(t.b)
      BY <1>6, <2>1 DEF HandInv, ProfileFiles
    <3> QED
      BY <3>1, <3>2
  <2>3. profDisk.secret = t.b.token /\ (t.b.ca # None => profDisk.ca = t.b.ca)
    BY <1>2, <1>6 DEF HandInv, HandInstalling
  <2>4. HandInstalling'
    BY <1>1, <1>2, <2>2, <2>3 DEF HandInv, HandInstalling
  <2>5. HandInv'
    BY <1>1, <1>2, <2>2, <2>4 DEF HandInv, HandRotating, Installing, Rotating
  <2>6. ByHand!StaysLoadable
    BY <2>1, <2>2, <2>3 DEF ByHand!StaysLoadable, ByHand!PresentLoads, ByHand!Loads
  <2> QED
    BY <1>1, <1>2, <2>5, <2>6
<1> QED
  BY <1>2, <1>3, <1>4, <1>5, <1>6
     DEF ByHand!WriteCa, ByHand!WriteSecret, ByHand!WriteProfile, ByHand!NotMade, ByHand!_atomic_write

LEMMA HandLooksBack ==
  ASSUME StationAssumption, HandInv, ByHand!ReadBack \/ ByHand!ReadBackRotated \/ ByHand!Crash
  PROVE  HandInv' /\ UNCHANGED profDisk /\ profOutcome' # "failed"
<1>1. profDisk' \in ProfileFiles /\ UNCHANGED profDisk
  BY DEF HandInv, ByHand!ReadBack, ByHand!ReadBackRotated, ByHand!Crash
<1>2. \/ profTool' = ByHand!NoTool /\ profOutcome' \in {"installed", "rotated", "crash"}
      \/ profTool.pc = "readback" /\ ByHand!To("undo") /\ UNCHANGED profOutcome
      \/ profTool.pc = "rotated" /\ ByHand!To("rollback") /\ UNCHANGED profOutcome
  BY DEF ByHand!ReadBack, ByHand!ReadBackRotated, ByHand!Crash, ByHand!End, ByHand!Mishap
<1>3. CASE profTool' = ByHand!NoTool /\ profOutcome' \in {"installed", "rotated", "crash"}
  BY <1>1, <1>3, HandEnded
<1>4. CASE profTool.pc = "readback" /\ ByHand!To("undo") /\ UNCHANGED profOutcome
  BY <1>1, <1>4, HandFails, HandFacts DEF Installing
<1>5. CASE profTool.pc = "rotated" /\ ByHand!To("rollback") /\ UNCHANGED profOutcome
  <2>1. PICK t \in AtWork : t = profTool /\ profOutcome = "none"
    BY <1>5, HandFacts DEF Rotating
  <2>2. profTool' \in AtWork /\ profTool'.pc = "rollback" /\ profTool'.before = t.before
    BY <1>5, <2>1, ToolFields DEF AtWork, Rotating, ByHand!To
  <2>3. HandRotating'
    BY <1>1, <1>5, <2>1, <2>2 DEF HandInv, HandRotating, Rotating
  <2> QED
    BY <1>1, <1>5, <2>1, <2>2, <2>3 DEF HandInv, HandInstalling, Installing, Rotating
<1> QED
  BY <1>2, <1>3, <1>4, <1>5

(* What was made is unlinked: the profile first, so nothing loads after    *)
(* it, unless it had not been written yet, as in a replacement that failed *)
(* before.                                                                 *)
LEMMA HandUndoes ==
  ASSUME StationAssumption, HandInv, ByHand!Undo
  PROVE  HandInv' /\ ByHand!StaysLoadable /\ ByHand!FailsClosed
<1>1. PICK t \in AtWork : t = profTool /\ t.pc = "undo" /\ profOutcome = "none"
  BY HandFacts DEF ByHand!Undo, Installing
<1>2. /\ profDisk.profile \in {None, t.before.profile} \/ "profile" \in t.made
      /\ profDisk.secret \in {None, t.before.secret} \/ "secret" \in t.made
      /\ t.op # "replace" => "profile" \in t.made \/ profDisk.profile = None
  BY <1>1 DEF HandInv, HandInstalling, Installing
<1>3. CASE t.made = {}
  <2>1. UNCHANGED profDisk /\ profTool' = ByHand!NoTool
    BY <1>1, <1>3 DEF ByHand!Undo, ByHand!End
  <2>2. HandInv'
    BY <2>1, HandEnded DEF HandInv
  <2>3. ByHand!FailsClosed
    BY <1>1, <1>2, <1>3, <2>1 DEF ByHand!FailsClosed, ByHand!Loads, ByHand!Content
  <2> QED
    BY <2>1, <2>2, <2>3 DEF ByHand!StaysLoadable, ByHand!PresentLoads, ByHand!Loads
<1>4. CASE t.made # {} /\ profTool' = ByHand!NoTool
  <2>1. UNCHANGED profDisk /\ profOutcome' = "broken"
    <3>1. \A f : [t EXCEPT !.made = @ \ {f}] # ByHand!NoTool
      <4>1. \A f : [t EXCEPT !.made = @ \ {f}].pc = "undo"
        BY <1>1, ToolFields
      <4> QED
        BY <4>1 DEF ByHand!NoTool
    <3> QED
      BY <1>1, <1>4, <3>1 DEF ByHand!Undo, ByHand!End
  <2>2. HandInv'
    BY <1>4, <2>1, HandEnded DEF HandInv
  <2> QED
    BY <2>1, <2>2 DEF ByHand!FailsClosed, ByHand!StaysLoadable, ByHand!PresentLoads, ByHand!Loads
<1>5. CASE t.made # {} /\ profTool' # ByHand!NoTool
  <2>1. PICK f \in {"profile", "secret", "ca"} :
          /\ profDisk' = [profDisk EXCEPT ![f] = None] /\ profTool' = [t EXCEPT !.made = @ \ {f}]
          /\ "profile" \in t.made => f = "profile"
          /\ UNCHANGED profOutcome
    BY <1>1, <1>5 DEF ByHand!Undo, ByHand!Unlink, ByHand!Mishap, ByHand!End
  <2>2. /\ profTool' \in AtWork /\ profTool'.pc = "undo" /\ profTool'.op = t.op
        /\ profTool'.before = t.before /\ profTool'.made = t.made \ {f}
    BY <1>1, <2>1, ToolFields DEF AtWork, Installing
  <2>3. /\ profDisk' \in ProfileFiles
        /\ profDisk'.profile = IF f = "profile" THEN None ELSE profDisk.profile
        /\ profDisk'.secret = IF f = "secret" THEN None ELSE profDisk.secret
    BY <1>1, <2>1 DEF HandInv, ProfileFiles
  <2>4. HandInstalling'
    BY <1>2, <2>1, <2>2, <2>3 DEF HandInstalling
  <2>5. HandInv'
    BY <1>1, <2>1, <2>2, <2>3, <2>4 DEF HandInv, HandRotating, Installing, Rotating
  <2>6. ByHand!StaysLoadable
    BY <1>1, <1>2, <2>1, <2>3 DEF ByHand!StaysLoadable, ByHand!PresentLoads
  <2> QED
    BY <1>1, <2>1, <2>5, <2>6 DEF ByHand!FailsClosed
<1> QED
  BY <1>3, <1>4, <1>5

LEMMA HandRotates ==
  ASSUME StationAssumption, HandInv, ByHand!_rotate_existing_profile_token \/ ByHand!Rollback
  PROVE  HandInv' /\ ByHand!StaysLoadable /\ ByHand!FailsClosed
<1>1. profTool.pc \in {"rotate", "rollback"}
  BY DEF ByHand!_rotate_existing_profile_token, ByHand!Rollback
<1>2. PICK t \in AtWork : t = profTool /\ profOutcome = "none"
  BY <1>1, HandFacts DEF Rotating
<1>3. /\ t.before.secret # None /\ t.before.secret \in ProfTokens /\ profDisk.profile = t.before.profile
      /\ t.pc = "rotate" => profDisk.secret = t.before.secret
  BY <1>1, <1>2, ToolFields DEF HandInv, HandRotating, Rotating
<1>4. CASE UNCHANGED profDisk /\ profTool' = ByHand!NoTool /\ (t.pc = "rotate" \/ profOutcome' = "broken")
  <2>1. HandInv'
    BY <1>4, HandEnded DEF HandInv
  <2>2. ByHand!FailsClosed
    BY <1>2, <1>3, <1>4 DEF ByHand!FailsClosed, ByHand!Content
  <2> QED
    BY <1>4, <2>1, <2>2 DEF ByHand!StaysLoadable, ByHand!PresentLoads, ByHand!Loads
<1>5. CASE /\ t.pc = "rotate" /\ profDisk' = [profDisk EXCEPT !["secret"] = t.b.token]
           /\ ByHand!To("rotated") /\ UNCHANGED profOutcome
  <2>1. t.b.token # None /\ t.b.token \in ProfTokens
    BY ToolFields, HandFacts
  <2>2. profTool' \in AtWork /\ profTool'.pc = "rotated" /\ profTool'.before = t.before
    BY <1>2, <1>5, ToolFields DEF AtWork, Rotating, ByHand!To
  <2>3. /\ profDisk' \in ProfileFiles /\ profDisk'.profile = profDisk.profile /\ profDisk'.secret = t.b.token
        /\ profDisk'.ca = profDisk.ca
    BY <1>5, <2>1 DEF HandInv, ProfileFiles
  <2>4. HandInv'
    BY <1>2, <1>3, <1>5, <2>2, <2>3 DEF HandInv, HandInstalling, HandRotating, Installing, Rotating
  <2> QED
    BY <1>2, <1>5, <2>1, <2>3, <2>4 DEF ByHand!FailsClosed, ByHand!StaysLoadable, ByHand!PresentLoads, ByHand!Loads
<1>6. CASE /\ t.pc = "rollback" /\ profDisk' = [profDisk EXCEPT !["secret"] = t.before.secret]
           /\ profTool' = ByHand!NoTool
  <2>1. /\ profDisk' \in ProfileFiles /\ profDisk'.profile = profDisk.profile /\ profDisk'.secret = t.before.secret
        /\ profDisk'.ca = profDisk.ca
    BY <1>3, <1>6 DEF HandInv, ProfileFiles
  <2>2. HandInv'
    BY <1>6, <2>1, HandEnded
  <2>3. ByHand!FailsClosed
    BY <1>2, <1>3, <2>1 DEF ByHand!FailsClosed, ByHand!Content
  <2> QED
    BY <1>3, <2>1, <2>2, <2>3, HandFacts DEF ByHand!StaysLoadable, ByHand!PresentLoads, ByHand!Loads
<1> QED
  BY <1>2, <1>4, <1>5, <1>6 DEF ByHand!_rotate_existing_profile_token, ByHand!Rollback, ByHand!_atomic_write, ByHand!End

(* An installation begins with the token or, when it has one, the bundle,  *)
(* and only a replacement where there is a profile; a new token comes only *)
(* to a profile that loads.                                                *)
LEMMA HandBegins ==
  ASSUME StationAssumption, HandInv, NEW o \in {"recover", "install", "replace"}, NEW b \in ByHand!Bundle,
         NEW route \in {"refused", "reused", "install", "rotate"}, route = "rotate" => ByHand!Loads(profDisk),
         route = "install" /\ o # "replace" => profDisk.profile = None,
         ByHand!Run(o, b, route), UNCHANGED profDisk, profTool = ByHand!NoTool
  PROVE  HandInv'
<1>1. CASE UNCHANGED profTool
  BY <1>1, HandEnded DEF HandInv
<1>2. CASE ~UNCHANGED profTool
  <2> DEFINE first == IF route = "rotate" THEN "rotate" ELSE IF b.ca = None THEN "secret" ELSE "ca"
  <2>1. /\ route \in {"install", "rotate"} /\ profOutcome' = "none"
        /\ profTool' = [op |-> o, pc |-> first, b |-> b, before |-> profDisk, made |-> {}]
    BY <1>2 DEF ByHand!Run, ByHand!FirstStep
  <2>2. /\ profTool' \in AtWork /\ profTool'.b = b /\ profTool'.before = profDisk
        /\ profTool'.op = o /\ profTool'.pc = first /\ profTool'.made = {}
    BY <2>1 DEF HandInv, AtWork, Installing, Rotating, ByHand!Bundle, Profile!Bundle
  <2>3. HandInstalling'
    BY <2>1, <2>2 DEF HandInstalling, Installing
  <2>4. HandRotating'
    BY <2>1, <2>2 DEF HandRotating, Rotating, ByHand!Loads
  <2> QED
    BY <2>1, <2>2, <2>3, <2>4 DEF HandInv, Installing, Rotating
<1> QED
  BY <1>1, <1>2

(* Every step by hand keeps the invariant and does what the property asks. *)
LEMMA HandKeeps ==
  ASSUME StationAssumption, HandInv, ByHand!Next
  PROVE  HandInv' /\ ByHand!StaysLoadable /\ ByHand!FailsClosed
<1>0. ASSUME HandInv', UNCHANGED profDisk, profOutcome' # "failed" \/ profTool = ByHand!NoTool
      PROVE  HandInv' /\ ByHand!StaysLoadable /\ ByHand!FailsClosed
  BY <1>0 DEF ByHand!StaysLoadable, ByHand!FailsClosed, ByHand!PresentLoads, ByHand!Loads
<1>1. ASSUME NEW b \in ByHand!Bundle, NEW o \in {"enroll", "recover"},
             ByHand!ensure_runtime_profile_from_enrollment_bundle(o, b)
      PROVE  HandInv' /\ UNCHANGED profDisk /\ profTool = ByHand!NoTool
  <2>1. o = "recover" /\ UNCHANGED profDisk /\ profTool = ByHand!NoTool
        /\ (ByHand!Run(o, b, ByHand!Route(o, b)) \/ UNCHANGED profTool)
    BY <1>1 DEF ByHand!ensure_runtime_profile_from_enrollment_bundle, ByHand!Begins
  <2>2. /\ ByHand!Route(o, b) \in {"refused", "reused", "install", "rotate"}
        /\ ByHand!Route(o, b) = "rotate" => ByHand!Loads(profDisk)
        /\ ByHand!Route(o, b) = "install" => profDisk.profile = None
    BY DEF ByHand!Route, ByHand!SameBinding
  <2>3. CASE UNCHANGED profTool
    BY <2>1, <2>3, HandEnded DEF HandInv
  <2> QED
    BY <2>1, <2>2, <2>3, HandBegins
<1>2. ASSUME NEW b \in ByHand!Bundle, NEW o \in {"install", "replace"}, ByHand!install_runtime_profile(o, b)
      PROVE  HandInv' /\ UNCHANGED profDisk /\ profTool = ByHand!NoTool
  <2>1. UNCHANGED profDisk /\ profTool = ByHand!NoTool /\ ByHand!Run(o, b, ByHand!ByHand(o, b))
    BY <1>2 DEF ByHand!install_runtime_profile, ByHand!Begins
  <2>2. /\ ByHand!ByHand(o, b) \in {"refused", "install"}
        /\ ByHand!ByHand(o, b) = "install" /\ o # "replace" => profDisk.profile = None
    BY DEF ByHand!ByHand
  <2> QED
    BY <2>1, <2>2, HandBegins
<1>3. \A b : ~ByHand!_resolve_tls_ca_bundle(b)
  BY DEF ByHand!_resolve_tls_ca_bundle
<1>4. CASE ByHand!WriteCa \/ ByHand!WriteSecret \/ ByHand!WriteProfile
  BY <1>4, HandInstalls DEF ByHand!FailsClosed
<1>5. CASE ByHand!ReadBack \/ ByHand!ReadBackRotated \/ ByHand!Crash
  BY <1>0, <1>5, HandLooksBack
<1>6. CASE ByHand!Undo
  BY <1>6, HandUndoes
<1>7. CASE ByHand!_rotate_existing_profile_token \/ ByHand!Rollback
  BY <1>7, HandRotates
<1>8. /\ ~ByHand!UpgradeCa /\ ~ByHand!install_tls_ca_bundle_for_existing_profile /\ ~ByHand!ReadBackUpgraded
      /\ ~ByHand!RestoreProfile /\ ~ByHand!UnlinkCa
  BY DEF HandInv, Installing, Rotating, ByHand!UpgradeCa, ByHand!install_tls_ca_bundle_for_existing_profile,
     ByHand!ReadBackUpgraded, ByHand!RestoreProfile, ByHand!UnlinkCa
<1>9. CASE ByHand!_read_profile \/ ByHand!_resolve_secret_path \/ ByHand!_resolve_tls_ca_bundle_path
  <2>1. UNCHANGED <<profDisk, profTool, profOutcome>>
    BY <1>9 DEF ByHand!_read_profile, ByHand!_resolve_secret_path, ByHand!_resolve_tls_ca_bundle_path
  <2>2. HandInv'
    BY <2>1 DEF HandInv, HandInstalling, HandRotating
  <2>3. profOutcome' # "failed" \/ profTool = ByHand!NoTool
    BY <2>1, HandFacts
  <2> QED
    BY <1>0, <2>1, <2>2, <2>3
<1>10. CASE ByHand!CleanUp
  <2>1. /\ profDisk' = [profile |-> None, secret |-> None, ca |-> None] /\ profTool' = ByHand!NoTool
        /\ profTool = ByHand!NoTool
    BY <1>10 DEF ByHand!CleanUp, ByHand!NoFiles
  <2>2. profDisk' \in ProfileFiles /\ profDisk'.profile = None
    BY <2>1 DEF ProfileFiles
  <2>3. HandInv'
    BY <2>1, <2>2, HandEnded
  <2> QED
    BY <2>1, <2>2, <2>3 DEF ByHand!StaysLoadable, ByHand!FailsClosed, ByHand!PresentLoads
<1> QED
  BY <1>0, <1>1, <1>2, <1>3, <1>4, <1>5, <1>6, <1>7, <1>8, <1>9, <1>10 DEF ByHand!Next

LEMMA HandStands ==
  ASSUME HandInv, UNCHANGED profVars
  PROVE  HandInv'
BY DEF HandInv, HandInstalling, HandRotating, profVars

LEMMA HandStarts ==
  ASSUME ByHand!Init
  PROVE  HandInv
<1>1. profDisk = [profile |-> None, secret |-> None, ca |-> None] /\ profTool = ByHand!NoTool
  BY DEF ByHand!Init, ByHand!NoFiles
<1>2. profTool.pc = "none"
  BY <1>1 DEF ByHand!NoTool
<1> QED
  BY <1>1, <1>2 DEF HandInv, HandInstalling, HandRotating, ProfileFiles, Installing, Rotating

(* A step of the station is one of the tools, one of the hand, or leaves   *)
(* the profile alone.                                                      *)
LEMMA ProfileSteps ==
  ASSUME [Next]_vars
  PROVE  /\ part' = part /\ (part = "profile" => [Profile!Next]_profVars)
         /\ (part = "by hand" => [ByHand!Next]_profVars)
BY DEF Next, EnrollStep, OnceStep, ProfileStep, ByHandStep, LifeStep, CatalogStep, OfflineStep, LoginStep,
   UpdateStep, vars, profVars

(* Under the registration tools a profile on the disk loads wherever an    *)
(* enrollment, a recovery, a renewal of the token or the later addition of *)
(* a bundle failed or was cut short, a program never works with values and *)
(* a token not issued together, and a failure that was reported as dealt   *)
(* with left the files as they were.  By hand a profile stops loading only *)
(* where a failed replacement of it is undone, and after a failure that is *)
(* reported nothing loads, or what was there before does                   *)
(* (install_logistics_runtime_profile.py, logistics_runtime_profile.py).   *)
THEOREM ProfilesKept == Spec => ProfileSound
<1> DEFINE PInv == (part = "profile" => ProfileInv) /\ (part = "by hand" => HandInv)
<1>1. Init => PInv
  BY StationAssumption, ProfileBegins, HandStarts DEF Init
<1>2. PInv /\ [Next]_vars => PInv'
  <2> SUFFICES ASSUME PInv, [Next]_vars PROVE PInv'
    OBVIOUS
  <2>1. CASE part = "profile"
    <3>1. ProfileInv'
      BY <2>1, StationAssumption, ProfileSteps, ProfileKeeps, ProfileStands
    <3> QED
      BY <2>1, <3>1, ProfileSteps
  <2>2. CASE part = "by hand"
    <3>1. HandInv'
      BY <2>2, StationAssumption, ProfileSteps, HandKeeps, HandStands
    <3> QED
      BY <2>2, <3>1, ProfileSteps
  <2>3. CASE part \notin {"profile", "by hand"}
    BY <2>3, ProfileSteps
  <2> QED
    BY <2>1, <2>2, <2>3
<1>3. PInv => (part = "profile" => Profile!ProfileTypeOK /\ Profile!PresentLoads /\ Profile!IssuedTogether)
  BY StationAssumption, ProfileShows
<1>4. PInv /\ [Next]_vars => [part = "profile" => Profile!FailureUndone]_profVars
  BY StationAssumption, ProfileSteps, FailedAsFound
<1>5. PInv /\ [Next]_vars => [part = "by hand" => ByHand!StaysLoadable /\ ByHand!FailsClosed]_profVars
  BY StationAssumption, ProfileSteps, HandKeeps
<1> QED
  BY <1>1, <1>2, <1>3, <1>4, <1>5, PTL DEF Spec, ProfileSound

-----------------------------------------------------------------------------
(* The enrollment.                                                         *)

(* Until the journal is ended it is bound to one authorization, and says   *)
(* how far that one has come.                                              *)
Bound   == {"PREPARED", "PACKAGED", "COMMIT_INTENT", "SERVER_COMMITTED", "LOCAL_PERSISTED",
            "CLEANUP_INTENT", "COMPLETE"}
Packed  == {"PACKAGED", "COMMIT_INTENT", "SERVER_COMMITTED", "LOCAL_PERSISTED", "CLEANUP_INTENT"}
Done(a) == srv.prep[a] = "COMMITTED"
Live(a) == srv.prep[a] \in {"NONE", "PREPARED"} /\ a \notin srv.expired

ServerType == [epoch : Nat, issued : 0..MaxAuths, expired : SUBSET Enroll!Auths,
               prep : [Enroll!Auths -> {"NONE", "PREPARED", "COMMITTED", "ABORTED", "EXPIRED"}],
               proposed : [Enroll!Auths -> Enroll!Epochs]]

(* The server's generations follow each other, and only the authorization  *)
(* in the file can bring another.                                          *)
ServerSound ==
  /\ srv \in ServerType
  /\ srv.epoch >= 1 /\ srv.epoch <= srv.issued + 1
  /\ authFile \in {0, srv.issued}
  /\ srv.issued > 0 /\ ~Done(srv.issued) => srv.epoch <= srv.issued
  /\ \A a \in Enroll!Auths :
       /\ a > srv.issued => srv.prep[a] = "NONE"
       /\ srv.prep[a] \in {"EXPIRED", "ABORTED"} => a \in srv.expired
       /\ srv.prep[a] = "PREPARED" => a \notin srv.expired /\ srv.proposed[a] = srv.epoch + 1
       /\ srv.prep[a] = "COMMITTED" => srv.proposed[a] <= srv.epoch
       /\ srv.prep[a] # "NONE" => srv.proposed[a] >= 2 /\ (a = journal.auth \/ a \in archived)
       /\ a <= srv.issued /\ Live(a) /\ a # authFile =>
            srv.prep[a] = "NONE" /\ journal.auth # a /\ enrollRun.auth # a

(* The journal: bound, packed with what the server proposed, and committed *)
(* only to the server's generation.                                        *)
JournalSound ==
  /\ journal.state = "NONE" => journal = Enroll!NoJournal
  /\ journal.state # "NONE" => journal.auth \in 1..srv.issued
  /\ archived \subseteq 1..srv.issued
  /\ \A a \in archived : srv.prep[a] \in {"COMMITTED", "ABORTED", "EXPIRED"}
  /\ journal.state \in {"ABORTED", "EXPIRED"} => srv.prep[journal.auth] \in {"ABORTED", "EXPIRED"}
  /\ journal.state \in Bound => /\ srv.prep[journal.auth] # "NONE"
                                /\ journal.epoch = srv.proposed[journal.auth]
  /\ journal.state \in {"PREPARE_INTENT", "PREPARED", "PACKAGED"} => ~Done(journal.auth)
  /\ journal.state \in Enroll!Committed \cup {"COMPLETE"} => Done(journal.auth)
  /\ journal.state \in Bound /\ Done(journal.auth) => srv.epoch = journal.epoch
  /\ journal.state \in Packed => package = journal.epoch /\ journal.sealed = package

(* The run: where it is, the journal is there.                             *)
RunSound ==
  /\ enrollRun.pc # "idle" => enrollRun.mode = "two"
  /\ enrollRun.pc = "idle" => enrollRun.auth = 0
  /\ enrollRun.pc \notin {"idle", "init"} => enrollRun.auth = journal.auth
  /\ enrollRun.pc \notin {"enroll", "recover", "remove"}
  /\ enrollRun.pc = "init" => journal.state = "NONE" /\ enrollRun.auth = authFile /\ authFile # 0
  /\ enrollRun.pc \in {"prepare", "record"} => journal.state \in {"PREPARE_INTENT", "PREPARED"}
  /\ enrollRun.pc = "record" => srv.prep[enrollRun.auth] # "NONE" /\ enrollRun.epoch = srv.proposed[enrollRun.auth]
  /\ enrollRun.pc \in {"resume", "stageStatus", "stage", "staged"} => journal.state = "PREPARED"
  /\ enrollRun.pc \in {"stageStatus", "stage", "staged"} => enrollRun.epoch = journal.epoch
  /\ enrollRun.pc = "staged" => package = journal.epoch
  /\ enrollRun.pc = "commitStatus" => journal.state \in {"PACKAGED", "COMMIT_INTENT"}
  /\ enrollRun.pc \in {"commit", "accept"} => journal.state = "COMMIT_INTENT"
  /\ enrollRun.pc = "expire" => journal.state = "EXPIRED"
  /\ enrollRun.pc = "final" => journal.state = "COMPLETE"
  /\ enrollRun.pc \in {"activate", "identity", "manifest", "credential", "persisted", "cleanup", "unlink",
                       "report", "complete"} => journal.state \in Enroll!Committed
  /\ enrollRun.pc = "cleanup" => journal.state # "SERVER_COMMITTED"
  /\ enrollRun.pc \in {"unlink", "report", "complete"} => journal.state = "CLEANUP_INTENT"

(* The files: what a run has written, and what the journal says of them.   *)
Whole == files.identity /\ files.manifest /\ files.credential = srv.epoch /\ files.secret = srv.epoch
FilesSound ==
  /\ enrollRun.pc \in {"identity", "manifest", "credential"} =>
       enrollRun.epoch = srv.epoch /\ files.secret = srv.epoch
  /\ enrollRun.pc \in {"manifest", "credential"} => files.identity
  /\ enrollRun.pc = "credential" => files.manifest
  /\ enrollRun.pc \in {"persisted", "cleanup", "unlink", "report", "complete"} => Whole
  /\ journal.state \in {"LOCAL_PERSISTED", "CLEANUP_INTENT", "COMPLETE"} => Whole
  /\ enrollRun.pc \in {"report", "complete"} => authFile = 0
  /\ enrollRun.pc = "complete" => enrollReport = journal.auth
  /\ journal.state = "COMPLETE" => authFile # journal.auth /\ enrollReport = journal.auth

EnrollInv ==
  /\ Enroll!EnrollmentTypeOK /\ ServerSound /\ JournalSound /\ RunSound /\ FilesSound
  /\ Enroll!SecretKept

(* In one phase the run that has the newest generation writes it.          *)
OncePCs == {"idle", "enroll", "recover", "activate", "identity", "manifest", "credential", "unlink", "report"}
OnceRun == [pc : OncePCs, mode : {"self", "recover"}, auth : Nat, epoch : Nat]
OnceFiles == [identity : BOOLEAN, manifest : BOOLEAN, credential : Nat, secret : Nat]
PrepStates == {"NONE", "PREPARED", "COMMITTED", "ABORTED", "EXPIRED"}
OnceServer == [epoch : Nat, issued : Nat, expired : SUBSET Nat, prep : [Once!Auths -> PrepStates],
               proposed : [Once!Auths -> Nat]]
OnceInv ==
  /\ enrollRun \in OnceRun /\ files \in OnceFiles /\ srv \in OnceServer /\ authFile \in Nat
  /\ files.secret <= srv.epoch /\ files.credential <= srv.epoch
  /\ enrollRun.pc \in {"activate", "identity", "manifest", "credential", "unlink", "report"} =>
       enrollRun.epoch = srv.epoch
  /\ enrollRun.pc \in {"identity", "manifest", "credential", "unlink", "report"} => files.secret = srv.epoch
  /\ enrollRun.pc \in {"unlink", "report"} => files.credential = srv.epoch

JournalType == [state : Enroll!JournalStates, auth : 0..MaxAuths, epoch : Enroll!Epochs, sealed : Enroll!Epochs]
RunType == [pc : Enroll!PCs, mode : {"self", "recover", "two"}, auth : 0..MaxAuths, epoch : Enroll!Epochs]
FilesType == [identity : BOOLEAN, manifest : BOOLEAN, credential : Enroll!Epochs, secret : Enroll!Epochs]

LEMMA EnrollFacts ==
  ASSUME StationAssumption, EnrollInv
  PROVE  /\ MaxAuths \in Nat /\ MaxFails \in Nat /\ MaxEnds \in Nat
         /\ journal \in JournalType /\ enrollRun \in RunType /\ files \in FilesType /\ srv \in ServerType
         /\ package \in Enroll!Epochs /\ authFile \in 0..MaxAuths /\ enrollReport \in 0..MaxAuths
         /\ archived \subseteq Enroll!Auths /\ fails \in 0..MaxFails /\ ends \in 0..MaxEnds
         /\ Enroll!Epochs \subseteq Nat
BY DEF StationAssumption, Enroll!EnrollmentAssumption, EnrollInv, Enroll!EnrollmentTypeOK, ServerSound,
   JournalType, RunType, FilesType, Enroll!Epochs

LEMMA MovedRun ==
  ASSUME enrollRun \in RunType, NEW p \in Enroll!PCs, enrollRun' = [enrollRun EXCEPT !.pc = p]
  PROVE  /\ enrollRun' \in RunType /\ enrollRun'.pc = p /\ enrollRun'.mode = enrollRun.mode
         /\ enrollRun'.auth = enrollRun.auth /\ enrollRun'.epoch = enrollRun.epoch
BY DEF RunType

LEMMA EndedRun ==
  ASSUME StationAssumption, enrollRun \in RunType, Enroll!RunEnds
  PROVE  /\ enrollRun' \in RunType /\ enrollRun'.pc = "idle" /\ enrollRun'.mode = enrollRun.mode
         /\ enrollRun'.auth = 0 /\ enrollRun'.epoch = 0
<1>1. 0 \in 0..MaxAuths /\ 0 \in Enroll!Epochs
  BY DEF Enroll!Epochs, StationAssumption, Enroll!EnrollmentAssumption
<1>2. "idle" \in Enroll!PCs
  BY DEF Enroll!PCs
<1>3. enrollRun' = [enrollRun EXCEPT !.pc = "idle", !.auth = 0, !.epoch = 0]
  BY DEF Enroll!RunEnds
<1> QED
  BY <1>1, <1>2, <1>3 DEF RunType

LEMMA MarkedJournal ==
  ASSUME journal \in JournalType, NEW s \in Enroll!JournalStates, journal' = [journal EXCEPT !.state = s]
  PROVE  /\ journal' \in JournalType /\ journal'.state = s /\ journal'.auth = journal.auth
         /\ journal'.epoch = journal.epoch /\ journal'.sealed = journal.sealed
BY DEF JournalType

(* What the authorizations have come to stays, as long as the server, the  *)
(* file and the journal's authorization do.                                *)
LEMMA ServerStays ==
  ASSUME StationAssumption, EnrollInv, UNCHANGED <<srv, authFile>>, archived \subseteq archived',
         journal'.auth = journal.auth \/ (journal'.auth \in {0, enrollRun.auth} /\ journal.auth \in archived' \cup {0}),
         enrollRun'.auth \in {0, enrollRun.auth, journal.auth, authFile}
  PROVE  ServerSound'
<1>1. \A a \in Enroll!Auths : a # 0
  BY DEF Enroll!Auths
<1> QED
  BY <1>1 DEF EnrollInv, ServerSound, Done, Live

(* Only the run moves.                                                     *)
LEMMA RunMoved ==
  ASSUME StationAssumption, EnrollInv,
         UNCHANGED <<journal, archived, package, authFile, files, enrollReport, srv, ends>>,
         fails' \in 0..MaxFails, enrollRun' \in RunType,
         enrollRun'.auth \in {0, enrollRun.auth, journal.auth, authFile}, RunSound', FilesSound'
  PROVE  EnrollInv'
<1>1. ServerSound'
  BY ServerStays
<1>2. JournalSound'
  BY DEF EnrollInv, JournalSound, Done
<1>3. Enroll!EnrollmentTypeOK'
  BY DEF EnrollInv, Enroll!EnrollmentTypeOK, RunType
<1>4. Enroll!SecretKept'
  BY DEF EnrollInv, Enroll!SecretKept
<1> QED
  BY <1>1, <1>2, <1>3, <1>4 DEF EnrollInv

LEMMA RunStopped ==
  ASSUME StationAssumption, EnrollInv, Enroll!RunEnds,
         UNCHANGED <<journal, archived, package, authFile, files, enrollReport, srv, ends>>,
         fails' \in 0..MaxFails
  PROVE  EnrollInv'
<1>1. enrollRun' \in RunType /\ enrollRun'.pc = "idle" /\ enrollRun'.auth = 0
  BY EnrollFacts, EndedRun
<1>2. RunSound'
  BY <1>1 DEF RunSound
<1>3. FilesSound'
  BY <1>1 DEF EnrollInv, FilesSound, Whole
<1> QED
  BY <1>1, <1>2, <1>3, RunMoved

(* The journal is marked, and the run goes on or stops.                    *)
LEMMA JournalMoved ==
  ASSUME StationAssumption, EnrollInv, UNCHANGED <<archived, package, authFile, files, enrollReport, srv, fails, ends>>,
         NEW s \in Enroll!JournalStates, journal' = [journal EXCEPT !.state = s],
         enrollRun' \in RunType, enrollRun'.auth \in {0, enrollRun.auth},
         JournalSound', RunSound', FilesSound', Enroll!SecretKept'
  PROVE  EnrollInv'
<1>1. journal' \in JournalType /\ journal'.auth = journal.auth
  BY EnrollFacts, MarkedJournal
<1>2. ServerSound'
  BY <1>1, ServerStays
<1>3. Enroll!EnrollmentTypeOK'
  BY <1>1 DEF EnrollInv, Enroll!EnrollmentTypeOK, RunType, JournalType
<1> QED
  BY <1>2, <1>3 DEF EnrollInv

(* The server says that the prepare has ended, and so does the journal.    *)
LEMMA JournalEnds ==
  ASSUME StationAssumption, EnrollInv, UNCHANGED <<archived, package, authFile, files, enrollReport, srv, fails, ends>>,
         journal.state \in {"PREPARED", "PACKAGED", "COMMIT_INTENT"},
         NEW s \in {"ABORTED", "EXPIRED"}, Enroll!SignedStatus = s,
         enrollRun.pc \notin {"idle", "init"},
         Enroll!Mark(s, IF s = "EXPIRED" THEN "expire" ELSE "idle")
  PROVE  EnrollInv'
<1>1. journal' = [journal EXCEPT !.state = s] /\ Enroll!Goto(IF s = "EXPIRED" THEN "expire" ELSE "idle")
  BY DEF Enroll!Mark, Enroll!Allowed
<1>2. /\ journal' \in JournalType /\ journal'.state = s /\ journal'.auth = journal.auth
      /\ journal'.epoch = journal.epoch /\ journal'.sealed = journal.sealed
  BY <1>1, EnrollFacts, MarkedJournal DEF Enroll!JournalStates, Enroll!Terminal
<1>3. /\ enrollRun' \in RunType /\ enrollRun'.mode = enrollRun.mode /\ enrollRun'.auth \in {0, enrollRun.auth}
      /\ \/ enrollRun'.pc = "idle" /\ enrollRun'.auth = 0
         \/ enrollRun'.pc = "expire" /\ s = "EXPIRED" /\ enrollRun'.auth = enrollRun.auth
  BY <1>1, EnrollFacts, EndedRun, MovedRun DEF Enroll!Goto, Enroll!PCs
<1>4. srv.prep[journal.auth] = s /\ ~Done(journal.auth) /\ journal.auth \in 1..srv.issued
  BY DEF Enroll!SignedStatus, Done, EnrollInv, JournalSound
<1>5. JournalSound'
  BY <1>2, <1>4 DEF EnrollInv, JournalSound, Done, Bound, Packed, Enroll!Committed
<1>6. RunSound'
  BY <1>2, <1>3 DEF EnrollInv, RunSound
<1>7. FilesSound'
  BY <1>2, <1>3 DEF EnrollInv, FilesSound, Whole
<1>8. Enroll!SecretKept'
  BY <1>2, <1>4 DEF EnrollInv, Enroll!SecretKept, Done
<1>9. s \in Enroll!JournalStates
  BY DEF Enroll!JournalStates, Enroll!Terminal
<1> QED
  BY <1>1, <1>3, <1>5, <1>6, <1>7, <1>8, <1>9, JournalMoved

(* --------------------------------------------------------------- starts -- *)
LEMMA StartKeeps ==
  ASSUME StationAssumption, EnrollInv, Enroll!Starts
  PROVE  EnrollInv'
<1>0. enrollRun.pc = "idle" /\ Enroll!StartTwoPhase /\ UNCHANGED <<srv, fails, ends>> /\ fails' \in 0..MaxFails
  BY EnrollFacts DEF Enroll!Starts, Enroll!StartSelfEnroll, Enroll!StartRecover, Enroll!StartTwoPhase, Enroll!ServerUnchanged
<1>1. /\ journal.auth \in 0..MaxAuths /\ journal.epoch \in Enroll!Epochs /\ 0 \in Enroll!Epochs
      /\ authFile \in 0..MaxAuths /\ 0 \in 0..MaxAuths
  BY EnrollFacts DEF JournalType, Enroll!Epochs
<1>2. CASE /\ journal.state = "COMPLETE"
           /\ enrollRun' = [pc |-> "final", mode |-> "two", auth |-> journal.auth, epoch |-> journal.epoch]
           /\ UNCHANGED <<journal, archived, package, authFile, files, enrollReport>>
  <2>1. enrollRun' \in RunType /\ enrollRun'.pc = "final" /\ enrollRun'.mode = "two" /\ enrollRun'.auth = journal.auth
    BY <1>1, <1>2 DEF RunType, Enroll!PCs
  <2>2. RunSound'
    BY <1>2, <2>1 DEF RunSound
  <2>3. FilesSound'
    BY <1>0, <1>2, <2>1 DEF EnrollInv, FilesSound, Whole
  <2> QED
    BY <1>0, <1>2, <2>1, <2>2, <2>3, RunMoved
<1>3. CASE /\ journal.state \in Enroll!Terminal /\ package' = 0
           /\ UNCHANGED <<archived, journal, enrollRun, authFile, files, enrollReport>>
  <2>1. Enroll!EnrollmentTypeOK'
    BY <1>0, <1>1, <1>3 DEF EnrollInv, Enroll!EnrollmentTypeOK
  <2>2. ServerSound'
    BY <1>0, <1>3, ServerStays
  <2>3. JournalSound' /\ RunSound' /\ FilesSound'
    BY <1>0, <1>3 DEF EnrollInv, JournalSound, RunSound, FilesSound, Whole, Done, Packed, Enroll!Terminal
  <2>4. Enroll!SecretKept'
    BY <1>0, <1>3 DEF EnrollInv, Enroll!SecretKept, Enroll!Terminal, Enroll!Committed
  <2> QED
    BY <2>1, <2>2, <2>3, <2>4 DEF EnrollInv
<1>4. CASE /\ journal.state \in Enroll!Terminal /\ package' = 0 /\ authFile # 0
           /\ archived' = archived \cup {journal.auth} /\ journal' = Enroll!NoJournal
           /\ enrollRun' = [pc |-> "init", mode |-> "two", auth |-> authFile, epoch |-> 0]
           /\ UNCHANGED <<authFile, files, enrollReport>>
  <2>1. /\ enrollRun' \in RunType /\ enrollRun'.pc = "init" /\ enrollRun'.mode = "two" /\ enrollRun'.auth = authFile
        /\ journal'.state = "NONE" /\ journal'.auth = 0 /\ journal' \in JournalType
    BY <1>1, <1>4 DEF RunType, JournalType, Enroll!PCs, Enroll!NoJournal, Enroll!JournalStates
  <2>2. /\ journal.auth \in 1..srv.issued /\ srv.prep[journal.auth] \in {"COMMITTED", "ABORTED", "EXPIRED"}
    BY <1>4 DEF EnrollInv, JournalSound, Done, Enroll!Terminal
  <2>3. journal.auth \in Enroll!Auths /\ 1..srv.issued \subseteq Enroll!Auths
    BY <2>2, EnrollFacts DEF ServerType, Enroll!Auths
  <2>4. Enroll!EnrollmentTypeOK'
    BY <1>0, <1>1, <1>4, <2>1, <2>3 DEF EnrollInv, Enroll!EnrollmentTypeOK, RunType, JournalType
  <2>5. ServerSound'
    BY <1>0, <1>4, <2>1, ServerStays
  <2>6. JournalSound'
    BY <1>0, <1>4, <2>1, <2>2 DEF EnrollInv, JournalSound, Done, Packed, Bound, Enroll!Committed
  <2>7. RunSound' /\ FilesSound'
    BY <1>4, <2>1 DEF RunSound, FilesSound
  <2>8. Enroll!SecretKept'
    BY <1>0, <1>4 DEF EnrollInv, Enroll!SecretKept, Enroll!Terminal, Enroll!Committed
  <2> QED
    BY <2>4, <2>5, <2>6, <2>7, <2>8 DEF EnrollInv
<1>5. CASE /\ journal.state \notin Enroll!Terminal /\ Enroll!ResumeAt # "idle"
           /\ enrollRun' = [pc |-> Enroll!ResumeAt, mode |-> "two", epoch |-> journal.epoch,
                            auth |-> IF journal.state = "NONE" THEN authFile ELSE journal.auth]
           /\ UNCHANGED <<journal, archived, package, authFile, files, enrollReport>>
  <2>1. journal.state \in Enroll!JournalStates
    BY EnrollFacts DEF JournalType
  <2>2. \/ journal.state = "NONE" /\ Enroll!ResumeAt = "init" /\ authFile # 0
        \/ journal.state = "PREPARE_INTENT" /\ Enroll!ResumeAt = "prepare"
        \/ journal.state = "PREPARED" /\ Enroll!ResumeAt = "resume"
        \/ journal.state \in {"PACKAGED", "COMMIT_INTENT"} /\ Enroll!ResumeAt = "commitStatus"
        \/ journal.state \in Enroll!Committed /\ Enroll!ResumeAt = "activate"
    BY <1>5, <2>1 DEF Enroll!ResumeAt, Enroll!AuthorizationLoads, Enroll!JournalStates, Enroll!Uncommitted,
       Enroll!Committed, Enroll!Terminal
  <2>3. /\ enrollRun' \in RunType /\ enrollRun'.pc = Enroll!ResumeAt /\ enrollRun'.mode = "two"
        /\ enrollRun'.auth = IF journal.state = "NONE" THEN authFile ELSE journal.auth
    BY <1>1, <1>5, <2>2 DEF RunType, Enroll!PCs
  <2>4. RunSound'
    BY <1>5, <2>2, <2>3 DEF RunSound, Enroll!Committed
  <2>5. FilesSound'
    BY <1>0, <1>5, <2>2, <2>3 DEF EnrollInv, FilesSound, Whole
  <2> QED
    BY <1>0, <1>5, <2>3, <2>4, <2>5, RunMoved
<1> QED
  BY <1>0, <1>2, <1>3, <1>4, <1>5 DEF Enroll!StartTwoPhase, Enroll!CompletedBefore, Enroll!ReopenTerminal,
     Enroll!RemovePackage, Enroll!AuthorizationLoads, Enroll!LocalUnchanged

(* ---------------------------------------------------------- two phases -- *)
LEMMA InitializeKeeps ==
  ASSUME StationAssumption, EnrollInv, Enroll!Initialize
  PROVE  EnrollInv'
<1>1. /\ enrollRun.pc = "init" /\ enrollRun.auth \notin archived
      /\ journal' = [Enroll!NoJournal EXCEPT !.state = "PREPARE_INTENT", !.auth = enrollRun.auth]
      /\ enrollRun' = [enrollRun EXCEPT !.pc = "prepare"]
      /\ UNCHANGED <<archived, package, authFile, files, enrollReport, srv, fails, ends>>
  BY DEF Enroll!Initialize, Enroll!Goto, Enroll!LocalUnchanged, Enroll!ServerUnchanged
<1>2. /\ enrollRun' \in RunType /\ enrollRun'.pc = "prepare" /\ enrollRun'.mode = enrollRun.mode
      /\ enrollRun'.auth = enrollRun.auth
  BY <1>1, EnrollFacts, MovedRun DEF Enroll!PCs
<1>3. /\ journal.state = "NONE" /\ journal.auth = 0 /\ enrollRun.auth = authFile /\ authFile # 0
      /\ authFile = srv.issued /\ enrollRun.mode = "two"
  BY <1>1 DEF EnrollInv, RunSound, JournalSound, ServerSound, Enroll!NoJournal
<1>4. authFile \in 1..srv.issued /\ authFile \in 0..MaxAuths /\ authFile \in Enroll!Auths /\ 0 \in Enroll!Epochs
  BY <1>3, EnrollFacts DEF ServerType, Enroll!Auths, Enroll!Epochs
<1>5. journal'.state = "PREPARE_INTENT" /\ journal'.auth = authFile /\ journal' \in JournalType
  BY <1>1, <1>3, <1>4 DEF JournalType, Enroll!NoJournal, Enroll!JournalStates
<1>6. ~Done(authFile)
  BY <1>1, <1>3, <1>4 DEF EnrollInv, ServerSound, Done
<1>7. Enroll!EnrollmentTypeOK'
  BY <1>1, <1>2, <1>5 DEF EnrollInv, Enroll!EnrollmentTypeOK, RunType, JournalType
<1>8. ServerSound'
  BY <1>1, <1>2, <1>3, <1>5, ServerStays
<1>9. JournalSound'
  BY <1>1, <1>4, <1>5, <1>6 DEF EnrollInv, JournalSound, Done, Packed, Bound, Enroll!Committed
<1>10. RunSound' /\ FilesSound'
  BY <1>2, <1>3, <1>5 DEF RunSound, FilesSound
<1>11. Enroll!SecretKept'
  BY <1>1, <1>3, <1>5 DEF EnrollInv, Enroll!SecretKept, Enroll!Committed
<1> QED
  BY <1>7, <1>8, <1>9, <1>10, <1>11 DEF EnrollInv

(* What each step that reconciles comes to.                                *)
LEMMA Reconciled ==
  ASSUME StationAssumption, EnrollInv, Enroll!LocalUnchanged, UNCHANGED <<srv, fails, ends>>,
         journal.state \in {"PREPARED", "PACKAGED", "COMMIT_INTENT"}, enrollRun.pc \notin {"idle", "init"},
         \/ Enroll!SignedStatus = "EXPIRED" /\ Enroll!Mark("EXPIRED", "expire")
         \/ Enroll!SignedStatus = "ABORTED" /\ Enroll!Mark("ABORTED", "idle")
         \/ Enroll!RunEnds /\ UNCHANGED journal
  PROVE  EnrollInv'
<1>0. UNCHANGED <<archived, package, authFile, files, enrollReport, srv, fails, ends>> /\ fails' \in 0..MaxFails
  BY EnrollFacts DEF Enroll!LocalUnchanged
<1>1. CASE Enroll!SignedStatus = "EXPIRED" /\ Enroll!Mark("EXPIRED", "expire")
  BY <1>0, <1>1, JournalEnds
<1>2. CASE Enroll!SignedStatus = "ABORTED" /\ Enroll!Mark("ABORTED", "idle")
  BY <1>0, <1>2, JournalEnds
<1>3. CASE Enroll!RunEnds /\ UNCHANGED journal
  BY <1>0, <1>3, RunStopped
<1> QED
  BY <1>1, <1>2, <1>3

(* The run goes on to another place, and nothing else moves.               *)
LEMMA GoesOn ==
  ASSUME StationAssumption, EnrollInv, UNCHANGED <<journal, archived, package, authFile, files, enrollReport, srv, fails, ends>>,
         NEW p \in Enroll!PCs, enrollRun' = [enrollRun EXCEPT !.pc = p],
         \/ enrollRun.pc = "resume" /\ p = "prepare"
         \/ enrollRun.pc = "stageStatus" /\ p = "stage"
         \/ enrollRun.pc = "record" /\ p = "stageStatus" /\ journal.state = "PREPARED" /\ enrollRun.epoch = journal.epoch
         \/ enrollRun.pc = "commitStatus" /\ journal.state = "COMMIT_INTENT" /\ p \in {"commit", "accept"}
         \/ enrollRun.pc = "persisted" /\ journal.state # "SERVER_COMMITTED" /\ p = "cleanup"
         \/ enrollRun.pc = "cleanup" /\ journal.state # "LOCAL_PERSISTED" /\ p = "unlink"
  PROVE  EnrollInv'
<1>1. /\ enrollRun' \in RunType /\ enrollRun'.pc = p /\ enrollRun'.mode = enrollRun.mode
      /\ enrollRun'.auth = enrollRun.auth /\ enrollRun'.epoch = enrollRun.epoch
  BY EnrollFacts, MovedRun
<1>2. RunSound'
  BY <1>1 DEF EnrollInv, RunSound, Enroll!Committed
<1>3. FilesSound'
  BY <1>1 DEF EnrollInv, FilesSound, Whole
<1>4. fails' \in 0..MaxFails
  BY EnrollFacts
<1> QED
  BY <1>1, <1>2, <1>3, <1>4, RunMoved

LEMMA ResumePreparedKeeps ==
  ASSUME StationAssumption, EnrollInv, Enroll!ResumePrepared
  PROVE  EnrollInv'
<1>1. /\ enrollRun.pc = "resume" /\ journal.state = "PREPARED" /\ Enroll!LocalUnchanged /\ UNCHANGED <<srv, fails, ends>>
  BY DEF EnrollInv, RunSound, Enroll!ResumePrepared, Enroll!ServerUnchanged
<1>2. \/ Enroll!SignedStatus = "EXPIRED" /\ Enroll!Mark("EXPIRED", "expire")
      \/ Enroll!SignedStatus = "ABORTED" /\ Enroll!Mark("ABORTED", "idle")
      \/ Enroll!RunEnds /\ UNCHANGED journal
      \/ enrollRun' = [enrollRun EXCEPT !.pc = "prepare"] /\ UNCHANGED journal
  BY DEF Enroll!ResumePrepared, Enroll!Reconcile, Enroll!Goto
<1>3. CASE enrollRun' = [enrollRun EXCEPT !.pc = "prepare"] /\ UNCHANGED journal
  BY <1>1, <1>3, GoesOn DEF Enroll!LocalUnchanged, Enroll!PCs
<1> QED
  BY <1>1, <1>2, <1>3, Reconciled

LEMMA StageStatusKeeps ==
  ASSUME StationAssumption, EnrollInv, Enroll!StageStatus
  PROVE  EnrollInv'
<1>1. /\ enrollRun.pc = "stageStatus" /\ journal.state = "PREPARED" /\ Enroll!LocalUnchanged /\ UNCHANGED <<srv, fails, ends>>
  BY DEF EnrollInv, RunSound, Enroll!StageStatus, Enroll!ServerUnchanged
<1>2. \/ Enroll!SignedStatus = "EXPIRED" /\ Enroll!Mark("EXPIRED", "expire")
      \/ Enroll!SignedStatus = "ABORTED" /\ Enroll!Mark("ABORTED", "idle")
      \/ Enroll!RunEnds /\ UNCHANGED journal
      \/ enrollRun' = [enrollRun EXCEPT !.pc = "stage"] /\ UNCHANGED journal
  BY DEF Enroll!StageStatus, Enroll!Reconcile, Enroll!Goto
<1>3. CASE enrollRun' = [enrollRun EXCEPT !.pc = "stage"] /\ UNCHANGED journal
  BY <1>1, <1>3, GoesOn DEF Enroll!LocalUnchanged, Enroll!PCs
<1> QED
  BY <1>1, <1>2, <1>3, Reconciled

LEMMA CommitStatusKeeps ==
  ASSUME StationAssumption, EnrollInv, Enroll!CommitStatus
  PROVE  EnrollInv'
<1>1. /\ enrollRun.pc = "commitStatus" /\ journal.state = "COMMIT_INTENT"
      /\ Enroll!LocalUnchanged /\ UNCHANGED <<srv, fails, ends>>
  BY DEF Enroll!CommitStatus, Enroll!ServerUnchanged
<1>2. \/ Enroll!SignedStatus = "EXPIRED" /\ Enroll!Mark("EXPIRED", "expire")
      \/ Enroll!SignedStatus = "ABORTED" /\ Enroll!Mark("ABORTED", "idle")
      \/ enrollRun' = [enrollRun EXCEPT !.pc = "commit"] /\ UNCHANGED journal
      \/ enrollRun' = [enrollRun EXCEPT !.pc = "accept"] /\ UNCHANGED journal
  BY DEF Enroll!CommitStatus, Enroll!Reconcile, Enroll!Goto
<1>3. CASE enrollRun' = [enrollRun EXCEPT !.pc = "commit"] /\ UNCHANGED journal
  BY <1>1, <1>3, GoesOn DEF Enroll!LocalUnchanged, Enroll!PCs
<1>4. CASE enrollRun' = [enrollRun EXCEPT !.pc = "accept"] /\ UNCHANGED journal
  BY <1>1, <1>4, GoesOn DEF Enroll!LocalUnchanged, Enroll!PCs
<1> QED
  BY <1>1, <1>2, <1>3, <1>4, Reconciled

(* The authorization a prepare is for is the one in the file, and its      *)
(* generation the next.                                                    *)
LEMMA PendingIsNewest ==
  ASSUME StationAssumption, EnrollInv, journal.auth \in 1..srv.issued, Live(journal.auth)
  PROVE  /\ journal.auth = srv.issued /\ journal.auth = authFile /\ journal.auth \in Enroll!Auths
         /\ srv.epoch + 1 \in Enroll!Epochs /\ srv.epoch <= srv.issued /\ journal.auth \notin archived
         /\ srv.prep[journal.auth] = "PREPARED" => srv.proposed[journal.auth] = srv.epoch + 1
         /\ \A b \in Enroll!Auths : srv.prep[b] = "PREPARED" => b = journal.auth
<1>1. /\ srv.issued \in 0..MaxAuths /\ MaxAuths \in Nat /\ MaxFails \in Nat /\ srv.epoch \in Nat
      /\ journal.auth \in Enroll!Auths
  BY EnrollFacts DEF ServerType, Enroll!Auths
<1>2. journal.auth = authFile /\ authFile = srv.issued
  BY <1>1 DEF EnrollInv, ServerSound
<1>3. srv.epoch <= srv.issued
  BY <1>1, <1>2 DEF EnrollInv, ServerSound, Live, Done
<1>4. journal.auth \notin archived
  BY DEF EnrollInv, JournalSound, Live
<1>5. \A b \in Enroll!Auths : srv.prep[b] = "PREPARED" => b = journal.auth
  BY <1>1, <1>2 DEF EnrollInv, ServerSound, Live, Enroll!Auths
<1>6. srv.prep[journal.auth] = "PREPARED" => srv.proposed[journal.auth] = srv.epoch + 1
  BY <1>1 DEF EnrollInv, ServerSound
<1>7. srv.epoch + 1 \in Enroll!Epochs
  BY <1>1, <1>3 DEF Enroll!Epochs
<1> QED
  BY <1>1, <1>2, <1>3, <1>4, <1>5, <1>6, <1>7

LEMMA PrepareKeeps ==
  ASSUME StationAssumption, EnrollInv, Enroll!Prepare
  PROVE  EnrollInv'
<1> DEFINE a == journal.auth
           available == srv.prep[a] = "PREPARED" \/ (srv.prep[a] = "NONE" /\ a \notin srv.expired)
<1>1. enrollRun.pc = "prepare" /\ UNCHANGED <<archived, package, authFile, files, enrollReport, fails, ends>>
  BY DEF Enroll!Prepare, Enroll!LocalUnchanged
<1>2. /\ journal.state \in {"PREPARE_INTENT", "PREPARED"} /\ enrollRun.auth = a
      /\ a \in 1..srv.issued /\ enrollRun.mode = "two" /\ ~Done(a)
  BY <1>1 DEF EnrollInv, RunSound, JournalSound
<1>3. CASE ~available
  <2>1. /\ UNCHANGED srv
        /\ \/ Enroll!SignedStatus = "EXPIRED" /\ Enroll!Mark("EXPIRED", "expire") /\ journal.state = "PREPARED"
           \/ Enroll!SignedStatus = "ABORTED" /\ Enroll!Mark("ABORTED", "idle") /\ journal.state = "PREPARED"
           \/ Enroll!RunEnds /\ UNCHANGED journal
    BY <1>2, <1>3 DEF Enroll!Prepare, Enroll!Reconcile
  <2>2. CASE Enroll!RunEnds /\ UNCHANGED journal
    BY <1>1, <2>1, <2>2, RunStopped, EnrollFacts
  <2>3. Enroll!LocalUnchanged
    BY <1>1 DEF Enroll!LocalUnchanged
  <2> QED
    BY <1>1, <2>1, <2>2, <2>3, Reconciled
<1>4. CASE available
  <2>1. Live(a)
    BY <1>2, <1>4, EnrollFacts DEF Live, EnrollInv, ServerSound, ServerType, Enroll!Auths
  <2>2. /\ a = srv.issued /\ a = authFile /\ a \in Enroll!Auths /\ srv.epoch + 1 \in Enroll!Epochs
        /\ srv.epoch <= srv.issued /\ a \notin archived
        /\ srv.prep[a] = "PREPARED" => srv.proposed[a] = srv.epoch + 1
    BY <1>2, <2>1, PendingIsNewest
  <2>3. /\ srv' = [srv EXCEPT !.prep[a] = "PREPARED", !.proposed[a] = srv.epoch + 1]
        /\ enrollRun' = [enrollRun EXCEPT !.pc = "record", !.epoch = srv.epoch + 1] /\ UNCHANGED journal
    BY <1>2, <1>4, <2>2 DEF Enroll!Prepare
  <2>4. /\ enrollRun' \in RunType /\ enrollRun'.pc = "record" /\ enrollRun'.mode = "two" /\ enrollRun'.auth = a
        /\ enrollRun'.epoch = srv.epoch + 1
    BY <1>2, <2>2, <2>3, EnrollFacts DEF RunType, Enroll!PCs
  <2>5. /\ srv' \in ServerType /\ srv'.epoch = srv.epoch /\ srv'.issued = srv.issued /\ srv'.expired = srv.expired
        /\ srv'.prep[a] = "PREPARED" /\ srv'.proposed[a] = srv.epoch + 1
        /\ \A b \in Enroll!Auths \ {a} : srv'.prep[b] = srv.prep[b] /\ srv'.proposed[b] = srv.proposed[b]
    BY <2>2, <2>3, EnrollFacts DEF ServerType
  <2>6. Enroll!EnrollmentTypeOK'
    BY <1>1, <2>3, <2>4, <2>5 DEF EnrollInv, Enroll!EnrollmentTypeOK, RunType, ServerType
  <2>7. ServerSound'
    BY <1>1, <1>2, <2>1, <2>2, <2>3, <2>4, <2>5, EnrollFacts DEF EnrollInv, ServerSound, Done, Live, ServerType
  <2>8. JournalSound'
    <3>1. archived \subseteq Enroll!Auths \ {a}
      BY <2>2, EnrollFacts
    <3>2. journal.state \in Bound => journal.epoch = srv.epoch + 1
      BY <1>4, <2>2 DEF EnrollInv, JournalSound
    <3>3. journal.state \notin Packed \cup Enroll!Committed \cup {"COMPLETE", "ABORTED", "EXPIRED", "NONE"}
      BY <1>2 DEF Packed, Enroll!Committed
    <3>4. ~Done(a)'
      BY <2>3, <2>5 DEF Done
    <3> QED
      BY <1>1, <1>2, <2>3, <2>5, <3>1, <3>2, <3>3, <3>4 DEF EnrollInv, JournalSound
  <2>9. RunSound' /\ FilesSound'
    BY <1>1, <1>2, <2>3, <2>4, <2>5 DEF EnrollInv, RunSound, FilesSound, Whole
  <2>10. Enroll!SecretKept'
    BY <1>1, <2>3, <2>5 DEF EnrollInv, Enroll!SecretKept
  <2> QED
    BY <2>6, <2>7, <2>8, <2>9, <2>10 DEF EnrollInv
<1> QED
  BY <1>3, <1>4

LEMMA RecordPreparedKeeps ==
  ASSUME StationAssumption, EnrollInv, Enroll!RecordPrepared
  PROVE  EnrollInv'
<1>1. /\ enrollRun.pc = "record" /\ UNCHANGED <<archived, package, authFile, files, enrollReport, srv, fails, ends>>
      /\ enrollRun.epoch >= 2
  BY DEF Enroll!RecordPrepared, Enroll!LocalUnchanged, Enroll!ServerUnchanged, Enroll!ProvesPending
<1>2. /\ journal.state \in {"PREPARE_INTENT", "PREPARED"} /\ enrollRun.auth = journal.auth /\ enrollRun.mode = "two"
      /\ srv.prep[journal.auth] # "NONE" /\ enrollRun.epoch = srv.proposed[journal.auth]
      /\ journal.auth \in 1..srv.issued /\ ~Done(journal.auth)
  BY <1>1 DEF EnrollInv, RunSound, JournalSound
<1>3. CASE journal.state = "PREPARE_INTENT"
  <2>1. /\ journal' = [journal EXCEPT !.state = "PREPARED", !.epoch = enrollRun.epoch]
        /\ enrollRun' = [enrollRun EXCEPT !.pc = "stageStatus"]
    BY <1>3 DEF Enroll!RecordPrepared, Enroll!Goto
  <2>2. /\ enrollRun' \in RunType /\ enrollRun'.pc = "stageStatus" /\ enrollRun'.mode = enrollRun.mode
        /\ enrollRun'.auth = enrollRun.auth /\ enrollRun'.epoch = enrollRun.epoch
    BY <2>1, EnrollFacts, MovedRun DEF Enroll!PCs
  <2>3. /\ journal' \in JournalType /\ journal'.state = "PREPARED" /\ journal'.auth = journal.auth
        /\ journal'.epoch = enrollRun.epoch
    BY <2>1, EnrollFacts DEF JournalType, RunType, Enroll!JournalStates, Enroll!Uncommitted
  <2>4. Enroll!EnrollmentTypeOK'
    BY <1>1, <2>2, <2>3 DEF EnrollInv, Enroll!EnrollmentTypeOK, RunType, JournalType
  <2>5. ServerSound'
    BY <1>1, <2>2, <2>3, ServerStays
  <2>6. JournalSound'
    BY <1>1, <1>2, <2>3 DEF EnrollInv, JournalSound, Done, Bound, Packed, Enroll!Committed
  <2>7. RunSound' /\ FilesSound'
    BY <1>1, <1>2, <2>2, <2>3 DEF EnrollInv, RunSound, FilesSound
  <2>8. Enroll!SecretKept'
    BY <1>1, <1>3, <2>3 DEF EnrollInv, Enroll!SecretKept, Enroll!Committed
  <2> QED
    BY <2>4, <2>5, <2>6, <2>7, <2>8 DEF EnrollInv
<1>4. CASE journal.state = "PREPARED"
  <2>1. /\ UNCHANGED journal
        /\ \/ enrollRun.epoch = journal.epoch /\ enrollRun' = [enrollRun EXCEPT !.pc = "stageStatus"]
           \/ Enroll!RunEnds
    BY <1>4 DEF Enroll!RecordPrepared, Enroll!Goto
  <2>2. CASE Enroll!RunEnds
    BY <1>1, <2>1, <2>2, RunStopped, EnrollFacts
  <2>3. CASE enrollRun.epoch = journal.epoch /\ enrollRun' = [enrollRun EXCEPT !.pc = "stageStatus"]
    BY <1>1, <1>4, <2>1, <2>3, GoesOn DEF Enroll!PCs
  <2> QED
    BY <2>1, <2>2, <2>3
<1> QED
  BY <1>2, <1>3, <1>4

LEMMA StagePackageKeeps ==
  ASSUME StationAssumption, EnrollInv, Enroll!StagePackage
  PROVE  EnrollInv'
<1>1. /\ enrollRun.pc = "stage" /\ UNCHANGED <<journal, archived, authFile, files, enrollReport, srv, fails, ends>>
      /\ package' = enrollRun.epoch /\ enrollRun' = [enrollRun EXCEPT !.pc = "staged"]
  BY DEF Enroll!StagePackage, Enroll!ServerUnchanged, Enroll!Goto
<1>2. /\ journal.state = "PREPARED" /\ enrollRun.auth = journal.auth /\ enrollRun.mode = "two"
      /\ enrollRun.epoch = journal.epoch
  BY <1>1 DEF EnrollInv, RunSound
<1>3. /\ enrollRun' \in RunType /\ enrollRun'.pc = "staged" /\ enrollRun'.mode = enrollRun.mode
      /\ enrollRun'.auth = enrollRun.auth /\ enrollRun'.epoch = enrollRun.epoch
  BY <1>1, EnrollFacts, MovedRun DEF Enroll!PCs
<1>4. package' \in Enroll!Epochs
  BY <1>1, EnrollFacts DEF RunType
<1>5. Enroll!EnrollmentTypeOK'
  BY <1>1, <1>3, <1>4 DEF EnrollInv, Enroll!EnrollmentTypeOK, RunType
<1>6. ServerSound'
  BY <1>1, <1>3, ServerStays
<1>7. JournalSound'
  BY <1>1, <1>2 DEF EnrollInv, JournalSound, Done, Packed
<1>8. RunSound' /\ FilesSound'
  BY <1>1, <1>2, <1>3 DEF EnrollInv, RunSound, FilesSound
<1>9. Enroll!SecretKept'
  BY <1>1, <1>2 DEF EnrollInv, Enroll!SecretKept, Enroll!Committed
<1> QED
  BY <1>5, <1>6, <1>7, <1>8, <1>9 DEF EnrollInv

LEMMA StageMarkKeeps ==
  ASSUME StationAssumption, EnrollInv, Enroll!StageMark
  PROVE  EnrollInv'
<1>1. /\ enrollRun.pc = "staged"
      /\ UNCHANGED <<archived, package, authFile, files, enrollReport, srv, fails, ends>>
      /\ journal' = [journal EXCEPT !.state = "PACKAGED", !.sealed = package]
      /\ enrollRun' = [enrollRun EXCEPT !.pc = "commitStatus"]
  BY DEF Enroll!StageMark, Enroll!LocalUnchanged, Enroll!ServerUnchanged, Enroll!Goto
<1>2. /\ journal.state = "PREPARED" /\ enrollRun.auth = journal.auth /\ enrollRun.mode = "two"
      /\ package = journal.epoch
  BY <1>1 DEF EnrollInv, RunSound
<1>3. /\ enrollRun' \in RunType /\ enrollRun'.pc = "commitStatus" /\ enrollRun'.mode = enrollRun.mode
      /\ enrollRun'.auth = enrollRun.auth
  BY <1>1, EnrollFacts, MovedRun DEF Enroll!PCs
<1>4. /\ journal' \in JournalType /\ journal'.state = "PACKAGED" /\ journal'.auth = journal.auth
      /\ journal'.epoch = journal.epoch /\ journal'.sealed = package
  BY <1>1, EnrollFacts DEF JournalType, Enroll!JournalStates, Enroll!Uncommitted
<1>5. Enroll!EnrollmentTypeOK'
  BY <1>1, <1>3, <1>4 DEF EnrollInv, Enroll!EnrollmentTypeOK, RunType, JournalType
<1>6. ServerSound'
  BY <1>1, <1>3, <1>4, ServerStays
<1>7. JournalSound'
  BY <1>1, <1>2, <1>4 DEF EnrollInv, JournalSound, Done, Bound, Packed, Enroll!Committed
<1>8. RunSound' /\ FilesSound'
  BY <1>2, <1>3, <1>4 DEF EnrollInv, RunSound, FilesSound
<1>9. Enroll!SecretKept'
  BY <1>1, <1>2, <1>4 DEF EnrollInv, Enroll!SecretKept, Enroll!Committed
<1> QED
  BY <1>5, <1>6, <1>7, <1>8, <1>9 DEF EnrollInv

LEMMA CommitRequestKeeps ==
  ASSUME StationAssumption, EnrollInv, Enroll!CommitRequest
  PROVE  EnrollInv'
<1> DEFINE a == journal.auth
<1>1. enrollRun.pc = "commit" /\ UNCHANGED <<journal, archived, package, authFile, files, enrollReport, fails, ends>>
  BY DEF Enroll!CommitRequest, Enroll!LocalUnchanged
<1>2. /\ journal.state = "COMMIT_INTENT" /\ enrollRun.auth = a /\ enrollRun.mode = "two" /\ a \in 1..srv.issued
      /\ journal.epoch = srv.proposed[a] /\ package = journal.epoch /\ journal.sealed = package
  BY <1>1 DEF EnrollInv, RunSound, JournalSound, Bound, Packed
<1>3. CASE srv.prep[a] # "PREPARED"
  <2>1. UNCHANGED srv /\ Enroll!RunEnds
    BY <1>3 DEF Enroll!CommitRequest
  <2> QED
    BY <1>1, <2>1, RunStopped, EnrollFacts
<1>4. CASE srv.prep[a] = "PREPARED"
  <2>1. Live(a)
    BY <1>2, <1>4, EnrollFacts DEF Live, EnrollInv, ServerSound, ServerType, Enroll!Auths
  <2>2. /\ a = srv.issued /\ a = authFile /\ a \in Enroll!Auths /\ srv.epoch <= srv.issued /\ a \notin archived
        /\ srv.proposed[a] = srv.epoch + 1 /\ srv.epoch + 1 \in Enroll!Epochs
        /\ \A b \in Enroll!Auths : srv.prep[b] = "PREPARED" => b = a
    BY <1>2, <1>4, <2>1, PendingIsNewest
  <2>3. /\ srv' = [srv EXCEPT !.prep[a] = "COMMITTED", !.epoch = srv.epoch + 1]
        /\ enrollRun' = [enrollRun EXCEPT !.pc = "accept"]
    BY <1>4, <2>2 DEF Enroll!CommitRequest, Enroll!Goto
  <2>4. /\ enrollRun' \in RunType /\ enrollRun'.pc = "accept" /\ enrollRun'.mode = "two" /\ enrollRun'.auth = a
    BY <1>2, <2>3, EnrollFacts, MovedRun DEF Enroll!PCs
  <2>5. /\ srv' \in ServerType /\ srv'.epoch = srv.epoch + 1 /\ srv'.issued = srv.issued
        /\ srv'.expired = srv.expired /\ srv'.prep[a] = "COMMITTED" /\ srv'.proposed = srv.proposed
        /\ \A b \in Enroll!Auths \ {a} : srv'.prep[b] = srv.prep[b]
    BY <2>2, <2>3, EnrollFacts DEF ServerType
  <2>6. Enroll!EnrollmentTypeOK'
    BY <1>1, <2>2, <2>4, <2>5 DEF EnrollInv, Enroll!EnrollmentTypeOK, RunType, ServerType
  <2>7. ServerSound'
    <3>1. ASSUME NEW b \in Enroll!Auths, b # a
          PROVE  /\ b > srv.issued => srv.prep[b] = "NONE"
                 /\ srv.prep[b] \in {"EXPIRED", "ABORTED"} => b \in srv.expired
                 /\ srv.prep[b] # "PREPARED"
                 /\ srv.prep[b] = "COMMITTED" => srv.proposed[b] <= srv.epoch + 1
                 /\ srv.prep[b] # "NONE" => srv.proposed[b] >= 2 /\ b \in archived
                 /\ b <= srv.issued /\ Live(b) /\ b # authFile => srv.prep[b] = "NONE"
      BY <2>2, <3>1, EnrollFacts DEF EnrollInv, ServerSound, ServerType, Enroll!Epochs
    <3>2. srv.proposed[a] >= 2 /\ srv.epoch + 1 >= 1 /\ srv.epoch + 1 <= srv.issued + 1
          /\ authFile \in {0, srv.issued}
      BY <1>4, <2>2, EnrollFacts DEF EnrollInv, ServerSound, ServerType
    <3>3. /\ srv'.epoch >= 1 /\ srv'.epoch <= srv'.issued + 1 /\ authFile' \in {0, srv'.issued}
          /\ srv'.issued > 0 /\ ~(srv'.prep[srv'.issued] = "COMMITTED") => srv'.epoch <= srv'.issued
      BY <1>1, <2>2, <2>5, <3>2
    <3>4. ASSUME NEW b \in Enroll!Auths
          PROVE  /\ b > srv'.issued => srv'.prep[b] = "NONE"
                 /\ srv'.prep[b] \in {"EXPIRED", "ABORTED"} => b \in srv'.expired
                 /\ srv'.prep[b] # "PREPARED"
                 /\ srv'.prep[b] = "COMMITTED" => srv'.proposed[b] <= srv'.epoch
                 /\ srv'.prep[b] # "NONE" => srv'.proposed[b] >= 2 /\ (b = a \/ b \in archived')
                 /\ b <= srv'.issued /\ srv'.prep[b] \in {"NONE", "PREPARED"} /\ b \notin srv'.expired
                    /\ b # authFile' => srv'.prep[b] = "NONE" /\ b # a
      <4>1. CASE b = a
        <5>1. srv.issued \in Nat /\ srv.epoch \in Nat
          BY EnrollFacts DEF ServerType
        <5>2. srv'.prep[b] = "COMMITTED" /\ srv'.proposed[b] = srv'.epoch
          <6>1. srv'.prep[a] = "COMMITTED" /\ srv'.proposed = srv.proposed /\ srv'.epoch = srv.epoch + 1
            BY <2>5
          <6>2. srv.proposed[a] = srv.epoch + 1
            BY <2>2
          <6> QED
            BY <4>1, <6>1, <6>2
        <5>3. srv'.proposed[b] >= 2
          <6>1. srv'.proposed = srv.proposed
            BY <2>5
          <6> QED
            BY <3>2, <4>1, <6>1
        <5>4. b = srv'.issued /\ srv'.epoch \in Nat
          <6>1. srv'.issued = srv.issued /\ srv'.epoch = srv.epoch + 1
            BY <2>5
          <6>2. a = srv.issued
            BY <2>2
          <6> QED
            BY <4>1, <5>1, <6>1, <6>2
        <5> QED
          BY <4>1, <5>1, <5>2, <5>3, <5>4, <2>5
      <4>2. CASE b # a
        BY <1>1, <2>5, <3>1, <4>2 DEF Live
      <4> QED
        BY <4>1, <4>2
    <3>5. journal'.auth = a /\ enrollRun'.auth = a
      BY <1>1, <2>4
    <3> HIDE DEF a
    <3> QED
      BY <2>5, <3>3, <3>4, <3>5 DEF ServerSound, Done, Live
  <2>8. JournalSound'
    <3>1. archived \subseteq Enroll!Auths \ {a}
      BY <2>2, EnrollFacts
    <3> QED
      BY <1>1, <1>2, <2>2, <2>5, <3>1 DEF EnrollInv, JournalSound, Done, Bound, Packed, Enroll!Committed
  <2>9. RunSound' /\ FilesSound'
    BY <1>1, <1>2, <2>4 DEF EnrollInv, RunSound, FilesSound
  <2>10. Enroll!SecretKept'
    <3> SUFFICES ASSUME NEW b \in Enroll!Auths, b # a, srv.prep[b] = "COMMITTED" PROVE srv.proposed[b] # srv.epoch + 1
      BY <1>1, <1>2, <2>2, <2>5 DEF Enroll!SecretKept
    <3> QED
      BY EnrollFacts DEF EnrollInv, ServerSound, ServerType, Enroll!Epochs
  <2> QED
    BY <2>6, <2>7, <2>8, <2>9, <2>10 DEF EnrollInv
<1> QED
  BY <1>3, <1>4

LEMMA AcceptCommitKeeps ==
  ASSUME StationAssumption, EnrollInv, Enroll!AcceptCommit
  PROVE  EnrollInv'
<1>1. enrollRun.pc = "accept" /\ UNCHANGED <<archived, package, authFile, files, enrollReport, srv, fails, ends>>
  BY DEF Enroll!AcceptCommit, Enroll!LocalUnchanged, Enroll!ServerUnchanged
<1>2. /\ journal.state = "COMMIT_INTENT" /\ enrollRun.auth = journal.auth /\ enrollRun.mode = "two"
      /\ journal.auth \in 1..srv.issued /\ Done(journal.auth)
  BY <1>1 DEF EnrollInv, RunSound, JournalSound, Enroll!AcceptCommit, Enroll!ProvesActivation, Done
<1>3. journal' = [journal EXCEPT !.state = "SERVER_COMMITTED"] /\ enrollRun' = [enrollRun EXCEPT !.pc = "activate"]
  BY <1>2 DEF Enroll!AcceptCommit, Enroll!Mark, Enroll!Allowed, Enroll!Goto
<1>4. "SERVER_COMMITTED" \in Enroll!JournalStates /\ "activate" \in Enroll!PCs
  BY DEF Enroll!JournalStates, Enroll!Committed, Enroll!PCs
<1>5. /\ enrollRun' \in RunType /\ enrollRun'.pc = "activate" /\ enrollRun'.mode = enrollRun.mode
      /\ enrollRun'.auth = enrollRun.auth
  BY <1>3, <1>4, EnrollFacts, MovedRun
<1>6. /\ journal' \in JournalType /\ journal'.state = "SERVER_COMMITTED" /\ journal'.auth = journal.auth
      /\ journal'.epoch = journal.epoch /\ journal'.sealed = journal.sealed
  BY <1>3, <1>4, EnrollFacts, MarkedJournal
<1>7. JournalSound'
  BY <1>1, <1>2, <1>6 DEF EnrollInv, JournalSound, Done, Bound, Packed, Enroll!Committed
<1>8. RunSound' /\ FilesSound'
  BY <1>2, <1>5, <1>6 DEF RunSound, FilesSound, Enroll!Committed
<1>9. Enroll!SecretKept'
  BY <1>1, <1>2, <1>6 DEF EnrollInv, Enroll!SecretKept, Enroll!Committed
<1> QED
  BY <1>1, <1>3, <1>4, <1>5, <1>7, <1>8, <1>9, JournalMoved

LEMMA CommitIntentKeeps ==
  ASSUME StationAssumption, EnrollInv, Enroll!CommitIntent
  PROVE  EnrollInv'
<1>1. /\ enrollRun.pc = "commitStatus" /\ journal.state = "PACKAGED"
      /\ UNCHANGED <<archived, package, authFile, files, enrollReport, srv, fails, ends>>
  BY DEF Enroll!CommitIntent, Enroll!LocalUnchanged, Enroll!ServerUnchanged
<1>2. /\ enrollRun.auth = journal.auth /\ enrollRun.mode = "two" /\ ~Done(journal.auth)
      /\ journal.auth \in 1..srv.issued
  BY <1>1 DEF EnrollInv, RunSound, JournalSound
<1>3. journal' = [journal EXCEPT !.state = "COMMIT_INTENT"] /\ enrollRun' = [enrollRun EXCEPT !.pc = "commitStatus"]
  BY <1>1 DEF Enroll!CommitIntent, Enroll!Mark, Enroll!Allowed, Enroll!Goto
<1>4. "COMMIT_INTENT" \in Enroll!JournalStates /\ "commitStatus" \in Enroll!PCs
  BY DEF Enroll!JournalStates, Enroll!Uncommitted, Enroll!PCs
<1>5. /\ enrollRun' \in RunType /\ enrollRun'.pc = "commitStatus" /\ enrollRun'.mode = enrollRun.mode
      /\ enrollRun'.auth = enrollRun.auth
  BY <1>3, <1>4, EnrollFacts, MovedRun
<1>6. /\ journal' \in JournalType /\ journal'.state = "COMMIT_INTENT" /\ journal'.auth = journal.auth
      /\ journal'.epoch = journal.epoch /\ journal'.sealed = journal.sealed
  BY <1>3, <1>4, EnrollFacts, MarkedJournal
<1>7. JournalSound'
  BY <1>1, <1>2, <1>6 DEF EnrollInv, JournalSound, Done, Bound, Packed, Enroll!Committed
<1>8. RunSound' /\ FilesSound'
  BY <1>2, <1>5, <1>6 DEF RunSound, FilesSound
<1>9. Enroll!SecretKept'
  BY <1>1, <1>2, <1>6 DEF EnrollInv, Enroll!SecretKept, Enroll!Committed
<1> QED
  BY <1>1, <1>3, <1>4, <1>5, <1>7, <1>8, <1>9, JournalMoved

LEMMA RemoveExpiredKeeps ==
  ASSUME StationAssumption, EnrollInv, Enroll!RemoveExpired
  PROVE  EnrollInv'
<1>1. /\ enrollRun.pc = "expire" /\ package' = 0 /\ Enroll!RunEnds
      /\ UNCHANGED <<journal, archived, authFile, files, enrollReport, srv, fails, ends>>
  BY DEF Enroll!RemoveExpired, Enroll!RemovePackage, Enroll!ServerUnchanged
<1>2. journal.state = "EXPIRED"
  BY <1>1 DEF EnrollInv, RunSound
<1>3. enrollRun' \in RunType /\ enrollRun'.pc = "idle" /\ enrollRun'.auth = 0
  BY <1>1, EnrollFacts, EndedRun
<1>4. 0 \in Enroll!Epochs
  BY EnrollFacts DEF Enroll!Epochs
<1>5. Enroll!EnrollmentTypeOK'
  BY <1>1, <1>3, <1>4 DEF EnrollInv, Enroll!EnrollmentTypeOK, RunType
<1>6. ServerSound'
  BY <1>1, <1>3, ServerStays
<1>7. JournalSound' /\ RunSound' /\ FilesSound'
  BY <1>1, <1>2, <1>3 DEF EnrollInv, JournalSound, RunSound, FilesSound, Whole, Done, Packed
<1>8. Enroll!SecretKept'
  BY <1>1, <1>2 DEF EnrollInv, Enroll!SecretKept, Enroll!Committed
<1> QED
  BY <1>5, <1>6, <1>7, <1>8 DEF EnrollInv

(* ------------------------------------------------------ local writing -- *)

(* A run beyond the commit holds the server's generation in its package.   *)
LEMMA PackageIsServers ==
  ASSUME StationAssumption, EnrollInv, journal.state \in Enroll!Committed
  PROVE  package = srv.epoch /\ journal.sealed = package /\ Done(journal.auth)
BY DEF EnrollInv, JournalSound, Bound, Packed, Enroll!Committed

(* A local file is written, and the run goes on.                           *)
LEMMA FileWritten ==
  ASSUME StationAssumption, EnrollInv, UNCHANGED <<journal, archived, package, authFile, enrollReport, srv, fails, ends>>,
         enrollRun.pc \in {"activate", "identity", "manifest", "credential"}, files' \in FilesType,
         files'.secret = srv.epoch, files'.credential \in {files.credential, srv.epoch},
         files.identity => files'.identity, files.manifest => files'.manifest,
         enrollRun' \in RunType, enrollRun'.mode = enrollRun.mode, enrollRun'.auth = enrollRun.auth,
         \/ enrollRun'.pc = "identity" /\ enrollRun'.epoch = srv.epoch
         \/ enrollRun'.pc = "manifest" /\ enrollRun'.epoch = srv.epoch /\ files'.identity
         \/ enrollRun'.pc = "credential" /\ enrollRun'.epoch = srv.epoch /\ files'.identity /\ files'.manifest
         \/ enrollRun'.pc = "persisted" /\ files'.identity /\ files'.manifest /\ files'.credential = srv.epoch
  PROVE  EnrollInv'
<1>1. journal.state \in Enroll!Committed /\ enrollRun.auth = journal.auth /\ enrollRun.mode = "two"
  BY DEF EnrollInv, RunSound
<1>2. Enroll!EnrollmentTypeOK'
  BY DEF EnrollInv, Enroll!EnrollmentTypeOK, RunType, FilesType
<1>3. ServerSound'
  BY ServerStays
<1>4. JournalSound'
  BY DEF EnrollInv, JournalSound, Done
<1>5. RunSound'
  BY <1>1 DEF RunSound
<1>6. FilesSound'
  BY <1>1 DEF EnrollInv, FilesSound, Whole, Enroll!Committed
<1>7. Enroll!SecretKept'
  BY DEF EnrollInv, Enroll!SecretKept
<1> QED
  BY <1>2, <1>3, <1>4, <1>5, <1>6, <1>7 DEF EnrollInv

LEMMA ActivateKeeps ==
  ASSUME StationAssumption, EnrollInv, Enroll!Activate
  PROVE  EnrollInv'
<1>1. enrollRun.pc = "activate" /\ UNCHANGED <<journal, archived, package, authFile, enrollReport, srv, fails, ends>>
  BY DEF Enroll!Activate, Enroll!ServerUnchanged
<1>2. enrollRun.mode = "two" /\ journal.state \in Enroll!Committed
  BY <1>1 DEF EnrollInv, RunSound
<1>3. CASE Enroll!RunEnds /\ UNCHANGED files
  BY <1>1, <1>3, RunStopped, EnrollFacts
<1>4. CASE /\ files' = [files EXCEPT !.secret = package]
           /\ enrollRun' = [enrollRun EXCEPT !.pc = "identity", !.epoch = package]
  <2>1. package = srv.epoch /\ package \in Enroll!Epochs
    BY <1>2, PackageIsServers, EnrollFacts
  <2>2. /\ files' \in FilesType /\ files'.secret = srv.epoch /\ files'.credential = files.credential
        /\ files'.identity = files.identity /\ files'.manifest = files.manifest
    BY <1>4, <2>1, EnrollFacts DEF FilesType
  <2>3. /\ enrollRun' \in RunType /\ enrollRun'.pc = "identity" /\ enrollRun'.mode = enrollRun.mode
        /\ enrollRun'.auth = enrollRun.auth /\ enrollRun'.epoch = srv.epoch
    BY <1>4, <2>1, EnrollFacts DEF RunType, Enroll!PCs
  <2> QED
    BY <1>1, <2>2, <2>3, FileWritten
<1> QED
  BY <1>2, <1>3, <1>4 DEF Enroll!Activate, Enroll!NewSecret

LEMMA PersistIdentityKeeps ==
  ASSUME StationAssumption, EnrollInv, Enroll!PersistIdentity
  PROVE  EnrollInv'
<1>1. /\ enrollRun.pc = "identity" /\ UNCHANGED <<journal, archived, package, authFile, enrollReport, srv, fails, ends>>
      /\ files' = [files EXCEPT !.identity = TRUE] /\ enrollRun' = [enrollRun EXCEPT !.pc = "manifest"]
  BY DEF Enroll!PersistIdentity, Enroll!ServerUnchanged, Enroll!Goto
<1>2. enrollRun.epoch = srv.epoch /\ files.secret = srv.epoch
  BY <1>1 DEF EnrollInv, FilesSound
<1>3. /\ files' \in FilesType /\ files'.secret = srv.epoch /\ files'.credential = files.credential
      /\ files'.identity /\ (files.manifest => files'.manifest)
  BY <1>1, <1>2, EnrollFacts DEF FilesType
<1>4. /\ enrollRun' \in RunType /\ enrollRun'.pc = "manifest" /\ enrollRun'.mode = enrollRun.mode
      /\ enrollRun'.auth = enrollRun.auth /\ enrollRun'.epoch = srv.epoch
  BY <1>1, <1>2, EnrollFacts, MovedRun DEF Enroll!PCs
<1> QED
  BY <1>1, <1>3, <1>4, FileWritten

LEMMA PersistManifestKeeps ==
  ASSUME StationAssumption, EnrollInv, Enroll!PersistManifest
  PROVE  EnrollInv'
<1>1. /\ enrollRun.pc = "manifest" /\ UNCHANGED <<journal, archived, package, authFile, enrollReport, srv, fails, ends>>
      /\ files' = [files EXCEPT !.manifest = TRUE] /\ enrollRun' = [enrollRun EXCEPT !.pc = "credential"]
  BY DEF Enroll!PersistManifest, Enroll!ServerUnchanged, Enroll!Goto
<1>2. enrollRun.epoch = srv.epoch /\ files.secret = srv.epoch /\ files.identity
  BY <1>1 DEF EnrollInv, FilesSound
<1>3. /\ files' \in FilesType /\ files'.secret = srv.epoch /\ files'.credential = files.credential
      /\ files'.identity /\ files'.manifest
  BY <1>1, <1>2, EnrollFacts DEF FilesType
<1>4. /\ enrollRun' \in RunType /\ enrollRun'.pc = "credential" /\ enrollRun'.mode = enrollRun.mode
      /\ enrollRun'.auth = enrollRun.auth /\ enrollRun'.epoch = srv.epoch
  BY <1>1, <1>2, EnrollFacts, MovedRun DEF Enroll!PCs
<1> QED
  BY <1>1, <1>3, <1>4, FileWritten

LEMMA PersistCredentialKeeps ==
  ASSUME StationAssumption, EnrollInv, Enroll!PersistCredential
  PROVE  EnrollInv'
<1>0. enrollRun.pc = "credential" /\ enrollRun.mode = "two"
  BY DEF EnrollInv, RunSound, Enroll!PersistCredential
<1>1. /\ UNCHANGED <<journal, archived, package, authFile, enrollReport, srv, fails, ends>>
      /\ files' = [files EXCEPT !.credential = enrollRun.epoch] /\ enrollRun' = [enrollRun EXCEPT !.pc = "persisted"]
  BY <1>0 DEF Enroll!PersistCredential, Enroll!ServerUnchanged, Enroll!Goto
<1>2. enrollRun.epoch = srv.epoch /\ files.secret = srv.epoch /\ files.identity /\ files.manifest
  BY <1>0 DEF EnrollInv, FilesSound
<1>3. /\ files' \in FilesType /\ files'.secret = srv.epoch /\ files'.credential = srv.epoch
      /\ files'.identity /\ files'.manifest
  BY <1>1, <1>2, EnrollFacts DEF FilesType, RunType
<1>4. /\ enrollRun' \in RunType /\ enrollRun'.pc = "persisted" /\ enrollRun'.mode = enrollRun.mode
      /\ enrollRun'.auth = enrollRun.auth
  BY <1>1, EnrollFacts, MovedRun DEF Enroll!PCs
<1> QED
  BY <1>0, <1>1, <1>3, <1>4, FileWritten

(* ---------------------------------------------------- ending a recovery -- *)

(* A committed journal is marked with the next state.                      *)
LEMMA CommittedMarked ==
  ASSUME StationAssumption, EnrollInv, UNCHANGED <<archived, package, authFile, files, enrollReport, srv, fails, ends>>,
         NEW s \in {"LOCAL_PERSISTED", "CLEANUP_INTENT"}, NEW p \in {"cleanup", "unlink"},
         journal.state \in Enroll!Committed, journal' = [journal EXCEPT !.state = s],
         enrollRun.pc \in {"persisted", "cleanup"}, enrollRun' = [enrollRun EXCEPT !.pc = p],
         p = "unlink" => s = "CLEANUP_INTENT"
  PROVE  EnrollInv'
<1>1. s \in Enroll!JournalStates /\ p \in Enroll!PCs
  BY DEF Enroll!JournalStates, Enroll!Committed, Enroll!PCs
<1>2. /\ enrollRun' \in RunType /\ enrollRun'.pc = p /\ enrollRun'.mode = enrollRun.mode
      /\ enrollRun'.auth = enrollRun.auth
  BY <1>1, EnrollFacts, MovedRun
<1>3. /\ journal' \in JournalType /\ journal'.state = s /\ journal'.auth = journal.auth
      /\ journal'.epoch = journal.epoch /\ journal'.sealed = journal.sealed
  BY <1>1, EnrollFacts, MarkedJournal
<1>4. Whole /\ enrollRun.auth = journal.auth /\ enrollRun.mode = "two"
  BY DEF EnrollInv, RunSound, FilesSound
<1>5. JournalSound'
  BY <1>3 DEF EnrollInv, JournalSound, Done, Bound, Packed, Enroll!Committed
<1>6. RunSound'
  BY <1>2, <1>3, <1>4 DEF RunSound, Enroll!Committed
<1>7. FilesSound'
  BY <1>2, <1>3, <1>4 DEF FilesSound, Whole
<1>8. Enroll!SecretKept'
  BY <1>4 DEF Enroll!SecretKept, Whole
<1> QED
  BY <1>1, <1>2, <1>5, <1>6, <1>7, <1>8, JournalMoved

LEMMA MarkLocalPersistedKeeps ==
  ASSUME StationAssumption, EnrollInv, Enroll!MarkLocalPersisted
  PROVE  EnrollInv'
<1>1. /\ enrollRun.pc = "persisted" /\ journal.state \in Enroll!Committed
      /\ UNCHANGED <<archived, package, authFile, files, enrollReport, srv, fails, ends>>
  BY DEF EnrollInv, RunSound, Enroll!MarkLocalPersisted, Enroll!LocalUnchanged, Enroll!ServerUnchanged
<1>2. \/ journal' = [journal EXCEPT !.state = "LOCAL_PERSISTED"] /\ enrollRun' = [enrollRun EXCEPT !.pc = "cleanup"]
      \/ /\ journal.state # "SERVER_COMMITTED" /\ UNCHANGED journal
         /\ enrollRun' = [enrollRun EXCEPT !.pc = "cleanup"]
  BY DEF Enroll!MarkLocalPersisted, Enroll!Mark, Enroll!Allowed, Enroll!Goto
<1>3. "cleanup" \in Enroll!PCs
  BY DEF Enroll!PCs
<1>4. CASE /\ journal.state # "SERVER_COMMITTED" /\ UNCHANGED journal
           /\ enrollRun' = [enrollRun EXCEPT !.pc = "cleanup"]
  BY <1>1, <1>3, <1>4, GoesOn
<1> QED
  BY <1>1, <1>2, <1>4, CommittedMarked

LEMMA MarkCleanupIntentKeeps ==
  ASSUME StationAssumption, EnrollInv, Enroll!MarkCleanupIntent
  PROVE  EnrollInv'
<1>1. /\ enrollRun.pc = "cleanup" /\ journal.state \in Enroll!Committed
      /\ UNCHANGED <<archived, package, authFile, files, enrollReport, srv, fails, ends>>
  BY DEF EnrollInv, RunSound, Enroll!MarkCleanupIntent, Enroll!LocalUnchanged, Enroll!ServerUnchanged
<1>2. \/ journal' = [journal EXCEPT !.state = "CLEANUP_INTENT"] /\ enrollRun' = [enrollRun EXCEPT !.pc = "unlink"]
      \/ /\ journal.state # "LOCAL_PERSISTED" /\ UNCHANGED journal
         /\ enrollRun' = [enrollRun EXCEPT !.pc = "unlink"]
  BY DEF Enroll!MarkCleanupIntent, Enroll!Mark, Enroll!Allowed, Enroll!Goto
<1>3. "unlink" \in Enroll!PCs
  BY DEF Enroll!PCs
<1>4. CASE /\ journal.state # "LOCAL_PERSISTED" /\ UNCHANGED journal
           /\ enrollRun' = [enrollRun EXCEPT !.pc = "unlink"]
  BY <1>1, <1>3, <1>4, GoesOn
<1> QED
  BY <1>1, <1>2, <1>4, CommittedMarked

LEMMA UnlinkAuthorizationKeeps ==
  ASSUME StationAssumption, EnrollInv, Enroll!UnlinkAuthorization
  PROVE  EnrollInv'
<1>1. /\ enrollRun.pc = "unlink" /\ authFile' = 0 /\ enrollRun' = [enrollRun EXCEPT !.pc = "report"]
      /\ UNCHANGED <<journal, archived, package, files, enrollReport, srv, fails, ends>>
  BY DEF Enroll!UnlinkAuthorization, Enroll!ServerUnchanged, Enroll!Goto
<1>2. /\ journal.state = "CLEANUP_INTENT" /\ enrollRun.auth = journal.auth /\ enrollRun.mode = "two" /\ Whole
  BY <1>1 DEF EnrollInv, RunSound, FilesSound
<1>3. /\ enrollRun' \in RunType /\ enrollRun'.pc = "report" /\ enrollRun'.mode = enrollRun.mode
      /\ enrollRun'.auth = journal.auth
  BY <1>1, <1>2, EnrollFacts, MovedRun DEF Enroll!PCs
<1>4. srv.issued \in 0..MaxAuths /\ 0 \in 0..MaxAuths /\ MaxAuths \in Nat
  BY EnrollFacts DEF ServerType
<1>5. Enroll!EnrollmentTypeOK'
  BY <1>1, <1>3, <1>4 DEF EnrollInv, Enroll!EnrollmentTypeOK, RunType
<1>6. Done(journal.auth) /\ journal.auth \in 1..srv.issued
  BY <1>2 DEF EnrollInv, JournalSound, Enroll!Committed
(* Another authorization that is in the file has not been used.           *)
<1>7. \A a \in Enroll!Auths : Live(a) /\ a # journal.auth => srv.prep[a] = "NONE"
  BY DEF EnrollInv, ServerSound, JournalSound, Live
<1>8. ServerSound'
  <2>1. ASSUME NEW a \in Enroll!Auths, Live(a)
        PROVE  a # journal.auth
    BY <1>6, <2>1 DEF Done, Live
  <2> QED
    BY <1>1, <1>2, <1>3, <1>4, <1>7, <2>1 DEF EnrollInv, ServerSound, Done, Live
<1>9. JournalSound'
  BY <1>1 DEF EnrollInv, JournalSound, Done
<1>10. RunSound' /\ FilesSound'
  BY <1>1, <1>2, <1>3 DEF RunSound, FilesSound, Whole, Enroll!Committed
<1>11. Enroll!SecretKept'
  BY <1>1 DEF EnrollInv, Enroll!SecretKept
<1> QED
  BY <1>5, <1>8, <1>9, <1>10, <1>11 DEF EnrollInv

LEMMA WriteReportKeeps ==
  ASSUME StationAssumption, EnrollInv, Enroll!WriteReport
  PROVE  EnrollInv'
<1>0. enrollRun.pc = "report" /\ enrollRun.mode = "two"
  BY DEF EnrollInv, RunSound, Enroll!WriteReport
<1>1. /\ enrollReport' = enrollRun.auth /\ enrollRun' = [enrollRun EXCEPT !.pc = "complete"]
      /\ UNCHANGED <<journal, archived, package, authFile, files, srv, fails, ends>>
  BY <1>0 DEF Enroll!WriteReport, Enroll!ServerUnchanged, Enroll!Goto
<1>2. /\ journal.state = "CLEANUP_INTENT" /\ enrollRun.auth = journal.auth /\ Whole /\ authFile = 0
  BY <1>0 DEF EnrollInv, RunSound, FilesSound
<1>3. /\ enrollRun' \in RunType /\ enrollRun'.pc = "complete" /\ enrollRun'.mode = enrollRun.mode
      /\ enrollRun'.auth = journal.auth
  BY <1>1, <1>2, EnrollFacts, MovedRun DEF Enroll!PCs
<1>4. enrollReport' \in 0..MaxAuths
  BY <1>1, EnrollFacts DEF RunType
<1>5. Enroll!EnrollmentTypeOK'
  BY <1>1, <1>3, <1>4 DEF EnrollInv, Enroll!EnrollmentTypeOK, RunType
<1>6. ServerSound'
  BY <1>1, <1>3, ServerStays
<1>7. JournalSound'
  BY <1>1 DEF EnrollInv, JournalSound, Done
<1>8. RunSound' /\ FilesSound'
  BY <1>0, <1>1, <1>2, <1>3 DEF RunSound, FilesSound, Whole, Enroll!Committed
<1>9. Enroll!SecretKept'
  BY <1>1 DEF EnrollInv, Enroll!SecretKept
<1> QED
  BY <1>5, <1>6, <1>7, <1>8, <1>9 DEF EnrollInv

LEMMA MarkCompleteKeeps ==
  ASSUME StationAssumption, EnrollInv, Enroll!MarkComplete
  PROVE  EnrollInv'
<1>1. enrollRun.pc = "complete" /\ UNCHANGED <<archived, package, authFile, files, enrollReport, srv, fails, ends>>
  BY DEF Enroll!MarkComplete, Enroll!LocalUnchanged, Enroll!ServerUnchanged
<1>2. /\ journal.state = "CLEANUP_INTENT" /\ enrollRun.auth = journal.auth /\ enrollRun.mode = "two"
      /\ Whole /\ authFile = 0 /\ enrollReport = journal.auth /\ journal.auth \in 1..srv.issued
      /\ Done(journal.auth)
  BY <1>1 DEF EnrollInv, RunSound, FilesSound, JournalSound, Enroll!Committed
<1>3. journal' = [journal EXCEPT !.state = "COMPLETE"] /\ enrollRun' = [enrollRun EXCEPT !.pc = "final"]
  BY <1>2 DEF Enroll!MarkComplete, Enroll!Mark, Enroll!Allowed, Enroll!Goto
<1>4. "COMPLETE" \in Enroll!JournalStates /\ "final" \in Enroll!PCs
  BY DEF Enroll!JournalStates, Enroll!Terminal, Enroll!PCs
<1>5. /\ enrollRun' \in RunType /\ enrollRun'.pc = "final" /\ enrollRun'.mode = enrollRun.mode
      /\ enrollRun'.auth = enrollRun.auth
  BY <1>3, <1>4, EnrollFacts, MovedRun
<1>6. /\ journal' \in JournalType /\ journal'.state = "COMPLETE" /\ journal'.auth = journal.auth
      /\ journal'.epoch = journal.epoch
  BY <1>3, <1>4, EnrollFacts, MarkedJournal
<1>7. JournalSound'
  BY <1>1, <1>2, <1>6 DEF EnrollInv, JournalSound, Done, Bound, Packed, Enroll!Committed
<1>8. RunSound'
  BY <1>2, <1>5, <1>6 DEF RunSound
<1>9. journal.auth # 0
  BY <1>2, EnrollFacts DEF ServerType
<1>10. FilesSound'
  BY <1>1, <1>2, <1>5, <1>6, <1>9 DEF FilesSound, Whole
<1>11. Enroll!SecretKept'
  BY <1>1, <1>2 DEF Enroll!SecretKept, Whole
<1> QED
  BY <1>1, <1>3, <1>4, <1>5, <1>7, <1>8, <1>10, <1>11, JournalMoved

LEMMA FinishCompleteKeeps ==
  ASSUME StationAssumption, EnrollInv, Enroll!FinishComplete
  PROVE  EnrollInv'
<1>1. /\ enrollRun.pc = "final" /\ enrollReport' = journal.auth /\ package' = 0 /\ Enroll!RunEnds
      /\ UNCHANGED <<journal, archived, authFile, files, srv, fails, ends>>
  BY DEF Enroll!FinishComplete, Enroll!RemovePackage, Enroll!ServerUnchanged
<1>2. journal.state = "COMPLETE" /\ Whole /\ authFile # journal.auth
  BY <1>1 DEF EnrollInv, RunSound, FilesSound
<1>3. enrollRun' \in RunType /\ enrollRun'.pc = "idle" /\ enrollRun'.auth = 0
  BY <1>1, EnrollFacts, EndedRun
<1>4. 0 \in Enroll!Epochs /\ enrollReport' \in 0..MaxAuths
  BY <1>1, EnrollFacts DEF Enroll!Epochs, JournalType
<1>5. Enroll!EnrollmentTypeOK'
  BY <1>1, <1>3, <1>4 DEF EnrollInv, Enroll!EnrollmentTypeOK, RunType
<1>6. ServerSound'
  BY <1>1, <1>3, ServerStays
<1>7. JournalSound' /\ RunSound'
  BY <1>1, <1>2, <1>3 DEF EnrollInv, JournalSound, RunSound, Done, Packed
<1>8. FilesSound'
  BY <1>1, <1>2, <1>3 DEF FilesSound, Whole
<1>9. Enroll!SecretKept'
  BY <1>1, <1>2 DEF Enroll!SecretKept, Whole
<1> QED
  BY <1>5, <1>6, <1>7, <1>8, <1>9 DEF EnrollInv

(* ---------------------------------------------------- around the run -- *)
LEMMA RunFailsKeeps ==
  ASSUME StationAssumption, EnrollInv, Enroll!RunFails
  PROVE  EnrollInv'
<1>1. /\ Enroll!RunEnds /\ fails' \in 0..MaxFails
      /\ UNCHANGED <<journal, archived, package, authFile, files, enrollReport, srv, ends>>
  BY EnrollFacts DEF Enroll!RunFails, Enroll!LocalUnchanged
<1> QED
  BY <1>1, RunStopped

LEMMA IssueAuthorizationKeeps ==
  ASSUME StationAssumption, EnrollInv, Enroll!IssueAuthorization
  PROVE  EnrollInv'
<1> DEFINE n == srv.issued + 1
<1>1. /\ enrollRun.pc = "idle" /\ srv.issued < MaxAuths /\ journal.state \notin Enroll!Committed
      /\ authFile # 0 => authFile \in srv.expired \/ srv.prep[authFile] = "COMMITTED"
      /\ authFile' = n /\ srv' = [srv EXCEPT !.issued = n]
      /\ UNCHANGED <<journal, archived, package, files, enrollReport, enrollRun, fails, ends>>
  BY DEF Enroll!IssueAuthorization
<1>2. srv.issued \in Nat /\ n \in 0..MaxAuths /\ n \in Enroll!Auths /\ MaxAuths \in Nat /\ srv.epoch \in Nat
  BY <1>1, EnrollFacts DEF ServerType, Enroll!Auths
<1>3. /\ srv' \in ServerType /\ srv'.epoch = srv.epoch /\ srv'.issued = n /\ srv'.expired = srv.expired
      /\ srv'.prep = srv.prep /\ srv'.proposed = srv.proposed
  BY <1>1, <1>2, EnrollFacts DEF ServerType
<1>4. /\ srv.prep[n] = "NONE" /\ enrollRun.auth = 0 /\ journal.auth # n
  BY <1>1, <1>2 DEF EnrollInv, ServerSound, RunSound, JournalSound, Enroll!NoJournal
<1>5. Enroll!EnrollmentTypeOK'
  BY <1>1, <1>2, <1>3 DEF EnrollInv, Enroll!EnrollmentTypeOK, ServerType
<1>6. ServerSound'
  <2>1. /\ srv'.epoch >= 1 /\ srv'.epoch <= srv'.issued /\ authFile' = srv'.issued
    BY <1>1, <1>2, <1>3 DEF EnrollInv, ServerSound
  <2>2. ASSUME NEW a \in Enroll!Auths
        PROVE  /\ a > n => srv.prep[a] = "NONE"
               /\ srv.prep[a] \in {"EXPIRED", "ABORTED"} => a \in srv.expired
               /\ srv.prep[a] = "PREPARED" => a \notin srv.expired /\ srv.proposed[a] = srv.epoch + 1
               /\ srv.prep[a] = "COMMITTED" => srv.proposed[a] <= srv.epoch
               /\ srv.prep[a] # "NONE" => srv.proposed[a] >= 2 /\ (a = journal.auth \/ a \in archived)
    BY <1>2, <2>2 DEF EnrollInv, ServerSound, Enroll!Auths
  <2>3. ASSUME NEW a \in Enroll!Auths, a <= n, a # n, Live(a)
        PROVE  srv.prep[a] = "NONE" /\ journal.auth # a /\ enrollRun.auth # a
    <3>1. a <= srv.issued /\ a \in Nat /\ a # 0
      BY <1>2, <2>3 DEF Enroll!Auths
    <3>2. a # authFile
      BY <1>1, <2>3, <3>1 DEF Live
    <3> QED
      BY <2>3, <3>1, <3>2 DEF EnrollInv, ServerSound
  <2> QED
    <3>1. journal'.auth = journal.auth /\ archived' = archived /\ enrollRun'.auth = enrollRun.auth
      BY <1>1
    <3>2. ASSUME NEW a \in Enroll!Auths
          PROVE  /\ a > srv'.issued => srv'.prep[a] = "NONE"
                 /\ srv'.prep[a] \in {"EXPIRED", "ABORTED"} => a \in srv'.expired
                 /\ srv'.prep[a] = "PREPARED" => a \notin srv'.expired /\ srv'.proposed[a] = srv'.epoch + 1
                 /\ srv'.prep[a] = "COMMITTED" => srv'.proposed[a] <= srv'.epoch
                 /\ srv'.prep[a] # "NONE" => srv'.proposed[a] >= 2 /\ (a = journal'.auth \/ a \in archived')
      BY <1>3, <2>2, <3>1
    <3>3. ASSUME NEW a \in Enroll!Auths, a <= srv'.issued, a # authFile',
                 srv'.prep[a] \in {"NONE", "PREPARED"} /\ a \notin srv'.expired
          PROVE  srv'.prep[a] = "NONE" /\ journal'.auth # a /\ enrollRun'.auth # a
      <4>1. a <= n /\ a # n /\ Live(a)
        BY <1>1, <1>3, <3>3 DEF Live
      <4> QED
        BY <1>3, <2>3, <3>1, <4>1
    <3>4. srv'.issued \in Nat /\ srv'.epoch \in Nat /\ srv'.epoch <= srv'.issued + 1
      BY <1>2, <1>3, <2>1
    <3> HIDE DEF n
    <3> QED
      BY <1>3, <2>1, <3>2, <3>3, <3>4 DEF ServerSound, Live
<1>7. JournalSound'
  <2>1. 1..srv.issued \subseteq 1..n
    BY <1>2
  <2> QED
    BY <1>1, <1>3, <2>1 DEF EnrollInv, JournalSound, Done
<1>8. RunSound'
  BY <1>1, <1>3 DEF EnrollInv, RunSound
<1>9. FilesSound'
  BY <1>1, <1>3, <1>4 DEF EnrollInv, FilesSound, Whole
<1>10. Enroll!SecretKept'
  BY <1>1, <1>3 DEF EnrollInv, Enroll!SecretKept
<1> QED
  BY <1>5, <1>6, <1>7, <1>8, <1>9, <1>10 DEF EnrollInv

(* The server ends an authorization that is not used, or only prepared.    *)
LEMMA ServerEnds ==
  ASSUME StationAssumption, EnrollInv, NEW a \in Enroll!Auths,
         NEW how \in {"NONE", "EXPIRED", "ABORTED"}, ends' \in 0..MaxEnds,
         UNCHANGED <<journal, archived, package, authFile, files, enrollReport, enrollRun, fails>>,
         srv.prep[a] \in {"NONE", "PREPARED"}, how = "NONE" <=> srv.prep[a] = "NONE",
         srv' \in ServerType, srv'.epoch = srv.epoch, srv'.issued = srv.issued,
         srv'.prep = [srv.prep EXCEPT ![a] = how], srv'.proposed = srv.proposed,
         srv'.expired = srv.expired \cup {a}
  PROVE  EnrollInv'
<1>1. srv'.prep[a] = how /\ \A b \in Enroll!Auths : b # a => srv'.prep[b] = srv.prep[b]
  BY EnrollFacts DEF ServerType
<1>2. Enroll!EnrollmentTypeOK'
  BY DEF EnrollInv, Enroll!EnrollmentTypeOK, ServerType
<1>3. \A b \in Enroll!Auths : (srv'.prep[b] = "COMMITTED") <=> (srv.prep[b] = "COMMITTED")
  BY <1>1
<1>4. srv.issued \in 0..MaxAuths /\ MaxAuths \in Nat /\ (srv.issued > 0 => srv.issued \in Enroll!Auths)
  BY EnrollFacts DEF ServerType, Enroll!Auths
<1>5. ServerSound'
  <2>1. /\ srv'.epoch >= 1 /\ srv'.epoch <= srv'.issued + 1 /\ authFile' \in {0, srv'.issued}
        /\ srv'.issued > 0 /\ srv'.prep[srv'.issued] # "COMMITTED" => srv'.epoch <= srv'.issued
    BY <1>3, <1>4 DEF EnrollInv, ServerSound, Done
  <2>2. ASSUME NEW b \in Enroll!Auths
        PROVE  /\ b > srv'.issued => srv'.prep[b] = "NONE"
               /\ srv'.prep[b] \in {"EXPIRED", "ABORTED"} => b \in srv'.expired
               /\ srv'.prep[b] = "PREPARED" => b \notin srv'.expired /\ srv'.proposed[b] = srv'.epoch + 1
               /\ srv'.prep[b] = "COMMITTED" => srv'.proposed[b] <= srv'.epoch
               /\ srv'.prep[b] # "NONE" => srv'.proposed[b] >= 2 /\ (b = journal'.auth \/ b \in archived')
               /\ b <= srv'.issued /\ srv'.prep[b] \in {"NONE", "PREPARED"} /\ b \notin srv'.expired /\ b # authFile'
                  => srv'.prep[b] = "NONE" /\ journal'.auth # b /\ enrollRun'.auth # b
    <3>1. CASE b = a
      BY <1>1, <3>1 DEF EnrollInv, ServerSound
    <3>2. CASE b # a
      BY <1>1, <3>2 DEF EnrollInv, ServerSound, Live
    <3> QED
      BY <3>1, <3>2
  <2> QED
    BY <2>1, <2>2 DEF ServerSound, Done, Live
<1>6. JournalSound'
  <2>1. archived \subseteq Enroll!Auths /\ (journal.auth \in 1..srv.issued => journal.auth \in Enroll!Auths)
    BY <1>4, EnrollFacts DEF Enroll!Auths
  <2>2. \A b \in archived : b # a /\ srv'.prep[b] = srv.prep[b]
    BY <1>1, <2>1 DEF EnrollInv, JournalSound
  <2>3. journal.state # "NONE" => /\ srv.prep[journal.auth] \in {"ABORTED", "EXPIRED"} =>
                                        srv'.prep[journal.auth] \in {"ABORTED", "EXPIRED"}
                                  /\ srv.prep[journal.auth] # "NONE" => srv'.prep[journal.auth] # "NONE"
                                  /\ (srv'.prep[journal.auth] = "COMMITTED") <=> (srv.prep[journal.auth] = "COMMITTED")
    BY <1>1, <2>1 DEF EnrollInv, JournalSound
  <2> QED
    BY <2>2, <2>3 DEF EnrollInv, JournalSound, Done, Bound, Packed, Enroll!Committed
<1>7. RunSound'
  <2>1. enrollRun.pc = "record" => srv'.prep[enrollRun.auth] # "NONE"
    <3>1. enrollRun.pc = "record" => enrollRun.auth \in Enroll!Auths
      BY <1>4 DEF EnrollInv, RunSound, JournalSound, Enroll!Auths
    <3> QED
      BY <1>1, <3>1 DEF EnrollInv, RunSound
  <2> QED
    BY <2>1 DEF EnrollInv, RunSound
<1>8. FilesSound'
  BY DEF EnrollInv, FilesSound, Whole
<1>9. Enroll!SecretKept'
  BY <1>3 DEF EnrollInv, Enroll!SecretKept
<1> QED
  BY <1>2, <1>5, <1>6, <1>7, <1>8, <1>9 DEF EnrollInv

LEMMA AuthorizationExpiresKeeps ==
  ASSUME StationAssumption, EnrollInv, Enroll!AuthorizationExpires
  PROVE  EnrollInv'
<1>1. UNCHANGED <<journal, archived, package, authFile, files, enrollReport, enrollRun, fails>> /\ ends' \in 0..MaxEnds
  BY EnrollFacts DEF Enroll!AuthorizationExpires, Enroll!LocalUnchanged
<1>2. PICK a \in 1..srv.issued : srv.prep[a] = "NONE" /\ srv' = [srv EXCEPT !.expired = @ \cup {a}]
  BY DEF Enroll!AuthorizationExpires
<1>3. a \in Enroll!Auths
  BY EnrollFacts DEF ServerType, Enroll!Auths
<1>4. /\ srv' \in ServerType /\ srv'.epoch = srv.epoch /\ srv'.issued = srv.issued /\ srv'.prep = srv.prep
      /\ srv'.proposed = srv.proposed /\ srv'.expired = srv.expired \cup {a}
  BY <1>2, <1>3, EnrollFacts DEF ServerType
<1>5. srv'.prep = [srv.prep EXCEPT ![a] = "NONE"]
  BY <1>2, <1>3, <1>4, EnrollFacts DEF ServerType
<1>6. "NONE" \in {"NONE", "EXPIRED", "ABORTED"} /\ ("NONE" = "NONE" <=> srv.prep[a] = "NONE")
  BY <1>2
<1> QED
  BY <1>1, <1>2, <1>3, <1>4, <1>5, <1>6, ServerEnds

LEMMA PrepareEndsKeeps ==
  ASSUME StationAssumption, EnrollInv, Enroll!PrepareEnds
  PROVE  EnrollInv'
<1>1. UNCHANGED <<journal, archived, package, authFile, files, enrollReport, enrollRun, fails>> /\ ends' \in 0..MaxEnds
  BY EnrollFacts DEF Enroll!PrepareEnds, Enroll!LocalUnchanged
<1>2. PICK a \in 1..srv.issued, how \in {"EXPIRED", "ABORTED"} :
         srv.prep[a] = "PREPARED" /\ srv' = [srv EXCEPT !.prep[a] = how, !.expired = @ \cup {a}]
  BY DEF Enroll!PrepareEnds
<1>3. a \in Enroll!Auths
  BY EnrollFacts DEF ServerType, Enroll!Auths
<1>4. /\ srv' \in ServerType /\ srv'.epoch = srv.epoch /\ srv'.issued = srv.issued
      /\ srv'.prep = [srv.prep EXCEPT ![a] = how]
      /\ srv'.proposed = srv.proposed /\ srv'.expired = srv.expired \cup {a}
  BY <1>2, <1>3, EnrollFacts DEF ServerType
<1> QED
  BY <1>1, <1>2, <1>3, <1>4, ServerEnds

LEMMA EnrollStarts ==
  ASSUME StationAssumption, FreshPc \in BOOLEAN, Enroll!Init
  PROVE  EnrollInv
<1>1. MaxAuths \in Nat /\ MaxFails \in Nat /\ MaxEnds \in Nat
  BY DEF StationAssumption, Enroll!EnrollmentAssumption
<1>2. {0, 1} \subseteq Enroll!Epochs /\ 0 \in 0..MaxAuths /\ 0 \in 0..MaxFails /\ 0 \in 0..MaxEnds
  BY <1>1 DEF Enroll!Epochs
<1>3. /\ srv.epoch = 1 /\ srv.issued = 0 /\ srv.expired = {} /\ srv.prep = [a \in Enroll!Auths |-> "NONE"]
      /\ srv.proposed = [a \in Enroll!Auths |-> 0] /\ srv \in ServerType
  BY <1>1, <1>2 DEF Enroll!Init, ServerType
<1>4. /\ journal = Enroll!NoJournal /\ archived = {} /\ package = 0 /\ authFile = 0 /\ enrollReport = 0
      /\ fails = 0 /\ ends = 0 /\ journal.state = "NONE" /\ journal.auth = 0 /\ journal \in JournalType
  BY <1>2 DEF Enroll!Init, Enroll!NoJournal, JournalType, Enroll!JournalStates
<1>5. /\ enrollRun.pc = "idle" /\ enrollRun.auth = 0 /\ enrollRun \in RunType
  BY <1>2 DEF Enroll!Init, RunType, Enroll!PCs
<1>6. files \in FilesType
  BY <1>2 DEF Enroll!Init, FilesType
<1>7. Enroll!EnrollmentTypeOK
  BY <1>2, <1>3, <1>4, <1>5, <1>6 DEF Enroll!EnrollmentTypeOK, JournalType, RunType, FilesType, ServerType
<1>8. ServerSound
  BY <1>3, <1>4, <1>5 DEF ServerSound, Enroll!Auths, Live
<1>9. JournalSound
  BY <1>4 DEF JournalSound, Bound, Packed, Enroll!Committed
<1>10. RunSound /\ FilesSound
  BY <1>4, <1>5 DEF RunSound, FilesSound
<1>11. Enroll!SecretKept
  BY <1>3 DEF Enroll!SecretKept
<1> QED
  BY <1>7, <1>8, <1>9, <1>10, <1>11 DEF EnrollInv

LEMMA EnrollStepKeeps ==
  ASSUME StationAssumption, EnrollInv, Enroll!Next
  PROVE  EnrollInv'
<1>1. ~Enroll!Enroll /\ ~Enroll!Reattach /\ ~Enroll!Recover
  BY DEF EnrollInv, RunSound, Enroll!Enroll, Enroll!Reattach, Enroll!Recover
<1> QED
  BY <1>1, StartKeeps, InitializeKeeps, ResumePreparedKeeps, PrepareKeeps, RecordPreparedKeeps, StageStatusKeeps,
     StagePackageKeeps, StageMarkKeeps, CommitIntentKeeps, CommitStatusKeeps, CommitRequestKeeps, AcceptCommitKeeps,
     RemoveExpiredKeeps, ActivateKeeps, PersistIdentityKeeps, PersistManifestKeeps, PersistCredentialKeeps,
     MarkLocalPersistedKeeps, MarkCleanupIntentKeeps, UnlinkAuthorizationKeeps, WriteReportKeeps, MarkCompleteKeeps,
     FinishCompleteKeeps, RunFailsKeeps, IssueAuthorizationKeeps, AuthorizationExpiresKeeps, PrepareEndsKeeps
  DEF Enroll!Next, Enroll!Steps

(* What the invariant says of a recovery.                                  *)
LEMMA EnrollHolds ==
  ASSUME StationAssumption, EnrollInv
  PROVE  Enroll!EnrollmentTypeOK /\ Enroll!SecretKept /\ Enroll!CompleteMeansActive /\ Enroll!EndedNeverCommits
<1>1. Enroll!CompleteMeansActive
  BY DEF EnrollInv, FilesSound, Whole, Enroll!CompleteMeansActive
<1>2. Enroll!EndedNeverCommits
  BY DEF EnrollInv, JournalSound, Enroll!EndedNeverCommits
<1> QED
  BY <1>1, <1>2 DEF EnrollInv

LEMMA OnlyUsedDeleted ==
  ASSUME StationAssumption, EnrollInv, Enroll!Next, authFile # 0, authFile' = 0
  PROVE  files.credential = srv.epoch /\ files.secret = srv.epoch
<1>1. Enroll!UnlinkAuthorization
  <2>1. ~Enroll!IssueAuthorization
    BY EnrollFacts DEF Enroll!IssueAuthorization, ServerType
  <2>2. ~Enroll!Starts
    BY DEF Enroll!Starts, Enroll!StartTwoPhase, Enroll!StartSelfEnroll, Enroll!StartRecover, Enroll!ReopenTerminal,
       Enroll!LocalUnchanged
  <2> QED
    BY <2>1, <2>2 DEF Enroll!Next, Enroll!Steps, Enroll!Enroll, Enroll!Reattach, Enroll!Recover, Enroll!Initialize,
       Enroll!ResumePrepared, Enroll!Prepare, Enroll!RecordPrepared, Enroll!StageStatus, Enroll!StagePackage,
       Enroll!StageMark, Enroll!CommitIntent, Enroll!CommitStatus, Enroll!CommitRequest, Enroll!AcceptCommit,
       Enroll!RemoveExpired, Enroll!Activate, Enroll!PersistIdentity, Enroll!PersistManifest, Enroll!PersistCredential,
       Enroll!MarkLocalPersisted, Enroll!MarkCleanupIntent, Enroll!WriteReport, Enroll!MarkComplete,
       Enroll!FinishComplete, Enroll!RunFails, Enroll!AuthorizationExpires, Enroll!PrepareEnds, Enroll!LocalUnchanged
<1> QED
  BY <1>1 DEF Enroll!UnlinkAuthorization, EnrollInv, FilesSound, Whole

(* ------------------------------------------------------ in one phase -- *)
LEMMA OnceStarts ==
  ASSUME StationAssumption, Once!Init
  PROVE  OnceInv
<1>1. /\ enrollRun.pc = "idle" /\ enrollRun \in OnceRun /\ authFile = 0
  BY DEF Once!Init, OnceRun, OncePCs
<1>2. srv \in OnceServer /\ srv.epoch = 1
  <2>1. {"self", "recover"} # {"self"}
    OBVIOUS
  <2>2. srv = [epoch |-> 1, issued |-> 0, expired |-> {}, prep |-> [a \in Once!Auths |-> "NONE"],
               proposed |-> [a \in Once!Auths |-> 0]]
    BY <2>1 DEF Once!Init
  <2> QED
    BY <2>2 DEF OnceServer, PrepStates
<1>3. files \in OnceFiles /\ files.secret <= 1 /\ files.credential <= 1
  BY DEF Once!Init, OnceFiles, StationAssumption, Once!EnrollmentAssumption
<1> QED
  BY <1>1, <1>2, <1>3 DEF OnceInv

(* In one phase no step of the other is taken.                             *)
LEMMA OnceActions ==
  ASSUME OnceInv, Once!Next
  PROVE  \/ Once!StartSelfEnroll \/ Once!StartRecover \/ Once!Enroll \/ Once!Reattach \/ Once!Recover
         \/ Once!Activate \/ Once!PersistIdentity \/ Once!PersistManifest \/ Once!PersistCredential
         \/ Once!UnlinkAuthorization \/ Once!WriteReport \/ Once!RunFails \/ Once!IssueAuthorization
         \/ Once!AuthorizationExpires \/ Once!PrepareEnds
<1>1. enrollRun.pc \in OncePCs
  BY DEF OnceInv, OnceRun
<1> QED
  BY <1>1 DEF OncePCs, Once!Next, Once!Starts, Once!Steps, Once!StartTwoPhase, Once!Initialize,
     Once!ResumePrepared, Once!Prepare, Once!RecordPrepared, Once!StageStatus, Once!StagePackage, Once!StageMark,
     Once!CommitIntent, Once!CommitStatus, Once!CommitRequest, Once!AcceptCommit, Once!RemoveExpired,
     Once!MarkLocalPersisted, Once!MarkCleanupIntent, Once!MarkComplete, Once!FinishComplete

LEMMA OnceFacts ==
  ASSUME OnceInv
  PROVE  /\ enrollRun \in OnceRun /\ enrollRun.pc \in OncePCs /\ enrollRun.mode \in {"self", "recover"}
         /\ enrollRun.auth \in Nat /\ enrollRun.epoch \in Nat
         /\ files \in OnceFiles /\ files.secret \in Nat /\ files.credential \in Nat
         /\ srv \in OnceServer /\ srv.epoch \in Nat /\ srv.issued \in Nat /\ authFile \in Nat
BY DEF OnceInv, OnceRun, OnceFiles, OnceServer

LEMMA OnceEnds ==
  ASSUME enrollRun \in OnceRun, Once!RunEnds
  PROVE  enrollRun' \in OnceRun /\ enrollRun'.pc = "idle"
BY DEF OnceRun, OncePCs, Once!RunEnds

(* What a step does to the server's generation, the secret and the         *)
(* credential.                                                             *)
LEMMA OnceKeeps ==
  ASSUME StationAssumption, OnceInv, Once!Next
  PROVE  OnceInv' /\ Once!GenerationForward
         /\ (authFile # 0 /\ authFile' = 0 => files.credential = srv.epoch /\ files.secret = srv.epoch)
<1> USE OnceFacts
<1>1. CASE Once!StartSelfEnroll \/ Once!StartRecover
  <2>1. UNCHANGED <<files, srv, authFile>>
    BY <1>1 DEF Once!StartSelfEnroll, Once!StartRecover, Once!LocalUnchanged, Once!ServerUnchanged
  <2>2. enrollRun' \in OnceRun /\ enrollRun'.pc \in {"enroll", "recover"}
    BY <1>1 DEF Once!StartSelfEnroll, Once!StartRecover, OnceRun, OncePCs
  <2> QED
    BY <2>1, <2>2 DEF OnceInv, Once!GenerationForward
<1>2. CASE Once!Enroll \/ Once!Reattach \/ Once!Recover
  <2>1. UNCHANGED <<files, authFile>> /\ enrollRun.pc \in {"enroll", "recover"}
    BY <1>2 DEF Once!Enroll, Once!Reattach, Once!Recover, Once!LocalUnchanged
  <2>2. CASE UNCHANGED srv /\ Once!RunEnds
    BY <2>1, <2>2, OnceEnds DEF OnceInv, Once!GenerationForward
  <2>3. ASSUME srv' \in OnceServer, srv'.epoch = srv.epoch + 1,
               enrollRun' = [enrollRun EXCEPT !.pc = "activate", !.epoch = srv.epoch + 1]
        PROVE  OnceInv' /\ Once!GenerationForward /\ authFile' = authFile
    <3>1. srv.epoch + 1 \in Nat /\ "activate" \in OncePCs
      BY DEF OncePCs
    <3>2. enrollRun' \in OnceRun /\ enrollRun'.pc = "activate" /\ enrollRun'.epoch = srv.epoch + 1
      BY <2>3, <3>1 DEF OnceRun
    <3> QED
      BY <2>1, <2>3, <3>2 DEF OnceInv, Once!GenerationForward
  <2>4. CASE Once!Enroll \/ Once!Reattach
    <3>1. /\ srv' = [srv EXCEPT !.epoch = srv.epoch + 1]
          /\ enrollRun' = [enrollRun EXCEPT !.pc = "activate", !.epoch = srv.epoch + 1]
      <4>1. CASE Once!Enroll
        <5>1. srv.epoch = 0 /\ srv' = [srv EXCEPT !.epoch = 1] /\ enrollRun' = [enrollRun EXCEPT !.pc = "activate", !.epoch = 1]
          BY <4>1 DEF Once!Enroll
        <5>2. srv.epoch + 1 = 1
          BY <5>1
        <5> QED
          BY <5>1, <5>2
      <4>2. CASE Once!Reattach
        BY <4>2 DEF Once!Reattach
      <4> QED
        BY <2>4, <4>1, <4>2
    <3>2. srv' \in OnceServer /\ srv'.epoch = srv.epoch + 1
      BY <3>1 DEF OnceServer
    <3> QED
      BY <2>1, <2>3, <3>1, <3>2
  <2>5. CASE Once!Recover
    <3>1. \/ UNCHANGED srv /\ Once!RunEnds
          \/ /\ srv' = [srv EXCEPT !.epoch = srv.epoch + 1, !.prep[enrollRun.auth] = "COMMITTED",
                                   !.proposed[enrollRun.auth] = srv.epoch + 1]
             /\ enrollRun' = [enrollRun EXCEPT !.pc = "activate", !.epoch = srv.epoch + 1]
      BY <2>5 DEF Once!Recover
    <3>2. ASSUME srv' = [srv EXCEPT !.epoch = srv.epoch + 1, !.prep[enrollRun.auth] = "COMMITTED",
                                    !.proposed[enrollRun.auth] = srv.epoch + 1]
          PROVE  srv' \in OnceServer /\ srv'.epoch = srv.epoch + 1
      <4>1. srv' = [srv EXCEPT !.epoch = srv.epoch + 1, !.prep = [srv.prep EXCEPT ![enrollRun.auth] = "COMMITTED"],
                               !.proposed = [srv.proposed EXCEPT ![enrollRun.auth] = srv.epoch + 1]]
        BY <3>2
      <4>2. /\ [srv.prep EXCEPT ![enrollRun.auth] = "COMMITTED"] \in [Once!Auths -> PrepStates]
            /\ [srv.proposed EXCEPT ![enrollRun.auth] = srv.epoch + 1] \in [Once!Auths -> Nat]
        <5>1. /\ srv.prep \in [Once!Auths -> PrepStates] /\ srv.proposed \in [Once!Auths -> Nat]
              /\ "COMMITTED" \in PrepStates /\ srv.epoch + 1 \in Nat
          BY DEF OnceServer, PrepStates
        <5> QED
          BY <5>1
      <4> DEFINE newPrep == [srv.prep EXCEPT ![enrollRun.auth] = "COMMITTED"]
                 newProposed == [srv.proposed EXCEPT ![enrollRun.auth] = srv.epoch + 1]
      <4>3. srv' = [srv EXCEPT !.epoch = srv.epoch + 1, !.prep = newPrep, !.proposed = newProposed]
        BY <4>1
      <4>4. newPrep \in [Once!Auths -> PrepStates] /\ newProposed \in [Once!Auths -> Nat] /\ srv.epoch + 1 \in Nat
        BY <4>2
      <4> HIDE DEF newPrep, newProposed
      <4> QED
        BY <4>3, <4>4 DEF OnceServer
    <3> QED
      BY <2>1, <2>2, <2>3, <3>1, <3>2
  <2> QED
    BY <1>2, <2>4, <2>5
<1>3. CASE Once!Activate
  <2>1. /\ enrollRun.pc = "activate" /\ UNCHANGED <<srv, authFile>>
        /\ files' = [files EXCEPT !.secret = enrollRun.epoch]
        /\ enrollRun' = [enrollRun EXCEPT !.pc = "identity", !.epoch = enrollRun.epoch]
    BY <1>3 DEF Once!Activate, Once!NewSecret, Once!ServerUnchanged
  <2>2. /\ files' \in OnceFiles /\ files'.secret = enrollRun.epoch /\ files'.credential = files.credential
        /\ enrollRun.epoch = srv.epoch
    BY <2>1 DEF OnceFiles, OnceInv
  <2>3. enrollRun' \in OnceRun /\ enrollRun'.pc = "identity" /\ enrollRun'.epoch = enrollRun.epoch
    BY <2>1 DEF OnceRun, OncePCs
  <2> QED
    BY <2>1, <2>2, <2>3 DEF OnceInv, Once!GenerationForward
<1>4. CASE Once!PersistIdentity \/ Once!PersistManifest
  <2>1. /\ UNCHANGED <<srv, authFile>> /\ enrollRun.pc \in {"identity", "manifest"}
        /\ files' = [files EXCEPT !.identity = TRUE] \/ files' = [files EXCEPT !.manifest = TRUE]
        /\ \/ enrollRun' = [enrollRun EXCEPT !.pc = "manifest"]
           \/ enrollRun' = [enrollRun EXCEPT !.pc = "credential"]
    BY <1>4 DEF Once!PersistIdentity, Once!PersistManifest, Once!ServerUnchanged, Once!Goto
  <2>2. files' \in OnceFiles /\ files'.secret = files.secret /\ files'.credential = files.credential
    BY <2>1 DEF OnceFiles
  <2>3. /\ enrollRun' \in OnceRun /\ enrollRun'.pc \in {"manifest", "credential"}
        /\ enrollRun'.epoch = enrollRun.epoch
    BY <2>1 DEF OnceRun, OncePCs
  <2> QED
    BY <2>1, <2>2, <2>3 DEF OnceInv, Once!GenerationForward
<1>5. CASE Once!PersistCredential
  <2>1. /\ UNCHANGED <<srv, authFile>> /\ enrollRun.pc = "credential"
        /\ files' = [files EXCEPT !.credential = enrollRun.epoch]
        /\ \/ enrollRun' = [enrollRun EXCEPT !.pc = "unlink"]
           \/ enrollRun' = [enrollRun EXCEPT !.pc = "report"]
    BY <1>5 DEF Once!PersistCredential, Once!ServerUnchanged, Once!Goto
  <2>2. files' \in OnceFiles /\ files'.secret = files.secret /\ files'.credential = enrollRun.epoch
    BY <2>1 DEF OnceFiles
  <2>3. /\ enrollRun' \in OnceRun /\ enrollRun'.pc \in {"unlink", "report"}
        /\ enrollRun'.epoch = enrollRun.epoch
    BY <2>1 DEF OnceRun, OncePCs
  <2> QED
    BY <2>1, <2>2, <2>3 DEF OnceInv, Once!GenerationForward
<1>6. CASE Once!UnlinkAuthorization
  <2>1. /\ UNCHANGED <<srv, files>> /\ enrollRun.pc = "unlink" /\ authFile' = 0
        /\ enrollRun' = [enrollRun EXCEPT !.pc = "report"]
    BY <1>6 DEF Once!UnlinkAuthorization, Once!ServerUnchanged, Once!Goto
  <2>2. enrollRun' \in OnceRun /\ enrollRun'.pc = "report" /\ enrollRun'.epoch = enrollRun.epoch
    BY <2>1 DEF OnceRun, OncePCs
  <2> QED
    BY <2>1, <2>2 DEF OnceInv, Once!GenerationForward
<1>7. CASE Once!WriteReport \/ Once!RunFails
  <2>1. UNCHANGED <<srv, files, authFile>> /\ Once!RunEnds
    BY <1>7 DEF Once!WriteReport, Once!RunFails, Once!ServerUnchanged, Once!LocalUnchanged
  <2> QED
    BY <2>1, OnceEnds DEF OnceInv, Once!GenerationForward
<1>8. CASE Once!IssueAuthorization
  <2>1. /\ UNCHANGED <<files, enrollRun>> /\ authFile' = srv.issued + 1
        /\ srv' = [srv EXCEPT !.issued = srv.issued + 1]
    BY <1>8 DEF Once!IssueAuthorization
  <2>2. srv' \in OnceServer /\ srv'.epoch = srv.epoch /\ authFile' \in Nat \ {0}
    BY <2>1 DEF OnceServer
  <2> QED
    BY <2>1, <2>2 DEF OnceInv, Once!GenerationForward
<1>9. CASE Once!AuthorizationExpires \/ Once!PrepareEnds
  <2>1. UNCHANGED <<files, enrollRun, authFile>>
    BY <1>9 DEF Once!AuthorizationExpires, Once!PrepareEnds, Once!LocalUnchanged
  <2>2. PICK a \in 1..srv.issued, how \in {"EXPIRED", "ABORTED"} :
           \/ srv' = [srv EXCEPT !.expired = @ \cup {a}]
           \/ srv' = [srv EXCEPT !.prep[a] = how, !.expired = @ \cup {a}]
    BY <1>9 DEF Once!AuthorizationExpires, Once!PrepareEnds
  <2>3. srv' \in OnceServer /\ srv'.epoch = srv.epoch
    <3>1. srv.expired \cup {a} \in SUBSET Nat /\ [srv.prep EXCEPT ![a] = how] \in [Once!Auths -> PrepStates]
      <4>1. srv.prep \in [Once!Auths -> PrepStates] /\ how \in PrepStates /\ srv.expired \in SUBSET Nat /\ a \in Nat
        BY DEF OnceServer, PrepStates
      <4> QED
        BY <4>1
    <3>2. CASE srv' = [srv EXCEPT !.expired = @ \cup {a}]
      BY <3>1, <3>2 DEF OnceServer
    <3>3. CASE srv' = [srv EXCEPT !.prep[a] = how, !.expired = @ \cup {a}]
      BY <3>1, <3>3 DEF OnceServer
    <3> QED
      BY <2>2, <3>2, <3>3
  <2> QED
    BY <2>1, <2>3 DEF OnceInv, Once!GenerationForward
<1> QED
  BY <1>1, <1>2, <1>3, <1>4, <1>5, <1>6, <1>7, <1>8, <1>9, OnceActions

(* A step of the station is one of the registration tool, or leaves what   *)
(* it keeps alone.                                                         *)
LEMMA EnrollSteps ==
  ASSUME [Next]_vars
  PROVE  /\ part' = part /\ (part = "enroll" => [Enroll!Next]_enrollVars)
         /\ (part = "once" => [Once!Next]_enrollVars)
         /\ (part \notin {"enroll", "once"} => UNCHANGED enrollVars)
BY DEF Next, EnrollStep, OnceStep, ProfileStep, ByHandStep, LifeStep, CatalogStep, OfflineStep, LoginStep,
   UpdateStep, vars, enrollVars

LEMMA EnrollStands ==
  ASSUME EnrollInv, UNCHANGED enrollVars
  PROVE  EnrollInv'
<1>1. ServerSound'
  BY DEF EnrollInv, enrollVars, ServerSound, Done, Live
<1>2. JournalSound'
  BY DEF EnrollInv, enrollVars, JournalSound, Done
<1>3. RunSound' /\ FilesSound'
  BY DEF EnrollInv, enrollVars, RunSound, FilesSound, Whole
<1>4. Enroll!EnrollmentTypeOK' /\ Enroll!SecretKept'
  BY DEF EnrollInv, enrollVars, Enroll!EnrollmentTypeOK, Enroll!SecretKept
<1> QED
  BY <1>1, <1>2, <1>3, <1>4 DEF EnrollInv

LEMMA OnceStands ==
  ASSUME OnceInv, UNCHANGED enrollVars
  PROVE  OnceInv'
BY DEF OnceInv, enrollVars

(* Wherever a registration or a recovery is cut off and taken up again,    *)
(* the secret of the server's generation is on this PC or in the package   *)
(* its journal leads to; COMPLETE is recorded only for that generation; an *)
(* authorization that has ended never commits; one is deleted only when it *)
(* is used; and no run writes an earlier generation over a later one       *)
(* (register_container_audit_worker_pc.py).                                *)
THEOREM RegistrationKept == Spec => EnrollSound
<1> DEFINE PInv == (part = "enroll" => EnrollInv) /\ (part = "once" => OnceInv)
<1>0. FreshPc \in BOOLEAN
  BY StationAssumption DEF StationAssumption, Enroll!EnrollmentAssumption
<1>1. Init => PInv
  BY <1>0, StationAssumption, EnrollStarts, OnceStarts DEF Init
<1>2. PInv /\ [Next]_vars => PInv'
  <2> SUFFICES ASSUME PInv, [Next]_vars PROVE PInv'
    OBVIOUS
  <2>1. CASE part = "enroll"
    <3>1. EnrollInv'
      BY <2>1, StationAssumption, EnrollSteps, EnrollStepKeeps, EnrollStands
    <3> QED
      BY <2>1, <3>1, EnrollSteps
  <2>2. CASE part = "once"
    <3>1. OnceInv'
      BY <2>2, StationAssumption, EnrollSteps, OnceKeeps, OnceStands
    <3> QED
      BY <2>2, <3>1, EnrollSteps
  <2>3. CASE part \notin {"enroll", "once"}
    BY <2>3, EnrollSteps
  <2> QED
    BY <2>1, <2>2, <2>3
<1>3. PInv => (part = "enroll" => Enroll!EnrollmentTypeOK /\ Enroll!SecretKept
                                    /\ Enroll!CompleteMeansActive /\ Enroll!EndedNeverCommits)
  BY StationAssumption, EnrollHolds
<1>4. PInv /\ [Next]_vars => [authFile # 0 /\ authFile' = 0 =>
                                 files.credential = srv.epoch /\ files.secret = srv.epoch]_(Enroll!vars)
  <2>1. (authFile # 0 /\ authFile' = 0 => ~UNCHANGED enrollVars) /\ (UNCHANGED enrollVars => UNCHANGED Enroll!vars)
    BY DEF enrollVars, Enroll!vars
  <2> QED
    BY <2>1, StationAssumption, EnrollSteps, OnlyUsedDeleted, OnceKeeps
<1>5. PInv /\ [Next]_vars => [part = "once" => Once!GenerationForward]_enrollVars
  BY StationAssumption, EnrollSteps, OnceKeeps
<1> QED
  BY <1>1, <1>2, <1>3, <1>4, <1>5, PTL DEF Spec, EnrollSound, Enroll!DeletedWhenUsed
=============================================================================
