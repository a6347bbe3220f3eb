------------------------------- MODULE Station -------------------------------
(***************************************************************************)
(* How a station is set up and kept: its enrollment, the logistics profile *)
(* on its disk, the life of the program and its relays for the user who is *)
(* logged on, the item catalog, the supervisor login and the notice of an  *)
(* update.  They share no variable, so one run checks them: `part` is      *)
(* picked at the start, and only that component moves.  The enrollment is  *)
(* there in both protocols, the profile under the tools and installed by   *)
(* hand, the catalog with files that are damaged, and without.             *)
(***************************************************************************)
EXTENDS Naturals, FiniteSets, TLC

CONSTANTS
  u1, u2, k1, k2, ca1, ca2, None,                            \* model values
  FreshPc, MaxAuths, MaxFails, MaxEnds,                        \* of the enrollment
  Values, CAs, ProfTokens, ProfFaultKinds, MaxProfFaults,    \* of the profile
  Relays, LifeFaultKinds, MaxLifeFaults,                     \* of the user's lifecycle
  MaxVersion, MaxToken, OtherUrl, CatFaultKinds, MaxCatFaults,   \* of the catalog
  Codes, Names, LoginFaultKinds, MaxLoginFaults,             \* of the supervisor login
  AppVersions, Installed, Shas, Percentages, Buckets, Providers, MaxPublished   \* of updates

VARIABLES
  part,
  journal, archived, package, authFile, files, enrollReport, srv, enrollRun, fails, ends,
  profDisk, profTool, profIssued, profOutcome, reader, loaded, profFaults,
  owner, lifeRun, stop, gate, gui, lifeTool, relays, lease, lifeReport, lifeFaults,
  catDisk, token, central, app, op, catIssued, best, done, catFaults,
  file, temp, loginTool, loginOutcome, entry, flag, worker, role, reg, proof, loginFaults,
  provider, bucket, open, pc, got, cand, shown, site, hub, sums, signed, listed, published

Enroll == INSTANCE Enrollment WITH
  Modes <- {"two"}, Fresh <- FreshPc, PromptPrepare <- FALSE, report <- enrollReport, run <- enrollRun
Once == INSTANCE Enrollment WITH
  Modes <- {"self", "recover"}, Fresh <- FreshPc, PromptPrepare <- FALSE, report <- enrollReport, run <- enrollRun
Profile == INSTANCE ProfileInstall WITH
  Tokens <- ProfTokens, Ops <- {"enroll", "recover", "upgrade"}, FaultKinds <- ProfFaultKinds,
  MaxFaults <- MaxProfFaults, disk <- profDisk, tool <- profTool, issued <- profIssued,
  outcome <- profOutcome, faults <- profFaults
ByHand == INSTANCE ProfileInstall WITH
  Tokens <- ProfTokens, Ops <- {"install", "replace", "recover"}, FaultKinds <- ProfFaultKinds,
  MaxFaults <- MaxProfFaults, disk <- profDisk, tool <- profTool, issued <- profIssued,
  outcome <- profOutcome, faults <- profFaults
Life == INSTANCE UserLifecycle WITH
  FaultKinds <- LifeFaultKinds, MaxFaults <- MaxLifeFaults, run <- lifeRun,
  tool <- lifeTool, report <- lifeReport, faults <- lifeFaults
Catalog == INSTANCE ItemCatalog WITH
  FaultKinds <- CatFaultKinds, MaxFaults <- MaxCatFaults, disk <- catDisk,
  issued <- catIssued, faults <- catFaults
Login == INSTANCE AdminLogin WITH
  FaultKinds <- LoginFaultKinds, MaxFaults <- MaxLoginFaults, tool <- loginTool,
  outcome <- loginOutcome, faults <- loginFaults
Update == INSTANCE UpdateCheck WITH Versions <- AppVersions

enrollVars == <<journal, archived, package, authFile, files, enrollReport, srv,
                enrollRun, fails, ends>>
profVars == <<profDisk, profTool, profIssued, profOutcome, reader, loaded, profFaults>>
lifeVars == <<owner, lifeRun, stop, gate, gui, lifeTool, relays, lease, lifeReport,
              lifeFaults>>
catVars == <<catDisk, token, central, app, op, catIssued, best, done, catFaults>>
loginVars == <<file, temp, loginTool, loginOutcome, entry, flag, worker, role, reg,
               proof, loginFaults>>
updVars == <<provider, bucket, open, pc, got, cand, shown, site, hub, sums, signed,
             listed, published>>
vars == <<part, enrollVars, profVars, lifeVars, catVars, loginVars, updVars>>

ASSUME StationAssumption ==
       Enroll!EnrollmentAssumption /\ Once!EnrollmentAssumption /\ Profile!ProfileAssumption /\
       ByHand!ProfileAssumption /\ Life!LifecycleAssumption /\ Catalog!CatalogAssumption /\
       Login!LoginAssumption /\ Update!UpdateAssumption

Init ==
  /\ part \in {"enroll", "once", "profile", "by hand", "life", "catalog", "offline", "login", "update"}
  /\ \/ part \notin {"once"} /\ Enroll!Init
     \/ part = "once" /\ Once!Init
  /\ \/ part # "by hand" /\ Profile!Init
     \/ part = "by hand" /\ ByHand!Init
  /\ Life!Init
  /\ Catalog!Init
  /\ Login!Init
  /\ Update!Init
  /\ part \notin {"catalog", "offline"} => token = 0
  /\ part # "life" => owner = "absent"
  /\ part # "login" => reg = {}
  /\ part # "update" => provider = "off" /\ bucket = [v \in AppVersions |-> CHOOSE b \in Buckets : TRUE]

(* A step of the part that was picked; the others stay as they begin.      *)
EnrollStep == part = "enroll" /\ Enroll!Next /\ UNCHANGED <<part, profVars, lifeVars,
              catVars, loginVars, updVars>>
OnceStep == part = "once" /\ Once!Next /\ UNCHANGED <<part, profVars, lifeVars, catVars,
            loginVars, updVars>>
ProfileStep == part = "profile" /\ Profile!Next /\ UNCHANGED <<part, enrollVars,
               lifeVars, catVars, loginVars, updVars>>
ByHandStep == part = "by hand" /\ ByHand!Next /\ UNCHANGED <<part, enrollVars, lifeVars,
              catVars, loginVars, updVars>>
LifeStep == part = "life" /\ Life!Next /\ UNCHANGED <<part, enrollVars, profVars,
            catVars, loginVars, updVars>>
CatalogStep == part = "catalog" /\ Catalog!Next /\ UNCHANGED <<part, enrollVars,
               profVars, lifeVars, loginVars, updVars>>
OfflineStep == part = "offline" /\ Catalog!Next /\ ~Catalog!Damage /\ UNCHANGED <<part,
               enrollVars, profVars, lifeVars, loginVars, updVars>>
LoginStep == part = "login" /\ Login!Next /\ UNCHANGED <<part, enrollVars, profVars,
             lifeVars, catVars, updVars>>
UpdateStep == part = "update" /\ Update!Next /\ UNCHANGED <<part, enrollVars, profVars,
              lifeVars, catVars, loginVars>>

Next == EnrollStep \/ OnceStep \/ ProfileStep \/ ByHandStep \/ LifeStep \/ CatalogStep
        \/ OfflineStep \/ LoginStep \/ UpdateStep
Spec == Init /\ [][Next]_vars

------------------------------------------------------------------------------
(* The secret of a generation the server has switched to is on this PC or  *)
(* in the package its journal leads to, COMPLETE is recorded only for the  *)
(* server's generation, an authorization that has ended never commits, one *)
(* is deleted only when it is used, and no resumed run goes back to an     *)
(* earlier generation (register_container_audit_worker_pc.py).             *)
EnrollSound ==
  /\ [](part = "enroll" => Enroll!EnrollmentTypeOK /\ Enroll!SecretKept
                            /\ Enroll!CompleteMeansActive /\ Enroll!EndedNeverCommits)
  /\ Enroll!DeletedWhenUsed
  /\ [][part = "once" => Once!GenerationForward]_enrollVars

(* Under the registration tools a logistics profile that is on the disk    *)
(* can be loaded at every moment, a program never works with values and a  *)
(* token not issued together, and a failure that is reported has left the  *)
(* files as they were.  By hand, with the replacing of one profile by      *)
(* another, a profile stops loading only where a failed replacement is     *)
(* undone, and after a failure that is reported either nothing loads or    *)
(* what was there before does (install_runtime_profile,                    *)
(* ensure_runtime_profile_from_enrollment_bundle).                         *)
ProfileSound ==
  /\ [](part = "profile" => Profile!ProfileTypeOK /\ Profile!PresentLoads /\ Profile!IssuedTogether)
  /\ [][part = "profile" => Profile!FailureUndone]_profVars
  /\ [][part = "by hand" => ByHand!StaysLoadable /\ ByHand!FailsClosed]_profVars

(* A removal that reported success, and a restoration that failed and      *)
(* reports that it contained itself, leave no relay that sends or will     *)
(* begin to (current_user_onboarding.py, user_relay.py).                   *)
LifeSound == part = "life" => Life!LifeSound

(* The catalog in use was given by the server under the present token and  *)
(* is not older than one in use before; and while no file is damaged, once *)
(* a refresh was completed under a token the files always hold a list that *)
(* a start without the server can use (item_catalog_sync.py).              *)
CatalogSound ==
  /\ part = "catalog" => Catalog!CatalogSound
  /\ part = "offline" => Catalog!ListKept

(* Whoever has a supervisor's rights has given the code valid then, no     *)
(* code is kept as a worker's name, a change of the code that failed left  *)
(* the former one, and a verifier is only in a file whose access is        *)
(* narrowed (protected_admin.py, container_admin_pin.py).                  *)
SupervisorProved == part = "login" =>
  /\ Login!LoginTypeOK /\ Login!SupervisorProved /\ Login!NoCodeAsName
  /\ Login!FailedGrantsNothing /\ Login!VerifierGuarded

(* A notice names a newer release the publisher really announced: by a     *)
(* manifest signed as it was read, for this PC, or by an archive with one  *)
(* digest listed (_check_update_candidate, update_service.py).             *)
NoticeVouched == part = "update" => Update!NoticeVouched

Symmetric == Permutations({u1, u2}) \cup Permutations({k1, k2})
==============================================================================
