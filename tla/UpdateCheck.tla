------------------------------ MODULE UpdateCheck ------------------------------
(***************************************************************************)
(* The search for a newer release at the start of the program              *)
(* (update_service.py and schedule_update_check in Container_Audit.py): a  *)
(* signed manifest or a GitHub release is read in several requests while   *)
(* the publisher may be writing it, and a notice is shown.  Nothing is     *)
(* installed by the program.                                               *)
(***************************************************************************)
EXTENDS Naturals, FiniteSets

CONSTANTS
  Versions, Installed,   \* releases and CURRENT_VERSION, in their order
  Shas,                  \* digests of archives
  Percentages, Buckets,  \* rollout.percentage and rollout_bucket, below 100
  Providers,             \* settings of the provider to consider
  MaxPublished,          \* bound on the publisher's steps
  None

UpdateAssumption ==
  /\ Versions \subseteq Nat /\ Installed \in Versions /\ Buckets \subseteq 0 .. 99
  /\ Percentages \subseteq 0 .. 100 /\ MaxPublished \in Nat /\ None \notin Shas

VARIABLES
  provider, bucket,  \* the setting; this PC's bucket for each version
  open,              \* the program runs
  pc,                \* where its thread is
  got,               \* the manifest or release it has read
  cand,              \* the candidate handed to the window
  shown,             \* the notice
  site,              \* the private server: [manifest, sig]
  hub,               \* GitHub's latest release: [ver, zips, digest]
  sums,              \* the checksum file of each release
  signed, listed,    \* manifests ever signed; <<version, digest>> ever listed
  published          \* the publisher's steps so far

vars == <<provider, bucket, open, pc, got, cand, shown, site, hub, sums, signed, listed, published>>
program == <<open, pc, got, cand, shown>>
publisher == <<site, hub, sums, signed, listed, published>>

Manifest == [ver : Versions, ours : BOOLEAN, proper : BOOLEAN, pct : Percentages, list : {"none", "allow", "deny"}]
Release == [ver : Versions, zips : 0 .. 2, digest : Shas \cup {None}]
NoCandidate == [ver |-> Installed, sha |-> None, by |-> None]

Init ==
  /\ provider \in Providers /\ bucket \in [Versions -> Buckets]
  /\ open = FALSE /\ pc = "idle" /\ got = None /\ cand = NoCandidate /\ shown = NoCandidate
  /\ site = [manifest |-> None, sig |-> None] /\ hub = None /\ sums = [v \in Versions |-> None]
  /\ signed = {} /\ listed = {} /\ published = 0

(* -------------------------------------------------------- the decision -- *)
is_newer_version(v) == v > Installed

(* Refused and admitted PCs first, then the bucket.                        *)
rollout_allows_current_pc(m) ==
  /\ m.list # "deny"
  /\ m.list = "allow" \/ m.pct = 100 \/ (m.pct # 0 /\ bucket[m.ver] < m.pct)

(* m.ours: this program's manifest and channel.  m.proper: the artifact's  *)
(* name, URL, digest, archive and install fields pass their checks.        *)
update_candidate_from_private_manifest(m) ==
  m.ours /\ is_newer_version(m.ver) /\ m.proper /\ rollout_allows_current_pc(m)

(* Mutant: any signature of the publisher's will do.                       *)
MutVerify(m, sig) == sig # None
verify_update_manifest_signature(m, sig) == sig = m

(* One archive named after the tag, and a digest or a checksum file.       *)
find_release_asset_update_info(r) == r.zips = 1 /\ (r.digest # None \/ sums[r.ver] # None)
(* A file with a single line for the archive's name.                       *)
parse_sha256_checksum(text) == IF text \in Shas THEN text ELSE None

(* ---------------------------------------------------------- the thread -- *)
To(p) == pc' = p /\ UNCHANGED <<open, shown>>
Nothing == To("done") /\ UNCHANGED <<got, cand>>
Candidate(v, sha, by) == cand' = [ver |-> v, sha |-> sha, by |-> by] /\ To("prompt") /\ UNCHANGED got
Unpublished == UNCHANGED <<provider, bucket, publisher>>

schedule_update_check ==
  /\ ~open /\ open' = TRUE /\ pc' = "check" /\ got' = None /\ cand' = NoCandidate /\ shown' = NoCandidate
  /\ Unpublished
_check_update_candidate ==
  /\ pc = "check" /\ Unpublished
  /\ IF provider = "private" THEN To("manifest") /\ UNCHANGED <<got, cand>>
     ELSE IF provider = "github" THEN To("release") /\ UNCHANGED <<got, cand>>
     ELSE Nothing
ReadManifest ==
  /\ pc = "manifest" /\ Unpublished
  /\ IF site.manifest = None THEN Nothing
     ELSE got' = site.manifest /\ To("signature") /\ UNCHANGED cand
_check_private_manifest_for_updates ==
  /\ pc = "signature" /\ Unpublished
  /\ IF verify_update_manifest_signature(got, site.sig) /\ update_candidate_from_private_manifest(got)
     THEN Candidate(got.ver, None, "private") ELSE Nothing
ReadRelease ==
  /\ pc = "release" /\ Unpublished
  /\ IF hub = None THEN Nothing
     ELSE IF is_newer_version(hub.ver) /\ find_release_asset_update_info(hub)
     THEN got' = hub /\ To("checksum") /\ UNCHANGED cand ELSE Nothing
_check_github_release_for_updates ==
  /\ pc = "checksum" /\ Unpublished
  /\ LET sha == IF got.digest # None THEN got.digest ELSE parse_sha256_checksum(sums[got.ver])
     IN  IF sha = None THEN Nothing ELSE Candidate(got.ver, sha, "github")
(* A request that fails or times out ends the search.                      *)
RequestFails == pc \in {"manifest", "signature", "release", "checksum"} /\ Nothing /\ Unpublished
(* parent.after(0, ...): shown by the Tk thread while the window is there. *)
_prompt_and_apply_update ==
  /\ pc = "prompt" /\ open /\ pc' = "done" /\ shown' = cand /\ UNCHANGED <<open, got, cand>> /\ Unpublished
Close == open /\ open' = FALSE /\ pc' = "idle" /\ UNCHANGED <<got, cand, shown>> /\ Unpublished

(* ------------------------------------------------------- the publisher -- *)
Publish == published < MaxPublished /\ published' = published + 1 /\ UNCHANGED <<provider, bucket, program>>
(* The manifest and its signature are two files, written one by one.       *)
Upload(m) == Publish /\ site' = [site EXCEPT !.manifest = m] /\ UNCHANGED <<hub, sums, signed, listed>>
Sign ==
  /\ Publish /\ site.manifest # None /\ site' = [site EXCEPT !.sig = site.manifest]
  /\ signed' = signed \cup {site.manifest} /\ UNCHANGED <<hub, sums, listed>>
Tag(r) ==
  /\ Publish /\ hub' = r /\ UNCHANGED <<site, sums, signed>>
  /\ listed' = IF r.digest = None THEN listed ELSE listed \cup {<<r.ver, r.digest>>}
PutSum(v, text) ==
  /\ Publish /\ sums' = [sums EXCEPT ![v] = text] /\ UNCHANGED <<site, hub, signed>>
  /\ listed' = IF text \in Shas THEN listed \cup {<<v, text>>} ELSE listed

Step ==
  \/ _check_update_candidate \/ ReadManifest \/ _check_private_manifest_for_updates
  \/ ReadRelease \/ _check_github_release_for_updates \/ _prompt_and_apply_update
Next ==
  \/ schedule_update_check \/ Step \/ RequestFails \/ Close
  \/ provider = "private" /\ ((\E m \in Manifest : Upload(m)) \/ Sign)
  \/ provider = "github" /\ \/ \E r \in Release : Tag(r)
                            \/ \E v \in Versions, text \in Shas \cup {"two"} : PutSum(v, text)

Spec == Init /\ [][Next]_vars

(* ----------------------------------------------------------- properties -- *)
(* A notice names a newer release that the publisher really announced: a   *)
(* manifest signed as it was read, for this PC, or an archive with exactly *)
(* one digest listed for it; files read half written give none             *)
(* (_check_update_candidate).                                              *)
NoticeVouched ==
  shown # NoCandidate =>
    /\ shown.ver > Installed
    /\ shown.by = "private" => \E m \in signed : m.ver = shown.ver /\ update_candidate_from_private_manifest(m)
    /\ shown.by = "github" => <<shown.ver, shown.sha>> \in listed
================================================================================
