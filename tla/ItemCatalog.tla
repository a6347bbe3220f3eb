----------------------------- MODULE ItemCatalog -----------------------------
(***************************************************************************)
(* The item catalogue (item_catalog_sync.py, kmtech_shared/catalog.py and  *)
(* its use in Container_Audit.py): fetched at start and from the menu,     *)
(* kept on disk with an authority record made with the PC's token, and     *)
(* taken from disk again when the server cannot be reached.  Each file is  *)
(* written atomically, the three of them one after the other.              *)
(***************************************************************************)
EXTENDS Naturals, Sequences, FiniteSets

CONSTANTS
  MaxVersion,     \* versions of the catalogue the server issues (bound)
  MaxToken,       \* tokens the PC is enrolled with (bound)
  OtherUrl,       \* BOOLEAN: an unenrolled PC is given the address of another server
  FaultKinds, MaxFaults

CatalogAssumption ==
  /\ MaxVersion \in Nat \ {0} /\ MaxToken \in Nat \ {0} /\ MaxFaults \in Nat /\ OtherUrl \in BOOLEAN

VARIABLES
  disk,      \* the catalogue, its authority, the recovery file and the last good copy
  token,     \* the profile's token; 0: no profile, Broken: it cannot be loaded
  central,   \* the version the server issues
  app,       \* the program: up, the items in memory and under which token
  op,        \* the refresh that is under way
  issued,    \* versions the server gave out, by token (ghost)
  best,      \* the newest version used, by token (ghost)
  done,      \* tokens under which a refresh has been completed (ghost)
  faults

vars == <<disk, token, central, app, op, issued, best, done, faults>>

Broken == MaxToken + 1
Versions == 1..MaxVersion
Tokens == 1..MaxToken
Bundled == 0
Absent == [v |-> 0, t |-> 0]
Bad == [v |-> 0, t |-> Broken]
Content(v, t) == [v |-> v, t |-> t]
Files == {"cache", "authority", "recovery", "last"}
Idle == [pc |-> "idle", menu |-> FALSE, v |-> 0, todo |-> <<>>]
Off == [up |-> FALSE, items |-> Bundled, t |-> 0, why |-> "none"]

Init ==
  /\ disk = [f \in Files |-> Absent] /\ token \in {0, 1} /\ central = 1
  /\ app = Off /\ op = Idle /\ faults = 0
  /\ issued = [t \in Tokens |-> {}] /\ best = [t \in Tokens |-> 0] /\ done = {}

Mishap(kind) == kind \in FaultKinds /\ faults < MaxFaults /\ faults' = faults + 1
Smooth == faults' = faults
Enrolled == token \in Tokens

(* ---------------------------------------------- what the files are worth -- *)
(* The authority record covers the payload and the token it was made with. *)
_is_valid_catalog == disk["cache"] \notin {Absent, Bad}
is_valid_authenticated_payload(v, a) == a.v = v /\ a.t = token
_read_authenticated_cache_payload ==
  /\ Enrolled /\ _is_valid_catalog
  /\ is_valid_authenticated_payload(disk["cache"].v, disk["authority"])
_read_authenticated_recovery_payload ==
  Enrolled /\ disk["recovery"].v # 0 /\ is_valid_authenticated_payload(disk["recovery"].v, disk["recovery"])
Fallback == IF _is_valid_catalog THEN disk["cache"].v ELSE Bundled

(* ------------------------------------------------------------- refresh -- *)
Begin(menu) == op' = [Idle EXCEPT !.pc = "profile", !.menu = menu]
Start ==
  /\ ~app.up /\ op.pc = "idle" /\ Begin(FALSE) /\ app' = Off /\ Smooth
  /\ UNCHANGED <<disk, token, central, issued, best, done>>
(* The menu asks again between two trays.                                  *)
_refresh_item_catalog ==
  /\ app.up /\ op.pc = "idle" /\ Begin(TRUE) /\ Smooth
  /\ UNCHANGED <<disk, token, central, app, issued, best, done>>

Use(v, t) == app' = [up |-> TRUE, items |-> v, t |-> t, why |-> "none"]
Refuse(why) == app' = IF op.menu THEN app ELSE [Off EXCEPT !.why = why]
Used(v) == best' = IF Enrolled /\ v > best[token] THEN [best EXCEPT ![token] = v] ELSE best

_load_item_catalog_logistics_profile ==
  /\ op.pc = "profile" /\ Smooth
  /\ \/ token = Broken /\ op' = Idle /\ Refuse("profile")
     \/ /\ token = 0 /\ ~OtherUrl /\ op' = Idle
        /\ IF op.menu THEN UNCHANGED app ELSE Use(Fallback, 0)
     \/ (Enrolled \/ (token = 0 /\ OtherUrl)) /\ op' = [op EXCEPT !.pc = "get"] /\ UNCHANGED app
  /\ UNCHANGED <<disk, token, central, issued, best, done>>

(* Mutant: the recovery file is written last.                              *)
MutWrites(v, t) ==
  << <<"cache", Content(v, 0)>>, <<"authority", Content(v, t)>>, <<"recovery", Content(v, t)>>,
     <<"last", Absent>> >>

_write_authenticated_cache(v, t) ==
  << <<"recovery", Content(v, t)>>, <<"cache", Content(v, 0)>>, <<"authority", Content(v, t)>>,
     <<"last", Absent>> >>
WriteUnauthenticated(v) ==
  << <<"authority", Absent>>, <<"recovery", Absent>>, <<"last", Absent>>, <<"cache", Content(v, 0)>> >>

_hardened_get ==
  /\ op.pc = "get"
  /\ \/ /\ Smooth
        /\ op' = [op EXCEPT !.pc = "write", !.v = central,
                    !.todo = IF Enrolled THEN _write_authenticated_cache(central, token)
                                         ELSE WriteUnauthenticated(central)]
        /\ issued' = IF Enrolled THEN [issued EXCEPT ![token] = @ \cup {central}] ELSE issued
     \/ Mishap("get") /\ op' = [op EXCEPT !.pc = "except"] /\ UNCHANGED issued
  /\ UNCHANGED <<disk, token, central, app, best, done>>

_atomic_write ==
  /\ op.pc = "write" /\ op.todo # <<>>
  /\ \/ /\ Smooth /\ disk' = [disk EXCEPT ![Head(op.todo)[1]] = Head(op.todo)[2]]
        /\ op' = [op EXCEPT !.todo = Tail(@)]
     \/ Mishap("write") /\ op' = [op EXCEPT !.pc = "except", !.todo = <<>>] /\ UNCHANGED disk
  /\ UNCHANGED <<token, central, app, issued, best, done>>

(* The list in memory is replaced in one step, by what was just received.  *)
_remember_verified_catalog_snapshot ==
  /\ op.pc = "write" /\ op.todo = <<>> /\ Smooth
  /\ op' = Idle /\ Use(op.v, token) /\ Used(op.v)
  /\ done' = IF Enrolled THEN done \cup {token} ELSE {}
  /\ UNCHANGED <<disk, token, central, issued>>

(* The request or a write has failed: at the start the disk is fallen back *)
(* on, from the menu the items in memory are kept.                         *)
VerifiedCache ==
  /\ op.pc = "except" /\ _read_authenticated_cache_payload /\ Smooth
  /\ op' = Idle
  /\ IF op.menu THEN UNCHANGED <<app, best>> ELSE Use(disk["cache"].v, token) /\ Used(disk["cache"].v)
  /\ UNCHANGED <<disk, token, central, issued, done>>

_recover_authenticated_cache ==
  /\ op.pc = "except" /\ ~_read_authenticated_cache_payload /\ _read_authenticated_recovery_payload
  /\ \/ /\ Smooth /\ disk' = [disk EXCEPT !["last"] = Content(disk["recovery"].v, 0)]
        /\ IF op.menu THEN UNCHANGED <<app, best>>
                      ELSE Use(disk["recovery"].v, token) /\ Used(disk["recovery"].v)
     \/ /\ Mishap("write") /\ disk["last"] # Content(disk["recovery"].v, 0)
        /\ Refuse("no_cache") /\ UNCHANGED <<disk, best>>
  /\ op' = Idle /\ UNCHANGED <<token, central, issued, done>>

NoCache ==
  /\ op.pc = "except" /\ Enrolled /\ Smooth
  /\ ~_read_authenticated_cache_payload /\ ~_read_authenticated_recovery_payload
  /\ op' = Idle /\ Refuse("no_cache")
  /\ UNCHANGED <<disk, token, central, issued, best, done>>

LocalCache ==
  /\ op.pc = "except" /\ token = 0 /\ Smooth
  /\ op' = Idle /\ IF op.menu THEN UNCHANGED app ELSE Use(Fallback, 0)
  /\ UNCHANGED <<disk, token, central, issued, best, done>>

----------------------------------------------------------------------------
(* ------------------------------------------------------ surroundings ---- *)
Publish ==
  /\ central < MaxVersion /\ central' = central + 1 /\ Smooth
  /\ UNCHANGED <<disk, token, app, op, issued, best, done>>
(* The profile is made, replaced, removed or damaged while the program is  *)
(* not running; a token is never used again.                               *)
Enroll ==
  /\ ~app.up /\ op.pc = "idle" /\ Smooth
  /\ LET old == {t \in Tokens : issued[t] # {}} IN
     \/ \E t \in Tokens : (\A u \in old \cup ({token} \cap Tokens) : t > u) /\ token' = t
     \/ token' = 0 /\ token # 0
  /\ UNCHANGED <<disk, central, app, op, issued, best, done>>
Close ==
  /\ app.up /\ op.pc = "idle" /\ app' = Off /\ Smooth
  /\ UNCHANGED <<disk, token, central, op, issued, best, done>>
Crash ==
  /\ (app.up \/ op.pc # "idle") /\ Mishap("crash") /\ app' = Off /\ op' = Idle
  /\ UNCHANGED <<disk, token, central, issued, best, done>>
Damage ==
  /\ Mishap("damage")
  /\ \E f \in Files : disk[f] # Absent /\ disk' = [disk EXCEPT ![f] = Bad]
  /\ UNCHANGED <<token, central, app, op, issued, best, done>>
BreakProfile ==
  /\ Mishap("profile") /\ ~app.up /\ op.pc = "idle" /\ token' = Broken
  /\ UNCHANGED <<disk, central, app, op, issued, best, done>>

Next ==
  \/ Start \/ _refresh_item_catalog \/ _load_item_catalog_logistics_profile \/ _hardened_get
  \/ _atomic_write \/ _remember_verified_catalog_snapshot
  \/ VerifiedCache \/ _recover_authenticated_cache \/ NoCache \/ LocalCache
  \/ Publish \/ Enroll \/ Close \/ Crash \/ Damage \/ BreakProfile
Spec == Init /\ [][Next]_vars

----------------------------------------------------------------------------
(* Types; only the catalogue itself is a file without a token.             *)
CatalogTypeOK ==
  /\ \A f \in Files : disk[f] = Bad \/ (disk[f].v \in 0..MaxVersion /\ disk[f].t \in 0..MaxToken)
  /\ disk["cache"].t \in {0, Broken}
  /\ token \in 0..Broken /\ central \in Versions
  /\ app.items \in 0..MaxVersion /\ app.t \in 0..MaxToken
  /\ op.v \in 0..MaxVersion /\ Len(op.todo) <= 4 /\ faults \in 0..MaxFaults

(* An enrolled PC works with a list that the server gave to it under its   *)
(* present token, whichever files the list was put together from.          *)
FromTheServer == app.up /\ app.t # 0 => app.t = token /\ app.items \in issued[app.t]

(* Under one token no start goes back to a list older than one that was    *)
(* already in use, wherever the writing of a newer one was interrupted.    *)
NoRollback == app.up /\ app.t # 0 => app.items = best[app.t]

(* Once a refresh has been completed under a token, a list that a start    *)
(* without the server accepts is on the disk at every moment, wherever the *)
(* writing of a later one was cut short.                                   *)
ListKept == token \in done => _read_authenticated_cache_payload \/ _read_authenticated_recovery_payload

CatalogSound == CatalogTypeOK /\ FromTheServer /\ NoRollback
=============================================================================
