----------------------------- MODULE LeaseKeyring -----------------------------
(***************************************************************************)
(* The public keys of the server that signs operation leases, pinned on    *)
(* the terminal from authenticated answers (PinnedOperationLeaseKeyring),  *)
(* and the leases accepted and used with them (OperationLeaseManager,      *)
(* TransferSealCoordinator.prepare).  A keyring is a set of <<kid, key>>.  *)
(***************************************************************************)
EXTENDS Integers, FiniteSets

CONSTANTS
  Leases, Sites, Kids, Materials,
  MaxKeys,               \* MAX_PUBLIC_KEYS
  Life,                  \* from issued_at to expires_at
  Skew,                  \* how far the server's clock may be ahead
  MaxTime, MaxReplies,   \* bounds of the model
  FaultKinds, MaxFaults,
  None

ASSUME KeyringAssumption ==
  /\ MaxKeys \in Nat \ {0} /\ Life \in Nat \ {0} /\ Skew \in Nat
  /\ MaxTime \in Nat /\ MaxReplies \in Nat /\ MaxFaults \in Nat
  /\ None \notin Leases \cup Sites \cup Kids

VARIABLES
  pins,     \* operation_lease_keyring.json: [state, site, ring, cur]
  store,    \* leases saved as usable: tokens
  receipts, \* durable exchange receipts whose successor has been verified
  ended,    \* leases recorded as not active
  done,     \* recorded completions: [lease, at]
  job,      \* what the coordinator's thread is at: [kind, pc, art, at]
  said,     \* why the last answer was refused
  central,  \* the server's keyring: [site, ring, cur]
  ever,     \* every key the server had, by site: <<site, kid, key>>
  tokens,   \* leases it signed
  sent,     \* answers it gave
  now, faults

vars == <<pins, store, receipts, ended, done, job, said, central, ever, tokens, sent, now, faults>>
terminal == <<pins, store, receipts, ended, done, job, said>>
server == <<central, ever, tokens, sent>>

Rings == SUBSET (Kids \X Materials)
Token == [lease : Leases, site : Sites, kid : Kids, key : Materials, at : Nat]
Artifact == [tok : Token, ring : Rings, cur : Kids, status : {"ACTIVE", "RELEASED"}]
Unpinned == [state |-> "none", site |-> None, ring |-> {}, cur |-> None]
Idle == [kind |-> "none", pc |-> "none", art |-> None, at |-> 0]

Init ==
  /\ pins = Unpinned /\ store = {} /\ receipts = {} /\ ended = {} /\ done = {}
  /\ job = Idle /\ said = "" /\ tokens = {} /\ sent = {} /\ now = 0 /\ faults = 0
  /\ \E s \in Sites, k \in Kids, m \in Materials :
       /\ central = [site |-> s, ring |-> {<<k, m>>}, cur |-> k]
       /\ ever = {<<s, k, m>>}

(* ------------------------------------------------------------ checking -- *)
(* No kid twice, no key twice, one current key, at most MAX_PUBLIC_KEYS.   *)
normalize_keyring(ring, cur) ==
  /\ \A p, q \in ring : p[1] = q[1] <=> p[2] = q[2]
  /\ \E p \in ring : p[1] = cur
  /\ Cardinality(ring) <= MaxKeys
(* The signature is the key's that the kid stands for.                     *)
verify_jws(tok, ring) == <<tok.kid, tok.key>> \in ring
(* The time is the last thing looked at.                                   *)
InTime(tok, at) == tok.at <= at /\ at < tok.at + Life
validate_artifact(a, at, allowExpired) ==
  /\ normalize_keyring(a.ring, a.cur)
  /\ verify_jws(a.tok, a.ring)
  /\ a.tok.at <= at /\ (allowExpired \/ InTime(a.tok, at))

_load == pins.state = "ok"

(* Mutant: a key that is missing in the answer is forgotten.               *)
MutMerged(a) == a.ring
Merged(a) == pins.ring \cup a.ring
Clashes(a) == \E p \in pins.ring, q \in a.ring : (p[1] = q[1]) # (p[2] = q[2])
CapacityExceeded(a) == ~(Cardinality(Merged(a)) <= MaxKeys)

(* Why the answer's keys cannot be pinned, "" when they can.               *)
bootstrap_authenticated(a) ==
  IF pins.state = "damaged" THEN "file"
  ELSE IF pins.state = "ok" /\ pins.site # a.tok.site THEN "site"
  ELSE IF Clashes(a) THEN "rebound"
  ELSE IF CapacityExceeded(a) THEN "full" ELSE ""

(* Temporary file, fsync, replace: the old pins or the new ones.           *)
_atomic_write(a) ==
  pins' = [state |-> "ok", site |-> a.tok.site, ring |-> Merged(a), cur |-> a.cur]

(* PinnedOperationLeaseKeyring.verify once the artifact agrees with itself. *)
Pinned(tok) == _load /\ pins.site = tok.site /\ verify_jws(tok, pins.ring)
verify(a, at, allowExpired) == validate_artifact(a, at, allowExpired) /\ Pinned(a.tok)

(* ----------------------------------------------------------- accepting -- *)
Smooth == faults' = faults
To(kind, pc, a, at) == job' = [kind |-> kind, pc |-> pc, art |-> a, at |-> at]
Refuse(why) == said' = why /\ job' = Idle /\ UNCHANGED <<pins, store, receipts, ended, done>>

(* The answer is checked against itself and its keys are pinned.           *)
Begin(kind, a) ==
  /\ job = Idle /\ Smooth /\ UNCHANGED <<server, now>>
  /\ LET why == bootstrap_authenticated(a)
     IN  IF ~validate_artifact(a, now, kind = "ended") THEN Refuse("artifact")
         ELSE IF why # "" THEN Refuse(why)
         ELSE /\ _atomic_write(a) /\ To(kind, "verify", a, 0) /\ said' = ""
              /\ UNCHANGED <<store, receipts, ended, done>>

accept_authenticated(a) == a \in sent /\ a.status = "ACTIVE" /\ Begin("issue", a)
accept_authenticated_nonactive(a) == a \in sent /\ a.status # "ACTIVE" /\ Begin("ended", a)
(* The successor in an exchange's receipt, when the receipt arrives and    *)
(* again when the exchange is recorded locally.                            *)
verify_authenticated(a) == a \in sent /\ a.status = "ACTIVE" /\ Begin("receipt", a)
accept_rotation(a) == a \in receipts /\ Begin("rotation", a)

(* The pins are read back and the lease is verified with them and saved.   *)
Save ==
  /\ job.pc = "verify" /\ Smooth /\ UNCHANGED <<server, now>>
  /\ LET a == job.art
     IN  IF ~verify(a, now, job.kind = "ended") THEN Refuse("verify")
         ELSE /\ store' = IF job.kind \in {"issue", "rotation"} THEN store \cup {a} ELSE store
              /\ receipts' = IF job.kind = "receipt" THEN receipts \cup {a} ELSE receipts
              /\ ended' = IF job.kind = "ended" THEN ended \cup {a.tok.lease} ELSE ended
              /\ job' = Idle /\ said' = "" /\ UNCHANGED <<pins, done>>

(* --------------------------------------------------------------- using -- *)
DoneAt(l) == {d.at : d \in {e \in done : e.lease = l}}
(* verify_stored: at the time of the recorded completion, or now.          *)
verify_stored(a) == \A at \in IF DoneAt(a.tok.lease) = {} THEN {now} ELSE DoneAt(a.tok.lease) : verify(a, at, FALSE)

prepare(a) ==
  /\ job = Idle /\ a \in store /\ a.tok.lease \notin ended /\ Smooth /\ UNCHANGED <<server, now>>
  /\ IF ~verify_stored(a) THEN Refuse("verify")
     ELSE To("prepare", "time", a, 0) /\ said' = "" /\ UNCHANGED <<pins, store, receipts, ended, done>>

(* The time of completion is read before the second verification.          *)
TakeTime ==
  /\ job.pc = "time" /\ Smooth /\ UNCHANGED <<server, now>>
  /\ To("prepare", "record", job.art, now) /\ UNCHANGED <<pins, store, receipts, ended, done, said>>

(* Mutant: the time is read when the completion is recorded.               *)
MutRecord ==
  /\ job.pc = "record" /\ Smooth /\ UNCHANGED <<server, now>>
  /\ job' = Idle /\ said' = ""
  /\ done' = IF DoneAt(job.art.tok.lease) = {} THEN done \cup {[lease |-> job.art.tok.lease, at |-> now]} ELSE done
  /\ UNCHANGED <<pins, store, receipts, ended>>

record_local_completion ==
  /\ job.pc = "record" /\ Smooth /\ UNCHANGED <<server, now>>
  /\ LET l == job.art.tok.lease
     IN  IF ~verify_stored(job.art) THEN Refuse("verify")
         ELSE /\ done' = IF DoneAt(l) = {} THEN done \cup {[lease |-> l, at |-> job.at]} ELSE done
              /\ job' = Idle /\ said' = "" /\ UNCHANGED <<pins, store, receipts, ended>>

(* --------------------------------------------------------- environment -- *)
Mishap(kind) == kind \in FaultKinds /\ faults < MaxFaults /\ faults' = faults + 1

(* A new key becomes the current one; any of the older ones may be retired.*)
Rotate(k, m, kept) ==
  /\ \A e \in ever : e[2] # k /\ e[3] # m
  /\ central' = [central EXCEPT !.ring = kept \cup {<<k, m>>}, !.cur = k]
  /\ ever' = ever \cup {<<central.site, k, m>>}
  /\ Smooth /\ UNCHANGED <<terminal, tokens, sent, now>>
(* Another server, or the same one set up anew: a kid may stand for another*)
(* key.                                                                    *)
Reinstall(s, k, m) ==
  /\ Mishap("server") /\ central' = [site |-> s, ring |-> {<<k, m>>}, cur |-> k]
  /\ ever' = ever \cup {<<s, k, m>>} /\ UNCHANGED <<terminal, tokens, sent, now>>
(* An answer carries the keyring of its own moment; it may be lost, or kept*)
(* and looked at later.                                                    *)
Answer(t, status) ==
  /\ Cardinality(sent) < MaxReplies
  /\ sent' = sent \cup {[tok |-> t, ring |-> central.ring, cur |-> central.cur, status |-> status]}
  /\ Smooth /\ UNCHANGED <<terminal, central, ever, now>>
Issue(l) ==
  /\ \A t \in tokens : t.lease # l
  /\ \E p \in central.ring, at \in now .. now + Skew :
       LET t == [lease |-> l, site |-> central.site, kid |-> p[1], key |-> p[2], at |-> at]
       IN  p[1] = central.cur /\ tokens' = tokens \cup {t} /\ Answer(t, "ACTIVE")
Reply(t, status) == t.site = central.site /\ Answer(t, status) /\ UNCHANGED tokens
Tick == now < MaxTime /\ now' = now + 1 /\ Smooth /\ UNCHANGED <<terminal, server>>
(* The process ends between two steps.                                     *)
Crash ==
  /\ job # Idle /\ Mishap("crash") /\ job' = Idle
  /\ UNCHANGED <<pins, store, receipts, ended, done, said, server, now>>
Damage ==
  /\ pins.state = "ok" /\ Mishap("damage") /\ pins' = [pins EXCEPT !.state = "damaged"]
  /\ UNCHANGED <<store, receipts, ended, done, job, said, server, now>>
(* An intact copy is put back by hand.                                     *)
PutBack ==
  /\ pins.state = "damaged" /\ Smooth /\ pins' = [pins EXCEPT !.state = "ok"]
  /\ UNCHANGED <<store, receipts, ended, done, job, said, server, now>>

TerminalNext ==
  \/ \E a \in sent : \/ accept_authenticated(a)
                     \/ accept_authenticated_nonactive(a)
                     \/ verify_authenticated(a)
  \/ \E a \in receipts : accept_rotation(a)
  \/ \E a \in store : prepare(a)
  \/ Save \/ TakeTime \/ record_local_completion

ServerNext ==
  \/ \E k \in Kids, m \in Materials, kept \in SUBSET central.ring : Rotate(k, m, kept)
  \/ \E s \in Sites, k \in Kids, m \in Materials : Reinstall(s, k, m)
  \/ \E l \in Leases : Issue(l)
  \/ \E t \in tokens : Reply(t, "ACTIVE") \/ Reply(t, "RELEASED")

Next == TerminalNext \/ ServerNext \/ Tick \/ Crash \/ Damage \/ PutBack

Spec == Init /\ [][Next]_vars

(* ----------------------------------------------------------- properties -- *)
(* The pinned keyring is one normalize_keyring accepts: no kid and no key  *)
(* twice, a current key, within MAX_PUBLIC_KEYS.                           *)
ProperPins(p) ==
  /\ p \in [state : {"none", "ok", "damaged"}, site : Sites \cup {None}, ring : Rings, cur : Kids \cup {None}]
  /\ p.state # "none" => p.site \in Sites /\ normalize_keyring(p.ring, p.cur)
KeyringTypeOK ==
  /\ ProperPins(pins)
  /\ store \subseteq Artifact /\ receipts \subseteq Artifact /\ sent \subseteq Artifact
  /\ done \subseteq [lease : Leases, at : Nat] /\ now \in Nat

(* Once pinned, a kid stands for the same key for good, whatever keyrings  *)
(* the server answers with later and in whatever order                     *)
(* (bootstrap_authenticated).                                              *)
NeverRebound == [][pins.state # "none" => pins'.site = pins.site /\ pins.ring \subseteq pins'.ring]_pins

(* A lease the terminal accepted verifies offline for as long as it lives, *)
(* through every later rotation of the server's keys (verify_stored).      *)
AcceptedStaysPinned ==
  pins.state = "ok" => \A a \in store \cup receipts : Pinned(a.tok)

(* A completion recorded by prepare() lies within the lease: the next try, *)
(* which verifies at that time, is not refused as expired.                 *)
CompletedVerifies ==
  pins.state = "ok" => \A a \in store, d \in done : d.lease = a.tok.lease => verify(a, d.at, FALSE)
===============================================================================
