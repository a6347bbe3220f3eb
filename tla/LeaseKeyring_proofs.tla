------------------------- MODULE LeaseKeyring_proofs -------------------------
(***************************************************************************)
(* Proofs about the pinned keyring, for any leases, sites, keys, lifetimes *)
(* and faults.                                                             *)
(***************************************************************************)
EXTENDS LeaseKeyring, TLAPS

Kinds == {"none", "issue", "ended", "receipt", "rotation", "prepare"}

(* The types of what KeyringTypeOK leaves out.                             *)
JobOK(j) ==
  /\ j \in [kind : Kinds, pc : {"none", "verify", "time", "record"}, art : Artifact \cup {None}, at : Nat]
  /\ j.pc # "none" => j.art \in Artifact
ServerOK == central \in [site : Sites, ring : Rings, cur : Kids] /\ tokens \subseteq Token
PinsStart(p) == p.state = "none" => p = Unpinned

TypeInv == KeyringTypeOK /\ JobOK(job) /\ ServerOK /\ PinsStart(pins)

(* What was accepted was signed with a pinned key of the pinned site.      *)
Trusted(tok) == pins.state # "none" /\ pins.site = tok.site /\ <<tok.kid, tok.key>> \in pins.ring
AllTrusted == \A a \in store \cup receipts : Trusted(a.tok)

(* The server signs one token for a lease, and answers with those.         *)
Unique(T) == \A t, u \in T : t.lease = u.lease => t = u
Signed(A, T) == \A a \in A : a.tok \in T
JobSigned(j, T) == j.pc # "none" => j.art.tok \in T
OneToken == Unique(tokens) /\ Signed(sent \cup receipts \cup store, tokens) /\ JobSigned(job, tokens)

(* Stored leases agree with themselves; completions lie within the lease.  *)
Sound(a) == normalize_keyring(a.ring, a.cur) /\ verify_jws(a.tok, a.ring)
Within(D, T) == \A d \in D : \E t \in T : t.lease = d.lease /\ InTime(t, d.at)
Timely ==
  /\ \A a \in store : Sound(a)
  /\ Within(done, tokens)
  /\ job.pc \in {"time", "record"} => job.art \in store
  /\ job.pc \in {"time", "record"} /\ DoneAt(job.art.tok.lease) = {} => job.art.tok.at <= now
  /\ job.pc = "record" /\ DoneAt(job.art.tok.lease) = {} => job.art.tok.at <= job.at /\ job.at <= now

KeyringInv == TypeInv /\ AllTrusted /\ OneToken /\ Timely

-----------------------------------------------------------------------------
(* Merging an answer that does not clash keeps the pins a proper keyring.  *)
LEMMA MergeNormal ==
  ASSUME TypeInv, NEW a \in Artifact, normalize_keyring(a.ring, a.cur), bootstrap_authenticated(a) = ""
  PROVE  normalize_keyring(Merged(a), a.cur) /\ Merged(a) \in Rings
<1>1. ~Clashes(a) /\ ~CapacityExceeded(a)
  BY DEF bootstrap_authenticated
<1>2. Cardinality(Merged(a)) <= MaxKeys
  BY <1>1 DEF CapacityExceeded
<1>3. pins.ring \in Rings /\ a.ring \in Rings
  BY DEF TypeInv, KeyringTypeOK, ProperPins, Artifact
<1>4. \A p, q \in pins.ring : p[1] = q[1] <=> p[2] = q[2]
  <2>1. CASE pins.state = "none"
    <3>1. pins = Unpinned
      BY <2>1 DEF TypeInv, PinsStart
    <3>2. pins.ring = {}
      BY <3>1 DEF Unpinned
    <3> QED BY <3>2
  <2>2. CASE pins.state # "none"
    BY <2>2 DEF TypeInv, KeyringTypeOK, ProperPins, normalize_keyring
  <2> QED BY <2>1, <2>2
<1>5. \A p, q \in a.ring : p[1] = q[1] <=> p[2] = q[2]
  BY DEF normalize_keyring
<1>6. \A p \in pins.ring, q \in a.ring : p[1] = q[1] <=> p[2] = q[2]
  BY <1>1, <1>3 DEF Clashes, Rings
<1>7. \A p, q \in Merged(a) : p[1] = q[1] <=> p[2] = q[2]
  BY <1>4, <1>5, <1>6 DEF Merged
<1>8. \E p \in Merged(a) : p[1] = a.cur
  BY DEF normalize_keyring, Merged
<1> QED
  BY <1>2, <1>3, <1>7, <1>8 DEF normalize_keyring, Merged, Rings

(* The site is kept and keys are only added when an answer is pinned.      *)
LEMMA MergeKeeps ==
  ASSUME TypeInv, NEW a \in Artifact, bootstrap_authenticated(a) = "", _atomic_write(a)
  PROVE  /\ pins'.state = "ok" /\ pins.ring \subseteq pins'.ring
         /\ pins.state # "none" => pins.state = "ok" /\ pins'.site = pins.site
<1>1. pins.state # "damaged" /\ ~(pins.state = "ok" /\ pins.site # a.tok.site)
  BY DEF bootstrap_authenticated
<1> QED
  BY <1>1 DEF TypeInv, KeyringTypeOK, ProperPins, _atomic_write, Merged

(* Accepting an answer either refuses it or pins its keys.                 *)
LEMMA BeginCases ==
  ASSUME NEW kind, NEW a, Begin(kind, a)
  PROVE  /\ UNCHANGED <<store, receipts, ended, done, central, ever, tokens, sent, now, faults>>
         /\ \/ pins' = pins /\ job' = Idle
            \/ /\ validate_artifact(a, now, kind = "ended") /\ bootstrap_authenticated(a) = ""
               /\ _atomic_write(a) /\ job' = [kind |-> kind, pc |-> "verify", art |-> a, at |-> 0]
BY DEF Begin, Refuse, To, server, Smooth

(* The pins, the stored leases and the rest stay of their types.           *)
LEMMA TypeStep == TypeInv /\ [Next]_vars => TypeInv'
<1> SUFFICES ASSUME TypeInv, [Next]_vars PROVE TypeInv'
  OBVIOUS
<1> USE KeyringAssumption DEF TypeInv, KeyringTypeOK, ServerOK
<1>0. JobOK(Idle)
  BY DEF JobOK, Idle, Kinds
<1>1. ASSUME NEW kind \in Kinds, NEW a \in Artifact, Begin(kind, a) PROVE TypeInv'
  <2>1. CASE pins' = pins /\ job' = Idle
    BY <1>0, <1>1, <2>1, BeginCases
  <2>2. CASE /\ validate_artifact(a, now, kind = "ended") /\ bootstrap_authenticated(a) = ""
             /\ _atomic_write(a) /\ job' = [kind |-> kind, pc |-> "verify", art |-> a, at |-> 0]
    <3>1. normalize_keyring(Merged(a), a.cur) /\ Merged(a) \in Rings
      BY <2>2, MergeNormal DEF validate_artifact
    <3>2. a.tok.site \in Sites /\ a.cur \in Kids
      BY DEF Artifact, Token
    <3>3. ProperPins(pins') /\ PinsStart(pins')
      BY <2>2, <3>1, <3>2 DEF _atomic_write, ProperPins, PinsStart
    <3>4. JobOK(job')
      BY <2>2 DEF JobOK
    <3> QED
      BY <1>1, <3>3, <3>4, BeginCases
  <2> QED
    BY <1>1, <2>1, <2>2, BeginCases
<1>2. ASSUME NEW a \in sent \cup receipts,
             accept_authenticated(a) \/ accept_authenticated_nonactive(a) \/ verify_authenticated(a) \/ accept_rotation(a)
      PROVE TypeInv'
  BY <1>1, <1>2 DEF accept_authenticated, accept_authenticated_nonactive, verify_authenticated, accept_rotation, Kinds
<1>3. ASSUME NEW a \in store, prepare(a) PROVE TypeInv'
  <2>1. JobOK([kind |-> "prepare", pc |-> "time", art |-> a, at |-> 0])
    BY DEF JobOK, Kinds
  <2> QED
    BY <1>0, <1>3, <2>1 DEF prepare, Refuse, To, server
<1>4. CASE Save
  <2>1. job.art \in Artifact
    BY <1>4 DEF Save, JobOK
  <2>2. store' \subseteq Artifact /\ receipts' \subseteq Artifact /\ UNCHANGED <<pins, done, server, now>> /\ job' = Idle
    BY <1>4, <2>1 DEF Save, Refuse
  <2> QED
    BY <1>0, <2>2 DEF server
<1>5. CASE TakeTime
  <2>1. JobOK([kind |-> "prepare", pc |-> "record", art |-> job.art, at |-> now])
    BY <1>5 DEF TakeTime, JobOK, Kinds
  <2> QED
    BY <1>5, <2>1 DEF TakeTime, To, server
<1>6. CASE record_local_completion
  <2>1. job.art \in Artifact /\ job.at \in Nat
    BY <1>6 DEF record_local_completion, JobOK
  <2>2. [lease |-> job.art.tok.lease, at |-> job.at] \in [lease : Leases, at : Nat]
    BY <2>1 DEF Artifact, Token
  <2>3. done' \subseteq [lease : Leases, at : Nat]
    <3>1. done' = done \/ done' = done \cup {[lease |-> job.art.tok.lease, at |-> job.at]}
      BY <1>6 DEF record_local_completion, Refuse
    <3> QED BY <2>2, <3>1
  <2>4. UNCHANGED <<pins, store, receipts, server, now>> /\ job' = Idle
    BY <1>6 DEF record_local_completion, Refuse
  <2> QED
    BY <1>0, <2>3, <2>4 DEF server
<1>7. ASSUME NEW k \in Kids, NEW m \in Materials, NEW kept \in SUBSET central.ring, Rotate(k, m, kept) PROVE TypeInv'
  <2>1. central' \in [site : Sites, ring : Rings, cur : Kids]
    <3>1. kept \cup {<<k, m>>} \in Rings
      BY DEF Rings
    <3>2. central' = [central EXCEPT !.ring = kept \cup {<<k, m>>}, !.cur = k]
      BY <1>7 DEF Rotate
    <3> QED BY <3>1, <3>2
  <2> QED
    BY <1>7, <2>1 DEF Rotate, terminal
<1>8. ASSUME NEW s \in Sites, NEW k \in Kids, NEW m \in Materials, Reinstall(s, k, m) PROVE TypeInv'
  BY <1>8 DEF Reinstall, terminal, Rings
<1>9. ASSUME NEW t \in Token, NEW status \in {"ACTIVE", "RELEASED"}, Answer(t, status) PROVE sent' \subseteq Artifact
  BY <1>9 DEF Answer, Artifact
<1>10. ASSUME NEW l \in Leases, Issue(l) PROVE TypeInv'
  <2>1. PICK p \in central.ring, at \in now .. now + Skew :
          LET t == [lease |-> l, site |-> central.site, kid |-> p[1], key |-> p[2], at |-> at]
          IN  p[1] = central.cur /\ tokens' = tokens \cup {t} /\ Answer(t, "ACTIVE")
    BY <1>10 DEF Issue
  <2> DEFINE t == [lease |-> l, site |-> central.site, kid |-> p[1], key |-> p[2], at |-> at]
  <2>2. t \in Token
    <3>1. p \in Kids \X Materials /\ at \in Nat
      BY DEF Rings
    <3> QED BY <3>1 DEF Token
  <2> QED
    BY <2>1, <2>2, <1>9 DEF Answer, terminal
<1>11. ASSUME NEW t \in tokens, Reply(t, "ACTIVE") \/ Reply(t, "RELEASED") PROVE TypeInv'
  BY <1>9, <1>11 DEF Reply, Answer, terminal
<1>12. CASE Tick
  BY <1>12 DEF Tick, terminal, server
<1>13. CASE Crash
  BY <1>0, <1>13 DEF Crash, server
<1>14. CASE Damage
  BY <1>14 DEF Damage, server, ProperPins, PinsStart
<1>15. CASE PutBack
  BY <1>15 DEF PutBack, server, ProperPins, PinsStart
<1>16. CASE UNCHANGED vars
  BY <1>16 DEF vars
<1> QED
  BY <1>2, <1>3, <1>4, <1>5, <1>6, <1>7, <1>8, <1>10, <1>11, <1>12, <1>13, <1>14, <1>15, <1>16 DEF Next, TerminalNext, ServerNext

(* The pins only grow.                                                     *)
PinsGrow == pins.state # "none" => pins'.state # "none" /\ pins'.site = pins.site /\ pins.ring \subseteq pins'.ring

LEMMA GrowStep == TypeInv /\ [Next]_vars => PinsGrow
<1> SUFFICES ASSUME TypeInv, [Next]_vars PROVE PinsGrow
  OBVIOUS
<1> USE DEF PinsGrow
<1>1. CASE UNCHANGED pins
  BY <1>1
<1>2. ASSUME NEW kind, NEW a \in Artifact, Begin(kind, a) PROVE PinsGrow
  BY <1>2, BeginCases, MergeKeeps
<1>3. ASSUME NEW a \in sent \cup receipts,
             accept_authenticated(a) \/ accept_authenticated_nonactive(a) \/ verify_authenticated(a) \/ accept_rotation(a)
      PROVE PinsGrow
  <2>1. a \in Artifact
    BY DEF TypeInv, KeyringTypeOK
  <2> QED
    BY <1>2, <1>3, <2>1 DEF accept_authenticated, accept_authenticated_nonactive, verify_authenticated, accept_rotation
<1>4. CASE Damage \/ PutBack
  BY <1>4 DEF Damage, PutBack, TypeInv, KeyringTypeOK, ProperPins
<1>5. CASE \E a \in store : prepare(a)
  BY <1>1, <1>5 DEF prepare, Refuse
<1>6. CASE Save \/ TakeTime \/ record_local_completion
  BY <1>1, <1>6 DEF Save, TakeTime, record_local_completion, Refuse
<1>7. CASE ServerNext \/ Tick \/ Crash
  BY <1>1, <1>7 DEF ServerNext, Rotate, Reinstall, Issue, Reply, Answer, Tick, Crash, terminal
<1>8. CASE UNCHANGED vars
  BY <1>1, <1>8 DEF vars
<1> QED
  BY <1>3, <1>4, <1>5, <1>6, <1>7, <1>8 DEF Next, TerminalNext

(* What has been accepted stays trusted.                                   *)
LEMMA TrustStep == TypeInv /\ AllTrusted /\ [Next]_vars => AllTrusted'
<1> SUFFICES ASSUME TypeInv, AllTrusted, [Next]_vars PROVE AllTrusted'
  OBVIOUS
<1>1. ASSUME NEW a \in store \cup receipts PROVE Trusted(a.tok)'
  BY GrowStep DEF AllTrusted, Trusted, PinsGrow
<1>2. CASE UNCHANGED <<store, receipts>>
  BY <1>1, <1>2 DEF AllTrusted
<1>3. CASE Save
  <2>1. CASE verify(job.art, now, job.kind = "ended") /\ UNCHANGED pins
    <3>0. PICK b : b = job.art
      OBVIOUS
    <3>1. Trusted(b.tok)'
      BY <2>1, <3>0 DEF verify, Pinned, _load, verify_jws, Trusted
    <3>2. store' \cup receipts' \subseteq store \cup receipts \cup {b}
      BY <1>3, <3>0 DEF Save, Refuse
    <3> QED
      BY <1>1, <3>1, <3>2 DEF AllTrusted
  <2>2. CASE UNCHANGED <<store, receipts>>
    BY <1>2, <2>2
  <2> QED
    BY <1>3, <2>1, <2>2 DEF Save, Refuse
<1>4. ASSUME NEW a, accept_authenticated(a) \/ accept_authenticated_nonactive(a) \/ verify_authenticated(a) \/ accept_rotation(a)
      PROVE UNCHANGED <<store, receipts>>
  BY <1>4, BeginCases DEF accept_authenticated, accept_authenticated_nonactive, verify_authenticated, accept_rotation
<1>5. CASE (\E a \in store : prepare(a)) \/ TakeTime \/ record_local_completion
  BY <1>2, <1>5 DEF prepare, TakeTime, record_local_completion, Refuse
<1>6. CASE ServerNext \/ Tick \/ Crash \/ Damage \/ PutBack
  BY <1>2, <1>6 DEF ServerNext, Rotate, Reinstall, Issue, Reply, Answer, Tick, Crash, Damage, PutBack, terminal
<1>7. CASE UNCHANGED vars
  BY <1>2, <1>7 DEF vars
<1> QED
  BY <1>2, <1>3, <1>4, <1>5, <1>6, <1>7 DEF Next, TerminalNext

LEMMA TypeInit == Init => TypeInv /\ AllTrusted
<1> SUFFICES ASSUME Init PROVE TypeInv /\ AllTrusted
  OBVIOUS
<1> USE KeyringAssumption DEF Init
<1>1. ProperPins(pins) /\ PinsStart(pins)
  <2>1. {} \in Rings
    BY DEF Rings
  <2> QED
    BY <2>1 DEF ProperPins, PinsStart, Unpinned
<1>2. JobOK(job)
  BY DEF JobOK, Idle, Kinds
<1>3. ServerOK
  <2>1. PICK st \in Sites, k \in Kids, m \in Materials : central = [site |-> st, ring |-> {<<k, m>>}, cur |-> k]
    OBVIOUS
  <2>2. {<<k, m>>} \in Rings
    <3>1. <<k, m>> \in Kids \X Materials
      OBVIOUS
    <3> QED BY ONLY <3>1 DEF Rings
  <2> QED
    BY <2>1, <2>2 DEF ServerOK
<1> QED
  BY <1>1, <1>2, <1>3 DEF TypeInv, KeyringTypeOK, AllTrusted

(* The pinned keyring is always one normalize_keyring accepts, for any     *)
(* keyrings the server rotates through and any order of its answers.       *)
THEOREM KeyringTyped == Spec => []KeyringTypeOK
<1>1. Init => TypeInv
  BY TypeInit
<1>2. TypeInv => KeyringTypeOK
  BY DEF TypeInv
<1> QED
  BY <1>1, <1>2, TypeStep, PTL DEF Spec

(* A pinned kid stands for the same key for good (bootstrap_authenticated).*)
THEOREM KidsNeverRebound == Spec => NeverRebound
<1>1. Init => TypeInv
  BY TypeInit
<1>2. TypeInv /\ [Next]_vars => [pins.state # "none" => pins'.site = pins.site /\ pins.ring \subseteq pins'.ring]_pins
  BY GrowStep DEF PinsGrow
<1> QED
  BY <1>1, <1>2, TypeStep, PTL DEF Spec, NeverRebound

(* A lease that was accepted verifies with the pins for as long as they    *)
(* can be read (verify_stored).                                            *)
THEOREM AcceptedLeasesStayPinned == Spec => []AcceptedStaysPinned
<1>1. Init => TypeInv /\ AllTrusted
  BY TypeInit
<1>2. AllTrusted => AcceptedStaysPinned
  BY DEF AllTrusted, AcceptedStaysPinned, Trusted, Pinned, _load, verify_jws
<1> QED
  BY <1>1, <1>2, TypeStep, TrustStep, PTL DEF Spec

-----------------------------------------------------------------------------
(* No step gives a lease a second token, and only signed tokens are kept.  *)
LEMMA TokenStep == TypeInv /\ OneToken /\ [Next]_vars => OneToken' /\ tokens \subseteq tokens'
<1> SUFFICES ASSUME TypeInv, OneToken, [Next]_vars PROVE OneToken' /\ tokens \subseteq tokens'
  OBVIOUS
<1> USE DEF OneToken
<1>0. \A T : JobSigned(Idle, T)
  BY DEF JobSigned, Idle
<1>1. ASSUME UNCHANGED tokens, sent' \cup receipts' \cup store' \subseteq sent \cup receipts \cup store,
             job' = Idle \/ job' = job
      PROVE OneToken' /\ tokens \subseteq tokens'
  BY <1>0, <1>1 DEF Signed
<1>2. ASSUME NEW kind, NEW a \in sent \cup receipts, Begin(kind, a) PROVE OneToken' /\ tokens \subseteq tokens'
  <2>1. CASE job' = Idle
    BY <1>1, <1>2, <2>1, BeginCases
  <2>2. CASE job' = [kind |-> kind, pc |-> "verify", art |-> a, at |-> 0]
    <3>1. JobSigned(job', tokens)
      BY <2>2 DEF JobSigned, Signed
    <3> QED
      BY <1>2, <3>1, BeginCases
  <2> QED
    BY <1>2, <2>1, <2>2, BeginCases
<1>3. ASSUME NEW a \in sent \cup receipts,
             accept_authenticated(a) \/ accept_authenticated_nonactive(a) \/ verify_authenticated(a) \/ accept_rotation(a)
      PROVE OneToken' /\ tokens \subseteq tokens'
  BY <1>2, <1>3 DEF accept_authenticated, accept_authenticated_nonactive, verify_authenticated, accept_rotation
<1>4. ASSUME NEW a \in store, prepare(a) PROVE OneToken' /\ tokens \subseteq tokens'
  <2>1. JobSigned([kind |-> "prepare", pc |-> "time", art |-> a, at |-> 0], tokens)
    BY DEF JobSigned, Signed
  <2> QED
    BY <1>0, <1>4, <2>1 DEF prepare, Refuse, To, server
<1>5. CASE Save
  <2>1. job.art.tok \in tokens
    BY <1>5 DEF Save, JobSigned
  <2>2. PICK b : b = job.art
    OBVIOUS
  <2>3. store' \cup receipts' \subseteq store \cup receipts \cup {b} /\ UNCHANGED <<tokens, sent>> /\ job' = Idle
    BY <1>5, <2>2 DEF Save, Refuse, server
  <2>4. Signed(sent' \cup receipts' \cup store', tokens)
    BY <2>1, <2>2, <2>3 DEF Signed
  <2> QED
    BY <1>0, <2>3, <2>4
<1>6. CASE TakeTime
  <2>1. JobSigned([kind |-> "prepare", pc |-> "record", art |-> job.art, at |-> now], tokens)
    BY <1>6 DEF TakeTime, JobSigned
  <2> QED
    BY <1>6, <2>1 DEF TakeTime, To, server
<1>7. CASE record_local_completion \/ Tick \/ Crash \/ Damage \/ PutBack
  BY <1>1, <1>7 DEF record_local_completion, Refuse, Tick, Crash, Damage, PutBack, terminal, server
<1>8. ASSUME NEW l \in Leases, Issue(l) PROVE OneToken' /\ tokens \subseteq tokens'
  <2>1. PICK t : t.lease = l /\ tokens' = tokens \cup {t} /\ Answer(t, "ACTIVE")
    BY <1>8 DEF Issue
  <2>2. \A u \in tokens : u.lease # l
    BY <1>8 DEF Issue
  <2>3. Unique(tokens')
    BY <2>1, <2>2 DEF Unique
  <2>4. Signed((sent \cup receipts \cup store)', tokens') /\ JobSigned(job', tokens')
    BY <2>1 DEF Answer, terminal, Signed, JobSigned
  <2> QED
    BY <2>1, <2>3, <2>4
<1>9. ASSUME NEW t \in tokens, NEW status, Reply(t, status) PROVE OneToken' /\ tokens \subseteq tokens'
  <2>1. Signed((sent \cup receipts \cup store)', tokens)
    BY <1>9 DEF Reply, Answer, terminal, Signed
  <2> QED
    BY <1>9, <2>1 DEF Reply, Answer, terminal
<1>10. ASSUME NEW k, NEW m, NEW s, Rotate(k, m, s) \/ Reinstall(s, k, m) PROVE OneToken' /\ tokens \subseteq tokens'
  BY <1>1, <1>10 DEF Rotate, Reinstall, terminal
<1>11. CASE UNCHANGED vars
  BY <1>1, <1>11 DEF vars
<1> QED
  BY <1>3, <1>4, <1>5, <1>6, <1>7, <1>8, <1>9, <1>10, <1>11 DEF Next, TerminalNext, ServerNext

(* Steps that neither complete a lease, save one nor sign one keep Timely. *)
LEMMA TimelyFrame ==
  ASSUME TypeInv, OneToken, Timely, UNCHANGED <<store, done, tokens>>, now' \in Nat, now <= now',
         job' = Idle \/ job' = job \/ job'.pc = "verify"
  PROVE  Timely'
<1>1. DoneAt(job.art.tok.lease)' = DoneAt(job.art.tok.lease)  \/ job' # job
  BY DEF DoneAt
<1>2. job.pc \in {"time", "record"} => job.art \in Artifact /\ job.art.tok.at \in Nat
  BY DEF TypeInv, JobOK, Artifact, Token
<1>3. now \in Nat /\ job.at \in Nat
  BY DEF TypeInv, KeyringTypeOK, JobOK
<1>4. CASE job' = job
  BY <1>1, <1>2, <1>3, <1>4 DEF Timely
<1>5. CASE job'.pc \notin {"time", "record"}
  BY <1>5 DEF Timely
<1> QED
  BY <1>4, <1>5 DEF Idle

LEMMA TimelyStep == TypeInv /\ OneToken /\ Timely /\ [Next]_vars => Timely'
<1> SUFFICES ASSUME TypeInv, OneToken, Timely, [Next]_vars PROVE Timely'
  OBVIOUS
<1>0. now \in Nat /\ now <= now /\ TypeInv'
  BY TypeStep DEF TypeInv, KeyringTypeOK
<1>1. ASSUME NEW kind, NEW a, Begin(kind, a) PROVE Timely'
  <2>1. UNCHANGED <<store, done, tokens, now>> /\ (job' = Idle \/ job'.pc = "verify")
    <3>1. job' = Idle \/ job' = [kind |-> kind, pc |-> "verify", art |-> a, at |-> 0]
      BY <1>1, BeginCases
    <3>2. UNCHANGED <<store, done, tokens, now>>
      BY <1>1, BeginCases
    <3> QED
      BY ONLY <3>1, <3>2
  <2> QED
    BY <1>0, <2>1, TimelyFrame
<1>2. ASSUME NEW a, accept_authenticated(a) \/ accept_authenticated_nonactive(a) \/ verify_authenticated(a) \/ accept_rotation(a)
      PROVE Timely'
  BY <1>1, <1>2 DEF accept_authenticated, accept_authenticated_nonactive, verify_authenticated, accept_rotation
<1>3. ASSUME NEW a \in store, prepare(a) PROVE Timely'
  <2>1. CASE job' = Idle /\ UNCHANGED <<store, done, tokens, now>>
    BY <1>0, <2>1, TimelyFrame
  <2>2. CASE verify_stored(a) /\ job' = [kind |-> "prepare", pc |-> "time", art |-> a, at |-> 0] /\ UNCHANGED <<store, done, tokens, now>>
    <3>1. DoneAt(a.tok.lease) = {} => a.tok.at <= now
      BY <2>2 DEF verify_stored, verify, validate_artifact
    <3>2. DoneAt(a.tok.lease)' = DoneAt(a.tok.lease)
      BY <2>2 DEF DoneAt
    <3> QED
      BY <2>2, <3>1, <3>2 DEF Timely
  <2> QED
    BY <1>3, <2>1, <2>2 DEF prepare, Refuse, To, server
<1>4. CASE Save
  <2>1. CASE job' = Idle /\ UNCHANGED <<store, done, tokens, now>>
    BY <1>0, <2>1, TimelyFrame
  <2>2. CASE verify(job.art, now, job.kind = "ended") /\ job' = Idle /\ UNCHANGED <<done, tokens, now>>
    <3>1. PICK b : b = job.art
      OBVIOUS
    <3>2. Sound(b)
      BY <2>2, <3>1 DEF verify, validate_artifact, Sound
    <3>3. store' \subseteq store \cup {b}
      BY <1>4, <3>1 DEF Save, Refuse
    <3> QED
      BY <2>2, <3>2, <3>3 DEF Timely, Idle
  <2> QED
    BY <1>4, <2>1, <2>2 DEF Save, Refuse, server
<1>5. CASE TakeTime
  <2>1. job' = [kind |-> "prepare", pc |-> "record", art |-> job.art, at |-> now] /\ UNCHANGED <<store, done, tokens, now>>
    BY <1>5 DEF TakeTime, To, server
  <2>2. DoneAt(job.art.tok.lease)' = DoneAt(job.art.tok.lease)
    BY <2>1 DEF DoneAt
  <2>3. job.pc = "time" /\ job.art \in store
    BY <1>5 DEF Timely, TakeTime
  <2>4. DoneAt(job.art.tok.lease) = {} => job.art.tok.at <= now
    BY <2>3 DEF Timely
  <2> QED
    BY <1>0, <2>1, <2>2, <2>3, <2>4 DEF Timely
<1>6. CASE record_local_completion
  <2>1. CASE job' = Idle /\ UNCHANGED <<store, done, tokens, now>>
    BY <1>0, <2>1, TimelyFrame
  <2>2. CASE /\ verify_stored(job.art) /\ DoneAt(job.art.tok.lease) = {}
             /\ done' = done \cup {[lease |-> job.art.tok.lease, at |-> job.at]}
             /\ job' = Idle /\ UNCHANGED <<store, tokens, now>>
    <3>1. job.art \in Artifact /\ job.at \in Nat /\ job.art.tok.at \in Nat /\ Life \in Nat
      BY <1>6, KeyringAssumption DEF record_local_completion, TypeInv, JobOK, Artifact, Token
    <3>2. job.art.tok.at <= job.at /\ job.at <= now
      BY <1>6, <2>2 DEF Timely, record_local_completion
    <3>3. now < job.art.tok.at + Life
      BY <2>2 DEF verify_stored, verify, validate_artifact, InTime
    <3>4. InTime(job.art.tok, job.at)
      BY <1>0, <3>1, <3>2, <3>3 DEF InTime
    <3>5. job.art.tok \in tokens
      BY <1>6 DEF OneToken, JobSigned, record_local_completion
    <3>6. Within(done', tokens)
      BY <2>2, <3>4, <3>5 DEF Timely, Within
    <3> QED
      BY <2>2, <3>6 DEF Timely, Idle
  <2> QED
    BY <1>6, <2>1, <2>2 DEF record_local_completion, Refuse, server
<1>7. CASE Tick \/ Crash \/ Damage \/ PutBack
  BY <1>0, <1>7, TimelyFrame DEF Tick, Crash, Damage, PutBack, terminal, server
<1>8. ASSUME NEW k, NEW m, NEW s, Rotate(k, m, s) \/ Reinstall(s, k, m) PROVE Timely'
  BY <1>0, <1>8, TimelyFrame DEF Rotate, Reinstall, terminal
<1>9. ASSUME NEW t \in tokens, NEW status, Reply(t, status) PROVE Timely'
  BY <1>0, <1>9, TimelyFrame DEF Reply, Answer, terminal
<1>10. ASSUME NEW l \in Leases, Issue(l) PROVE Timely'
  <2>1. UNCHANGED <<store, done, job, now>> /\ tokens \subseteq tokens'
    BY <1>10 DEF Issue, Answer, terminal
  <2>2. Within(done', tokens')
    BY <2>1 DEF Timely, Within
  <2>3. DoneAt(job.art.tok.lease)' = DoneAt(job.art.tok.lease)
    BY <2>1 DEF DoneAt
  <2> QED
    BY <2>1, <2>2, <2>3 DEF Timely
<1>11. CASE UNCHANGED vars
  BY <1>0, <1>11, TimelyFrame DEF vars
<1> QED
  BY <1>2, <1>3, <1>4, <1>5, <1>6, <1>7, <1>8, <1>9, <1>10, <1>11 DEF Next, TerminalNext, ServerNext

(* What prepare() recorded as completed verifies at the recorded time, at  *)
(* every later try, whatever the clock shows by then.                      *)
THEOREM CompletionsVerify == Spec => []CompletedVerifies
<1>1. Init => KeyringInv
  <2> SUFFICES ASSUME Init PROVE KeyringInv
    OBVIOUS
  <2>1. OneToken
    BY DEF Init, OneToken, Unique, Signed, JobSigned, Idle
  <2>2. Timely
    BY DEF Init, Timely, Within, Idle
  <2> QED
    BY <2>1, <2>2, TypeInit DEF KeyringInv
<1>2. KeyringInv /\ [Next]_vars => KeyringInv'
  BY TypeStep, TrustStep, TokenStep, TimelyStep DEF KeyringInv
<1>3. KeyringInv => CompletedVerifies
  <2> SUFFICES ASSUME KeyringInv, pins.state = "ok", NEW a \in store, NEW d \in done, d.lease = a.tok.lease
               PROVE  verify(a, d.at, FALSE)
    BY DEF CompletedVerifies
  <2>1. a.tok \in tokens
    BY DEF KeyringInv, OneToken, Signed
  <2>2. InTime(a.tok, d.at)
    BY <2>1 DEF KeyringInv, Timely, Within, OneToken, Unique
  <2>3. Sound(a) /\ Trusted(a.tok)
    BY DEF KeyringInv, Timely, AllTrusted
  <2> QED
    BY <2>2, <2>3 DEF verify, validate_artifact, Sound, Trusted, Pinned, _load, verify_jws, InTime
<1> QED
  BY <1>1, <1>2, <1>3, PTL DEF Spec

=============================================================================
