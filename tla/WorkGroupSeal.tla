---------------------------- MODULE WorkGroupSeal ----------------------------
(***************************************************************************)
(* What a transfer seal is checked for on its way through the program: the *)
(* resolver's answer for a scanned label, the scans against it, the        *)
(* command built from a second answer, and the receipt.  A label's units   *)
(* (a work group) are drawn from several source bundles; sealing them      *)
(* consumes the sources, and what is left of each becomes a remainder      *)
(* bundle covered by other labels.                                         *)
(*                                                                         *)
(* The central ledger is external.  It applies the topology a command      *)
(* names once the command's versions are current; it does not work the     *)
(* topology out again, so what the program checks is what keeps it sound.  *)
(* Answers and receipts arrive with one part wrong (Damaged...), and       *)
(* labels, papers and bundles change between the answer and the commit.    *)
(***************************************************************************)
EXTENDS Naturals, FiniteSets

CONSTANTS
    Stations,   \* programs sealing at the same time
    Units, Groups,
    Source,     \* the source bundle each unit was packed into, by number
    Labels,     \* the labellings to start from
    Bounds      \* bounds: how many relabelled units, reprints and exchanges, and
                \* how many damaged answers and receipts, as pairs to choose from

WorkGroupAssumption ==
    /\ IsFiniteSet(Units) /\ Groups \subseteq Nat
    /\ Source \in [Units -> Nat] /\ Labels \subseteq [Units -> Groups]
    /\ Bounds \subseteq Nat \X Nat

VARIABLES
    held,    \* bundle id -> its members, version, and whether it is live
    label,   \* unit -> the work group whose label lists it
    ver,     \* versions of each group: entity, membership, label
    roots,   \* group -> bundles recorded as holding its units
    ledger,  \* station -> receipt of the command it committed
    client,  \* station -> its tray: paper, scans, command, contract
    moves, faults   \* how many are left

central == <<held, label, ver, roots, ledger>>
vars == <<held, label, ver, roots, ledger, client, moves, faults>>

\* A bundle id: a source, the remainder of one, or a transfer of a group.
SourceId(s) == <<"src", s, {}>>

\* PHS-WORK-REMAINDER- and the digest of the source and what is left of it.
RemainderId(b, rest) == <<"rem", b[2], rest>>

\* _deterministic_id("TRANSFER", group, label, members).
TransferId(g, members) == <<"trf", g, members>>

Labelled(g) == {u \in Units : label[u] = g}

BundleOf(u) == CHOOSE b \in DOMAIN held : held[b].live /\ u \in held[b].members

RootsOf(g, lab, h) == {b \in DOMAIN h : h[b].live /\ \E u \in h[b].members : lab[u] = g}

Nothing == [kind |-> "none"]

NoTray == [pc |-> "idle", paper |-> [g |-> 0, lbl |-> 0], pre |-> {}, scans |-> {},
           cmd |-> Nothing, contract |-> Nothing]

Init ==
    /\ held = [b \in {SourceId(Source[u]) : u \in Units} |->
                  [members |-> {u \in Units : SourceId(Source[u]) = b}, ver |-> 1, live |-> TRUE]]
    /\ label \in Labels
    /\ ver = [g \in Groups |-> [entity |-> 1, members |-> 1, label |-> 1]]
    /\ roots = [g \in Groups |-> RootsOf(g, label, held)]
    /\ ledger = [st \in Stations |-> Nothing]
    /\ client = [st \in Stations |-> NoTray]
    /\ \E b \in Bounds : moves = b[1] /\ faults = b[2]

------------------------------------------------------------------------------
\* The resolver's answer for a paper (external).

Sealable(g) == Labelled(g) # {} /\ \A u \in Labelled(g) : BundleOf(u)[1] # "trf"

\* How the resolver answers: by the immutable tag of a label that was never
\* changed, by the one bundle a changed label lists, or by the work group.
Basis(g) ==
    IF ~ \E b \in DOMAIN held : b[1] = "src" /\ held[b].live /\ held[b].members = Labelled(g) THEN "group"
    ELSE IF ver[g].members = 1 THEN "tag" ELSE "bundle"

Answer(paper) ==
    LET g == paper.g
        group == Labelled(g)
        sources == {BundleOf(u) : u \in group}
        rest == UNION {held[b].members \ group : b \in sources}
        covers == {h \in Groups : h # g /\ Labelled(h) \cap rest # {}}
        proof(h) == [members |-> Labelled(h), label |-> ver[h].label, entity |-> ver[h].entity,
                     membership |-> ver[h].members]
    IN  [count   |-> IF Sealable(g) THEN 1 ELSE 0,
         basis   |-> Basis(g),
         item    |-> TRUE, anchor |-> g, complete |-> TRUE,
         kind    |-> IF paper.lbl = ver[g].label THEN "ACTIVE" ELSE "REPLACED",
         active  |-> [number |-> 1, label |-> ver[g].label, members |-> group],
         group   |-> proof(g),
         rows    |-> group, good |-> TRUE,
         sources |-> [b \in sources |->
                        [full |-> held[b].members, selected |-> held[b].members \cap group,
                         rest |-> held[b].members \ group, ver |-> held[b].ver,
                         restId |-> RemainderId(b, held[b].members \ group),
                         covers |-> {h \in covers : Labelled(h) \cap (held[b].members \ group) # {}}]],
         covers  |-> [h \in covers |-> [proof |-> proof(h), covered |-> Labelled(h) \cap rest]],
         tags    |-> sources,
         transfer |-> TransferId(g, group),
         versions |-> [group  |-> [h \in covers \cup {g} |-> ver[h]],
                       bundle |-> [b \in sources \cup {TransferId(g, group)} |->
                                      IF b \in sources THEN held[b].ver ELSE 0]]]

\* An answer with one part of it wrong: a field of its own, a member list, a
\* source, a cover, or a version.
DamagedFields(a) ==
    {[a EXCEPT !.count = 2], [a EXCEPT !.item = FALSE], [a EXCEPT !.anchor = 0],
     [a EXCEPT !.complete = FALSE], [a EXCEPT !.kind = "NOT_ACTIVE"], [a EXCEPT !.active.number = 2],
     [a EXCEPT !.active.label = 0], [a EXCEPT !.good = FALSE], [a EXCEPT !.tags = {}],
     [a EXCEPT !.transfer = TransferId(0, {})]}

DamagedMembers(a) ==
    {[a EXCEPT !.group.members = x] : x \in SUBSET Units} \cup {[a EXCEPT !.rows = x] : x \in SUBSET Units}

\* A source with other parts, named accordingly.
Split(a, b, selected, rest) ==
    [a EXCEPT !.sources[b] = [full |-> @.full, selected |-> selected, rest |-> rest, ver |-> @.ver,
                              restId |-> RemainderId(b, rest), covers |-> @.covers]]

DamagedSources(a) ==
    UNION {{Split(a, b, x, a.sources[b].rest) : x \in SUBSET Units}
           \cup {Split(a, b, a.sources[b].selected, x) : x \in SUBSET Units}
           \cup {Split(a, b, x, a.sources[b].full \ x) : x \in SUBSET a.sources[b].full}
           \cup {[a EXCEPT !.sources[b].covers = x] : x \in SUBSET Groups}
           \cup {[a EXCEPT !.sources = [c \in DOMAIN @ \ {b} |-> @[c]]]} : b \in DOMAIN a.sources}

DamagedCovers(a) ==
    UNION {{[a EXCEPT !.covers[h].covered = x] : x \in SUBSET Units}
           \cup {[a EXCEPT !.covers = [c \in DOMAIN @ \ {h} |-> @[c]]]} : h \in DOMAIN a.covers}

DamagedVersions(a) ==
    {[a EXCEPT !.versions.bundle = [c \in DOMAIN @ \ {b} |-> @[c]]] : b \in DOMAIN a.versions.bundle}
    \cup {[a EXCEPT !.versions.group = [c \in DOMAIN @ \ {h} |-> @[c]]] : h \in DOMAIN a.versions.group}
    \cup {[a EXCEPT !.versions.group[h].members = @ + 1] : h \in DOMAIN a.versions.group}

DamagedAnswers(a) ==
    DamagedFields(a) \cup DamagedMembers(a) \cup DamagedSources(a) \cup DamagedCovers(a)
      \cup DamagedVersions(a)

------------------------------------------------------------------------------
\* What the program requires of an answer a for the paper it scanned, in the
\* order it requires it.

\* _work_group_version.
VersionOK(v) == v >= 1

\* _work_group_members: not empty (a set has no duplicates).
MembersOK(x) == x # {}

\* One candidate, of the scanned item, in the program's authority.
OneTopology(a) == a.count = 1 /\ a.item

\* _validated_completed_input_tag, and the scanned paper's anchor.
AnchorMatches(paper, a) == a.complete /\ a.anchor = paper.g

\* _physical_label_from_resolution: exactly one ACTIVE label; a replaced
\* paper is let through here and leads to its successor.
LabelResolved(paper, a) ==
    /\ a.kind \in {"ACTIVE", "REPLACED"}
    /\ a.active.number = 1
    /\ a.kind = "ACTIVE" => a.active.label = paper.lbl

\* _validated_work_group_proof.
ProofOK(p) ==
    /\ MembersOK(p.members)
    /\ VersionOK(p.label) /\ VersionOK(p.entity) /\ VersionOK(p.membership)

\* The group is the one the scanned paper is the ACTIVE label of: its payload
\* equals the scanned one and the active one.
GroupIsPaper(paper, a) ==
    /\ ProofOK(a.group)
    /\ a.group.label = paper.lbl
    /\ a.group.label = a.active.label
    /\ a.group.members = a.active.members

\* Member rows: every unit once, all in PHS_GOOD.
RowsExact(a) == a.good /\ MembersOK(a.rows) /\ a.rows = a.group.members

\* Each source: full is selected and remainder, disjoint; sources disjoint.
SourcesPartition(a) ==
    /\ DOMAIN a.sources # {}
    /\ \A b \in DOMAIN a.sources : LET s == a.sources[b] IN
          /\ VersionOK(s.ver) /\ MembersOK(s.full) /\ MembersOK(s.selected)
          /\ s.full = s.selected \cup s.rest
          /\ s.selected \cap s.rest = {}
          /\ s.restId = RemainderId(b, s.rest)
          /\ s.rest = {} => s.covers = {}
          /\ \A c \in DOMAIN a.sources \ {b} : s.full \cap a.sources[c].full = {}

\* Together the selected parts are the group.
SourcesCoverGroup(a) ==
    UNION {a.sources[b].selected : b \in DOMAIN a.sources} = a.group.members

\* Each cover lies wholly in what is left; covers are disjoint.
CoversWhole(paper, a) ==
    \A h \in DOMAIN a.covers : LET c == a.covers[h] IN
       /\ ProofOK(c.proof) /\ MembersOK(c.covered)
       /\ h # paper.g
       /\ c.covered = c.proof.members
       /\ \A k \in DOMAIN a.covers \ {h} : c.covered \cap a.covers[k].covered = {}

\* Mutant: the covers a source names are not compared.
CoversClose_Unlinked(a) ==
    UNION {a.covers[h].covered : h \in DOMAIN a.covers}
      = UNION {a.sources[b].rest : b \in DOMAIN a.sources}

\* The covers are exactly what is left, and each source names its covers.
CoversClose(a) ==
    /\ UNION {a.covers[h].covered : h \in DOMAIN a.covers}
         = UNION {a.sources[b].rest : b \in DOMAIN a.sources}
    /\ \A b \in DOMAIN a.sources :
          a.sources[b].covers = {h \in DOMAIN a.covers : a.covers[h].covered \cap a.sources[b].rest # {}}

\* source_input_tags: one completed registry row for each source.
TagsMatch(a) == a.tags = DOMAIN a.sources

\* The transfer's deterministic id.  The topology hash is over the parts of
\* the answer itself: one that arrives whole always matches.
TransferNamed(paper, a) == a.transfer = TransferId(paper.g, a.group.members)

\* entity_versions: exactly the group, its covers, the sources and the
\* transfer, with the versions of their proofs.
VersionsExact(paper, a) ==
    /\ DOMAIN a.versions.group = DOMAIN a.covers \cup {paper.g}
    /\ \A h \in DOMAIN a.versions.group :
          LET p == IF h = paper.g THEN a.group ELSE a.covers[h].proof IN
          a.versions.group[h] = [entity |-> p.entity, members |-> p.membership, label |-> p.label]
    /\ DOMAIN a.versions.bundle = DOMAIN a.sources \cup {a.transfer}
    /\ \A b \in DOMAIN a.versions.bundle :
          a.versions.bundle[b] = IF b = a.transfer THEN 0 ELSE a.sources[b].ver

\* _validate_work_group_phs2_preflight.
GroupAccepted(paper, a) ==
    /\ OneTopology(a) /\ AnchorMatches(paper, a) /\ LabelResolved(paper, a)
    /\ GroupIsPaper(paper, a) /\ RowsExact(a)
    /\ SourcesPartition(a) /\ SourcesCoverGroup(a)
    /\ CoversWhole(paper, a) /\ CoversClose(a) /\ TagsMatch(a)
    /\ TransferNamed(paper, a) /\ VersionsExact(paper, a)

\* The single-source route, its registry rows: input tag, source tag, bundle.
TagRegistered(paper, a) ==
    a.count = 1 /\ Cardinality(DOMAIN a.sources) = 1 /\ AnchorMatches(paper, a)

\* The bundle's identity and its session's tag.
TagSource(paper, a) == LabelResolved(paper, a) /\ a.item /\ TagsMatch(a)

\* Its exact membership, and the label's when the label was changed.
TagMembers(a) ==
    /\ MembersOK(a.rows)
    /\ a.basis = "bundle" => a.active.members = a.rows
    /\ \A b \in DOMAIN a.sources : a.sources[b].full = a.rows

\* validate_compact_phs2_preflight.
Accepted(paper, a) ==
    IF a.basis = "group"
       THEN GroupAccepted(paper, a)
       ELSE TagRegistered(paper, a) /\ TagSource(paper, a) /\ TagMembers(a) /\ a.good

------------------------------------------------------------------------------
\* The central's changes by others (external).  RootsOf keeps its roots right.

\* A unit is listed by another label, as a label split or a merge does.
Relabel(u, g) ==
    /\ moves > 0 /\ label[u] # g /\ BundleOf(u)[1] # "trf"
    /\ \A v \in Labelled(g) : BundleOf(v)[1] # "trf"
    /\ label' = [label EXCEPT ![u] = g]
    /\ ver' = [h \in Groups |-> IF h \in {g, label[u]}
                                THEN [ver[h] EXCEPT !.entity = @ + 1, !.members = @ + 1] ELSE ver[h]]
    /\ roots' = [h \in Groups |-> RootsOf(h, label', held)]
    /\ moves' = moves - 1
    /\ UNCHANGED <<held, ledger, client, faults>>

\* A paper is replaced by a new one.
Reprint(g) ==
    /\ moves > 0 /\ Sealable(g)
    /\ ver' = [ver EXCEPT ![g].entity = @ + 1, ![g].label = @ + 1]
    /\ moves' = moves - 1
    /\ UNCHANGED <<held, label, roots, ledger, client, faults>>

\* Two units change bundles, as a member exchange does.
Exchange(u, v) ==
    LET b == BundleOf(u)
        c == BundleOf(v)
    IN  /\ moves > 0 /\ b # c /\ "trf" \notin {b[1], c[1]}
        /\ held' = [held EXCEPT ![b].members = (@ \ {u}) \cup {v}, ![b].ver = @ + 1,
                                ![c].members = (@ \ {v}) \cup {u}, ![c].ver = @ + 1]
        /\ roots' = [h \in Groups |-> RootsOf(h, label, held')]
        /\ moves' = moves - 1
        /\ UNCHANGED <<label, ver, ledger, client, faults>>

------------------------------------------------------------------------------
\* The program.

Set(st, tray) == client' = [client EXCEPT ![st] = tray]

\* An answer for a paper: as the ledger stands, or with one part wrong.
Answers(paper) == {Answer(paper)} \cup (IF faults > 0 THEN DamagedAnswers(Answer(paper)) ELSE {})

Fault(fault) == faults' = IF fault THEN faults - 1 ELSE faults

\* A paper is scanned: an answer that is not accepted leaves the tray closed.
OpenTray(st, g, lbl, a) ==
    LET paper == [g |-> g, lbl |-> lbl] IN
    /\ client[st].pc = "idle"
    /\ Accepted(paper, a)
    /\ Set(st, [NoTray EXCEPT !.pc = "scanning", !.paper = paper, !.pre = a.rows])
    /\ Fault(a # Answer(paper))
    /\ UNCHANGED <<central, moves>>

\* The tray is completed with the units scanned into it.
CompleteTray(st, scans) ==
    /\ client[st].pc = "scanning" /\ scans # {}
    /\ Set(st, [client[st] EXCEPT !.pc = "intent", !.scans = scans])
    /\ UNCHANGED <<central, moves, faults>>

\* _map_scans, and the refusal of a part of the label or the bundle.
ScansExact(scans, a) == scans \subseteq a.rows /\ scans = a.rows

\* _build_work_group_command.
GroupCommand(g, a) ==
    [kind |-> "group", g |-> g, sources |-> a.sources, covers |-> DOMAIN a.covers,
     transfer |-> a.transfer, members |-> a.rows, versions |-> a.versions]

\* _build_command: the source alone is expected at a version.
TagCommand(g, a, scans) ==
    LET b == CHOOSE b \in DOMAIN a.sources : TRUE IN
    [kind |-> "tag", g |-> g,
     sources |-> [c \in {b} |-> [a.sources[b] EXCEPT !.selected = scans, !.rest = a.sources[b].full \ scans,
                                                     !.covers = {}]],
     covers |-> {}, transfer |-> TransferId(b[2], scans), members |-> scans,
     versions |-> [group |-> [h \in {} |-> 0], bundle |-> [c \in {b} |-> a.sources[b].ver]]]

\* The label is resolved and checked again, and the command is bound.
Build(st, a) ==
    LET t == client[st] IN
    /\ t.pc = "intent"
    /\ Set(st, IF Accepted(t.paper, a) /\ ScansExact(t.scans, a)
               THEN [t EXCEPT !.pc = "bound",
                              !.cmd = IF a.basis = "group" THEN GroupCommand(t.paper.g, a)
                                                           ELSE TagCommand(t.paper.g, a, t.scans)]
               ELSE [t EXCEPT !.pc = "review"])
    /\ Fault(a # Answer(t.paper))
    /\ UNCHANGED <<central, moves>>

\* expected_versions against the ledger.  By a tag, the ledger also requires
\* that the label still lists what the bundle holds.
Current(cmd) ==
    /\ \A h \in DOMAIN cmd.versions.group : ver[h] = cmd.versions.group[h]
    /\ \A b \in DOMAIN cmd.versions.bundle :
          cmd.versions.bundle[b] = IF b \in DOMAIN held THEN held[b].ver ELSE 0
    /\ cmd.kind = "tag" => cmd.members = Labelled(cmd.g)

Rests(cmd) == {b \in DOMAIN cmd.sources : cmd.sources[b].rest # {}}

\* What the ledger reports of a command it applied.
Receipt(cmd) ==
    LET group == cmd.kind = "group"
        after(b) == held[b].ver + 1
    IN  [kind |-> "receipt", header |-> TRUE, atomic |-> TRUE, transfer |-> cmd.transfer, members |-> cmd.members,
         versions |-> [b \in DOMAIN cmd.sources \cup {cmd.transfer} \cup {cmd.sources[c].restId : c \in Rests(cmd)} |->
                          IF b \in DOMAIN cmd.sources THEN after(b) ELSE 1],
         groups |-> IF group THEN [h \in cmd.covers \cup {cmd.g} |-> ver[h].entity + 1] ELSE [h \in {} |-> 0],
         moved |-> IF group THEN [b \in DOMAIN cmd.sources |->
                                    [after |-> after(b), selected |-> cmd.sources[b].selected, rest |-> cmd.sources[b].rest]]
                            ELSE [b \in {} |-> 0],
         rests |-> {<<cmd.sources[b].restId, cmd.sources[b].rest>> : b \in Rests(cmd)},
         roots |-> IF group THEN {<<cmd.g, cmd.transfer>>} \cup
                                 UNION {{<<h, cmd.sources[b].restId>> : h \in cmd.sources[b].covers} : b \in Rests(cmd)}
                            ELSE {},
         seal |-> [bundle |-> cmd.transfer, members |-> cmd.members, qr |-> TRUE]]

\* The ledger applies what the command names.
Apply(cmd) ==
    LET new == {cmd.transfer} \cup {cmd.sources[b].restId : b \in Rests(cmd)} IN
    /\ held' = [b \in DOMAIN held \cup new |->
                  IF b \in DOMAIN cmd.sources THEN [held[b] EXCEPT !.live = FALSE, !.ver = @ + 1]
                  ELSE IF b = cmd.transfer
                       THEN [members |-> UNION {cmd.sources[c].selected : c \in DOMAIN cmd.sources}, ver |-> 1, live |-> TRUE]
                  ELSE IF b \in new
                       THEN [members |-> b[3], ver |-> 1, live |-> TRUE]
                  ELSE held[b]]
    /\ IF cmd.kind = "group"
       THEN /\ ver' = [h \in Groups |-> IF h \in cmd.covers \cup {cmd.g} THEN [ver[h] EXCEPT !.entity = @ + 1] ELSE ver[h]]
            /\ roots' = [h \in Groups |->
                  IF h = cmd.g THEN {cmd.transfer}
                  ELSE IF h \in cmd.covers
                       THEN (roots[h] \ DOMAIN cmd.sources) \cup
                            {cmd.sources[b].restId : b \in {c \in Rests(cmd) : h \in cmd.sources[c].covers}}
                  ELSE roots[h]]
       ELSE ver' = ver /\ roots' = [h \in Groups |-> RootsOf(h, label, held')]

\* The command reaches the ledger; the same key is answered by its receipt,
\* and a version that moved on sends the tray to review.
Commit(st) ==
    LET t == client[st] IN
    /\ t.pc = "bound" /\ ledger[st] = Nothing
    /\ IF Current(t.cmd)
       THEN /\ Apply(t.cmd)
            /\ ledger' = [ledger EXCEPT ![st] = Receipt(t.cmd)]
            /\ UNCHANGED <<label, client>>
       ELSE /\ Set(st, [t EXCEPT !.pc = "review"])
            /\ UNCHANGED central
    /\ UNCHANGED <<moves, faults>>

\* A receipt with one part wrong.
DamagedReceipts(r) ==
    {[r EXCEPT !.header = FALSE], [r EXCEPT !.seal.qr = FALSE], [r EXCEPT !.transfer = TransferId(0, {})],
     [r EXCEPT !.seal.bundle = TransferId(0, {})], [r EXCEPT !.atomic = (r.groups = [h \in {} |-> 0])]}
    \cup {[r EXCEPT !.members = x] : x \in SUBSET Units}
    \cup {[r EXCEPT !.seal.members = x] : x \in SUBSET Units}
    \cup {[r EXCEPT !.versions[b] = @ + 1] : b \in DOMAIN r.versions}
    \cup {[r EXCEPT !.groups[h] = @ + 1] : h \in DOMAIN r.groups}
    \cup {[r EXCEPT !.moved[b].selected = {}] : b \in DOMAIN r.moved}
    \cup {[r EXCEPT !.rests = @ \ {x}] : x \in r.rests}
    \cup {[r EXCEPT !.roots = @ \ {x}] : x \in r.roots}

\* A station's receipt, or that with one part wrong, or another command's.
Receipts(st) ==
    {ledger[st]} \cup (IF faults > 0 THEN DamagedReceipts(ledger[st]) \cup ({ledger[o] : o \in Stations} \ {Nothing})
                       ELSE {})

\* COMMITTED, in the command's authority, one event and one outbox row.
ReceiptHeader(r) == r.header

\* The stored command's own evidence: scans and members are the same units.
CommandEvidence(t) == MembersOK(t.cmd.members) /\ t.scans = t.cmd.members

\* The remainders the command asks for.
ExpectedRests(cmd) == {<<cmd.sources[b].restId, cmd.sources[b].rest>> : b \in Rests(cmd)}

\* Versions after: sources one on, transfer and remainders at 1.
VersionsAfter(cmd, r) ==
    r.versions = [b \in DOMAIN cmd.sources \cup {cmd.transfer} \cup {x[1] : x \in ExpectedRests(cmd)} |->
                     IF b \in DOMAIN cmd.sources THEN cmd.versions.bundle[b] + 1 ELSE 1]

\* source_transitions: one for each source, as the command split it.
Transitions(cmd, r) ==
    r.moved = [b \in DOMAIN cmd.sources |->
                  [after |-> cmd.versions.bundle[b] + 1, selected |-> cmd.sources[b].selected,
                   rest |-> cmd.sources[b].rest]]

\* remainder_bundles.
RestsExact(cmd, r) == r.rests = ExpectedRests(cmd)

\* root_proof: the group to the transfer, the covers to the remainders.
RootProof(cmd, r) ==
    r.roots = {<<cmd.g, cmd.transfer>>} \cup
              UNION {{<<h, cmd.sources[b].restId>> : h \in cmd.sources[b].covers} : b \in Rests(cmd)}

\* group_entity_versions_after, and the atomic topology evidence.
GroupsAfter(cmd, r) ==
    r.atomic /\ r.groups = [h \in cmd.covers \cup {cmd.g} |-> cmd.versions.group[h].entity + 1]

\* Transfer, members and product pairs.
MembersSealed(cmd, r) == r.transfer = cmd.transfer /\ r.members = cmd.members

\* The opaque seal and its QR.
SealExact(cmd, r) == r.seal = [bundle |-> cmd.transfer, members |-> cmd.members, qr |-> TRUE]

\* _validate_work_group_receipt, and _validate_receipt for the other route.
ReceiptValid(t, r) ==
    /\ ReceiptHeader(r) /\ CommandEvidence(t) /\ VersionsAfter(t.cmd, r) /\ RestsExact(t.cmd, r)
    /\ MembersSealed(t.cmd, r) /\ SealExact(t.cmd, r)
    /\ t.cmd.kind = "group" => Transitions(t.cmd, r) /\ RootProof(t.cmd, r) /\ GroupsAfter(t.cmd, r)

\* The receipt arrives and is accepted or sends the tray to review.
TakeReceipt(st, r) ==
    LET t == client[st] IN
    /\ t.pc = "bound" /\ ledger[st] # Nothing
    /\ Set(st, IF ReceiptValid(t, r) THEN [t EXCEPT !.pc = "sealed", !.contract = r]
                                     ELSE [t EXCEPT !.pc = "review"])
    /\ Fault(r # ledger[st])
    /\ UNCHANGED <<central, moves>>

\* A reviewed command is looked up again by its key.
Recheck(st) ==
    /\ client[st].pc = "review" /\ client[st].cmd # Nothing /\ ledger[st] # Nothing
    /\ Set(st, [client[st] EXCEPT !.pc = "bound"])
    /\ UNCHANGED <<central, moves, faults>>

Next ==
    \/ \E u \in Units, g \in Groups : Relabel(u, g)
    \/ \E g \in Groups : Reprint(g)
    \/ \E u, v \in Units : Exchange(u, v)
    \/ \E st \in Stations :
          \/ \E g \in Groups : \E lbl \in 1 .. ver[g].label :
                \E a \in Answers([g |-> g, lbl |-> lbl]) : OpenTray(st, g, lbl, a)
          \/ \E scans \in SUBSET client[st].pre : CompleteTray(st, scans)
          \/ client[st].pc = "intent" /\ \E a \in Answers(client[st].paper) : Build(st, a)
          \/ Commit(st)
          \/ ledger[st] # Nothing /\
              \E r \in Receipts(st) : TakeReceipt(st, r)
          \/ Recheck(st)

Spec == Init /\ [][Next]_vars

------------------------------------------------------------------------------
\* Type correctness: versions count from one, every station's tray is in one
\* of the coordinator's states, and a bound tray has a command.
WorkGroupTypeOK ==
    /\ \A b \in DOMAIN held : held[b].members \subseteq Units /\ held[b].ver >= 1 /\ held[b].live \in BOOLEAN
    /\ label \in [Units -> Groups]
    /\ \A g \in Groups : roots[g] \subseteq DOMAIN held
    /\ \A st \in Stations : LET t == client[st] IN
          /\ t.pc \in {"idle", "scanning", "intent", "bound", "sealed", "review"}
          /\ t.pc \in {"bound", "sealed"} => t.cmd # Nothing
          /\ t.pc = "sealed" <=> t.contract # Nothing

\* No unit is lost or owned twice: whatever answer a command was built from,
\* after the ledger applied it every unit is in exactly one live bundle.
UnitsOnce == \A u \in Units : Cardinality({b \in DOMAIN held : held[b].live /\ u \in held[b].members}) = 1

\* Every label's roots are the bundles its units are in, although the ledger
\* takes the covers from the command and others change labels in between.
RootsRight == \A g \in Groups : roots[g] = RootsOf(g, label, held)

\* A transfer bundle holds exactly the units one label lists and one operator
\* scanned: no part of a label is sealed and no unit of another one.
SealedAsScanned ==
    \A st \in Stations : ledger[st] # Nothing =>
        LET t == client[st] IN
        /\ held[t.cmd.transfer].members = t.scans
        /\ Labelled(t.paper.g) = t.scans

\* A contract is recorded only from the receipt the ledger wrote for it.
ContractTrue == \A st \in Stations : client[st].pc = "sealed" => client[st].contract = ledger[st]

\* What is left of the sources is covered by whole labels.
Closed(g) ==
    LET group == Labelled(g)
        rest == UNION {held[BundleOf(u)].members \ group : u \in group}
    IN  \A u \in rest : Labelled(label[u]) \subseteq rest

\* The checks refuse no label they could seal: the true answer for the
\* current paper of a closed label is accepted in every state.
ClosedAccepted ==
    \A g \in Groups : Sealable(g) /\ Closed(g) =>
        LET paper == [g |-> g, lbl |-> ver[g].label] IN Accepted(paper, Answer(paper))
==============================================================================
