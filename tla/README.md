# confgraph in TLA+

confgraph reads network device configurations (IOS/IOS-XE, IOS-XR, NX-OS, EOS,
JunOS, PAN-OS), builds typed models of them, derives the *change operations* a
configuration or a change script stands for, and draws two graphs: the
dependencies inside one device and the topology of many. It is a sequential
program: no threads, no network, nothing persisted. What is hard in it is
**order and correspondence**: separate scans of one text that do not see each
other, state folded line by line, operations composed from two emitters,
deletion and re-creation, rows of two tables in any order, objects identified
by keys built in several places. That is what these modules are about.

## The system

| Part | State it keeps | Operations | Hard behaviour | Correct when |
| --- | --- | --- | --- | --- |
| `parsers/base.py` parse pipeline | results of the steps, side queues `_pending_native_*`, claimed lines | `parse`, back-fills, `_attach_native_change_ops`, `_collect_unrecognized_blocks` | step order, fail-fast, back-fills that must not overwrite, claims read after emission | every negation is consumed, benign or disclosed; explicit interface settings survive |
| `parsers/ios_parser.py` (and NX-OS, EOS, IOS-XR overrides) | one scan per family, queues of operations | `parse_interfaces`, `parse_*`, `parse_deletion_commands`, `_native_*_ops` | stateful lines (`add`, `remove`, bare `no`), delete and re-create, scans joined by line number | the operations say what the device would do |
| `change_ir.py` | a `ChangeSet` of operations | `derive_ops`, `encode_legacy`, `encode_legacy_shim` | composition of native and derived operations by claims, per-instance gates | no intent lost, none doubled; the legacy artifacts come back |
| `topology/ingest.py` | links by unordered key | `load_cdp`, `load_lldp`, `load_physical_topology` | two ends, two tables, names in two forms, bundles | the links are the cables |
| `topology/graph.py` | sessions by key, deferred endpoints, warnings | `TopologyGraphBuilder.build` | pairing of BGP endpoints, ambiguous owners | an edge per session and adjacency |
| `analysis/dependency_resolver.py`, `graph/builder.py` | indexes, referenced names | `resolve`, `build` | identity of nodes, ghosts, orphans | every link is an edge between the right nodes |
| `loader.py`, `cli.py` | inventory, chosen files | discovery, OS detection, the commands | one file per device, everything else reported | no device silently missing |
| JunOS and PAN-OS parsers | trees | `expand_apply_groups`, extraction | inheritance order | explicit values win |
| models, exporters, `utils` | - | data and rendering | - | - |

`junos_hierarchy.py` and `junos_groups.py` are listed with the JunOS parser.
Inside `ios_parser.py` the families are read in four ways, which are the
modules here: a fold over the lines of a stanza (`TrunkVlan`), separate scans
joined by line number (`ServiceEntities`), objects with last-occurrence lines
(`EditedBlocks`, `BgpInstance`), and objects with the line of their header and
removals suppressed by later statements (`IgpInstance`).

The parser calls the models, the change IR reads the finished `ParsedConfig`,
the resolver and the graph builders read it too, the command line drives them in
sequence. The consumer of the change operations, the confgraph-entrp engine, is
not in the repository: its replay of operations in line order, and the merge of
the deprecated string artifacts (additions first, then deletions), are modelled
from the docstrings of the code that feeds it, and marked external in
`PROJECT.json`.

## Modules

Each module's variables are the program's own state. In the modules that fold
over lines or rows (`TrunkVlan`, `ServiceEntities`, `ChangeIR`,
`PhysicalTopology`) it is the state after a prefix of the input: every prefix is
an input, so the state after each step is a result the program can return, and an
invariant is a statement about every input. In the others the input is chosen in
`Init` and the steps are those of the program over it: steps, walks, blocks,
emission, replay.

### `TrunkDevice`, `TrunkVlan`, `ParsingProofs`

The trunk VLAN list of an interface stanza (`parse_interfaces`,
ios_parser.py 945-1085). `vlan_set`, `anchored` and `trunk_vlan_ops` are the
locals of the fold, one action per form of the line. `native_ops` is what
`_native_iface_set_ops` and `_detect_interface_field_negation_ops` then emit,
the record `_pending_native_trunk_none` included. `device` is the list the
switch would have; `TrunkDevice` specifies it on its own, with a list replaced,
grown, shrunk or withdrawn.

* `ReplayMatchesDevice`: the operations applied to any baseline leave the list
  of the switch. Set apart is one case, `FoldedAcrossRouted`: the list is edited
  after a `no switchport` that withdrew its anchor.
* `AnchoredListIsDeviceList`: once an absolute form has been read, and no later
  `no switchport` has withdrawn it, the fold is that list, whatever the baseline.
* `OpsImplementDevice`: with the replayed list for `allowed`, every step of the
  parser's specification but the one that brings about `FoldedAcrossRouted` is a
  step of `TrunkDevice` or stutters: the parser implements the device line by line.
* `ReplayIsExact`, which is `ReplayMatchesDevice` without the exception, is
  violated: see Disagreements.

### `ServiceEntities`, `ServiceEntitiesProofs`

IP SLA operations, tracks and applets, banners: `parse_ip_sla`,
`parse_object_tracks`, `parse_eem`, `parse_banners`, the removals of
`parse_deletion_commands`, `_native_service_entity_ops` and the suppression of
superseded deletions in the shim. The scans keep what the code keeps: the last
block and the first schedule line of an SLA, every block of a track, the first
text and the last line of a banner. `device` says what the device has.

* `ReplayedPresence`: the line-ordered replay ends with exactly the entities of
  the device.
* `ReplayedBlocks`: and, for tracks and applets, with their attributes.
* `LegacyMergeAgrees`: the legacy consumer, which deletes after adding, ends
  with the same entities, because the shim drops superseded deletions.
* `ReplayedBanners` and `ReplayedSlas` are violated: see Disagreements.

### `ChangeIR`, `ChangeIRProofs`

`derive_ops` over a configuration that is built definition by definition and
removal by removal on one operating system. `native_change_ops` are the native
emitters with their gates (`_bgp_instance_gated` and the others, which depend on
the operating system and the kind of instance); `derived_ops` the structural
derivation; `change_set` their composition by claims; `encode_legacy_shim` the
way back. Families are kept where their predicates differ (interfaces, the four
routing processes, VRFs, policies, singletons, statics, VLANs, service
entities); keys within a family are abstract.

* `ObjectsCreatedOnce`: no object is both created whole by one emitter and set
  whole by the other.
* `IntentSurvives`: every definition and every member of it is carried by some
  operation.
* `DeletionsCarriedOnce`: and every removal by exactly one.
* `ShimDeletions`: the shim returns each deletion string that is still meant, and
  none for the nine shapes of removal that never had one (`OpsOnly`): networks of a
  BGP, OSPF or EIGRP process and of a family, NETs, ranges of an area, aggregates of
  a family, the families of a neighbor and their fields.
* `ShimWholeObjects`: and whole objects for whole objects, of the instances that
  are not gated.
* `ShimIsPreNative` is violated: see Disagreements.

### `PhysicalTopology`, `GraphProofs`

`load_cdp`, `load_lldp` and `load_physical_topology` over the rows of a fabric:
each cable may be reported by either end, under the full or the short name, in
either table, complete or not, up to `MaxRows` times. `rows` is a history
variable: how often a usable row reported a cable in a table.

* `LinksAreTheCables`, `OneLinkPerConnection`, `CdpTakesPrecedence`: the links
  are the reported cables (bundle members joined), each once, from the right
  table.
* `CountsMembers` is violated: see Disagreements.

The assumption is that a short name in the inventory belongs to one device and
no device is listed twice (`NoNameClash`). The map from members to bundles is a
constant: how each platform's parser fills `channel_group` is not part of it.

### `BgpSessions`, `GraphProofs`

The BGP part of `topology/graph.py`: `_resolve_peer_host` with its use of the
remote AS, `_bgp_endpoints`, the two loops of `_group_sessions`, and the ends
that `_add_bgp_edges` gives an edge. `ReadNeighbor` is one neighbor statement
through `_bgp_endpoints` and the first loop (the code runs them one after the
other; neither looks at what the other keeps, so they are one step), devices and
the statements of a device in any order; `PairDeferred` is one round of the
second loop. `sessions` is the dictionary in insertion order. An *estate* also
says what the program cannot see: which device a statement means (`target`) and
the address its session is sourced from (`source`).

* `NoSessionGuessed`: an end is drawn only to the device its statement means,
  whoever else owns the address.
* `DrawnOrReported`: a statement about a known device is drawn or warned about,
  and not both.
* `AddressedSessionsMeet`: two ends with local addresses are in one group exactly
  if they are the ends of one session. The condition is `OthersAddresses`: no
  device names an address of its own as its peer's. Without it two devices that
  both own addresses x and y, and each peer with x from y and with y from x, run
  two sessions that get one key.
* `EdgesAreSessions`: the edges are the sessions, each once, with the right
  addresses, whatever the order. It has three conditions, without which the
  configurations do not determine the sessions: `OthersAddresses`, `OwnAddresses`
  (a device with an unknown local address shares no address) and `ToldApart` (an
  end without a local address has one possible far end among its peer's
  statements).
* `PairsPointBack` is violated when `OwnAddresses` does not hold: see
  Disagreements.

The assumptions on an estate are in `WellFormed`: the remote AS of a statement is
its peer's or absent, a configured local address is the one used, and the address
of an outside peer is nobody's. They hold of a network in which the sessions come
up. `_resolve_local_ip` is behind `local_ip`; policies and labels are left out.

### `BackFill`, `ParsePipeline`, `ParsingProofs`

`BaseParser.parse` (base.py 894-1089). `ParsePipeline` runs the steps of
`_PARSE_STEPS` in order, the host name as step 0. A line is a record of what the
registries and the walks tell apart: its depth, whether it is a `no`, which step
consumes it and how (into a value, a queued operation, the ledger of
`_claim_negation`, a later attachment walk, or not at all), whether its block is
claimed and has a child registry, whether it is benign. `RaiseParseError` is any
exception of a step, which drops what the steps before it returned; the side
queues stay with the parser. `Fill` is a turn of a back-fill, then `AttachOps`,
then `CollectUnrecognized`. `BackFill` has the three walks: passivity from the
process lists, the settings a process gives an interface inside an area, route
distinguisher and targets from a BGP process to its VRF. Values are abstract but
for `None`, `False` and the explicit zero, which `==` would not keep from `False`
and the guards do.

* `ParsedValueWins`, `NothingInvented`: a value the parser read is never
  overwritten, and a value filled in is one some process or instance states.
* `PassivityIsTheFirstWord`: the three-valued passivity is the interface's own
  word, else that of the first process with one, else the first area's flag, over
  any number of turns of the two walks that write it.
* `NoNegationVanishes`, `ConsumedIsNotFlagged`: the disclosure is fail-closed and
  raises no false alarm, which needs it to run last and to read all three sources
  of claims.
* `ParseEnds` (liveness): parse() returns or raises.
* `CompleteOrNothing` (a theorem): what is returned was read by every step.

### `DependencyGraph`, `GraphProofs`

`DependencyResolver.resolve` and `GraphBuilder.build`. Each `_resolve_` method is
the rows it reads: a type of object, a field of it and the type it refers to
(`Read`); the fields of the models that hold such a name and that no method reads
are `Unread`. `Walk` is one reference, families in the order of resolve(),
`Families`; then the orphans, then the nodes, then one edge per link, with a ghost
for a missing target. Objects of a VRF have their own identifiers (`_node_id`). The
two files share no code for names, so there are two operators: `NodeName` of the
builder, `LinkName` of the resolver (its sources, its indexes, its references).

* `EveryLinkDrawn`: a reference that is read is an edge between the node of its
  holder and the node it names, marked as it should be.
* `OrphansAreUnlinked`: the orphans are what no read field *of any family* names.
* `DanglingIsUndefined`, `GhostsAreTheMissing` (theorems): links against nodes.
* `OrphansAreUnreferenced` is violated: see Disagreements.

### `JunosTree`, `JunosTreeProofs`

`parse_junos_config` (both renderings) and `expand_apply_groups`. The dict of
dicts is a record: `nodes`, the paths of its nodes, and `earlier`, which of two
keys of one node came first. That is all a reader of a Python dict can tell, and
it makes `_deep_merge` a union: what the left dict lacks comes behind what it has.

A document is a sequence of statements, each with the path of its block, whether
it closes the block, and whether a string on its line holds a brace (which
`_is_set_style` counts). `_parse_block` and `_parse_set_style` read one statement
each; the brace parser keeps the dict of an open block in `body` and merges it
when the block closes. `_expand_node` visits a level with an `apply-groups`
(innermost first), `InheritGroup` starts on the next group it names, in order, and
`_fill` is one turn of the loop of that function. Its recursion is the stack
`calls`: a call knows the node to be filled, the node of the group it is filled
from and the keys it has yet to visit; a wildcard key pushes the loop over the
siblings it matches, a key that exists a call of its own, and one that does not
is planted with everything below it. `unsupported_lines` are the statements with
`delete`, `inactive:` and the like.

`NamesAssumption` says that the brace tags are not keys, that wildcards match
keys, and that `groups` and the two `apply-groups` words are not in angle brackets;
`DocumentsAssumption` that documents have this form, that `display set`
prints no tag and no comment with a brace, and that a brace document closes each
block, which then holds a statement.

* `RenderingsConverge`: the two renderings give one tree in one order.
* `ChangesAreDisclosed`: a change word is disclosed and its value not taken.
* `LocalFirst`: at every moment of the expansion the local keys come first, which
  is what the readers of a "first key" rely on.
* `ValueByPrecedence`: the value of a statement is the local one, else that of the
  innermost level and the group named first there. It is said of configurations
  where the order of the groups is all that counts (`Settled`): no group names one
  node both by name and by wildcard, no wildcard matches a node that was inherited,
  and no group contributes to a group or to an `apply-groups-except`. `Values` leaves
  out the wildcards and the `apply-groups` words that a subtree planted whole brings
  with it.
* `WildcardNeverCreates` is violated: see Disagreements. The documents of the
  passing run write an interface locally, those of the violation do not.

### `IgpInstance`, `IgpInstanceProofs`

The process stanzas of OSPF, EIGRP and IS-IS (`parse_ospf`, `parse_eigrp`,
`parse_isis` and their `_native_*_ops`). One action reads one block: the positive
walks make the members of an instance, whose SETs carry the header's line; the
negation walks queue removals at their own lines, unless the member is stated
again later in the block. Then the operations are put in script order and
replayed. `Device` is the router: a member has what the last line about it says.
Walks are sets of members, each with the line it comes from (`source`) and, in an
area, the line that opens the area (`group`); the order of the code's lists is the
order of these lines, and `InScriptOrder` is the stable sort by line.

* `ReplayIsDevice`: the replay is the router, over several blocks of a process and
  either baseline. Held out are negations no walk matches, and virtual links and
  filter lists of an area the script spells in two ways.
* `NoWithdrawalLost`: each matched negation is an operation or is overtaken by a
  later statement, and a claimed line has no operation.
* `RefreshSuppressesRemoval` is violated: see Disagreements.

### `EditedBlocks`, `EditedBlocksProofs`

Interfaces, VRFs, access lists, VLANs, static routes and the singleton sections:
`parse_deletion_commands` (whole deletions), the field and list negations, the
whole-list resets, and the SETs of `_attach_native_change_ops` with their
last-occurrence lines. Each kind stands for the fields that are read the same
way. A script edits one object of one family; two objects share no line.

What the walks collect are sets of members, each with the line it was read from
(`source`), and so are the queues of operations: the order of a list matters to
the code only where the replay sorts by line, stably, which `InScriptOrder` says
with the lines of object and member. Removals that win by mandate (`Wins`) are
replayed last. `Word` and `About` are the device, line by line, and do not
mention the operations. A VRF is a `vrf definition` and an access list an `ip
access-list` with sequence numbers: the code has no rule for the negations in a
classic `ip vrf`, and no removal that addresses an entry without a number.

* `EditsAreDevice`: whatever the blocks, deletions between them and baseline, each
  slot ends as on the device. Held out are the removals that win by mandate
  (`Overruled`: a section nulled out stays out, as the code's comments say) and
  the kinds whose walk does not keep the order of its lines (`Blurred`, case by
  case; among them a list member that is not spelled as the model prints it, an IPv6
  address in another notation or a helper address with a keyword behind it).
* `ResetsComeFirst`: "no SET/UNSET contradiction on the same field": a member SET
  of a list that a bare negation resets stands after the UNSET.
* `ReaddRepopulates` is violated: see Disagreements.

### `BgpInstance`, `BgpInstanceProofs`

A `router bgp` stanza (`parse_bgp`, `_native_bgp_ops` and the negation walks) in
three dialects: IOS, and EOS with `peer-group` or `peer group`. Sessions,
peer-groups, address families, redistribution, aggregates, settings and VRFs. The
router executes the script first, line by line (`ExecuteLine`), and refuses what it
would refuse (`Accepts`): policy for a session or group it does not have. Then one
action reads the process level (`parse_bgp`), one each VRF (`ParseVrf`), one attaches
the operations and `ReplayOp` applies them in script order.

A session is one SET whose value folds every positive line of the peer, at the
peer's last one; a policy line inside a family is folded into the session or into
a stub of one, which has no line and is replayed last. Negations are removals at
their own lines, but for `no redistribute`: that is a string of
`_collect_nested_rule_tombstones` which names the IPv4 family whatever block it is
in, and what `derive_ops` makes of it has no line and stands behind every native
operation. EOS's `peer group` is an alias of the neighbor walk only: the walk over
the negations (`IsRead`) and the locator of a group (`PeerGroupLine`) miss it. A
configuration is a function from slots (scope, kind, target) to values, what is
absent is outside its domain, and `Merged` is all a SET does. Operations are a set:
`place`, the block an operation is made for and the line of its member, orders those
of one line as the code's stable sort does (`InScriptOrder`). `router` and `configs`
keep the histories, so the properties compare their last entries, `Device` and
`config`.

The three properties say that the replay has what the router has, whatever the
baseline. Where the code itself departs from the router the slot is excepted, by
a named definition:

* `SessionsAreDevice`, of sessions, their attributes and memberships. Excepted: the
  one SET of a peer carries a value withdrawn before its last line (`CarriedOver`),
  the deletion of a group finds another membership than the router's
  (`FoundOtherwise`), the stub of a peer that only a family names has no line
  (`StubOutlives`), of two `activate` lines the first counts (`ActivatedFirst`), a
  negation EOS writes with `peer group` is not read (`Unread`), a VRF is edited
  outside its first block, where no line is looked for (`InFirstBlock`), and the
  lines the parser drops: `no route-map` in a family, what the walk of an IOS VRF
  has no word for (`ReadKinds`), sessions that are not kept (`IsKept`).
* `GroupsAreDevice`, of the groups the script declares. Excepted: `CarriedOver`,
  `Unread`, and groups with a negated attribute.
* `MembersAreDevice`, of networks, aggregates, redistribution and settings, in every
  scope, what is withdrawn last included. Excepted: the removal of a redistribution
  that reaches the family instead of its own scope, or undoes a later statement of
  the family (`RemovedElsewhere`); a negated `bestpath` option, which reads as the
  default (`NeverReset`); a second limit with another value, or a negated one, since
  the first positive line is read (`FirstLimitRead`); an aggregate of the process
  level that is negated, hidden by one of the family, or outlives the family's
  withdrawal (`AggregateMisplaced`); `InFirstBlock`.

Left out: the SET that creates an instance and the empty shell of a family, on
which no slot depends; the family blocks, policy and aggregates of a VRF that EOS's
walk reads; a limit of the process, which only EOS takes.

* `ReaddedIsDevice` is violated: see Disagreements.

## Runs

| Run | Bounds | Distinct states | Shows |
| --- | --- | --- | --- |
| `trunk` | 3 VLANs, 4 lines, every baseline | 481,000 | the list, and the refinement of `TrunkDevice` |
| `services` | 1 SLA, 1 track, 1 banner, 2 facts, 5 lines | 361,000 | presence, attributes, legacy agreement |
| `change_ir` | 3 lines, five operating systems | 231,000 | composition and shim |
| `physical` | 4 cables, 2 in one bundle, 3 devices, 2 rows a cable, every inventory | 39,700 | the links |
| `bgp_sessions` | 3 devices, up to 5 statements, 2,042 estates in every order | 30,300 | peers, groups and edges |
| `pipeline` | texts of 3 lines of every kind; 2 interfaces, 2 processes, 2 BGP instances | 44,400 | back-fills, disclosure, termination |
| `dependencies` | two references of any two kinds, 2 names, 1 VRF, targets defined or not | 77,900 | edges and orphans |
| `junos` | 2 groups at two levels, 2 interfaces; 4 statements in either rendering | 51,400 | tree, disclosure, inheritance |
| `junos_wildcard` | the same with no interface written | | violation |
| `igp` | one block of 3 lines or two of 2 and 1, three protocols, two spellings | 81,500 | replay, withdrawals |
| `edited_blocks` | 3 lines, or 2 and 1 around a deletion, seven families of objects | 140,000 | replay, resets |
| `bgp_instance` | up to 4 lines of a peer, a group, a family, a VRF; 2 baselines, 3 dialects | 463,000 | sessions, groups, members |

Four lines are enough for every order of define, remove, define again and edit,
which is the longest pattern the code distinguishes (it remembers first, last
and "since the last reset"). Where a block starts with its header, three lines
and a second block give the same patterns. Two VLANs tell "this VLAN" from
"another", the third "none of the list" from both. The entities of one kind do
not interact, so one of each suffices for interference between kinds; the proofs
remove these bounds. Three definitions let a removal stand between an object and
its re-creation or its sibling. Three devices, of which two share a domainless
prefix, give every form of host name; two cables in a bundle give bundles. For
BGP sessions, two devices with two addresses each run parallel sessions seen
from one side or both, with and without local addresses; a third device between
them gives sessions to others, an address nobody owns and, last, an address that
two devices own, with one AS or two. In the pipeline two steps tell "already
read" from "not yet", and a header with two nested lines puts two negations under
one block. Two references in the dependency graph share a source, a target, an
edge or nothing; peer-groups are looked up in two instances. One peer, one group
and one prefix suffice in `bgp_instance` since targets only meet by membership.

Deadlock is not checked: every model stops when the input ends, as the program
does.

**Fairness and liveness.** Only `ParsePipeline` states fairness, `WF_vars(Next)`:
parse() is a function the interpreter is running, so while some step is possible
one is taken. `ParseEnds` then says that no walk waits for another and none goes
round forever, whatever raises. In the other modules each step consumes a line,
a row or an operation of a finite input, and a liveness property would say no
more than that.

**Definitions outside the runs.** The type invariants of `ChangeIR`,
`BgpSessions`, `DependencyGraph`, `JunosTree`, `IgpInstance`, `EditedBlocks` and
`BgpInstance`, and `SetsMerge` of `JunosTree`, hold when they are added to the
INVARIANTs of the same cfg. They are left out of the lists in favour of the
properties that say something of the code; those of `ChangeIR`, `EditedBlocks`,
`IgpInstance`, `JunosTree` and `ParsePipeline` are proved.

## Proofs

For every value of the constants and inputs of any length:

* `ParsingProofs`, of `TrunkVlan`: `TrunkTypeCorrect`, `ReplayCorrect`, `AnchoredListCorrect` and
  the refinements `OpsRefineDevice` and, for stanzas without `no switchport`
  (`SwitchportSpec`), of the whole specification, `SwitchportRefines`. The inductive
  invariant relates the queued deltas to the baseline: unanchored, the switch's
  list is the baseline (or, since a reset, the default list) with the queued deltas
  applied in order; anchored, it is `vlan_set` and nothing is queued.
  `ReplayMatchesDevice` alone is not inductive, since it says nothing of an anchored
  fold that a later reset undoes.
* `ServiceEntitiesProofs`: `TypeCorrect`, `PresenceCorrect`, `BlocksCorrect`,
  `LegacyCorrect`. The invariant restates presence by the *lines* of settings and
  deletions of an entity: it survives when it has a setting no deletion follows,
  or had a baseline and no deletion. `ReplaySurvives` and `LegacyMerged` connect
  this to the two consumers once and for all; each action then only has to say
  which lines it adds.
* `GraphProofs`, of `PhysicalTopology`: `TablesTypeCorrect`, `LinksAreExact`,
  `ConnectionsAreUnique`, `CdpFirst`. The invariant says of each table
  separately that its keys are those of the cables reported in it, that keys are
  unique and that sources are the table's; `LoadStep` proves it once for a row of
  either table.
* `ParsingProofs`, of `ParsePipeline`: `TypeCorrect`, `ParsedValueCorrect`,
  `NothingInventedCorrect`, `PassivityCorrect`, `DisclosureCorrect`,
  `NoFalseAlarm`, `CompleteCorrect`. Its first part has a lemma for each of the
  walks of `BackFill`; `FirstWord` says of the turns taken *so far* which process
  or area the value is from, which is what the final statement needs at each turn.
  The second adds that the ledger and the queues are exactly the lines of the
  steps done (`ReadBefore`), so that the collection, which runs once at the end,
  sees every claim.
* `GraphProofs`, of `DependencyGraph`: `LinksDrawn`, `OrphansCorrect`,
  `DanglingCorrect`, `GhostsCorrect`. `ResolverInv` says that the links are those of the walked
  references and the referenced names theirs; `GraphInv` gives nodes and edges as
  functions of the links already built. `AllWalked` closes the gap between the
  families and the references: when the orphans are computed, every reference has
  been walked, whatever family reads it. `NamesAgree` is where the names of the two
  files meet: of every object the resolver's identifier is the builder's.
* `GraphProofs`, of `BgpSessions`: `NothingGuessed`, `NothingDropped`, `AddressedMeet`,
  `EdgesCorrect`. `ResolvesToTarget` is the heart: the device a statement means is
  always a candidate and has the remote AS, so a single one is it. The invariant
  says that every end in a group is the end of a resolved statement, and that every
  resolved statement that was read is filed or deferred; `FiledJoinsOrOpens` says
  what the dictionary of lists is after an append, whatever the key. `KeyInv` adds
  that keys differ and that the members with a local address have the key of their
  group (`KeyTellsSession` gives the first theorem about sessions). `FabricInv`
  holds where the three conditions do: a group has one or two different ends of one
  session, two groups have different sessions, no end waits twice or is filed
  while it waits, and while statements are unread only ends with a local address
  are filed. The last part is what lets a deferred end find its far side:
  everything it could pair with has been filed when the second loop begins. With
  it `EdgeOfGroup` reads the edge of a group off either of its ends, and
  `EdgesCorrect` counts the groups by a bijection with the sessions.
* `ChangeIRProofs`: `TypeCorrect`, `ObjectsCorrect`, `IntentCorrect`,
  `DeletionsCorrect`, `ShimDeletionsCorrect`, `ShimWholeCorrect`. The state only
  grows, so the invariant is small: its parts come from the vocabulary, and no path
  is both queued and left as a string (`QueuedOnce`). The work is about the pure
  functions of it: `NativeShape` says which paths native operations have,
  `WholeClaimed` and `StringUnclaimed` decide the claims of `derive_ops` for every
  path, `ShimmedSets` what the shim restores. They rest on the assumptions about
  the shapes of paths: how many segments name a whole object of a family, and with
  which segments a removal begins (`DefinitionsAssumption`, `RemovalsAssumption`,
  `StringsAssumption`), which the constructors of the operations in change_ir.py
  and the walks obey.
* `IgpInstanceProofs`: `TypeCorrect`, `WithdrawalsCorrect`, `ReplayCorrect`. The
  invariant says what instances, queue and ledger are made of the blocks read
  (`BlocksRead`), the operations of those (`Attached`), that nothing left to replay
  precedes what was replayed (`InTurn`), and that each slot has the value of the
  last operation on it among those replayed (`LastWord`). At the end this is the
  last operation of all, and `LastStated`, `LastWithdrawn` and `LastLogged` show,
  by what the last line about the slot is, that its operation is the last one:
  between a SET at its header and the line itself no removal is left, since a
  removal before a statement of the same block is suppressed.
* `EditedBlocksProofs`: `TypeCorrect`, `ResetsCorrect`, `EditsCorrect`. The
  invariant says at each phase what objects, resets, removals and operations are of
  the script (`Stage`), and of the replay the same two things as above (`InTurn`,
  `LastWord`); it is needed because `EditsAreDevice` says something only of the
  last state. `Speaks` tells the lines whose operation is a SET (a negation of a
  field that is on by default is one) from those whose operation is a removal.
  `LastHasSet` and `LastHasRemoval` find the operation of the last line about a
  slot, `SetsSayWord` and `RemovalsSayWord` say that all of its sort leave what that
  line says, and `SpokenDecides` and `WithdrawnDecides` that no operation of the
  other sort comes later, so that the last one is right. This is where the locators
  matter: a SET found at the last occurrence of its member outlives every removal
  before it. Where that fails the kind is in `Blurred`, and the proof uses each of
  its cases.
* `JunosTreeProofs`: `TypeCorrect`, `LocalFirstHolds`, `RenderingsConvergeHolds`,
  `ChangesAreDisclosedHolds`, `ValueByPrecedenceHolds`. `TypeInv` says that the dicts are trees (no node
  without its parent, one total order of the keys of each node) and that every call
  of `_fill` stands on nodes that are there; `_deep_merge`, `At`, `Members` and
  `Subtree` keep it. `MergeExtends` is then all that `LocalFirst` needs: a merge adds
  nodes behind and changes no order. For the renderings, `Woven` is the tree that
  a set of statements becomes when they are merged in order, and three lemmas compute
  with it: `WeaveMore` (one statement more is one merge more), and `WovenAt` and
  `AtAt` (a block woven by itself and then put at its path is its statements put
  there one by one). `ParseInv` says that the tree is woven of the statements of the
  closed blocks and `body` of those of the open one; at the end everything is closed
  and the tree is `Written`. `IdiomTold` shows that the count of `_is_set_style`,
  made line by line with the first three of a kind deciding, tells the renderings
  apart, so the scan for disclosures reads the lines as the parser did.
  `ValueByPrecedenceHolds` is about the whole expansion. Its invariant
  (`PrecedenceInv`, of the settled configurations) says whose turn it is: levels wait
  until everything below them has been visited, and the groups of the visited level
  stand in their order (`TurnInv`). A call of `_fill` stands on the one node of its
  group that covers its target, on which it is not opted out, and every inner call is
  about a key its outer calls have visited (`CallsInv`). What is inherited is there
  because a group whose turn has come contributes it (`OriginInv`); and whatever comes
  first for a statement has, once its turn has come, either given it its value or some
  call `Owes` it (`WinInv`). `StillOwed` follows the debt through one turn of the loop:
  it stays with the call, goes to the call or the wildcard loop it makes, or is paid
  by what is planted. `PlantedKeys` says what planting changes, `OnlyPlanted` and
  `InnermostOwes` that it pays nobody else's debt, and `StaysFirst` that what is paid
  stays so, since everything else comes behind. At the end there are no calls, so
  nothing is owed.

* `BgpInstanceProofs`: `InvHolds`, `MembersHold`, `GroupsHold`, `SessionsHold`. `Inv`
  has three parts: `RouterInv`, the router's history is the execution of the lines
  it has passed; `ParseInv`, instances, queue and operations are those of the blocks
  read; `ReplayInv`, the replay applies each operation once and none before an
  earlier one. It is needed because the properties speak of the last state only, and
  compare two histories made of different things. `RouterLast`
  gives the router's value of a slot as the last word of the *lines* about it, and
  `ReplayLast` the replay's as the last word of the *operations* about it;
  `MemberIsDevice` and `SameWord` compare the two. A member has an operation for each
  of its lines, but a session has one SET for all of them: `SessionSetIs` and
  `LineOfSession` find it at the last, and `SessionReplayed` shows that no removal
  comes between a line that states the slot and this SET, or else the slot is
  `CarriedOver`. The members that do not stand at their own line have lemmas of their
  own: `RedistributionReached` and `Redistributed` follow the derived removal, which
  runs last, `AggregateReached` and `Aggregated` an aggregate from either scope into
  the family, and `DefaultMetric`, `BestpathOption` and `MaximumPaths` the settings. The deletion of a group is the hard case, since it removes what is
  a member *when it runs*: `MembershipsSame` shows that the replay then finds the
  router's members, from `MembershipStep`, by which the memberships agree at an
  operation when they agree at the ones before.

Where a walk takes the first of something, `LeastElement` gives it: non-empty sets
of numbers have a least element, from the well-foundedness of `<`.

The assumptions are those of the modules. `TrunkAssumption`, `ServiceAssumption`,
`StepsAssumption` and `TopologyAssumption` are types of constants and disjoint kinds
of entities; `InputsAssumption` says that documents and lines are of their forms, a
line is read by at most one step, and a text starts at the top level;
`ConfigurationsAssumption` that configurations are of the form `Configuration`;
`NamesAssumption` and `DocumentsAssumption` are given with `JunosTree`;
`EstateAssumption` that there are finitely many devices and that estates are
well-formed (see `BgpSessions`); the four of `ChangeIR` are about the shapes of
paths (above); the `ScriptsAssumption` of `IgpInstance` that a script opens with a
header, has kinds of its protocol, says of a kind without values that it is on, and
writes `default-information` in one way; that of `EditedBlocks` that a line is one of
its family (`Belongs`) and, where the family has blocks, in one; `KeysAssumption` that
no member is called like a negation without an operand; the three of `BgpInstance`
that peers, groups and routes have different names (`TargetsAssumption`), that a
script is one stanza whose lines stand in blocks of their scope and are of its
vocabulary (`ScriptsAssumption`), and that a baseline holds values only
(`BaselinesAssumption`); `NoNameClash` is in `IngestInit`. TLC evaluates
all of them in every run.

`GraphProofs` and `ParsingProofs` are about three and two modules that share
nothing, which is why the specifications of `PhysicalTopology`, `DependencyGraph` and
`TrunkVlan` have names of their own (`IngestSpec`, `GraphSpec`, `TrunkSpec`).

Model-checked only: `ParseEnds`, as liveness under fairness is out of the prover's
reach. Every safety property of a passing run is a theorem.

## Disagreements between the code and what it says of itself

`junos_wildcard` is a run of the project: `_fill` copies the statements a target
lacks with everything below them, so that a wildcard nested in a group's statement
becomes a node, though "a wildcard matches *existing* nodes only — it never creates
one" (junos_groups.py:42). `PROJECT.json` has the finding.

The others are kept as configurations that show the violation when run by hand,
`tlc -config <cfg> <module>`:

| Configuration, module | Property | What it shows |
| --- | --- | --- |
| `MCTrunkRouted.cfg`, `MCTrunkVlan` | `ReplayIsExact` | `no switchport` withdraws the L2 personality, but the trunk fold keeps the VLANs before it |
| `MCServiceBanners.cfg`, `MCServiceEntities` | `ReplayedBanners` | a banner set again gets its first text |
| `MCServiceSlas.cfg`, `MCServiceEntities` | `ReplayedSlas` | a re-created SLA operation gets the schedule and reactions of the removed one |
| `MCShimGated.cfg`, `MCChangeIR` | `ShimIsPreNative` | for a gated instance the shim's artifacts are not those of the pre-native parser |
| `MCMemberCount.cfg`, `MCPhysicalTopology` | `CountsMembers` | a cable counted from both ends is "two members" |
| `MCBgpPairing.cfg`, `MCBgpSessions` | `PairsPointBack` | an end without a local address takes a far end that names another device, when that device owns the same address |
| `MCOrphans.cfg`, `MCDependencyGraph` | `OrphansAreUnreferenced` | an object is an "orphan, never referenced by anything" (dependency_resolver.py:8) though a field no method reads names it (for example interface.py:635, isis.py:19, ospf.py:227, snmp.py:13) |
| `MCIgpSpelling.cfg`, `MCIgpInstance` | `RefreshSuppressesRemoval` | virtual links and filter lists are kept by the raw spelling of the area, so `area 0` does not refresh `area 0.0.0.0` (ios_parser.py 5525, 5572), though the comment at 5236-5240 warns of exactly this |
| `MCResetReadd.cfg`, `MCEditedBlocks` | `ReaddRepopulates` | "a reset-then-readd repopulates" (ios_parser.py 2211-2214), but an IPv6 address the script spells otherwise than the model prints it is not found by the pattern that looks for its last line (2000-2005), and is cleared |
| `MCBgpReadd.cfg`, `MCBgpInstance` | `ReaddedIsDevice` | a session, or an attribute of it, that is removed before the peer's last line comes back with what it had, since one SET at that line folds every positive line of the peer (against ios_parser.py 3972-3974, "delete-then-readd and reset-then-reassert are different (and correct) op sequences") |

## Plan

Done: `TrunkVlan`, `ServiceEntities`, `ChangeIR`, `PhysicalTopology`, `BgpSessions`,
`ParsePipeline` with its back-fills, `DependencyGraph`, `JunosTree`, and of the IOS
parser `IgpInstance`, `EditedBlocks` and `BgpInstance`. What is left, in order:

1. NX-OS, EOS and IOS-XR: the overrides that change the order of lines or the gates
   (nxos_parser.py 2034-2312, eos_parser.py 1956-2230, iosxr_parser.py 2590-2729),
   as further dialects of `BgpInstance` and `EditedBlocks`.
2. BGP: EVPN and VPN families, several `router bgp` stanzas, NX-OS templates.
3. The IGP edges of the topology graph over the links of `PhysicalTopology`
   (topology/graph.py 503-612).
4. `Discovery`: files, inventory and the operating system of a device (loader.py
   150-410, cli.py 255-374).

## Not modelled

* Field extraction (regular expressions to model fields) in all parsers, the
  PAN-OS XML reader, exporters and escaping, the pydantic models, terminal and file
  I/O. They are line-local: what a line says does not depend on another line, so
  tests reach them.
* The parts named in the plan above.
* In `IgpInstance`: scalars of a process that take their first matching line; the
  deletion of a whole process. In `EditedBlocks`: route-maps, QoS, NAT, crypto and
  management sections, which are read in the ways its kinds are. In
  `DependencyGraph`: labels, and the collapse of parallel references into one edge is
  part of the model and not judged. In `ParsePipeline`: the text of a disclosure, and
  the positive operations of the attachment, which are the subject of the other
  modules.
