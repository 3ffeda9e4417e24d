----------------------------- MODULE BgpInstance -----------------------------
(***************************************************************************)
(* A `router bgp` stanza of a change script: the walks of parse_bgp over   *)
(* its sessions, peer-groups, address families and VRF instances, the      *)
(* native operations made of them, and their replay in line order over a   *)
(* baseline.                                                               *)
(*                                                                         *)
(* A session is one SET whose value folds every positive line of the peer, *)
(* at the peer's last positive line; a negation is a removal at its own    *)
(* line, and `no neighbor X peer-group` means two things by what X is.     *)
(* Policy inside a family is folded into the session, or into a stub of    *)
(* one.  Sessions and peer-groups share one namespace of targets, where a  *)
(* peer is an address and a peer-group is not.                             *)
(*                                                                         *)
(* A configuration is a partial function: a slot is a scope, a kind and a  *)
(* target, and what is absent is outside its domain.  Scope "af" is the    *)
(* IPv4 unicast family of the global instance, "vrf" one VRF.  The router  *)
(* executes the script first, and refuses one that makes no sense.         *)
(*                                                                         *)
(* Left out, as no slot depends on them: the SETs that create the instance *)
(* and the empty shell of a family, and the rest of the VRF walk of EOS    *)
(* (family blocks, policy and aggregates of a VRF, which Belongs rules out *)
(* of the scripts).  A limit stands in a family only, where EOS also takes *)
(* one for the process.                                                    *)
(***************************************************************************)
EXTENDS Naturals, Sequences, SequencesExt, FiniteSetsExt

CONSTANTS
  Peers,       \* addresses of neighbors
  Groups,      \* names of peer-groups
  Routes,      \* prefixes of networks and aggregates, redistributed protocols
  Values,      \* AS numbers, route-maps, attributes, limits
  Scripts,     \* sequences of lines; the first is the header of the stanza
  Baselines    \* configurations before the change

Absent == "absent"
On == "on"
Off == "off"
Process == "process"   \* the target of what a whole block has once

SessionKinds == {"remote_as", "shutdown", "route_map", "member"}
MemberKinds == {"network", "aggregate", "redistribute"}
ScalarKinds == {"default_metric", "bestpath", "maximum_paths"}
Kinds == SessionKinds \cup MemberKinds \cup ScalarKinds \cup {"neighbor", "group", "activate"}

Targets == Peers \cup Groups \cup Routes \cup {Process}
Line == [scope : {"global", "af", "vrf"}, kind : Kinds \cup {"header"}, no : BOOLEAN,
         at : Targets, val : Values \cup Groups \cup {On, Absent}]

\* What is written in each scope, about which targets.
Belongs(l) ==
  CASE l.kind = "header"      -> ~l.no /\ l.at = Process
    [] l.kind = "neighbor"    -> l.no /\ l.at \in Peers \cup Groups /\ l.scope # "af"
    [] l.kind = "group"       -> (l.at \in Groups /\ l.scope = "global") \/ (l.no /\ l.at \in Peers /\ l.scope # "af")
    [] l.kind = "member"      -> l.at \in Peers /\ l.scope # "af"
    [] l.kind = "route_map"   -> l.at \in Peers \cup Groups
    [] l.kind \in {"remote_as", "shutdown"} -> l.at \in Peers \cup Groups /\ l.scope # "af"
    [] l.kind = "activate"    -> l.at \in Peers \cup Groups /\ l.scope = "af"
    [] l.kind \in {"network", "redistribute"} -> l.at \in Routes
    [] l.kind = "aggregate"   -> l.at \in Routes /\ l.scope # "vrf"
    [] l.kind = "maximum_paths" -> l.at = Process /\ l.scope = "af"
    [] l.kind = "default_metric" -> l.at = Process /\ l.scope = "global"
    [] l.kind = "bestpath"    -> l.at = Process /\ l.scope = "global" /\ (l.no \/ l.val = On)

HeadersIn(lines, scope) == {n \in 1..Len(lines) : lines[n].kind = "header" /\ lines[n].scope = scope}

ASSUME TargetsAssumption ==
  /\ Peers \intersect Groups = {} /\ Routes \intersect (Peers \cup Groups) = {}
  /\ Process \notin Peers \cup Groups \cup Routes /\ Absent \notin Values \cup Groups

\* One stanza; every line stands in a block of its scope.
ASSUME ScriptsAssumption ==
  \A lines \in Scripts :
    /\ lines \in Seq(Line) /\ HeadersIn(lines, "global") = {1}
    /\ \A n \in 1..Len(lines) :
         /\ Belongs(lines[n]) /\ (~lines[n].no /\ lines[n].kind # "header" => lines[n].val # Absent)
         /\ \E h \in HeadersIn(lines, lines[n].scope) : h <= n

ASSUME BaselinesAssumption ==
  \A cfg \in Baselines : \A s \in DOMAIN cfg : cfg[s] # Absent /\ (s[2] = "neighbor" => cfg[s] = On)

\* EOS writes `peer group` where IOS, and EOS before it, wrote `peer-group`.
Dialects == {"ios", "eos", "eos_hyphen"}

VARIABLES
  dialect,     \* how the sessions of a VRF and the peer-groups are written
  script,
  router,      \* the router's configuration before each line, and after the last
  phase,       \* "execute", "parse" or "replay"
  vrfsRead,    \* headers of the VRF blocks read so far
  instances,   \* the parsed instances
  pending,     \* _pending_native_bgp_ops
  ops,         \* the operations, once attached and composed with the derived ones
  replayed,    \* the operations replayed, in their order
  configs      \* the configuration before each of them, and after the last

inputs == <<dialect, script>>
vars == <<dialect, script, router, phase, vrfsRead, instances, pending, ops, replayed, configs>>

Lines == 1..Len(script)
Slot(n) == <<script[n].scope, script[n].kind, script[n].at>>

\* Configurations, and what a SET states: functions on slots.
Nothing == [s \in {} |-> Absent]
Get(cfg, s) == IF s \in DOMAIN cfg THEN cfg[s] ELSE Absent

Only(s, v) == [r \in {s} |-> v]
Over(v, u) == [s \in DOMAIN v \cup DOMAIN u |-> IF s \in DOMAIN v THEN v[s] ELSE u[s]]

\* cfg with the slots of v set; a slot set to Absent is gone.
Merged(cfg, v) ==
  LET both == Over(v, cfg)
  IN  [s \in {s \in DOMAIN both : both[s] # Absent} |-> both[s]]

Without(cfg, slots) == [s \in DOMAIN cfg \ slots |-> cfg[s]]

-----------------------------------------------------------------------------
(* The stanza and its blocks *)

Headers(scope) == HeadersIn(script, scope)

\* The lines directly under header h.
Children(h) ==
  {n \in Lines : h < n /\ script[n].scope = script[h].scope /\ \A g \in Headers(script[h].scope) : g <= h \/ n < g}

Stating(h, kind) == {n \in Children(h) : script[n].kind = kind /\ ~script[n].no}
Negating(h, kind) == {n \in Children(h) : script[n].kind = kind /\ script[n].no}

\* Line 0 is an unknown position.
FirstLine(lines) == IF lines = {} THEN 0 ELSE Min(lines)
LastLine(lines) == IF lines = {} THEN 0 ELSE Max(lines)

\* The last of the lines says what a slot is.
Folded(lines) ==
  [s \in {Slot(n) : n \in lines} |-> script[LastLine({n \in lines : Slot(n) = s})].val]

-----------------------------------------------------------------------------
(* Sessions and peer-groups *)

_is_bgp_peer_group_ref(x) == x \notin Peers

\* The alias of `peer group` is known to the walk over the positive lines, not
\* to the walk over the negations nor to the search for a declaration's line.
Hyphenated == dialect # "eos"

_bgp_neighbor_commands(h, x, kinds) ==
  {n \in Children(h) : script[n].at = x /\ script[n].kind \in kinds /\ ~script[n].no}

\* `address-family ipv4 vrf` has a walk of its own that reads less.
ReadKinds(scope) == IF scope = "vrf" /\ dialect = "ios" THEN {"remote_as", "route_map"} ELSE SessionKinds

Session(h, x) == Folded(_bgp_neighbor_commands(h, x, ReadKinds(script[h].scope)))

\* "invalid neighbor" otherwise; a shutdown alone is a stub.
IsKept(h, x) == \E s \in DOMAIN Session(h, x) : s[2] \in {"remote_as", "member", "shutdown"}

Exists(scope, x) == Only(<<scope, "neighbor", x>>, On)

_parse_bgp_neighbors(h) ==
  [x \in {x \in Peers : IsKept(h, x)} |-> Over(Exists(script[h].scope, x), Session(h, x))]

_bgp_peer_group_names(h) == {script[n].at : n \in Stating(h, "group")}

\* `shutdown` is not a word of the peer-group vocabulary.
apply_peer_group_command(h, g) == Folded(_bgp_neighbor_commands(h, g, {"group", "remote_as", "route_map"}))

_parse_bgp_peer_groups(h) ==
  [g \in _bgp_peer_group_names(h) |-> apply_peer_group_command(h, g)]

\* `no neighbor X activate` is read first, so a positive line wins.
AfPolicy(h, x) ==
  Over(Folded(_bgp_neighbor_commands(h, x, {"activate", "route_map"})),
       IF \E n \in Negating(h, "activate") : script[n].at = x
       THEN Only(<<"af", "activate", x>>, Off) ELSE Nothing)

\* What the blocks of the family say of a peer, the last one first.
AfEntries(x) ==
  LET Saying(s) == {h \in Headers("af") : s \in DOMAIN AfPolicy(h, x)}
  IN  [s \in UNION {DOMAIN AfPolicy(h, x) : h \in Headers("af")} |-> AfPolicy(LastLine(Saying(s)), x)[s]]

\* A peer known only to a family gets a stub that inherits everything else.
_apply_bgp_af_neighbor_policies(neighbors) ==
  [x \in DOMAIN neighbors \cup {x \in Peers : DOMAIN AfEntries(x) # {}} |->
     Over(AfEntries(x), IF x \in DOMAIN neighbors THEN neighbors[x] ELSE Exists("global", x))]

-----------------------------------------------------------------------------
(* Networks, families and scalars *)

Member(n) == [kind |-> script[n].kind, at |-> script[n].at, val |-> script[n].val, source |-> n]
MembersOf(h, kinds) == {Member(n) : n \in UNION {Stating(h, kind) : kind \in kinds}}

_build_bgp_af(h) ==
  [object |-> h,
   members |-> MembersOf(h, MemberKinds),
   maximum_paths |-> IF Stating(h, "maximum_paths") = {} THEN Absent
                     ELSE script[FirstLine(Stating(h, "maximum_paths"))].val]

HasAggregates(af) == \E m \in af.members : m.kind = "aggregate"

\* Aggregates printed at the process level belong to the IPv4 unicast family:
\* a family that states its own keeps them, a missing one is synthesized.
_merge_bgp_process_level_af_settings(h, afs) ==
  LET settings == MembersOf(h, {"aggregate"})
      base == IF afs = {} THEN {[object |-> 0, members |-> {}, maximum_paths |-> Absent]} ELSE afs
      first == CHOOSE af \in base : \A other \in base : af.object <= other.object
  IN  IF settings = {} THEN afs
      ELSE IF HasAggregates(first) THEN base
      ELSE (base \ {first}) \cup {[first EXCEPT !.members = @ \cup settings]}

_parse_bgp_address_families(h) ==
  _merge_bgp_process_level_af_settings(h, {_build_bgp_af(b) : b \in Headers("af")})

\* A negation of the option anywhere in the block is the last word.
_parse_bgp_bestpath_options(h) == Stating(h, "bestpath") # {} /\ Negating(h, "bestpath") = {}

Instance(h, neighbors, groups, afs) ==
  [scope |-> script[h].scope, object |-> h, neighbors |-> neighbors, peer_groups |-> groups,
   address_families |-> afs, members |-> MembersOf(h, {"network", "redistribute"}),
   bestpath |-> script[h].scope = "global" /\ _parse_bgp_bestpath_options(h)]

-----------------------------------------------------------------------------
(* The walk over the negations *)

\* `place` tells the operations of one line apart: the block an operation is
\* made for and, there, the line of the member.
Op(verb, scope, kind, at, value, line, place) ==
  [verb |-> verb, scope |-> scope, kind |-> kind, at |-> at, value |-> value, line |-> line, place |-> place]

RemovalOf(verb, n) == Op(verb, script[n].scope, script[n].kind, script[n].at, Nothing, n, <<0, n>>)

_emit_bgp_neighbor_no_op(n) ==
  IF script[n].kind \in {"neighbor", "remote_as"} THEN RemovalOf("DELETE", n)
  ELSE IF script[n].kind = "group" /\ _is_bgp_peer_group_ref(script[n].at) THEN RemovalOf("DELETE_GROUP", n)
  ELSE IF script[n].kind = "group" THEN [RemovalOf("UNSET", n) EXCEPT !.kind = "member"]
  ELSE RemovalOf("UNSET", n)

\* A negation in a spelling the walk does not know is skipped.
IsRead(n) ==
  /\ script[n].no /\ script[n].kind \in SessionKinds \cup {"neighbor", "group"}
  /\ script[n].kind \in {"group", "member"} => Hyphenated

_parse_bgp_neighbor_tombstones(h) ==
  {_emit_bgp_neighbor_no_op(n) : n \in {n \in Children(h) : IsRead(n)}}
  \cup {RemovalOf("LIST_REMOVE", n) : n \in Negating(h, "network")}

-----------------------------------------------------------------------------
(* The native operations *)

\* The lines an operation is looked for in: the first block of the scope.
Candidates(scope) == IF Headers(scope) = {} THEN {} ELSE Children(FirstLine(Headers(scope)))
Positives(scope, kinds, at) ==
  {n \in Candidates(scope) : ~script[n].no /\ script[n].kind \in kinds /\ script[n].at = at}

SetOp(scope, kind, at, value, line, place) == Op("SET", scope, kind, at, value, line, place)

FirstPositive(scope, x) == FirstLine(Positives(scope, SessionKinds, x))   \* (mutant)
NeighborLine(scope, x) == LastLine(Positives(scope, SessionKinds, x))

NeighborOps(inst) ==
  {SetOp(inst.scope, "neighbor", x, inst.neighbors[x], NeighborLine(inst.scope, x), <<inst.object, 0>>) :
     x \in DOMAIN inst.neighbors}

FirstDeclaration(scope, g) == FirstLine(Positives(scope, {"group"}, g))   \* (mutant)
PeerGroupLine(scope, g) == IF Hyphenated THEN LastLine(Positives(scope, {"group"}, g)) ELSE 0

PeerGroupOps(inst) ==
  {SetOp(inst.scope, "group", g, inst.peer_groups[g], PeerGroupLine(inst.scope, g), <<inst.object, 0>>) :
     g \in DOMAIN inst.peer_groups}

FirstOfMember(scope, m) == FirstLine(Positives(scope, {m.kind}, m.at))    \* (mutant)

\* A redistribution is found at its first line, other members at their last.
MemberLine(scope, m) ==
  IF m.kind = "redistribute" THEN FirstOfMember(scope, m) ELSE LastLine(Positives(scope, {m.kind}, m.at))

MemberOps(scope, object, members) ==
  {SetOp(scope, m.kind, m.at, Only(<<scope, m.kind, m.at>>, m.val), MemberLine(scope, m), <<object, m.source>>) :
     m \in members}

\* One SET per line, to the value or to the default, at the line.
_bgp_instance_scalar22_updates(scope) ==
  {SetOp(scope, "default_metric", Process, Only(Slot(n), IF script[n].no THEN Absent ELSE script[n].val), n, <<0, n>>) :
     n \in {n \in Candidates(scope) : script[n].kind = "default_metric"}}

BestpathOps(inst) ==
  IF inst.bestpath
  THEN {SetOp(inst.scope, "bestpath", Process, Only(<<inst.scope, "bestpath", Process>>, On),
              FirstLine(Positives(inst.scope, {"bestpath"}, Process)), <<inst.object, 0>>)}
  ELSE {}

AfRemovals ==
  {RemovalOf("LIST_REMOVE", n) : n \in {n \in Candidates("af") : script[n].no /\ script[n].kind \in {"aggregate", "network"}}}

AddressFamilyOps(af) ==
  MemberOps("af", af.object, af.members)
    \cup (IF af.maximum_paths = Absent THEN {}
          ELSE {SetOp("af", "maximum_paths", Process, Only(<<"af", "maximum_paths", Process>>, af.maximum_paths),
                      FirstLine(Positives("af", {"maximum_paths"}, Process)), <<af.object, 0>>)})
    \cup AfRemovals

InstanceOps(inst) ==
  NeighborOps(inst) \cup PeerGroupOps(inst) \cup MemberOps(inst.scope, inst.object, inst.members)
    \cup (IF inst.scope = "global" THEN _bgp_instance_scalar22_updates("global") ELSE {})
    \cup BestpathOps(inst) \cup UNION {AddressFamilyOps(af) : af \in inst.address_families}

\* `no redistribute`, in whatever block of the stanza, is a string that names
\* the IPv4 family; what derive_ops derives of it stands after all the native
\* operations.
_collect_nested_rule_tombstones ==
  {Op("LIST_REMOVE", "af", "redistribute", script[n].at, Nothing, 0, <<Len(script) + 1, n>>) :
     n \in {n \in Lines : script[n].kind = "redistribute" /\ script[n].no}}

\* By line, unknown positions last; stable, so that the operations of one line
\* keep the order of their blocks and of the lines in them.
InScriptOrder(o, p) ==
  \/ o.line # 0 /\ (p.line = 0 \/ o.line < p.line)
  \/ /\ o.line = p.line
     /\ o.place[1] < p.place[1] \/ (o.place[1] = p.place[1] /\ o.place[2] < p.place[2])

-----------------------------------------------------------------------------
(* The replay: a SET merges what its value states *)

SessionScopes(scope) == IF scope = "global" THEN {"global", "af"} ELSE {scope}
TargetSlots(scope, x) == SessionScopes(scope) \X Kinds \X {x}

MembersIn(cfg, scope, g) == {x \in Peers : Get(cfg, <<scope, "member", x>>) = g}

WithoutGroup(cfg, scope, g) ==
  Without(cfg, TargetSlots(scope, g) \cup UNION {TargetSlots(scope, x) : x \in MembersIn(cfg, scope, g)})

Applied(cfg, o) ==
  CASE o.verb = "SET" -> Merged(cfg, o.value)
    [] o.verb = "DELETE" -> IF o.at \in Peers THEN Without(cfg, TargetSlots(o.scope, o.at)) ELSE cfg
    [] o.verb = "DELETE_GROUP" -> WithoutGroup(cfg, o.scope, o.at)
    [] o.verb = "UNSET" -> IF o.at \in Peers THEN Without(cfg, {<<o.scope, o.kind, o.at>>}) ELSE cfg
    [] o.verb = "LIST_REMOVE" -> Without(cfg, {<<o.scope, o.kind, o.at>>})

-----------------------------------------------------------------------------
(* The router, line by line *)

DeviceLine(cfg, l) ==
  LET slot == <<l.scope, l.kind, l.at>>
      session == IF l.kind \in SessionKinds /\ l.at \in Peers /\ l.scope # "af" THEN Exists(l.scope, l.at) ELSE Nothing
  IN  CASE l.kind = "header" -> cfg
        [] l.kind = "aggregate" /\ ~l.no -> Merged(cfg, Only(<<"af", "aggregate", l.at>>, l.val))
        [] l.kind = "aggregate" /\ l.no -> Without(cfg, {<<"af", "aggregate", l.at>>})
        [] l.kind = "activate" -> Merged(cfg, Only(slot, IF l.no THEN Off ELSE l.val))
        [] l.kind \notin {"header", "aggregate", "activate"} /\ ~l.no -> Merged(cfg, Over(Only(slot, l.val), session))
        [] l.kind \in {"neighbor", "remote_as"} /\ l.no -> Without(cfg, TargetSlots(l.scope, l.at))
        [] l.kind = "group" /\ l.no /\ l.at \in Groups -> WithoutGroup(cfg, l.scope, l.at)
        [] l.kind = "group" /\ l.no /\ l.at \in Peers -> Without(cfg, {<<l.scope, "member", l.at>>})
        [] OTHER -> Without(cfg, {slot})

\* A router refuses policy for a session or a peer-group it does not have, and
\* a session that leaves its group without an AS of its own is not considered.
Accepts(cfg, l) ==
  LET scope == IF l.scope = "af" THEN "global" ELSE l.scope
      Has(kind, x) == <<scope, kind, x>> \in DOMAIN cfg
  IN  /\ l.kind = "activate" \/ (~l.no /\ l.kind \in SessionKinds) =>
           IF l.at \in Groups THEN Has("group", l.at)
           ELSE Has("neighbor", l.at) \/ l.kind \in {"remote_as", "member"}
      /\ ~l.no /\ l.kind = "member" => <<"global", "group", l.val>> \in DOMAIN cfg
      /\ l.no /\ l.kind = "group" /\ l.at \in Peers => Has("remote_as", l.at)

-----------------------------------------------------------------------------
Init ==
  /\ dialect \in Dialects /\ script \in Scripts
  /\ \E cfg \in Baselines : router = <<cfg>> /\ configs = <<cfg>>
  /\ phase = "execute" /\ vrfsRead = {} /\ instances = {} /\ pending = {} /\ ops = {} /\ replayed = <<>>

ExecuteLine ==
  /\ phase = "execute" /\ Len(router) <= Len(script)
  /\ LET line == script[Len(router)]
     IN  Accepts(Last(router), line) /\ router' = Append(router, DeviceLine(Last(router), line))
  /\ UNCHANGED <<inputs, phase, vrfsRead, instances, pending, ops, replayed, configs>>

\* The global instance of the stanza.
parse_bgp ==
  /\ phase = "execute" /\ Len(router) > Len(script) /\ phase' = "parse"
  /\ instances' = {Instance(1, _apply_bgp_af_neighbor_policies(_parse_bgp_neighbors(1)),
                            _parse_bgp_peer_groups(1), _parse_bgp_address_families(1))}
  /\ pending' = _parse_bgp_neighbor_tombstones(1)
  /\ UNCHANGED <<inputs, router, vrfsRead, ops, replayed, configs>>

\* One VRF block: `address-family ipv4 vrf` on IOS, `vrf` on EOS.
ParseVrf ==
  /\ phase = "parse"
  /\ \E h \in Headers("vrf") \ vrfsRead :
       /\ \A g \in Headers("vrf") \ vrfsRead : h <= g
       /\ vrfsRead' = vrfsRead \cup {h}
       /\ instances' = instances \cup {Instance(h, _parse_bgp_neighbors(h), [g \in {} |-> Nothing], {})}
       /\ pending' = pending \cup _parse_bgp_neighbor_tombstones(h)
  /\ UNCHANGED <<inputs, router, phase, ops, replayed, configs>>

_native_bgp_ops ==
  /\ phase = "parse" /\ vrfsRead = Headers("vrf") /\ phase' = "replay"
  /\ ops' = pending \cup (UNION {InstanceOps(inst) : inst \in instances}) \cup _collect_nested_rule_tombstones
  /\ UNCHANGED <<inputs, router, vrfsRead, instances, pending, replayed, configs>>

ReplayOp ==
  /\ phase = "replay"
  /\ \E o \in ops \ ToSet(replayed) :
       /\ \A p \in ops \ ToSet(replayed) : ~InScriptOrder(p, o)
       /\ replayed' = Append(replayed, o)
       /\ configs' = Append(configs, Applied(Last(configs), o))
  /\ UNCHANGED <<inputs, router, phase, vrfsRead, instances, pending, ops>>

Next == ExecuteLine \/ parse_bgp \/ ParseVrf \/ _native_bgp_ops \/ ReplayOp
Spec == Init /\ [][Next]_vars

-----------------------------------------------------------------------------
(* Properties *)

TypeOK ==
  /\ dialect \in Dialects /\ script \in Seq(Line) /\ phase \in {"execute", "parse", "replay"}
  /\ vrfsRead \subseteq Headers("vrf")
  /\ \A inst \in instances : inst.object \in {1} \cup vrfsRead /\ inst.scope = script[inst.object].scope
  /\ \A o \in pending \cup ops : o.line \in 0..Len(script) /\ o.kind \in Kinds /\ o.at \in Targets
  /\ Len(router) \in 1..(Len(script) + 1) /\ ToSet(replayed) \subseteq ops /\ Len(configs) = Len(replayed) + 1
  /\ \A cfg \in ToSet(router \o configs) : \A s \in DOMAIN cfg : s[2] \in Kinds /\ s[3] \in Targets /\ cfg[s] # Absent

Device == Last(router)
config == Last(configs)
Finished == phase = "replay" /\ ToSet(replayed) = ops

Scope(n) == IF script[n].scope = "af" THEN "global" ELSE script[n].scope
Block(n) == CHOOSE h \in Headers(script[n].scope) : n \in Children(h)

\* Line n says what slot s is; a session is there once something of it is.
States(n, s) ==
  \/ Slot(n) = s /\ (script[n].no => s[2] = "activate")
  \/ s[2] = "neighbor" /\ ~script[n].no /\ script[n].kind \in SessionKinds
       /\ script[n].scope = s[1] /\ script[n].at = s[3]

\* Line n takes slot s away, alone or with the rest of its target.
Withdraws(n, s) ==
  /\ script[n].no /\ script[n].kind # "activate"
  /\ \/ Slot(n) = s
     \/ /\ s[1] \in SessionScopes(script[n].scope)
        /\ \/ script[n].kind \in {"neighbor", "remote_as"} /\ script[n].at = s[3]
           \/ script[n].kind = "group" /\ script[n].at \in Groups /\ (s[3] \in Groups => script[n].at = s[3])
           \/ script[n].kind = "group" /\ script[n].at = s[3] /\ s[2] = "member"

Anchors(x) == IF x \in Groups THEN {"group"} ELSE SessionKinds

\* A value stated before its withdrawal and not after it, while a later line
\* states something else of the target: the one SET of the target carries it.
CarriedOver(s) ==
  \E n, m, k \in Lines :
    /\ n < m /\ m < k /\ States(n, s) /\ Withdraws(m, s)
    /\ \A j \in m+1..Len(script) : ~States(j, s)
    /\ ~script[k].no /\ script[k].at = s[3] /\ script[k].kind \in Anchors(s[3])
    /\ script[k].scope = Scope(n)

\* The deletion of a group finds another membership than the router's: the
\* peer's SET stands after it, or carries over the membership it had left.
FoundOtherwise(x) ==
  \E m \in Lines :
    /\ script[m].no /\ script[m].kind = "group" /\ script[m].at \in Groups
    /\ \/ CarriedOver(<<"global", "member", x>>)
       \/ \E n \in 1..m, k \in m..Len(script) :
            /\ Slot(n) = <<"global", "member", x>>
            /\ ~script[k].no /\ script[k].at = x /\ script[k].scope = "global"

\* The stub of a peer that only a family names has no line and stands last.
StubOutlives(s) ==
  /\ ~IsKept(1, s[3])
  /\ \E n, m \in Lines : n < m /\ script[n].scope = "af" /\ script[n].at = s[3] /\ Withdraws(m, s)

ActivatedFirst(x) ==
  \E n, m \in Lines : n < m /\ script[n].kind = "activate" /\ script[m].kind = "activate" /\ Block(n) = Block(m)
                        /\ script[n].at = x /\ script[m].at = x /\ ~script[n].no /\ script[m].no

\* A negation of a peer-group, or of a membership, that the walk does not read.
Unread(s) == ~Hyphenated /\ \E n \in Lines : Withdraws(n, s) /\ script[n].kind \in {"group", "member"}

\* Lines are looked for in the first block of a scope: what a line withdraws
\* is named there only.
InFirstBlock(s) ==
  LET about == {n \in Lines : script[n].kind # "header" /\ script[n].scope = s[1] /\ script[n].at = s[3]}
  IN  (\E n \in about : script[n].no) => about \subseteq Candidates(s[1])

SessionSlots ==
  ({"global", "vrf"} \X (SessionKinds \cup {"neighbor"}) \X Peers) \cup ({"af"} \X {"activate", "route_map"} \X Peers)

\* The parser's word on the slot is the script's last one: no fold has lost
\* the order, and no line has gone unread.  Unread are a policy taken back in a
\* family, what the VRF walk has no word for, and a session that is not kept.
InScriptSession(s) ==
  /\ ~CarriedOver(s) /\ ~FoundOtherwise(s[3]) /\ ~StubOutlives(s) /\ ~Unread(s)
  /\ s[1] = "af" => ~ActivatedFirst(s[3]) /\ \A n \in Lines : Withdraws(n, s) => Slot(n) # s
  /\ s[1] # "af" => s[2] \in ReadKinds(s[1]) \cup {"neighbor"} /\ (\A n \in Lines : States(n, s) => IsKept(Block(n), s[3]))
  /\ s[1] = "vrf" => InFirstBlock(s)

(***************************************************************************)
(* The sessions after the replay are the router's, whatever the baseline:  *)
(* a peer removed and stated again is the new one, a removal after the     *)
(* last statement stands, leaving a group is not deleting it, deleting it  *)
(* takes the members it has, and policy in a family neither activates nor  *)
(* deactivates the session.  The exceptions are named above: the folds     *)
(* that lose the order (CarriedOver, FoundOtherwise, StubOutlives,         *)
(* ActivatedFirst), a spelling the walk over the negations does not know   *)
(* (Unread), an edit of a VRF outside its first block (InFirstBlock), and  *)
(* the lines the parser drops: `no route-map` in a family, what the walk   *)
(* of an IOS VRF does not read (ReadKinds), and sessions that are not kept *)
(* (IsKept).                                                               *)
(***************************************************************************)
SessionsAreDevice == Finished =>
  \A s \in SessionSlots : InScriptSession(s) => Get(config, s) = Get(Device, s)

GroupSlots == {"global"} \X {"group", "remote_as", "route_map"} \X Groups

(***************************************************************************)
(* A peer-group the script declares is the router's, deleted and declared  *)
(* again or not.  The exceptions: one of its attributes is negated, and    *)
(* the negation goes to a neighbor of its name; its SET carries a value    *)
(* over its withdrawal (CarriedOver); or the script deletes it in the      *)
(* spelling `peer group` of EOS (Unread).  Declared in that spelling and   *)
(* not deleted, it is covered: its SET has no line and stands last.        *)
(***************************************************************************)
GroupsAreDevice == Finished =>
  \A s \in GroupSlots :
    /\ ~CarriedOver(s) /\ ~Unread(s) /\ \A n \in Lines : Withdraws(n, s) => script[n].kind = "group"
    /\ (\E n \in Lines : States(n, s)) => \E n \in Lines : States(n, <<"global", "group", s[3]>>)
    => Get(config, s) = Get(Device, s)

MemberSlots ==
  ({"global", "vrf"} \X {"network", "redistribute"} \X Routes)
    \cup ({"af"} \X MemberKinds \X Routes)
    \cup {<<"global", "default_metric", Process>>, <<"global", "bestpath", Process>>, <<"af", "maximum_paths", Process>>}

\* The lines about a member; an aggregate is one in its family and outside it.
LinesOf(s) ==
  {n \in Lines : script[n].kind = s[2] /\ script[n].at = s[3] /\ (script[n].scope = s[1] \/ s[2] = "aggregate")}
EndsStated(s) == LinesOf(s) # {} /\ ~script[LastLine(LinesOf(s))].no
EndsWithdrawn(s) == LinesOf(s) # {} /\ script[LastLine(LinesOf(s))].no

\* The removal of a redistribution goes to the family, and comes last: it
\* misses that of another scope, finds the family's without being told, and
\* undoes what a later line states again.
RemovedElsewhere(s) ==
  /\ s[2] = "redistribute"
  /\ IF s[1] = "af"
     THEN ~EndsWithdrawn(s) /\ \E n \in Lines : script[n].kind = "redistribute" /\ script[n].no /\ script[n].at = s[3]
     ELSE EndsWithdrawn(s)

\* A negated bestpath option reads as the default, which states nothing.
NeverReset(s) == s[2] = "bestpath" /\ \E n \in LinesOf(s) : script[n].no

\* Of the limits in a block the first is read, and a negation is not.
FirstLimitRead(s) ==
  /\ s[2] = "maximum_paths"
  /\ \/ EndsWithdrawn(s)
     \/ /\ EndsStated(s)
        /\ LET last == LastLine(LinesOf(s))
           IN  script[FirstLine(Stating(Block(last), "maximum_paths"))].val # script[last].val

\* Of the aggregates at the process level: a negation is not read, a family
\* that states its own hides them, and one that is read has no line and stands
\* after what the family withdraws.
AggregateMisplaced(s) ==
  /\ s[2] = "aggregate" /\ LinesOf(s) # {}
  /\ LET last == LastLine(LinesOf(s))
         InFamily == \E n \in Lines : script[n].kind = "aggregate" /\ script[n].scope = "af" /\ ~script[n].no
     IN  IF script[last].scope = "global" THEN script[last].no \/ InFamily
         ELSE script[last].no /\ \E n \in LinesOf(s) : script[n].scope = "global" /\ ~script[n].no

InScriptMember(s) ==
  /\ ~RemovedElsewhere(s) /\ ~NeverReset(s) /\ ~FirstLimitRead(s) /\ ~AggregateMisplaced(s)
  /\ s[1] \in {"af", "vrf"} => InFirstBlock(s)

(***************************************************************************)
(* Networks, aggregates, redistribution and settings after the replay are  *)
(* the router's in each scope, whatever the baseline: a network or an      *)
(* aggregate withdrawn and stated again is there with its last attributes, *)
(* one withdrawn last is not, a default metric likewise, a redistribution  *)
(* withdrawn last in the family is not there, one the script does not      *)
(* negate is, and the aggregate a router prints outside its family is      *)
(* found in it.  The exceptions are named above: RemovedElsewhere,         *)
(* NeverReset, FirstLimitRead, AggregateMisplaced, and an edit of a family *)
(* or a VRF outside its first block (InFirstBlock).                        *)
(***************************************************************************)
MembersAreDevice == Finished =>
  \A s \in MemberSlots : InScriptMember(s) => Get(config, s) = Get(Device, s)

(***************************************************************************)
(* "delete-then-readd and reset-then-reassert are different (and correct)  *)
(* op sequences": a session the script removes and states again is the     *)
(* router's.                                                               *)
(***************************************************************************)
ReaddedIsDevice == Finished =>
  \A x \in Peers, kind \in SessionKinds :
    IsKept(1, x) => Get(config, <<"global", kind, x>>) = Get(Device, <<"global", kind, x>>)
=============================================================================
