------------------------------ MODULE ChangeIR ------------------------------
(***************************************************************************)
(* The change representation of change_ir.py: how the operations a parser  *)
(* emits for the lines of a script (native) are composed with those        *)
(* derived from the parsed model and from legacy deletion strings          *)
(* (derive_ops), and encoded back into the legacy vocabulary               *)
(* (encode_legacy_shim).                                                   *)
(*                                                                         *)
(* The two sources overlap.  A derived operation is dropped when a native  *)
(* one has its path or addresses something inside it, except in families   *)
(* whose members must not claim their container; those retire the derived  *)
(* operation with a CREATE operation of their own, unless the parser of    *)
(* this operating system is gated.  Each rule is a predicate on the path   *)
(* of an operation, and the predicates overlap too.  A path is a sequence  *)
(* of segments; one member per container stands for all its members.       *)
(***************************************************************************)
EXTENDS Naturals, Sequences, FiniteSets, SequencesExt

CONSTANTS
    OperatingSystems,   \* subset of {"ios", "nxos", "eos", "ios_xr", "junos"}
    Definitions,        \* what a script can define: [whole, member]
    NativeRemovals,     \* what the IOS-family walks queue: [verb, path]
    SharedRemovals,     \* what IOS-XR queues natively too
    LegacyStrings,      \* deletion strings the IOS-family walks still emit
    XrStrings,          \* deletion strings of the IOS-XR walk
    MaxLines            \* bound on the lines of the script

VARIABLES
    os,             \* the parser's operating system
    line,           \* number of the line read last
    parsed,         \* the model: [whole, member, line]
    pending,        \* native removal operations queued by the walks
    no_commands     \* deletion strings, as paths

vars == <<os, line, parsed, pending, no_commands>>

Op(verb, path, origin, number) ==
    [verb |-> verb, path |-> path, origin |-> origin, line |-> number]

Set(path, origin, number) == Op("SET", path, origin, number)

Native(op) == op.origin = "native"

HasNatives == os # "junos"

Sections == {"ntp", "snmp", "syslog", "dns", "aaa", "multicast"}
PolicyFields == {"acls", "route_maps", "prefix_lists", "community_lists",
                 "as_path_lists"}
ServiceFields == {"ip_sla_operations", "object_tracks", "eem_applets", "banners"}

(* The containers for which some parser emits a CREATE operation.          *)
CreateFamilies ==
    Sections \union PolicyFields \union
        {"bgp_instances", "ospf_instances", "eigrp_instances",
         "isis_instances", "vrfs"}

CreateFamily(whole) == whole[1] \in CreateFamilies

Families ==
    CreateFamilies \union ServiceFields \union
        {"interface", "static_routes", "vlans", "lines"}

-----------------------------------------------------------------------------
(* The shapes of the paths: how many segments name a whole object of a     *)
(* family (the derived SET), and with which segments removals begin.       *)

WholeLength(family) ==
    CASE family \in Sections \union {"banners"} -> 1
      [] family \in {"bgp_instances", "ospf_instances", "eigrp_instances",
                     "interface", "lines"} -> 3
      [] family = "static_routes" -> 4
      [] OTHER -> 2

ASSUME SystemsAssumption ==
    OperatingSystems \subseteq {"ios", "nxos", "eos", "ios_xr", "junos"}

ASSUME MaxLinesAssumption == MaxLines \in Nat

(* A member is addressed by segments of its own below its container, which *)
(* begin with a field of the model: never the marker of a CREATE alone.    *)
(* Service entities are read and written whole.                            *)
ASSUME DefinitionsAssumption ==
    \A def \in Definitions :
        /\ def.whole \in Seq(STRING) /\ def.member \in Seq(STRING)
        /\ def.whole[1] \in Families
        /\ Len(def.whole) = WholeLength(def.whole[1])
        /\ CreateFamily(def.whole) =>
              /\ Len(def.member) >= 1
              /\ Len(def.member) = 1 => Last(def.member) # "instance"
        /\ def.whole[1] \in ServiceFields =>
              Len(def.whole) + Len(def.member) = 2

(* Paths of entries that a negation removes from a list of a routing       *)
(* process, or of a family or neighbor inside it.                          *)
NetworkProcesses == {"bgp_instance", "ospf_instance", "eigrp_instance"}

EntryOfProcess(path) ==
    \/ path[1] \in NetworkProcesses /\ path[4] = "network"
    \/ path[1] = "isis_instance" /\ path[3] = "net"

EntryOfFamily(path) ==
    /\ path[1] = "bgp_instance" /\ Len(path) = 9
    /\ \/ path[4] = "af" /\ path[8] \in {"network", "aggregate"}
       \/ path[4] = "field" /\ path[5] \in {"neighbor", "peer_group"}
          /\ path[7] = "address_family"

RangeOfArea(path) ==
    /\ path[1] = "ospf_instance" /\ Len(path) = 7
    /\ path[4] = "area" /\ path[6] = "range"

ListEntry(path) == EntryOfProcess(path) \/ EntryOfFamily(path) \/ RangeOfArea(path)

(* One field of a neighbor inside an address family.                       *)
FamilyField(path) ==
    /\ path[1] = "bgp_instance" /\ Len(path) = 10
    /\ path[4] = "field" /\ path[7] = "address_family"

(* The walks queue list entries with LIST_REMOVE and the fields of a       *)
(* family with UNSET; only `no interface` begins like a definition.        *)

ASSUME RemovalsAssumption ==
    \A removal \in NativeRemovals \union SharedRemovals :
        /\ removal.verb \in {"UNSET", "LIST_REMOVE", "OBJECT_DELETE"}
        /\ removal.path \in Seq(STRING) /\ Len(removal.path) >= 2
        /\ removal.path[1] \in Families =>
              removal.path[1] = "interface" /\ Len(removal.path) = 2
        /\ ListEntry(removal.path) => removal.verb = "LIST_REMOVE"
        /\ FamilyField(removal.path) => removal.verb = "UNSET"

(* A string and a native removal of one parser are of different families   *)
(* or name different objects: no walk both queues and leaves a string.     *)
ASSUME StringsAssumption ==
    /\ \A path \in LegacyStrings \union XrStrings :
          /\ path \in Seq(STRING) /\ path # <<>>
          /\ path[1] \notin Families
    /\ \A path \in LegacyStrings, removal \in NativeRemovals \union SharedRemovals :
          ~IsPrefix(path, removal.path)
    /\ \A path \in XrStrings, removal \in SharedRemovals :
          ~IsPrefix(path, removal.path)

-----------------------------------------------------------------------------
(* Path predicates, each with the verbs and the shapes of the code's.      *)

Under(op, prefix) == IsPrefix(prefix, op.path)

Created(op, head, length) ==
    /\ Native(op) /\ op.verb = "SET" /\ op.path[1] \in head
    /\ Len(op.path) = length /\ Last(op.path) = "instance"

is_native_bgp_instance_create_op(op) == Created(op, {"bgp_instances"}, 4)
is_native_ospf_instance_create_op(op) == Created(op, {"ospf_instances"}, 4)
is_native_eigrp_instance_create_op(op) == Created(op, {"eigrp_instances"}, 4)
is_native_isis_instance_create_op(op) == Created(op, {"isis_instances"}, 3)
is_native_vrf_instance_create_op(op) == Created(op, {"vrfs"}, 3)
is_native_policy_instance_create_op(op) == Created(op, PolicyFields, 3)
is_native_singleton_instance_create_op(op) == Created(op, Sections, 2)

is_native_whole_object_create_op(op) ==
    \/ is_native_bgp_instance_create_op(op)
    \/ is_native_ospf_instance_create_op(op)
    \/ is_native_eigrp_instance_create_op(op)
    \/ is_native_isis_instance_create_op(op)
    \/ is_native_vrf_instance_create_op(op)
    \/ is_native_policy_instance_create_op(op)
    \/ is_native_singleton_instance_create_op(op)

is_native_bgp_op(op) ==
    /\ Native(op)
    /\ \/ op.verb = "SET" /\ Under(op, <<"bgp_instances">>) /\ Len(op.path) >= 4
       \/ op.verb # "SET" /\ Under(op, <<"bgp_instance">>) /\ Len(op.path) >= 5

(* One predicate per routing process: SETs in the instance, the removal of *)
(* the process, and removals inside the instance.                          *)
IsProcessOp(op, instances, process, instance) ==
    /\ Native(op)
    /\ \/ op.verb = "SET" /\ Under(op, <<instances>>) /\ Len(op.path) >= 3
       \/ op.verb = "OBJECT_DELETE" /\ Under(op, <<"process", process>>)
       \/ op.verb = "LIST_REMOVE" /\ Under(op, <<instance>>)

is_native_isis_op(op) ==
    IsProcessOp(op, "isis_instances", "isis", "isis_instance")
is_native_eigrp_op(op) ==
    IsProcessOp(op, "eigrp_instances", "eigrp", "eigrp_instance")
is_native_ospf_op(op) ==
    IsProcessOp(op, "ospf_instances", "ospf", "ospf_instance")

is_native_vrf_op(op) ==
    /\ Native(op)
    /\ \/ op.verb = "SET" /\ Under(op, <<"vrfs">>) /\ Len(op.path) >= 3
       \/ op.verb # "SET" /\ Under(op, <<"field", "vrfs">>)

is_native_singleton_section_op(op) ==
    /\ Native(op)
    /\ \/ op.verb = "SET" /\ op.path[1] \in Sections /\ Len(op.path) >= 2
       \/ /\ op.verb \in {"LIST_REMOVE", "UNSET"}
          /\ op.path[1] \in {"field", "singleton"} /\ op.path[2] \in Sections

is_native_policy_op(op) ==
    /\ Native(op)
    /\ \/ op.verb = "SET" /\ op.path[1] \in PolicyFields /\ Len(op.path) >= 3
       \/ op.verb = "LIST_REMOVE"
          /\ op.path[1] \in {"acl-seq", "route-map", "prefix-list"}
       \/ op.verb = "OBJECT_DELETE" /\ op.path[1] = "acl"

is_native_service_entity_op(op) ==
    /\ Native(op)
    /\ \/ op.verb = "SET" /\ op.path[1] \in ServiceFields /\ Len(op.path) = 2
       \/ /\ op.verb \in {"OBJECT_DELETE", "UNSET"} /\ Len(op.path) = 3
          /\ op.path[1] = "field" /\ op.path[2] \in ServiceFields

(* Removals that never had a deletion string: list entries, and the fields *)
(* of a neighbor inside an address family.                                 *)
OpsOnlyOfProcesses(op) ==  \* mutant of OpsOnly: address families forgotten
    /\ Native(op)
    /\ op.verb = "LIST_REMOVE"
    /\ EntryOfProcess(op.path) \/ RangeOfArea(op.path)

OpsOnly(op) ==
    /\ Native(op)
    /\ \/ op.verb = "LIST_REMOVE" /\ ListEntry(op.path)
       \/ op.verb = "UNSET" /\ FamilyField(op.path)

-----------------------------------------------------------------------------
(* What the parser emits, family by family, from the finished model.  A    *)
(* gate means that the parser of this system reads the family in a way of  *)
(* its own, so that the derived whole-object SET must survive.             *)

_isis_instance_gated == os \in {"ios_xr", "eos"}
_eigrp_instance_gated == FALSE
_ospf_instance_gated == os = "ios_xr"
_vrf_instance_gated == os = "ios_xr"
_bgp_instance_gated(vrf) == os = "nxos" /\ vrf # ""
_policy_objects_gated == os = "ios_xr"
_singleton_section_gated == os = "ios_xr"

(* One SET per member the model holds in a family.                         *)
Members(heads) ==
    {Set(d.whole \o d.member, "native", d.line) :
        d \in {def \in parsed : def.whole[1] \in heads}}

(* One CREATE per container.                                               *)
Creates(heads) ==
    {Set(Append(d.whole, "instance"), "native", 0) :
        d \in {def \in parsed : def.whole[1] \in heads}}

Unless(gated, ops) == IF gated THEN {} ELSE ops

_native_iface_set_ops == Members({"interface"})

_native_service_entity_ops == Members(ServiceFields)

_native_static_ops == Members({"static_routes"})

_native_vlan_ops == Members({"vlans"})

_native_simple_keyed_list_ops == Members({"lines"})

_native_bgp_ops ==
    Members({"bgp_instances"}) \union
        {op \in Creates({"bgp_instances"}) : ~_bgp_instance_gated(op.path[3])}

_native_isis_ops ==
    Members({"isis_instances"}) \union
        Unless(_isis_instance_gated, Creates({"isis_instances"}))

_native_eigrp_ops ==
    Members({"eigrp_instances"}) \union
        Unless(_eigrp_instance_gated, Creates({"eigrp_instances"}))

_native_ospf_ops ==
    Members({"ospf_instances"}) \union
        Unless(_ospf_instance_gated, Creates({"ospf_instances"}))

_native_vrf_ops ==
    Members({"vrfs"}) \union Unless(_vrf_instance_gated, Creates({"vrfs"}))

_native_singleton_section_ops ==
    Unless(_singleton_section_gated, Members(Sections) \union Creates(Sections))

(* Mutant of _native_policy_object_ops: the gate covers the members only.  *)
PolicyOpsHalfGated ==
    Unless(_policy_objects_gated, Members(PolicyFields)) \union Creates(PolicyFields)

_native_policy_object_ops ==
    Unless(_policy_objects_gated, Members(PolicyFields) \union Creates(PolicyFields))

native_change_ops ==
    IF HasNatives
    THEN UNION {_native_iface_set_ops, _native_service_entity_ops,
                _native_static_ops, _native_bgp_ops, _native_isis_ops,
                _native_eigrp_ops, _native_ospf_ops, _native_vrf_ops,
                _native_singleton_section_ops, _native_vlan_ops,
                _native_simple_keyed_list_ops, _native_policy_object_ops, pending}
    ELSE {}

-----------------------------------------------------------------------------
(* derive_ops.                                                             *)

DerivedSets == {Set(def.whole, "derived", 0) : def \in parsed}

DerivedDeletions == {Op("DELETE", path, "derived", 0) : path \in no_commands}

derived_ops == DerivedSets \union DerivedDeletions

ClaimsWithIsis(op) ==  \* mutant of ClaimsGenerically: IS-IS not excluded
    /\ ~is_native_bgp_op(op)
    /\ ~is_native_eigrp_op(op)
    /\ ~is_native_ospf_op(op)
    /\ ~is_native_vrf_op(op)
    /\ ~is_native_singleton_section_op(op)
    /\ ~is_native_policy_op(op)

ClaimsGenerically(op) ==
    /\ ~is_native_bgp_op(op)
    /\ ~is_native_isis_op(op)
    /\ ~is_native_eigrp_op(op)
    /\ ~is_native_ospf_op(op)
    /\ ~is_native_vrf_op(op)
    /\ ~is_native_singleton_section_op(op)
    /\ ~is_native_policy_op(op)

ClaimedByCreate(path, op) ==
    /\ is_native_whole_object_create_op(op)
    /\ path = Front(op.path)

(* A native operation has the path, claims it as one of its prefixes, or   *)
(* creates the object it names.                                            *)
Claimed(path, natives) ==
    \E op \in natives :
        \/ path = op.path
        \/ ClaimsGenerically(op) /\ IsStrictPrefix(path, op.path)
        \/ ClaimedByCreate(path, op)

change_set ==
    native_change_ops \union
        {op \in derived_ops : ~Claimed(op.path, native_change_ops)}

-----------------------------------------------------------------------------
(* encode_legacy_shim.                                                     *)

ReaddedLater(ops, op) ==
    /\ is_native_service_entity_op(op) /\ op.verb # "SET"
    /\ \E set \in ops :
          /\ is_native_service_entity_op(set) /\ set.verb = "SET"
          /\ set.path = Tail(op.path) /\ set.line > op.line

_shim_suppress_readded_service_deletes(ops) ==
    {op \in ops : ~ReaddedLater(ops, op)}

SubsumedOneSegment(ops, op) ==  \* mutant of Subsumed: members of one segment
    \E create \in ops :
        /\ is_native_whole_object_create_op(create)
        /\ Front(create.path) = Front(op.path)

Subsumed(ops, op) ==
    \E create \in ops :
        /\ is_native_whole_object_create_op(create)
        /\ IsStrictPrefix(Front(create.path), op.path)

_shim_reconstitute_whole_objects(ops) ==
    {Set(Front(op.path), op.origin, op.line) :
        op \in {o \in ops : is_native_whole_object_create_op(o)}}
    \union {op \in ops : op.verb = "SET" => ~Subsumed(ops, op)}

(* The container of a deletion string, and the string as a path.           *)
Placed(path) ==
    IF path[1] = "bgp_instance"
    THEN [container |-> "bgp_no_commands", path |-> SubSeq(path, 4, Len(path))]
    ELSE IF Len(path) = 4 /\ IsPrefix(<<"field", "interface">>, path)
    THEN [container |-> "interface_no_commands", path |-> path]
    ELSE [container |-> "no_commands", path |-> path]

encode_legacy(ops) ==
    [set_fields |-> {op.path : op \in {o \in ops : o.verb = "SET"}},
     deletions |-> {Placed(op.path) :
                      op \in {o \in ops : o.verb # "SET" /\ ~OpsOnly(o)}}]

encode_legacy_shim ==
    encode_legacy(_shim_reconstitute_whole_objects(
        _shim_suppress_readded_service_deletes(change_set)))

-----------------------------------------------------------------------------
Init ==
    /\ os \in OperatingSystems
    /\ line = 0
    /\ parsed = {}
    /\ pending = {}
    /\ no_commands = {}

NextLine ==
    /\ line < MaxLines
    /\ line' = line + 1
    /\ UNCHANGED os

(* A positive line: the model holds the member, with the line it is on.    *)
Define(def) ==
    /\ NextLine
    /\ \A d \in parsed : ~(d.whole = def.whole /\ d.member = def.member)
    /\ parsed' = parsed \union
          {[whole |-> def.whole, member |-> def.member, line |-> line']}
    /\ UNCHANGED <<pending, no_commands>>

(* Mutants of RemoveNatively: `no interface` leaves a string as it once    *)
(* did; IOS-XR inherits the walk it replaces.                              *)
RemoveInterfaceByString(removal) ==
    /\ NextLine
    /\ os \in {"ios", "nxos", "eos"}
    /\ removal.path[1] = "interface"
    /\ no_commands' = no_commands \union {removal.path}
    /\ UNCHANGED <<parsed, pending>>

RemoveOnEverySystem(removal) ==
    /\ NextLine
    /\ os # "junos"
    /\ pending' = pending \union {Op(removal.verb, removal.path, "native", line')}
    /\ UNCHANGED <<parsed, no_commands>>

(* A negation the walk of this parser queues as a native operation.        *)
RemoveNatively(removal) ==
    /\ NextLine
    /\ \/ os \in {"ios", "nxos", "eos"}
       \/ os = "ios_xr" /\ removal \in SharedRemovals
    /\ \A op \in pending : op.path # removal.path
    /\ pending' = pending \union {Op(removal.verb, removal.path, "native", line')}
    /\ UNCHANGED <<parsed, no_commands>>

(* A negation that leaves a deletion string only.                          *)
RemoveByString(path) ==
    /\ NextLine
    /\ \/ os \in {"ios", "nxos", "eos", "ios_xr"} /\ path \in LegacyStrings
       \/ os = "ios_xr" /\ path \in XrStrings
    /\ no_commands' = no_commands \union {path}
    /\ UNCHANGED <<parsed, pending>>

Next ==
    \/ \E def \in Definitions : Define(def)
    \/ \E removal \in NativeRemovals \union SharedRemovals : RemoveNatively(removal)
    \/ \E path \in LegacyStrings \union XrStrings : RemoveByString(path)

Spec == Init /\ [][Next]_vars

-----------------------------------------------------------------------------
TypeOK ==
    /\ os \in OperatingSystems
    /\ line \in 0..MaxLines
    /\ \A d \in parsed : \E def \in Definitions, n \in 1..line :
          d = [whole |-> def.whole, member |-> def.member, line |-> n]
    /\ \A op \in pending :
          \E removal \in NativeRemovals \union SharedRemovals, n \in 1..line :
             /\ op = Op(removal.verb, removal.path, "native", n)
             /\ os = "ios_xr" => removal \in SharedRemovals
    /\ \A path \in no_commands :
          path \in LegacyStrings \/ (os = "ios_xr" /\ path \in XrStrings)
    /\ os = "junos" => pending = {} /\ no_commands = {}

WholeSets(path) ==
    {op \in change_set : op.verb = "SET" /\ op.origin = "derived" /\ op.path = path}

CreateOps(path) ==
    {op \in change_set : is_native_whole_object_create_op(op) /\ Front(op.path) = path}

Gated(whole) ==
    \/ whole[1] = "isis_instances" /\ _isis_instance_gated
    \/ whole[1] = "ospf_instances" /\ _ospf_instance_gated
    \/ whole[1] = "vrfs" /\ _vrf_instance_gated
    \/ whole[1] = "bgp_instances" /\ _bgp_instance_gated(whole[3])

(* Every object of a family with CREATE operations is created by exactly   *)
(* one operation: the native CREATE where the parser covers the family,    *)
(* the derived whole-object SET where it is gated.  Two would overwrite    *)
(* the members the native operations address one by one; none would lose   *)
(* a new object.  Whatever other operations the script has, none of them   *)
(* claims the object away (derive_ops, change_ir.py 3160-3250).            *)
ObjectsCreatedOnce ==
    \A d \in parsed :
        CreateFamily(d.whole) =>
            Cardinality(WholeSets(d.whole) \union CreateOps(d.whole)) = 1

(* A derived operation is dropped only when the native operations say all  *)
(* of it: every member the parser put under the path is the subject of a   *)
(* native SET.  "If native emission ever under-covers, the derived op      *)
(* survives" (derive_ops, change_ir.py 3085-3090).                         *)
IntentSurvives ==
    \A d \in parsed :
        \/ WholeSets(d.whole) # {}
        \/ \E op \in change_set :
              Native(op) /\ op.verb = "SET" /\ op.path = d.whole \o d.member

(* Every negation of the script is exactly one deletion of the ChangeSet,  *)
(* whether its walk queued it natively or left a string, and whatever the  *)
(* script defines beside it: a native SET under `interface Gi1` once       *)
(* claimed the derived deletion of that interface away                     *)
(* (change_ir.py 786-801).                                                 *)
DeletionsCarriedOnce ==
    \A path \in no_commands \union {op.path : op \in pending} :
        Cardinality({op \in change_set : op.verb # "SET" /\ op.path = path}) = 1

(* `no network` and `no net` never left a string, whatever the process,    *)
(* nor did `no area range`, and nothing inside an address family of BGP or *)
(* of one of its neighbors did.                                            *)
InsideFamily(path) ==
    /\ path[1] = "bgp_instance" /\ Len(path) \in 9..10
    /\ \/ path[4] = "af" /\ path[8] \in {"network", "aggregate"} /\ Len(path) = 9
       \/ /\ path[4] = "field" /\ path[7] = "address_family"
          /\ Len(path) = 9 => path[5] \in {"neighbor", "peer_group"}

NeverHadString(path) ==
    \/ path[1] \in {"bgp_instance", "ospf_instance", "eigrp_instance"}
       /\ path[4] = "network"
    \/ path[1] = "isis_instance" /\ path[3] = "net"
    \/ path[1] = "ospf_instance" /\ path[4] = "area" /\ path[6] = "range"
       /\ Len(path) = 7
    \/ InsideFamily(path)

(* A parser that emitted only strings leaves a string for each negation    *)
(* that ever had one, unless a later line defines the service entity       *)
(* again.                                                                  *)
LegacyDeletions ==
    {Placed(path) : path \in no_commands} \union
    {Placed(op.path) : op \in
        {o \in pending :
            /\ ~NeverHadString(o.path)
            /\ ~\E d \in parsed :
                  /\ is_native_service_entity_op(o)
                  /\ d.whole \o d.member = Tail(o.path)
                  /\ d.line > o.line}}

(* The shim gives back those strings in the containers they came from      *)
(* (encode_legacy_shim, change_ir.py 3525-3543).                           *)
ShimDeletions == encode_legacy_shim.deletions = LegacyDeletions

WholeAgain(whole) ==
    {path \in encode_legacy_shim.set_fields : IsPrefix(whole, path)} = {whole}

(* And every object a legacy consumer would have seen whole is whole       *)
(* again, no CREATE operation and none of the members it covers is left.   *)
(* Banners and interface members stay decomposed.                          *)
ShimWholeObjects ==
    \A d \in parsed :
        (CreateFamily(d.whole) /\ ~Gated(d.whole)) => WholeAgain(d.whole)

(* The docstring of encode_legacy_shim claims as much of every family: its *)
(* output is what the pre-native parser emitted (change_ir.py 3532-3536).  *)
(* A gated instance has no CREATE operation to put its members back.       *)
ShimIsPreNative ==
    \A d \in parsed : CreateFamily(d.whole) => WholeAgain(d.whole)
=============================================================================
