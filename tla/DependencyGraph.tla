--------------------------- MODULE DependencyGraph ---------------------------
(***************************************************************************)
(* DependencyResolver.resolve walks the references of a parsed             *)
(* configuration family by family, then computes the orphans; GraphBuilder *)
(* turns the report into a directed graph: a node per defined object, a    *)
(* ghost per missing target, an edge per pair of linked nodes.             *)
(*                                                                         *)
(* A reference is a field of an object that holds the name of another one. *)
(* The rows below are the fields each _resolve_ method reads; `Unread` are *)
(* the fields of the models that hold such names and that none reads.      *)
(***************************************************************************)
EXTENDS Naturals, Sequences, FiniteSets

CONSTANTS
  ObjectNames,           \* names of objects, interfaces and process identifiers
  NoVrf,           \* the vrf of an object of the global table
  Configurations   \* sets of objects and references explored, of the form Configuration

Rows(type, fields, ref) == [type : {type}, field : fields, ref : {ref}]

_resolve_policy_holder ==
  Rows("bgp_instance", {"route_map_in", "route_map_out", "af_default_originate_route_map"}, "route_map")
  \cup Rows("bgp_instance", {"prefix_list_in", "prefix_list_out"}, "prefix_list")
  \cup Rows("bgp_instance", {"filter_list_in", "filter_list_out"}, "as_path_list")
  \cup Rows("bgp_instance", {"update_source"}, "interface")

_resolve_bgp ==
  Rows("bgp_instance", {"vrf"}, "vrf")
  \cup Rows("bgp_instance", {"network_route_map", "redistribute_route_map", "attribute_map",
                             "advertise_map", "suppress_map"}, "route_map")
  \cup _resolve_policy_holder

_resolve_ospf ==
  Rows("ospf_instance", {"vrf"}, "vrf")
  \cup Rows("ospf_instance", {"redistribute_route_map", "default_information_originate_route_map"}, "route_map")

_resolve_eigrp == Rows("eigrp_instance", {"vrf"}, "vrf")
                  \cup Rows("eigrp_instance", {"redistribute_route_map"}, "route_map")

_resolve_rip == Rows("rip_instance", {"vrf"}, "vrf")
                \cup Rows("rip_instance", {"redistribute_route_map"}, "route_map")

_resolve_interfaces ==
  Rows("interface", {"vrf"}, "vrf")
  \cup Rows("interface", {"unnumbered_source", "tunnel_underlay"}, "interface")
  \cup Rows("interface", {"tunnel_ike_gateway"}, "crypto")
  \cup Rows("interface", {"acl_in", "acl_out"}, "acl")
  \cup Rows("interface", {"ospf_process"}, "ospf_instance")

_resolve_vrfs == Rows("vrf", {"route_map_import", "route_map_export"}, "route_map")

\* _infer_match_ref_type: by the words of the clause; an inline match
\* ("as-path-regex") and everything else references nothing.
_infer_match_ref_type ==
  [prefix_list |-> "prefix_list", as_path |-> "as_path_list", community |-> "community_list",
   ip_address |-> "acl"]

_resolve_route_maps ==
  UNION {Rows("route_map", {m}, _infer_match_ref_type[m]) : m \in DOMAIN _infer_match_ref_type}

\* is_discard_interface: Null0 and the like are no objects and make no link.
_resolve_static_routes == Rows("static_route", {"vrf"}, "vrf")
                          \cup Rows("static_route", {"next_hop_interface"}, "interface")

_resolve_ntp == Rows("ntp", {"server_vrf"}, "vrf")
                \cup Rows("ntp", {"source_interface", "server_source"}, "interface")
                \cup Rows("ntp", {"access_group"}, "acl")

_resolve_snmp == Rows("snmp", {"host_vrf"}, "vrf")
                 \cup Rows("snmp", {"source_interface", "trap_source"}, "interface")

_resolve_lines == Rows("lines", {"access_class_in", "access_class_out"}, "acl")

\* class-default is built in and makes no link.
_resolve_qos ==
  Rows("class_map", {"match_acl"}, "acl")
  \cup Rows("policy_map", {"class"}, "class_map")
  \cup Rows("policy_map", {"service_policy"}, "policy_map")
  \cup Rows("interface", {"service_policy_input", "service_policy_output"}, "policy_map")

_resolve_nat == Rows("nat", {"acl"}, "acl") \cup Rows("nat", {"interface"}, "interface")
                \cup Rows("nat", {"vrf"}, "vrf")

_resolve_crypto == Rows("crypto", {"match_acl"}, "acl")

_resolve_ipsla == Rows("ip_sla", {"vrf"}, "vrf") \cup Rows("ip_sla", {"source_interface"}, "interface")

_resolve_object_tracking ==
  Rows("object_track", {"tracked_interface"}, "interface")
  \cup Rows("object_track", {"tracked_sla_id"}, "ip_sla")

_resolve_multicast ==
  Rows("multicast", {"pim_rp_acl", "pim_ssm_range", "msdp_sa_filter_in", "msdp_sa_filter_out"}, "acl")
  \cup Rows("multicast", {"msdp_connect_source"}, "interface")
  \cup Rows("multicast", {"vrf"}, "vrf")

_resolve_zones == Rows("zone", {"interface"}, "interface")

Families ==
  <<_resolve_bgp, _resolve_ospf, _resolve_eigrp, _resolve_rip, _resolve_interfaces, _resolve_vrfs,
    _resolve_route_maps, _resolve_static_routes, _resolve_ntp, _resolve_snmp, _resolve_lines,
    _resolve_qos, _resolve_nat, _resolve_crypto, _resolve_ipsla, _resolve_object_tracking,
    _resolve_multicast, _resolve_zones>>

Read == UNION {Families[f] : f \in 1..Len(Families)}

\* Read by the parsers into the models, by the resolver not at all.
Unread ==
  Rows("interface", {"ip_policy_route_map"}, "route_map")
  \cup Rows("isis_instance", {"redistribute_route_map"}, "route_map")
  \cup Rows("ospf_instance", {"area_filter_list_in"}, "prefix_list")
  \cup Rows("snmp", {"community_acl"}, "acl")

-----------------------------------------------------------------------------
Singletons == {"ntp", "snmp", "lines", "nat", "crypto", "multicast"}
PerVrf == {"bgp_instance", "ospf_instance"}     \* named "<key> vrf <vrf>"
InVrf == PerVrf \cup {"eigrp_instance", "rip_instance", "interface", "static_route"}
Tracked == {"route_map", "prefix_list", "community_list", "as_path_list", "acl",
            "class_map", "policy_map"}          \* keys of _referenced
Types == {r.type : r \in Read \cup Unread} \cup {r.ref : r \in Read}

Object == [type : Types, key : ObjectNames, vrf : ObjectNames \cup {NoVrf}]
Reference == [source : Object, row : Read \cup Unread, name : ObjectNames]

\* References are held by objects of the configuration, in fields of their
\* type; peer_groups and members are pairs of a BGP instance and a name.
Configuration ==
  {c \in [objects : SUBSET Object, references : SUBSET Reference,
          peer_groups : SUBSET (Object \X ObjectNames), members : SUBSET (Object \X ObjectNames)] :
     /\ \A o \in c.objects : o.vrf # NoVrf => o.type \in InVrf
     /\ \A r \in c.references : r.source \in c.objects /\ r.source.type = r.row.type
     /\ \A g \in c.peer_groups \cup c.members : g[1] \in c.objects /\ g[1].type = "bgp_instance"}

ASSUME ConfigurationsAssumption == Configurations \subseteq Configuration

VARIABLES
  config,      \* the ParsedConfig
  phase,       \* "resolve", "nodes", "edges" or "done"
  at,          \* the family being walked
  walked,      \* references walked so far
  links,       \* links in the order they were emitted
  referenced,  \* _referenced: the tracked names, as node identifiers
  orphaned,    \* DependencyReport.orphaned, as node identifiers
  built,       \* number of links turned into edges
  nodes,       \* node identifier |-> its attributes
  edges        \* pair of node identifiers |-> its attributes

graphVars == <<config, phase, at, walked, links, referenced, orphaned, built, nodes, edges>>

resolverVars == <<config, at, walked, links, referenced, orphaned>>

\* Both files name an object for themselves, and no code is shared: the
\* builder when it adds its node, the resolver as the source of a link, in its
\* indexes, and where an interface names a process.
NodeNameByKey(o) ==   \* (mutant) processes named by key alone
  IF o.type \in Singletons \cup {"rip_instance"} THEN <<o.type>> ELSE <<o.key>>

NodeName(o) ==
  IF o.type \in Singletons \cup {"rip_instance"} THEN <<o.type>>
  ELSE IF o.type \in PerVrf /\ o.vrf # NoVrf THEN <<o.key, o.vrf>> ELSE <<o.key>>

_node_id(o) == <<o.type, NodeName(o)>>

LinkName(type, key, vrf) ==
  CASE type \in {"bgp_instance", "ospf_instance"} /\ vrf # NoVrf -> <<key, vrf>>
    [] type \in {"rip_instance", "ntp", "snmp", "lines", "nat", "crypto", "multicast"} -> <<type>>
    [] OTHER -> <<key>>

SourceId(o) == <<o.type, LinkName(o.type, o.key, o.vrf)>>

_is_resolved(type, name) == \E o \in config.objects : SourceId(o) = <<type, name>>

RefName(r) == LinkName(r.row.ref, r.name, IF r.row.field = "ospf_process" THEN r.source.vrf ELSE NoVrf)

\* The crypto hop of a tunnel is linked only when crypto was parsed.
Links(r) == r.row.field = "tunnel_ike_gateway" => _is_resolved("crypto", <<"crypto">>)

LinkOf(r) == [source |-> SourceId(r.source),
            field |-> r.row.field, target |-> <<r.row.ref, RefName(r)>>,
            resolved |-> _is_resolved(r.row.ref, RefName(r))]

\* A name is marked even if dangling: the orphans are about what is defined.
MarksSource(l) == IF l.target[1] \in Tracked THEN {l.source} ELSE {}   \* (mutant)

Marks(l) == IF l.target[1] \in Tracked THEN {l.target} ELSE {}

Walked(f) == {r \in config.references : r.row \in Families[f] /\ Links(r)}

-----------------------------------------------------------------------------
GraphInit ==
  /\ \E c \in Configurations : config = c
  /\ phase = "resolve" /\ at = 1 /\ walked = {} /\ links = <<>>
  /\ referenced = {} /\ orphaned = {}
  /\ built = 0 /\ nodes = <<>> /\ edges = <<>>

\* The order of the references of a family is that of the parsed lists: any.
WalkReference ==
  /\ phase = "resolve"
  /\ \E r \in Walked(at) \ walked :
       /\ walked' = walked \cup {r}
       /\ links' = Append(links, LinkOf(r))
       /\ referenced' = referenced \cup Marks(LinkOf(r))
  /\ UNCHANGED <<config, phase, at, orphaned, built, nodes, edges>>

NextFamily ==
  /\ phase = "resolve" /\ at < Len(Families) /\ Walked(at) \subseteq walked
  /\ at' = at + 1
  /\ UNCHANGED <<config, phase, walked, links, referenced, orphaned, built, nodes, edges>>

_find_orphans ==
  {<<"bgp_peer_group", g[1], g[2]>> : g \in config.peer_groups \ config.members}
  \cup ({SourceId(o) : o \in {o \in config.objects : o.type \in Tracked}} \ referenced)

ReturnReport ==
  /\ phase = "resolve" /\ at = Len(Families) /\ Walked(at) \subseteq walked
  /\ orphaned' = _find_orphans
  /\ phase' = "nodes"
  /\ UNCHANGED <<config, at, walked, links, referenced, built, nodes, edges>>

AddDefinedNodes ==
  /\ phase = "nodes" /\ phase' = "edges"
  /\ nodes' = [id \in {_node_id(o) : o \in config.objects} |->
                 IF id \in orphaned THEN "orphan" ELSE "ok"]
  /\ UNCHANGED <<resolverVars, built, edges>>

Extended(f, x, value) == [y \in DOMAIN f \cup {x} |-> IF y = x THEN value ELSE f[y]]

\* add_edge gives the graph an endpoint it does not have yet, without attributes.
WithTarget(l) ==
  IF l.target \in DOMAIN nodes THEN nodes
  ELSE IF ~l.resolved THEN Extended(nodes, l.target, "missing")
  ELSE IF l.source \in DOMAIN nodes THEN Extended(nodes, l.target, "bare") ELSE nodes

AddLink ==
  /\ phase = "edges" /\ built < Len(links)
  /\ built' = built + 1
  /\ LET l == links[built']
     IN  /\ nodes' = WithTarget(l)
         /\ edges' = IF l.source \in DOMAIN nodes
                     THEN Extended(edges, <<l.source, l.target>>,
                                   [field |-> l.field, resolved |-> l.resolved])
                     ELSE edges
  /\ UNCHANGED <<resolverVars, phase>>

ReturnGraph ==
  /\ phase = "edges" /\ built = Len(links) /\ phase' = "done"
  /\ UNCHANGED <<resolverVars, built, nodes, edges>>

GraphNext == WalkReference \/ NextFamily \/ ReturnReport \/ AddDefinedNodes \/ AddLink \/ ReturnGraph
GraphSpec == GraphInit /\ [][GraphNext]_graphVars

-----------------------------------------------------------------------------
Emitted == {links[i] : i \in 1..Len(links)}
Defined == {_node_id(o) : o \in config.objects}

GraphTypeOK ==
  /\ config \in Configuration
  /\ phase \in {"resolve", "nodes", "edges", "done"}
  /\ at \in 1..Len(Families) /\ walked \subseteq config.references
  /\ Len(links) = Cardinality(walked) /\ built \in 0..Len(links)
  /\ \A l \in Emitted : l.resolved \in BOOLEAN /\ l.source[1] \in Types /\ l.target[1] \in Types
  /\ referenced \subseteq {l.target : l \in Emitted}
  /\ \A id \in DOMAIN nodes : nodes[id] \in {"ok", "orphan", "missing", "bare"}
  /\ DOMAIN edges \subseteq (DOMAIN nodes) \X (DOMAIN nodes)

(***************************************************************************)
(* The resolver's indexes and the builder's node names agree: a link is    *)
(* resolved exactly when its target is the node of a defined object.       *)
(***************************************************************************)
DanglingIsUndefined == \A l \in Emitted : l.resolved <=> l.target \in Defined

(***************************************************************************)
(* No link loses its edge: every reference that is read is an edge of the  *)
(* finished graph, from the node of the object that holds it, and tells    *)
(* whether it dangles.  Parallel references share one edge.                *)
(***************************************************************************)
EveryLinkDrawn == phase = "done" =>
  \A r \in config.references : r.row \in Read /\ Links(r) =>
    LET e == <<_node_id(r.source), <<r.row.ref, RefName(r)>>>>
    IN  e \in DOMAIN edges /\ (edges[e].resolved <=> e[2] \in Defined)

(***************************************************************************)
(* The nodes are the defined objects and one ghost per missing target; the *)
(* graph has no node that add_edge made up.                                *)
(***************************************************************************)
GhostsAreTheMissing == phase = "done" =>
  /\ {id \in DOMAIN nodes : nodes[id] = "missing"} = {l.target : l \in Emitted} \ Defined
  /\ DOMAIN nodes = Defined \cup {l.target : l \in Emitted}
  /\ \A id \in DOMAIN nodes : nodes[id] # "bare"

(***************************************************************************)
(* Orphans are computed when all families have been walked: the report and *)
(* the node's status name exactly the policy objects that no read field of *)
(* any family names.                                                       *)
(***************************************************************************)
OrphansAreUnlinked == phase = "done" =>
  \A o \in config.objects :
    o.type \in Tracked =>
      LET named == \E r \in config.references : r.row \in Read /\ <<r.row.ref, RefName(r)>> = _node_id(o)
      IN  /\ _node_id(o) \in orphaned <=> ~named
          /\ nodes[_node_id(o)] = IF named THEN "ok" ELSE "orphan"

(***************************************************************************)
(* "Orphaned objects: an object is defined but never referenced by         *)
(* anything."  (Of every field of the models, those no method reads too.)  *)
(***************************************************************************)
OrphansAreUnreferenced ==
  \A o \in config.objects : _node_id(o) \in orphaned =>
    ~\E r \in config.references : <<r.row.ref, RefName(r)>> = _node_id(o)
=============================================================================
