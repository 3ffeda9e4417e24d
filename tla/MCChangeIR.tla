----------------------------- MODULE MCChangeIR -----------------------------
(* One container of every family, with one member each and two for the     *)
(* list of an interface; the removal of each, and those that only some     *)
(* parsers emit.                                                           *)
EXTENDS ChangeIR

Def(whole, member) == [whole |-> whole, member |-> member]

Removal(verb, path) == [verb |-> verb, path |-> path]

MCDefinitions ==
    {Def(<<"bgp_instances", "1", "">>, <<"neighbor", "P">>),
     Def(<<"bgp_instances", "1", "RED">>, <<"neighbor", "P">>),
     Def(<<"ospf_instances", "1", "">>, <<"network", "N", "0">>),
     Def(<<"eigrp_instances", "1", "">>, <<"network", "N">>),
     Def(<<"isis_instances", "C">>, <<"net", "X">>),
     Def(<<"vrfs", "RED">>, <<"route_target_import", "T">>),
     Def(<<"acls", "A">>, <<"entries", "10">>),
     Def(<<"ntp">>, <<"servers", "S">>),
     Def(<<"banners">>, <<"motd">>),
     Def(<<"interface", "Gi1", "hsrp_groups">>, <<"1">>),
     Def(<<"interface", "Gi1", "hsrp_groups">>, <<"2">>),
     Def(<<"interface", "Gi1", "description">>, <<>>),
     Def(<<"ip_sla_operations", "1">>, <<>>),
     Def(<<"static_routes", "", "D", "H">>, <<>>),
     Def(<<"vlans", "10">>, <<>>),
     Def(<<"lines", "vty", "0">>, <<>>)}

MCSharedRemovals ==
    {Removal("UNSET", <<"field", "interface", "Gi1", "description">>),
     Removal("OBJECT_DELETE", <<"bgp_instance", "1", "", "neighbor", "P">>),
     Removal("UNSET", <<"bgp_instance", "1", "", "field", "neighbor", "P",
                        "address_family", "ipv4", "unicast", "route_reflector_client">>)}

MCNativeRemovals ==
    {Removal("LIST_REMOVE", <<"static", "", "D", "H">>),
     Removal("OBJECT_DELETE", <<"vlan", "10">>),
     Removal("OBJECT_DELETE", <<"process", "isis", "C">>),
     Removal("OBJECT_DELETE", <<"acl", "A">>),
     Removal("LIST_REMOVE", <<"acl-seq", "A", "10">>),
     Removal("OBJECT_DELETE", <<"field", "ip_sla_operations", "1">>),
     Removal("OBJECT_DELETE", <<"field", "vrfs", "RED">>),
     Removal("LIST_REMOVE", <<"field", "vrfs", "RED", "route_target_import", "T">>),
     Removal("OBJECT_DELETE", <<"interface", "Gi1">>),
     Removal("LIST_REMOVE", <<"field", "interface", "Gi1", "hsrp_groups", "1">>),
     Removal("OBJECT_DELETE", <<"field", "lines", "vty", "0">>),
     Removal("UNSET", <<"field", "banners", "motd">>),
     Removal("LIST_REMOVE", <<"field", "ntp", "server", "S">>),
     Removal("LIST_REMOVE", <<"bgp_instance", "1", "", "network", "N">>),
     Removal("LIST_REMOVE", <<"bgp_instance", "1", "", "af", "ipv4", "unicast", "",
                              "network", "N">>),
     Removal("LIST_REMOVE", <<"bgp_instance", "1", "", "af", "ipv4", "unicast", "",
                              "aggregate", "N">>),
     Removal("LIST_REMOVE", <<"bgp_instance", "1", "", "field", "peer_group", "G",
                              "address_family", "ipv4", "unicast">>),
     Removal("LIST_REMOVE", <<"ospf_instance", "1", "", "network", "N", "0">>),
     Removal("LIST_REMOVE", <<"ospf_instance", "1", "", "area", "0", "range", "N">>),
     Removal("LIST_REMOVE", <<"isis_instance", "C", "net", "X">>),
     Removal("LIST_REMOVE", <<"eigrp_instance", "1", "", "network", "N">>)}

MCLegacyStrings ==
    {<<"process", "bgp", "1">>, <<"field", "ospf", "1", "area", "0", "stub_reset">>}

MCXrStrings ==
    {<<"process", "isis", "C">>, <<"static", "", "D">>, <<"vrf", "RED">>,
     <<"acl", "A">>, <<"singleton", "ntp">>}
=============================================================================
