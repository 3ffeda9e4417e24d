------------------------- MODULE MCDependencyGraph -------------------------
(* Every pair of references of two kinds over two names and one VRF, with  *)
(* every choice of their targets defined or not.                           *)
EXTENDS DependencyGraph

MCNames == {"a", "b"}
NoVrfHere == "none"

Of(type, key, vrf) == [type |-> type, key |-> key, vrf |-> IF type \in InVrf THEN vrf ELSE NoVrfHere]
Holder(row, key, vrf) == Of(row.type, key, vrf)
Held(row, key, vrf, name) == [source |-> Holder(row, key, vrf), row |-> row, name |-> name]
\* What the reference would need: itself, in the table of the holder or not.
Wanted(r) == {Of(r.row.ref, r.name, v) : v \in {NoVrfHere, r.source.vrf}}

One(r, defined) == [objects |-> {r.source} \cup defined, references |-> {r},
                    peer_groups |-> {}, members |-> {}]
Two(r, s, defined) == [objects |-> {r.source, s.source} \cup defined, references |-> {r, s},
                       peer_groups |-> {}, members |-> {}]
Bgp(key) == [type |-> "bgp_instance", key |-> key, vrf |-> NoVrfHere]
Groups(g, m) == [objects |-> {Bgp("a"), Bgp("b")}, references |-> {}, peer_groups |-> g, members |-> m]

Singles == {Held(row, "a", v, n) : row \in Read \cup Unread, v \in {NoVrfHere, "b"}, n \in MCNames}
\* The second reference names an object of each type, "b" like the first.
Seconds == {Held(CHOOSE row \in Read : row.ref = t, "b", NoVrfHere, "b") : t \in {row.ref : row \in Read}}

MCConfigurations ==
  UNION {{One(r, d) : d \in SUBSET Wanted(r)} : r \in Singles}
  \cup UNION {{Two(r, s, {}), Two(r, s, Wanted(s))} : r \in {r \in Singles : r.name = "b"}, s \in Seconds}
  \cup {Groups({Bgp("a"), Bgp("b")} \X {"a"}, m) : m \in SUBSET ({Bgp("a"), Bgp("b")} \X {"a"})}
=============================================================================
