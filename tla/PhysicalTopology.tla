-------------------------- MODULE PhysicalTopology --------------------------
(***************************************************************************)
(* topology/ingest.py: the physical links of a fabric from the rows of a   *)
(* CDP and of an LLDP table.                                               *)
(*                                                                         *)
(* Both ends of a cable report it, under the host name their platform      *)
(* prints, in any order, in one table or in both, or not at all; a bundle  *)
(* of cables is reported once per member and end.  Rows are folded one by  *)
(* one into links keyed by their two ends.  Every prefix of a table is a   *)
(* table, so the state after each row is the result of loading the rows    *)
(* read so far.                                                            *)
(***************************************************************************)
EXTENDS Integers, FiniteSetsExt, Functions

CONSTANTS
    Devices,    \* the devices of the fabric, by their full host names
    ShortNames, \* host names without a domain
    short,      \* raw.split(".")[0] of a full name
    Ports,
    Bundle,     \* device, port -> the port-channel it is a member of, or itself
    Cables,     \* [a, b], each end a [device, port]
    MaxRows     \* bound on the rows that report one cable

Names == Devices \union ShortNames

PortEnds == [device : Devices, port : Ports]

ASSUME TopologyAssumption ==
    /\ Devices \intersect ShortNames = {}
    /\ short \in [Devices -> ShortNames]
    /\ Bundle \in [Devices -> [Ports -> Ports]]
    /\ Cables \subseteq [a : PortEnds, b : PortEnds]
    /\ MaxRows \in Nat

VARIABLES
    inventory,  \* the names of the devices whose configurations were parsed
    cdp,        \* the links of load_cdp
    lldp,       \* the links of load_lldp
    rows        \* history: usable rows read, by table and cable

tableVars == <<inventory, cdp, lldp, rows>>

Tables == {"cdp", "lldp"}

Link(end_a, end_b, source, count) ==
    [a |-> end_a, b |-> end_b, source |-> source, member_count |-> count]

-----------------------------------------------------------------------------
(* Host names, ports and keys.                                             *)

(* Mutant of _normalize_hostname: the full name is never matched.          *)
AlwaysShort(raw) == IF raw \in Devices THEN short[raw] ELSE raw

_normalize_hostname(raw) ==
    LET stripped == IF raw \in Devices THEN short[raw] ELSE raw
    IN  IF stripped \notin inventory /\ raw \in inventory THEN raw ELSE stripped

(* The device an inventory entry stands for: its configuration file holds  *)
(* the channel groups.                                                     *)
DeviceNamed(name) ==
    IF name \in Devices THEN name ELSE CHOOSE d \in Devices : short[d] = name

lag_map == [name \in inventory |-> Bundle[DeviceNamed(name)]]

_resolve_lag(name, port) == lag_map[name][port]

OrderedKey(link) == <<link.a, link.b>>  \* mutant of _make_key: direction counts

_make_key(link) == {link.a, link.b}

-----------------------------------------------------------------------------
(* load_cdp and load_lldp, which fold a row in the same way.               *)

LogicalEnd(end, raw) ==
    LET name == _normalize_hostname(raw)
    IN  [device |-> name, port |-> _resolve_lag(name, end.port)]

Counted(seen, link) ==
    {IF _make_key(other) = _make_key(link)
     THEN [other EXCEPT !.member_count = @ + 1] ELSE other : other \in seen}

Loaded(seen, link) ==
    IF \E other \in seen : _make_key(other) = _make_key(link)
    THEN Counted(seen, link)
    ELSE seen \union {link}

RowKept(row) ==
    /\ row.complete
    /\ _normalize_hostname(row.local_device) \in inventory
    /\ _normalize_hostname(row.remote_device) \in inventory

load(seen, row, source) ==
    IF RowKept(row)
    THEN Loaded(seen, Link(LogicalEnd(row.local, row.local_device),
                           LogicalEnd(row.remote, row.remote_device), source, 1))
    ELSE seen

(* load_physical_topology: LLDP adds the links CDP has not seen.           *)
LldpFirst ==  \* mutant of physical_topology: the tables are swapped
    lldp \union
        {link \in cdp : ~\E other \in lldp : _make_key(other) = _make_key(link)}

physical_topology ==
    cdp \union
        {link \in lldp : ~\E other \in cdp : _make_key(other) = _make_key(link)}

-----------------------------------------------------------------------------
(* A short name in the inventory belongs to one device of the fabric, and  *)
(* no device is listed twice.                                              *)
NoNameClash(names) ==
    \A d \in Devices :
        short[d] \in names =>
            /\ d \notin names
            /\ \A e \in Devices : short[e] = short[d] => e = d

(* The spellings of a device in a table.                                   *)
Spellings(d) == {d, short[d]}

(* The row names the device well enough to find it in the inventory.       *)
Identified(d, raw) == short[d] \in inventory \/ (raw = d /\ d \in inventory)

Usable(row) ==
    /\ row.complete
    /\ Identified(row.local.device, row.local_device)
    /\ Identified(row.remote.device, row.remote_device)

IngestInit ==
    /\ inventory \in {names \in SUBSET Names : NoNameClash(names)}
    /\ cdp = {}
    /\ lldp = {}
    /\ rows = [t \in Tables |-> [c \in Cables |-> 0]]

Report(table, cable, row) ==
    /\ rows["cdp"][cable] + rows["lldp"][cable] < MaxRows
    /\ rows' = IF Usable(row) THEN [rows EXCEPT ![table][cable] = @ + 1] ELSE rows

ReadCdp(cable, row) ==
    /\ Report("cdp", cable, row)
    /\ cdp' = load(cdp, row, "cdp")
    /\ UNCHANGED <<inventory, lldp>>

ReadLldpAsCdp(cable, row) ==  \* mutant of ReadLldp: the wrong source
    /\ Report("lldp", cable, row)
    /\ lldp' = load(lldp, row, "cdp")
    /\ UNCHANGED <<inventory, cdp>>

ReadLldp(cable, row) ==
    /\ Report("lldp", cable, row)
    /\ lldp' = load(lldp, row, "lldp")
    /\ UNCHANGED <<inventory, cdp>>

Row(local, local_device, remote, remote_device, complete) ==
    [local |-> local, local_device |-> local_device, remote |-> remote,
     remote_device |-> remote_device, complete |-> complete]

ReadRow ==
    \E cable \in Cables, complete \in BOOLEAN :
        \E ends \in {<<cable.a, cable.b>>, <<cable.b, cable.a>>} :
            \E local \in Spellings(ends[1].device), remote \in Spellings(ends[2].device) :
                LET row == Row(ends[1], local, ends[2], remote, complete)
                IN  ReadCdp(cable, row) \/ ReadLldp(cable, row)

IngestSpec == IngestInit /\ [][ReadRow]_tableVars

-----------------------------------------------------------------------------
(* What the tables say, told apart from how the code folds them: the name  *)
(* a device is listed under, the link a cable belongs to, and the rows     *)
(* that reported it.                                                       *)

ListedName(d) == IF short[d] \in inventory THEN short[d] ELSE d

TrueEnd(end) ==
    [device |-> ListedName(end.device), port |-> Bundle[end.device][end.port]]

Joined(link) == {link.a, link.b}

TrueLink(cable) == {TrueEnd(cable.a), TrueEnd(cable.b)}

Reported(table, cable) == rows[table][cable] > 0

TablesTypeOK ==
    /\ inventory \subseteq Names
    /\ \A link \in cdp \union lldp :
          /\ {link.a, link.b} \subseteq [device : inventory, port : Ports]
          /\ link.member_count \in Nat \ {0}
    /\ \A link \in cdp : link.source = "cdp"
    /\ \A link \in lldp : link.source = "lldp"
    /\ rows \in [Tables -> [Cables -> Nat]]

(* The links are those of the reported cables, each between the right      *)
(* devices and logical ports: no cable is lost between the two tables, no  *)
(* name form attaches it to another device, and the members of a bundle    *)
(* end up on one link (ingest.py 8-17).                                    *)
LinksAreTheCables ==
    {Joined(link) : link \in physical_topology} =
        {TrueLink(c) : c \in {cable \in Cables :
                                \E t \in Tables : Reported(t, cable)}}

(* "A link between (device_a, port_a) and (device_b, port_b) is the same   *)
(* regardless of which side is a" (ingest.py 115-120), and whichever table *)
(* reports it: no two links of the result join the same two ends.          *)
OneLinkPerConnection ==
    \A link, other \in physical_topology :
        Joined(link) = Joined(other) => link = other

(* "CDP takes precedence" (load_physical_topology, ingest.py 332-334): a   *)
(* link says it was learned from LLDP only when no CDP row reported it.    *)
CdpTakesPrecedence ==
    \A link \in physical_topology :
        link.source = "cdp" <=>
            \E c \in Cables : Reported("cdp", c) /\ TrueLink(c) = Joined(link)

(* "member_count is 1 for non-LAG links and N for LAG links where N member *)
(* ports were observed" (models/topology.py 23-26).                        *)
CountsMembers ==
    \A link \in physical_topology :
        link.member_count =
            Cardinality({c \in Cables : /\ TrueLink(c) = Joined(link)
                                        /\ Reported(link.source, c)})
=============================================================================
