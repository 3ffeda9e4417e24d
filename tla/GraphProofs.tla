---------------------------- MODULE GraphProofs ------------------------------
(***************************************************************************)
(* Proofs about the graphs the program draws: the physical links of module *)
(* PhysicalTopology, the BGP sessions of module BgpSessions and the        *)
(* references of one device in module DependencyGraph.  Each has its own   *)
(* specification, state and invariants; the first two meet only in the     *)
(* topology that both feed, the third is a graph per device.               *)
(***************************************************************************)
EXTENDS PhysicalTopology, BgpSessions, DependencyGraph, FiniteSetTheorems, SequenceTheorems, TLAPS

-----------------------------------------------------------------------------
(***************************************************************************)
(* Proofs about module PhysicalTopology: for every fabric, every inventory *)
(* without a name clash and tables of any length, the loaded links are     *)
(* those of the reported cables, once each, with CDP before LLDP.          *)
(*                                                                         *)
(* The argument: a row that names its two devices resolves to the true end *)
(* of each (RowEnd), so that folding it adds exactly the link of its cable *)
(* to the keys of the table (LoadStep); a table's keys are therefore the   *)
(* links of the cables it reported (TableOK), and the merge of the tables  *)
(* inherits the rest.                                                      *)
(***************************************************************************)

LogicalEnds == [device : inventory, port : Ports]

TableLinks(table) == [a : LogicalEnds, b : LogicalEnds, source : {table},
                 member_count : Nat \ {0}]

(* What one table holds for the rows read so far.                          *)
KeyedOnce(seen) ==
    \A link, other \in seen : Joined(link) = Joined(other) => link = other

LinkKeys(seen) == {Joined(link) : link \in seen}

CableLinks(table) == {TrueLink(c) : c \in {cable \in Cables : Reported(table, cable)}}

TableOK(seen, table) ==
    /\ seen \subseteq TableLinks(table)
    /\ KeyedOnce(seen)
    /\ LinkKeys(seen) = CableLinks(table)

(* The inductive invariant: the type alone does not say that the keys of a *)
(* table are the links of its cables, which the next row relies on.        *)
TablesInv ==
    /\ inventory \subseteq Names
    /\ NoNameClash(inventory)
    /\ rows \in [Tables -> [Cables -> Nat]]
    /\ TableOK(cdp, "cdp")
    /\ TableOK(lldp, "lldp")

(* A spelling of a device is found in the inventory exactly when the row   *)
(* identifies it, and then it resolves to the device's listed name and to  *)
(* its own channel groups.                                                 *)
LEMMA RowEnd ==
    ASSUME inventory \subseteq Names, NoNameClash(inventory),
           NEW end \in PortEnds, NEW raw \in Spellings(end.device)
    PROVE  /\ _normalize_hostname(raw) \in inventory <=> Identified(end.device, raw)
           /\ Identified(end.device, raw) =>
                /\ LogicalEnd(end, raw) = TrueEnd(end)
                /\ LogicalEnd(end, raw) \in LogicalEnds
<1> DEFINE d == end.device
<1>1. d \in Devices /\ end.port \in Ports
  BY DEF PortEnds
<1>2. short[d] \in ShortNames /\ short[d] \notin Devices
  BY <1>1, TopologyAssumption
<1>3. raw = d \/ raw = short[d]
  BY DEF Spellings
<1>4. _normalize_hostname(raw) =
        IF short[d] \notin inventory /\ raw \in inventory THEN raw ELSE short[d]
  BY <1>1, <1>2, <1>3 DEF _normalize_hostname
<1>5. _normalize_hostname(raw) \in inventory <=> Identified(d, raw)
  BY <1>3, <1>4 DEF Identified
<1>6. ASSUME Identified(d, raw)
      PROVE  /\ _normalize_hostname(raw) = ListedName(d)
             /\ DeviceNamed(ListedName(d)) = d
             /\ ListedName(d) \in inventory
  <2>1. CASE short[d] \in inventory
    <3>1. \A e \in Devices : short[e] = short[d] => e = d
      BY <1>1, <2>1 DEF NoNameClash
    <3>2. (CHOOSE e \in Devices : short[e] = short[d]) = d
      BY <1>1, <3>1
    <3>3. DeviceNamed(short[d]) = d
      BY <1>2, <3>2 DEF DeviceNamed
    <3>4. QED
      BY <1>4, <2>1, <3>3 DEF ListedName
  <2>2. CASE short[d] \notin inventory
    <3>1. raw = d /\ d \in inventory
      BY <1>6, <2>2 DEF Identified
    <3>2. QED
      BY <1>1, <1>4, <2>2, <3>1 DEF ListedName, DeviceNamed
  <2>3. QED
    BY <2>1, <2>2
<1>7. ASSUME Identified(d, raw)
      PROVE  /\ LogicalEnd(end, raw) = TrueEnd(end)
             /\ LogicalEnd(end, raw) \in LogicalEnds
  <2>1. lag_map[ListedName(d)] = Bundle[d]
    BY <1>6, <1>7 DEF lag_map
  <2>2. LogicalEnd(end, raw) = [device |-> ListedName(d), port |-> Bundle[d][end.port]]
    BY <1>6, <1>7, <2>1 DEF LogicalEnd, _resolve_lag
  <2>3. Bundle[d][end.port] \in Ports
    BY <1>1, TopologyAssumption
  <2>4. QED
    BY <1>6, <1>7, <2>2, <2>3 DEF TrueEnd, LogicalEnds
<1>8. QED
  BY <1>5, <1>7

(* The rows of a cable, as ReadRow enumerates them.                        *)
RowOf(cable, row) ==
    \E complete \in BOOLEAN, ends \in {<<cable.a, cable.b>>, <<cable.b, cable.a>>} :
        \E local \in Spellings(ends[1].device), remote \in Spellings(ends[2].device) :
            row = Row(ends[1], local, ends[2], remote, complete)

(* A row is kept exactly when it is usable, and a kept one stands for the  *)
(* link of its cable.                                                      *)
LEMMA RowLink ==
    ASSUME inventory \subseteq Names, NoNameClash(inventory),
           NEW cable \in Cables, NEW row, RowOf(cable, row),
           NEW table \in Tables
    PROVE  LET link == Link(LogicalEnd(row.local, row.local_device),
                            LogicalEnd(row.remote, row.remote_device), table, 1)
           IN  /\ RowKept(row) <=> Usable(row)
               /\ Usable(row) => link \in TableLinks(table) /\ Joined(link) = TrueLink(cable)
<1> DEFINE link == Link(LogicalEnd(row.local, row.local_device),
                        LogicalEnd(row.remote, row.remote_device), table, 1)
<1>1. cable.a \in PortEnds /\ cable.b \in PortEnds
  BY TopologyAssumption
<1>2. PICK complete \in BOOLEAN, ends \in {<<cable.a, cable.b>>, <<cable.b, cable.a>>} :
        \E local \in Spellings(ends[1].device), remote \in Spellings(ends[2].device) :
            row = Row(ends[1], local, ends[2], remote, complete)
  BY DEF RowOf
<1>3. PICK local \in Spellings(ends[1].device), remote \in Spellings(ends[2].device) :
        row = Row(ends[1], local, ends[2], remote, complete)
  BY <1>2
<1>4. /\ row.local = ends[1] /\ row.local_device = local
      /\ row.remote = ends[2] /\ row.remote_device = remote
      /\ row.complete = complete
  BY <1>3 DEF Row
<1>5. ends[1] \in PortEnds /\ ends[2] \in PortEnds
  BY <1>1, <1>2
<1>6. RowKept(row) <=> Usable(row)
  BY <1>3, <1>4, <1>5, RowEnd DEF RowKept, Usable
<1>7. ASSUME Usable(row)
      PROVE  link \in TableLinks(table) /\ Joined(link) = TrueLink(cable)
  <2>1. Identified(ends[1].device, local) /\ Identified(ends[2].device, remote)
    BY <1>4, <1>7 DEF Usable
  <2>2. /\ LogicalEnd(ends[1], local) = TrueEnd(ends[1])
        /\ LogicalEnd(ends[1], local) \in LogicalEnds
    BY <1>3, <1>5, <2>1, RowEnd
  <2>3. /\ LogicalEnd(ends[2], remote) = TrueEnd(ends[2])
        /\ LogicalEnd(ends[2], remote) \in LogicalEnds
    BY <1>3, <1>5, <2>1, RowEnd
  <2>4. link = Link(TrueEnd(ends[1]), TrueEnd(ends[2]), table, 1)
    BY <1>4, <2>2, <2>3
  <2>5. link \in TableLinks(table)
    BY <2>2, <2>3, <2>4 DEF Link, TableLinks
  <2>6. Joined(link) = {TrueEnd(ends[1]), TrueEnd(ends[2])}
    BY <2>4 DEF Joined, Link
  <2>7. Joined(link) = TrueLink(cable)
    BY <1>2, <2>6 DEF TrueLink
  <2>8. QED
    BY <2>5, <2>7
<1>8. QED
  BY <1>6, <1>7

(* Folding a link keeps one link per key and adds the link's own key.      *)
LEMMA LoadedKeys ==
    ASSUME NEW table \in Tables, NEW seen, NEW link \in TableLinks(table),
           seen \subseteq TableLinks(table), KeyedOnce(seen)
    PROVE  /\ Loaded(seen, link) \subseteq TableLinks(table)
           /\ KeyedOnce(Loaded(seen, link))
           /\ LinkKeys(Loaded(seen, link)) = LinkKeys(seen) \union {Joined(link)}
<1>1. CASE ~\E other \in seen : _make_key(other) = _make_key(link)
  <2>1. Loaded(seen, link) = seen \union {link}
    BY <1>1 DEF Loaded
  <2>2. \A other \in seen : Joined(other) # Joined(link)
    BY <1>1 DEF Joined, _make_key
  <2>3. QED
    BY <2>1, <2>2 DEF KeyedOnce, LinkKeys
<1>2. CASE \E other \in seen : _make_key(other) = _make_key(link)
  <2> DEFINE Count(other) == IF _make_key(other) = _make_key(link)
                             THEN [other EXCEPT !.member_count = @ + 1] ELSE other
  <2>1. Loaded(seen, link) = {Count(other) : other \in seen}
    BY <1>2 DEF Loaded, Counted
  <2>2. \A other \in seen : Count(other) \in TableLinks(table) /\ Joined(Count(other)) = Joined(other)
    BY DEF TableLinks, Joined
  <2>3. Joined(link) \in LinkKeys(seen)
    BY <1>2 DEF LinkKeys, Joined, _make_key
  <2>4. Loaded(seen, link) \subseteq TableLinks(table)
    BY <2>1, <2>2
  <2>5. \A x, y \in seen : Joined(Count(x)) = Joined(Count(y)) => Count(x) = Count(y)
    <3>1. SUFFICES ASSUME NEW x \in seen, NEW y \in seen,
                          Joined(Count(x)) = Joined(Count(y))
                   PROVE  x = y
      OBVIOUS
    <3>2. Joined(x) = Joined(y)
      BY <2>2, <3>1
    <3>3. QED
      BY <3>2 DEF KeyedOnce
  <2>8. KeyedOnce(Loaded(seen, link))
    <3>1. ASSUME NEW l \in Loaded(seen, link), NEW m \in Loaded(seen, link),
                 Joined(l) = Joined(m)
          PROVE  l = m
      <4>1. PICK x \in seen : l = Count(x)
        BY <2>1
      <4>2. PICK y \in seen : m = Count(y)
        BY <2>1
      <4>3. QED
        BY <2>5, <3>1, <4>1, <4>2
    <3>2. QED
      BY <3>1 DEF KeyedOnce
  <2>6. LinkKeys(Loaded(seen, link)) = LinkKeys(seen)
    BY <2>1, <2>2 DEF LinkKeys
  <2>7. QED
    BY <2>3, <2>4, <2>6, <2>8
<1>3. QED
  BY <1>1, <1>2

(* One row of a table keeps what the table promises.                       *)
LEMMA LoadStep ==
    ASSUME inventory \subseteq Names, NoNameClash(inventory),
           rows \in [Tables -> [Cables -> Nat]],
           NEW cable \in Cables, NEW row, RowOf(cable, row),
           NEW table \in Tables, NEW seen, TableOK(seen, table),
           Report(table, cable, row)
    PROVE  /\ load(seen, row, table) \subseteq TableLinks(table)
           /\ KeyedOnce(load(seen, row, table))
           /\ LinkKeys(load(seen, row, table)) =
                {TrueLink(c) : c \in {k \in Cables : rows'[table][k] > 0}}
<1> DEFINE link == Link(LogicalEnd(row.local, row.local_device),
                        LogicalEnd(row.remote, row.remote_device), table, 1)
<1>1. /\ RowKept(row) <=> Usable(row)
      /\ Usable(row) => link \in TableLinks(table) /\ Joined(link) = TrueLink(cable)
  BY RowLink
<1>2. CASE ~Usable(row)
  <2>1. load(seen, row, table) = seen /\ rows' = rows
    BY <1>1, <1>2 DEF load, Report
  <2>2. QED
    BY <2>1 DEF TableOK, CableLinks, Reported
<1>3. CASE Usable(row)
  <2>1. load(seen, row, table) = Loaded(seen, link)
    BY <1>1, <1>3 DEF load
  <2>2. /\ Loaded(seen, link) \subseteq TableLinks(table)
        /\ KeyedOnce(Loaded(seen, link))
        /\ LinkKeys(Loaded(seen, link)) = LinkKeys(seen) \union {Joined(link)}
    BY <1>1, <1>3, LoadedKeys DEF TableOK
  <2>3. \A k \in Cables : rows'[table][k] > 0 <=> rows[table][k] > 0 \/ k = cable
    <3>1. rows' = [rows EXCEPT ![table][cable] = @ + 1]
      BY <1>3 DEF Report
    <3>2. rows[table] \in [Cables -> Nat]
      OBVIOUS
    <3>3. rows'[table] = [rows[table] EXCEPT ![cable] = @ + 1]
      BY <3>1
    <3>4. QED
      BY <3>2, <3>3
  <2>4. LinkKeys(seen) \union {Joined(link)} =
          {TrueLink(c) : c \in {k \in Cables : rows'[table][k] > 0}}
    BY <1>1, <1>3, <2>3 DEF TableOK, CableLinks, Reported
  <2>5. QED
    BY <2>1, <2>2, <2>4
<1>4. QED
  BY <1>2, <1>3

(* The row ReadRow builds is a row of its cable.                           *)
LEMMA ReadRowReads ==
    ASSUME ReadRow
    PROVE  \E cable \in Cables : \E row :
              RowOf(cable, row) /\ (ReadCdp(cable, row) \/ ReadLldp(cable, row))
<1>1. PICK cable \in Cables, complete \in BOOLEAN :
        \E ends \in {<<cable.a, cable.b>>, <<cable.b, cable.a>>} :
            \E local \in Spellings(ends[1].device), remote \in Spellings(ends[2].device) :
                LET row == Row(ends[1], local, ends[2], remote, complete)
                IN  ReadCdp(cable, row) \/ ReadLldp(cable, row)
  BY DEF ReadRow
<1>2. PICK ends \in {<<cable.a, cable.b>>, <<cable.b, cable.a>>} :
        \E local \in Spellings(ends[1].device), remote \in Spellings(ends[2].device) :
            LET row == Row(ends[1], local, ends[2], remote, complete)
            IN  ReadCdp(cable, row) \/ ReadLldp(cable, row)
  BY <1>1
<1>3. PICK local \in Spellings(ends[1].device), remote \in Spellings(ends[2].device) :
        LET row == Row(ends[1], local, ends[2], remote, complete)
        IN  ReadCdp(cable, row) \/ ReadLldp(cable, row)
  BY <1>2
<1> DEFINE row == Row(ends[1], local, ends[2], remote, complete)
<1>4. RowOf(cable, row)
  BY DEF RowOf
<1>5. QED
  BY <1>3, <1>4

(* The invariant holds before the first row.                               *)
LEMMA IngestInitInv == IngestInit => TablesInv
<1>1. SUFFICES ASSUME IngestInit PROVE TablesInv
  OBVIOUS
<1>2. rows \in [Tables -> [Cables -> Nat]]
  BY <1>1 DEF IngestInit
<1>3. \A t \in Tables : CableLinks(t) = {}
  BY <1>1 DEF IngestInit, CableLinks, Reported
<1>4. QED
  BY <1>1, <1>2, <1>3 DEF IngestInit, TablesInv, TableOK, KeyedOnce, LinkKeys, Tables

(* What a table holds does not change with the rows of the other one.      *)
LEMMA TableUntouched ==
    ASSUME NEW table \in Tables, inventory' = inventory, rows'[table] = rows[table]
    PROVE  TableLinks(table)' = TableLinks(table) /\ CableLinks(table)' = CableLinks(table)
<1>1. TableLinks(table)' = TableLinks(table)
  BY DEF TableLinks, LogicalEnds
<1>2. \A c : TrueLink(c)' = TrueLink(c)
  BY DEF TrueLink, TrueEnd, ListedName
<1>3. \A c : Reported(table, c)' <=> Reported(table, c)
  BY DEF Reported
<1>4. CableLinks(table)' = CableLinks(table)
  BY <1>2, <1>3 DEF CableLinks
<1>5. QED
  BY <1>1, <1>4

(* And every row keeps it.                                                 *)
LEMMA RowInv == TablesInv /\ [ReadRow]_tableVars => TablesInv'
<1>1. SUFFICES ASSUME TablesInv, [ReadRow]_tableVars PROVE TablesInv'
  OBVIOUS
<1>2. CASE UNCHANGED tableVars
  <2>1. UNCHANGED <<inventory, cdp, lldp, rows>>
    BY <1>2 DEF tableVars
  <2>2. TableOK(cdp, "cdp")' /\ TableOK(lldp, "lldp")'
    BY <1>1, <2>1, TableUntouched DEF TablesInv, TableOK, Tables, KeyedOnce, LinkKeys, Joined
  <2>3. QED
    BY <1>1, <2>1, <2>2 DEF TablesInv, NoNameClash
<1>3. CASE ReadRow
  <2>1. PICK cable \in Cables : \E row :
          RowOf(cable, row) /\ (ReadCdp(cable, row) \/ ReadLldp(cable, row))
    BY <1>3, ReadRowReads
  <2>2. PICK row : RowOf(cable, row) /\ (ReadCdp(cable, row) \/ ReadLldp(cable, row))
    BY <2>1
  <2>3. inventory' = inventory
    BY <2>2 DEF ReadCdp, ReadLldp
  <2>4. \A t \in Tables : TableLinks(t)' = TableLinks(t)
    BY <2>3 DEF TableLinks, LogicalEnds
  <2>5. \A c : TrueLink(c)' = TrueLink(c)
    BY <2>3 DEF TrueLink, TrueEnd, ListedName
  <2>6. rows' \in [Tables -> [Cables -> Nat]]
    BY <1>1, <2>2 DEF TablesInv, ReadCdp, ReadLldp, Report, Tables
  <2>7. inventory' \subseteq Names /\ NoNameClash(inventory)'
    BY <1>1, <2>3 DEF TablesInv, NoNameClash
  <2>8. CASE ReadCdp(cable, row)
    <3>1. /\ cdp' \subseteq TableLinks("cdp") /\ KeyedOnce(cdp')
          /\ LinkKeys(cdp') = {TrueLink(c) : c \in {k \in Cables : rows'["cdp"][k] > 0}}
      BY <1>1, <2>2, <2>8, LoadStep DEF TablesInv, ReadCdp, Tables
    <3>2. TableOK(cdp, "cdp")'
      BY <2>4, <2>5, <3>1 DEF TableOK, KeyedOnce, LinkKeys, CableLinks, Reported, Joined, Tables
    <3>3. lldp' = lldp /\ rows'["lldp"] = rows["lldp"]
      BY <1>1, <2>8 DEF TablesInv, ReadCdp, Report, Tables
    <3>4. TableOK(lldp, "lldp")'
      BY <1>1, <2>3, <3>3, TableUntouched DEF TablesInv, TableOK, Tables, KeyedOnce, LinkKeys, Joined
    <3>5. QED
      BY <2>6, <2>7, <3>2, <3>4 DEF TablesInv
  <2>9. CASE ReadLldp(cable, row)
    <3>1. /\ lldp' \subseteq TableLinks("lldp") /\ KeyedOnce(lldp')
          /\ LinkKeys(lldp') = {TrueLink(c) : c \in {k \in Cables : rows'["lldp"][k] > 0}}
      BY <1>1, <2>2, <2>9, LoadStep DEF TablesInv, ReadLldp, Tables
    <3>2. TableOK(lldp, "lldp")'
      BY <2>4, <2>5, <3>1 DEF TableOK, KeyedOnce, LinkKeys, CableLinks, Reported, Joined, Tables
    <3>3. cdp' = cdp /\ rows'["cdp"] = rows["cdp"]
      BY <1>1, <2>9 DEF TablesInv, ReadLldp, Report, Tables
    <3>4. TableOK(cdp, "cdp")'
      BY <1>1, <2>3, <3>3, TableUntouched DEF TablesInv, TableOK, Tables, KeyedOnce, LinkKeys, Joined
    <3>5. QED
      BY <2>6, <2>7, <3>2, <3>4 DEF TablesInv
  <2>10. QED
    BY <2>2, <2>8, <2>9
<1>4. QED
  BY <1>1, <1>2, <1>3

(* The inductive invariant holds of every run of rows.                     *)
THEOREM TablesHold == IngestSpec => []TablesInv
<1>1. QED
  BY IngestInitInv, RowInv, PTL DEF IngestSpec

(* The state is well typed: every end of a link is a port of an inventory  *)
(* device, every link counts at least one row and names its table.         *)
THEOREM TablesTypeCorrect == IngestSpec => []TablesTypeOK
<1>1. TablesInv => TablesTypeOK
  BY DEF TablesInv, TablesTypeOK, TableOK, TableLinks, LogicalEnds
<1>2. QED
  BY <1>1, TablesHold, PTL

(* The links of the result are exactly those of the reported cables, for   *)
(* every fabric, every inventory and every order of the rows.              *)
THEOREM LinksAreExact == IngestSpec => []LinksAreTheCables
<1>1. ASSUME TablesInv PROVE LinksAreTheCables
  <2>1. LinkKeys(physical_topology) = LinkKeys(cdp) \union LinkKeys(lldp)
    BY DEF physical_topology, LinkKeys, Joined, _make_key
  <2>2. LinkKeys(physical_topology) = CableLinks("cdp") \union CableLinks("lldp")
    BY <1>1, <2>1 DEF TablesInv, TableOK
  <2>3. CableLinks("cdp") \union CableLinks("lldp") =
          {TrueLink(c) : c \in {cable \in Cables : \E t \in Tables : Reported(t, cable)}}
    BY DEF CableLinks, Tables
  <2>4. QED
    BY <2>2, <2>3 DEF LinksAreTheCables, LinkKeys
<1>2. QED
  BY <1>1, TablesHold, PTL

(* No two links of the result join the same two ends.                      *)
THEOREM ConnectionsAreUnique == IngestSpec => []OneLinkPerConnection
<1>1. ASSUME TablesInv PROVE OneLinkPerConnection
  <2>1. KeyedOnce(cdp) /\ KeyedOnce(lldp)
    BY <1>1 DEF TablesInv, TableOK
  <2>2. \A link \in physical_topology, other \in physical_topology :
          Joined(link) = Joined(other) => link = other
    BY <2>1 DEF physical_topology, KeyedOnce, Joined, _make_key
  <2>3. QED
    BY <2>2 DEF OneLinkPerConnection
<1>2. QED
  BY <1>1, TablesHold, PTL

(* A link is attributed to CDP exactly when some CDP row reported it.      *)
THEOREM CdpFirst == IngestSpec => []CdpTakesPrecedence
<1>1. ASSUME TablesInv PROVE CdpTakesPrecedence
  <2>1. LinkKeys(cdp) = CableLinks("cdp")
    BY <1>1 DEF TablesInv, TableOK
  <2>2. /\ \A link \in cdp : link.source = "cdp"
        /\ \A link \in lldp : link.source = "lldp"
    BY <1>1 DEF TablesInv, TableOK, TableLinks
  <2>3. ASSUME NEW link \in physical_topology
        PROVE  link.source = "cdp" <=> Joined(link) \in LinkKeys(cdp)
    BY <2>2 DEF physical_topology, LinkKeys, Joined, _make_key
  <2>4. QED
    BY <2>1, <2>3 DEF CdpTakesPrecedence, CableLinks
<1>2. QED
  BY <1>1, TablesHold, PTL

-----------------------------------------------------------------------------
(***************************************************************************)
(* Proofs about module BgpSessions, for every set of estates: an end that  *)
(* is drawn is drawn to the device its statement means, a statement about  *)
(* a known device is drawn or reported, whatever the order, and the edges  *)
(* are the sessions where the configurations tell these apart.             *)
(*                                                                         *)
(* The first is a fact about _resolve_peer_host: a single candidate, or a  *)
(* single candidate with the remote AS, is the device meant, because the   *)
(* device meant is always a candidate and has the AS.  What the invariant  *)
(* adds is that nothing else ever gets into a group: every filed end is    *)
(* the end of a resolved statement, and every resolved statement that was  *)
(* read is filed or deferred.  The edges need to know the groups (KeyInv,  *)
(* FabricInv): their keys, their one or two ends, their one session.       *)
(***************************************************************************)

(* Every non-empty set of natural numbers has a least element.             *)
LEMMA LeastElement ==
  ASSUME NEW S \in SUBSET Nat, S # {}
  PROVE  \E n \in S : \A m \in S : n <= m
<1> DEFINE Less == {ss \in Nat \X Nat : ss[1] < ss[2]}
<1>1. IsWellFoundedOn(Less, Nat)
  BY NatLessThanWellFounded DEF OpToRel
<1> HIDE DEF Less
<1>2. PICK n \in S : \A m \in S : ~(<<m, n>> \in Less)
  BY <1>1, WFMin
<1>3. \A m \in S : ~(m < n)
  BY <1>2 DEF Less
<1> QED BY <1>3

-----------------------------------------------------------------------------
(* The statements of the estate.                                           *)

Resolved == {s \in estate.statements : _resolve_peer_host(s) # Unknown}

Ends == {Endpoint(s) : s \in Resolved}

LEMMA WellFormedStatement ==
  ASSUME estate \in Estates, NEW s \in estate.statements
  PROVE  /\ s \in Statements
         /\ s.target # s.host
         /\ \/ /\ s.target \in Hosts
               /\ s.peer_ip \in estate.owns[s.target]
               /\ s.remote_as \in {estate.asn[s.target], Unknown}
            \/ /\ s.target = Outside
               /\ \A h \in Hosts : s.peer_ip \notin estate.owns[h]
<1>1. WellFormed(estate)
  BY EstateAssumption
<1> QED BY <1>1 DEF WellFormed

(* The device meant is a candidate, and matches the AS if there is one.    *)
LEMMA MeantIsCandidate ==
  ASSUME estate \in Estates, NEW s \in estate.statements, Candidates(s) # {}
  PROVE  /\ s.target \in Candidates(s)
         /\ s.remote_as # Unknown => s.target \in Matching(s)
<1>1. PICK h \in Hosts : s.peer_ip \in estate.owns[h]
  BY DEF Candidates, _ip_owners, _device_ips
<1>2. /\ s.target \in Hosts
      /\ s.peer_ip \in estate.owns[s.target]
      /\ s.remote_as \in {estate.asn[s.target], Unknown}
      /\ s.target # s.host
  BY <1>1, WellFormedStatement
<1>3. s.target \in Candidates(s)
  BY <1>2 DEF Candidates, _ip_owners, _device_ips
<1> QED BY <1>2, <1>3 DEF Matching, _global_asn

LEMMA TheOnlyMember ==
  ASSUME NEW S, IsFiniteSet(S), Cardinality(S) = 1, NEW x \in S
  PROVE  (CHOOSE y \in S : TRUE) = x
<1>1. PICK z : S = {z}
  BY FS_Singleton
<1> QED BY <1>1

LEMMA CandidatesFinite ==
  ASSUME NEW s
  PROVE  IsFiniteSet(Candidates(s)) /\ IsFiniteSet(Matching(s))
<1>1. Candidates(s) \subseteq Hosts
  BY DEF Candidates, _ip_owners
<1>2. Matching(s) \subseteq Hosts
  BY <1>1 DEF Matching
<1> QED BY <1>1, <1>2, FS_Subset, EstateAssumption

(* What resolves, resolves to the device meant.                            *)
LEMMA ResolvesToTarget ==
  ASSUME estate \in Estates, NEW s \in estate.statements, _resolve_peer_host(s) # Unknown
  PROVE  _resolve_peer_host(s) = s.target
<1>1. CASE Cardinality(Candidates(s)) = 1
  <2>1. Candidates(s) # {}
    BY <1>1, FS_EmptySet
  <2>2. (CHOOSE h \in Candidates(s) : TRUE) = s.target
    BY <1>1, <2>1, MeantIsCandidate, CandidatesFinite, TheOnlyMember
  <2> QED BY <1>1, <2>2 DEF _resolve_peer_host
<1>2. CASE Cardinality(Candidates(s)) # 1
  <2>1. /\ Candidates(s) # {}
        /\ Cardinality(Matching(s)) = 1
        /\ _resolve_peer_host(s) = CHOOSE h \in Matching(s) : TRUE
    BY <1>2 DEF _resolve_peer_host
  <2>2. Matching(s) # {}
    BY <2>1, FS_EmptySet
  <2>3. s.target \in Matching(s)
    BY <2>1, <2>2, MeantIsCandidate DEF Matching
  <2> QED BY <2>1, <2>3, CandidatesFinite, TheOnlyMember
<1> QED BY <1>1, <1>2

(* An end tells its statement.                                             *)
LEMMA EndOfStatement ==
  ASSUME estate \in Estates, NEW s \in estate.statements
  PROVE  StatementOf(Endpoint(s)) = s
<1>1. \A t, u \in estate.statements :
        (t.host = u.host /\ t.peer_ip = u.peer_ip) => t = u
  BY EstateAssumption DEF WellFormed
<1>2. Endpoint(s).host = s.host /\ Endpoint(s).peer_ip = s.peer_ip
  BY DEF Endpoint
<1> QED BY <1>1, <1>2 DEF StatementOf

-----------------------------------------------------------------------------
(* Groups of ends: what filing an end does to what the groups hold.        *)

GroupsOf(K, E) == Seq([key : K, members : Seq(E)])

InGroup(group, ep) == \E j \in DOMAIN group.members : group.members[j] = ep

Holds(groups, ep) == \E i \in DOMAIN groups : InGroup(groups[i], ep)

Appended(group, ep) == [group EXCEPT !.members = Append(@, ep)]

LEMMA AppendedGroup ==
  ASSUME NEW K, NEW E, NEW group \in [key : K, members : Seq(E)], NEW ep \in E
  PROVE  /\ Appended(group, ep) \in [key : K, members : Seq(E)]
         /\ \A e : InGroup(Appended(group, ep), e) <=> (e = ep \/ InGroup(group, e))
<1> DEFINE old == group.members
           new == Append(old, ep)
<1>1. old \in Seq(E)
  OBVIOUS
<1>2. Appended(group, ep) = [key |-> group.key, members |-> new]
  BY DEF Appended
<1>3. /\ new \in Seq(E)
      /\ DOMAIN new = 1..Len(old)+1
      /\ DOMAIN old = 1..Len(old)
      /\ Len(old) \in Nat
      /\ \A j \in 1..Len(old) : new[j] = old[j]
      /\ new[Len(old)+1] = ep
  BY <1>1
<1> HIDE DEF old, new
<1>4. ASSUME NEW e
      PROVE (\E j \in DOMAIN new : new[j] = e) <=> (e = ep \/ \E j \in DOMAIN old : old[j] = e)
  <2>1. ASSUME NEW j \in DOMAIN new, new[j] = e
        PROVE  e = ep \/ \E k \in DOMAIN old : old[k] = e
    BY <1>3, <2>1
  <2>2. Len(old)+1 \in DOMAIN new /\ DOMAIN old \subseteq DOMAIN new
    BY <1>3
  <2> QED BY <1>3, <2>1, <2>2
<1>5. Appended(group, ep).members = new
  BY <1>2
<1>6. Appended(group, ep) \in [key : K, members : Seq(E)]
  BY <1>2, <1>3
<1> QED BY <1>4, <1>5, <1>6 DEF old, InGroup

(* An end appended to some of the groups.                                  *)
LEMMA AppendedTo ==
  ASSUME NEW K, NEW E, NEW groups \in GroupsOf(K, E), NEW ep \in E,
         NEW J \in SUBSET DOMAIN groups, J # {}
  PROVE  LET new == [i \in DOMAIN groups |->
                       IF i \in J THEN Appended(groups[i], ep) ELSE groups[i]]
         IN  /\ new \in GroupsOf(K, E)
             /\ \A e : Holds(new, e) <=> (Holds(groups, e) \/ e = ep)
<1> DEFINE new == [i \in DOMAIN groups |->
                     IF i \in J THEN Appended(groups[i], ep) ELSE groups[i]]
           Group == [key : K, members : Seq(E)]
<1>0. groups \in Seq(Group)
  BY DEF GroupsOf
<1> HIDE DEF Group
<1>1. /\ DOMAIN groups = 1..Len(groups)
      /\ Len(groups) \in Nat
      /\ \A i \in DOMAIN groups : groups[i] \in Group
  BY <1>0
<1>2. \A i \in DOMAIN groups : Appended(groups[i], ep) \in Group
  BY <1>1, AppendedGroup DEF Group
<1>3. new \in [1..Len(groups) -> Group]
  BY <1>1, <1>2
<1>4. new \in Seq(Group)
  BY <1>1, <1>3
<1>5. ASSUME NEW e, NEW i \in DOMAIN groups
      PROVE  InGroup(new[i], e) <=> ((i \in J /\ e = ep) \/ InGroup(groups[i], e))
  <2>1. CASE i \in J
    <3>1. new[i] = Appended(groups[i], ep)
      BY <2>1
    <3>2. groups[i] \in [key : K, members : Seq(E)]
      BY <1>1 DEF Group
    <3>3. InGroup(Appended(groups[i], ep), e) <=> (e = ep \/ InGroup(groups[i], e))
      BY <3>2, AppendedGroup
    <3> QED BY <2>1, <3>1, <3>3
  <2>2. CASE i \notin J
    BY <2>2
  <2> QED BY <2>1, <2>2
<1>6. DOMAIN new = DOMAIN groups
  OBVIOUS
<1> HIDE DEF new
<1>7. ASSUME NEW e PROVE Holds(new, e) <=> (Holds(groups, e) \/ e = ep)
  BY <1>5, <1>6 DEF Holds
<1>8. new \in GroupsOf(K, E)
  BY <1>4 DEF GroupsOf, Group
<1> QED BY <1>7, <1>8 DEF new

(* setdefault(...).append: the groups hold one end more, whatever the key. *)
LEMMA FiledHolds ==
  ASSUME NEW K, NEW E, NEW groups \in GroupsOf(K, E), NEW key \in K, NEW ep \in E
  PROVE  /\ Filed(groups, key, ep) \in GroupsOf(K, E)
         /\ \A e : Holds(Filed(groups, key, ep), e) <=> (Holds(groups, e) \/ e = ep)
<1>1. CASE \E i \in DOMAIN groups : groups[i].key = key
  <2> DEFINE J == {i \in DOMAIN groups : groups[i].key = key}
             new == [i \in DOMAIN groups |->
                       IF i \in J THEN Appended(groups[i], ep) ELSE groups[i]]
  <2>1. Filed(groups, key, ep) = new
    BY <1>1 DEF Filed, Appended
  <2>2. J # {} /\ J \in SUBSET DOMAIN groups
    BY <1>1
  <2>3. new \in GroupsOf(K, E) /\ \A e : Holds(new, e) <=> (Holds(groups, e) \/ e = ep)
    <3> HIDE DEF J
    <3> QED BY <2>2, AppendedTo
  <2> HIDE DEF new
  <2> QED BY <2>1, <2>3
<1>2. CASE ~\E i \in DOMAIN groups : groups[i].key = key
  <2> DEFINE group == [key |-> key, members |-> <<ep>>]
             new == Append(groups, group)
  <2>1. Filed(groups, key, ep) = new
    BY <1>2 DEF Filed
  <2>2. group \in [key : K, members : Seq(E)]
    OBVIOUS
  <2>3. groups \in Seq([key : K, members : Seq(E)])
    BY DEF GroupsOf
  <2>4. DOMAIN group.members = {1} /\ group.members[1] = ep
    OBVIOUS
  <2> HIDE DEF group
  <2>5. /\ new \in Seq([key : K, members : Seq(E)])
        /\ DOMAIN new = 1..Len(groups)+1
        /\ DOMAIN groups = 1..Len(groups)
        /\ Len(groups) \in Nat
        /\ \A j \in 1..Len(groups) : new[j] = groups[j]
        /\ new[Len(groups)+1] = group
    BY <2>2, <2>3
  <2> HIDE DEF new
  <2>6. ASSUME NEW e PROVE Holds(new, e) <=> (Holds(groups, e) \/ e = ep)
    <3>1. ASSUME NEW i \in DOMAIN new, InGroup(new[i], e)
          PROVE  Holds(groups, e) \/ e = ep
      <4>1. CASE i \in 1..Len(groups)
        BY <2>5, <3>1, <4>1 DEF Holds
      <4>2. CASE i = Len(groups)+1
        BY <2>4, <2>5, <3>1, <4>2 DEF InGroup
      <4> QED BY <2>5, <4>1, <4>2
    <3>2. ASSUME Holds(groups, e) PROVE Holds(new, e)
      <4>1. DOMAIN groups \subseteq DOMAIN new
        BY <2>5
      <4> QED BY <2>5, <3>2, <4>1 DEF Holds
    <3>3. Holds(new, ep)
      <4>1. Len(groups)+1 \in DOMAIN new
        BY <2>5
      <4> QED BY <2>4, <2>5, <4>1 DEF Holds, InGroup
    <3> QED BY <3>1, <3>2, <3>3 DEF Holds
  <2> QED BY <2>1, <2>5, <2>6 DEF GroupsOf
<1> QED BY <1>1, <1>2

-----------------------------------------------------------------------------
(* The invariant.                                                          *)

Keys == {_session_key(ep) : ep \in Ends} \union {UnpairedKey(ep) : ep \in Ends}

Warning(s) == [host |-> s.host, peer_ip |-> s.peer_ip]

Waits(ends, ep) == \E j \in DOMAIN ends : ends[j] = ep

Kept(groups, ends, ep) == Holds(groups, ep) \/ Waits(ends, ep)

IInv ==
  /\ estate \in Estates
  /\ unread \subseteq estate.statements
  /\ sessions \in GroupsOf(Keys, Ends)
  /\ deferred \in Seq(Ends)
  /\ \A s \in Resolved \ unread : Kept(sessions, deferred, Endpoint(s))
  /\ \A s \in estate.statements \ unread : Warning(s) \in warnings <=> Ambiguous(s)
  /\ \A w \in warnings : \E s \in estate.statements \ unread : w = Warning(s)

LEMMA SameEstate ==
  ASSUME estate' = estate
  PROVE  /\ Resolved' = Resolved
         /\ Ends' = Ends
         /\ Keys' = Keys
         /\ \A s : /\ _resolve_peer_host(s)' = _resolve_peer_host(s)
                   /\ Ambiguous(s)' = Ambiguous(s)
                   /\ StatementOf(s)' = StatementOf(s)
                   /\ Endpoint(s)' = Endpoint(s)
  BY DEF Resolved, Ends, Keys, _resolve_peer_host, Ambiguous, StatementOf, Endpoint,
         Candidates, Matching, _ip_owners, _device_ips, _global_asn, _session_key, UnpairedKey

(* Two statements with one warning are one.                                *)
LEMMA WarningTells ==
  ASSUME estate \in Estates, NEW s \in estate.statements, NEW t \in estate.statements,
         Warning(s) = Warning(t)
  PROVE  s = t
<1>1. \A a, b \in estate.statements :
        (a.host = b.host /\ a.peer_ip = b.peer_ip) => a = b
  BY EstateAssumption DEF WellFormed
<1>2. s.host = t.host /\ s.peer_ip = t.peer_ip
  BY DEF Warning
<1> QED BY <1>1, <1>2

LEMMA InitInv == Init => IInv
<1> SUFFICES ASSUME Init PROVE IInv
  OBVIOUS
<1>1. sessions \in GroupsOf(Keys, Ends) /\ deferred \in Seq(Ends)
  BY DEF Init, GroupsOf
<1> QED BY <1>1 DEF Init, IInv, Resolved

LEMMA ReadInv ==
  ASSUME IInv, NEW s \in unread, ReadNeighbor(s)
  PROVE  IInv'
<1> DEFINE ep == Endpoint(s)
<1>1. /\ estate' = estate /\ unread' = unread \ {s}
      /\ s \in estate.statements
  BY DEF ReadNeighbor, NextStatement, IInv
<1>2. s \in Resolved <=> _resolve_peer_host(s) # Unknown
  BY <1>1 DEF Resolved
<1>3. (estate \in Estates)' /\ (unread \subseteq estate.statements)'
  BY <1>1 DEF IInv
<1>4. /\ (sessions \in GroupsOf(Keys, Ends))'
      /\ (deferred \in Seq(Ends))'
      /\ \A e : Kept(sessions, deferred, e) => Kept(sessions', deferred', e)
      /\ s \in Resolved => Kept(sessions', deferred', ep)
  <2>1. CASE _resolve_peer_host(s) = Unknown
    <3>1. UNCHANGED <<sessions, deferred>> /\ s \notin Resolved
      BY <1>2, <2>1 DEF ReadNeighbor
    <3> QED BY <1>1, <3>1, SameEstate DEF IInv
  <2>2. CASE _resolve_peer_host(s) # Unknown /\ s.local_ip # Unknown
    <3>1. /\ sessions' = Filed(sessions, _session_key(ep), ep)
          /\ deferred' = deferred
      BY <2>2 DEF ReadNeighbor
    <3>2. ep \in Ends /\ _session_key(ep) \in Keys
      BY <1>2, <2>2 DEF Ends, Keys
    <3>3. sessions' \in GroupsOf(Keys, Ends)
          /\ \A e : Holds(sessions', e) <=> (Holds(sessions, e) \/ e = ep)
      <4> HIDE DEF ep
      <4> QED BY <3>1, <3>2, FiledHolds DEF IInv
    <3>4. (sessions \in GroupsOf(Keys, Ends))' /\ (deferred \in Seq(Ends))'
      BY <1>1, <3>1, <3>3, SameEstate DEF IInv
    <3> HIDE DEF ep
    <3>5. /\ \A e : Kept(sessions, deferred, e) => Kept(sessions', deferred', e)
          /\ Kept(sessions', deferred', ep)
      BY <3>1, <3>3 DEF Kept
    <3> QED BY <3>4, <3>5
  <2>3. CASE _resolve_peer_host(s) # Unknown /\ s.local_ip = Unknown
    <3>1. /\ deferred' = Append(deferred, ep)
          /\ sessions' = sessions
      BY <2>3 DEF ReadNeighbor
    <3>2. ep \in Ends
      BY <1>2, <2>3 DEF Ends
    <3> HIDE DEF ep
    <3>3. /\ deferred' \in Seq(Ends)
          /\ DOMAIN deferred' = 1..Len(deferred)+1
          /\ DOMAIN deferred = 1..Len(deferred)
          /\ Len(deferred) \in Nat
          /\ \A j \in 1..Len(deferred) : deferred'[j] = deferred[j]
          /\ deferred'[Len(deferred)+1] = ep
      BY <3>1, <3>2 DEF IInv
    <3>4. /\ \A e : Waits(deferred, e) => Waits(deferred', e)
          /\ Waits(deferred', ep)
      <4>1. Len(deferred)+1 \in DOMAIN deferred' /\ DOMAIN deferred \subseteq DOMAIN deferred'
        BY <3>3
      <4> QED BY <3>3, <4>1 DEF Waits
    <3>5. (sessions \in GroupsOf(Keys, Ends))' /\ (deferred \in Seq(Ends))'
      BY <1>1, <3>1, <3>3, SameEstate DEF IInv
    <3> QED BY <3>1, <3>4, <3>5 DEF Kept
  <2> QED BY <2>1, <2>2, <2>3
<1>5. (\A t \in Resolved \ unread : Kept(sessions, deferred, Endpoint(t)))'
  <2> SUFFICES ASSUME NEW t \in Resolved, t \notin unread \ {s}
               PROVE  Kept(sessions', deferred', Endpoint(t))
    BY <1>1, SameEstate
  <2>1. CASE t = s
    BY <1>4, <2>1
  <2>2. CASE t # s
    <3>1. Kept(sessions, deferred, Endpoint(t))
      BY <2>2 DEF IInv
    <3> QED BY <1>4, <3>1
  <2> QED BY <2>1, <2>2
<1>6. (\A t \in estate.statements \ unread : Warning(t) \in warnings <=> Ambiguous(t))'
  <2> SUFFICES ASSUME NEW t \in estate.statements, t \notin unread \ {s}
               PROVE  Warning(t) \in warnings' <=> Ambiguous(t)
    BY <1>1, SameEstate DEF Warning
  <2>1. warnings' = IF Ambiguous(s) THEN warnings \union {Warning(s)} ELSE warnings
    BY DEF ReadNeighbor, Warning
  <2>2. CASE t = s
    <3>1. Warning(s) \notin warnings
      <4> SUFFICES ASSUME Warning(s) \in warnings PROVE FALSE
        OBVIOUS
      <4>1. PICK u \in estate.statements \ unread : Warning(s) = Warning(u)
        BY DEF IInv
      <4> QED BY <1>1, <4>1, WarningTells DEF IInv
    <3> QED BY <2>1, <2>2, <3>1
  <2>3. CASE t # s
    <3>1. Warning(t) # Warning(s)
      BY <1>1, <2>3, WarningTells DEF IInv
    <3>2. Warning(t) \in warnings <=> Ambiguous(t)
      BY <2>3 DEF IInv
    <3> QED BY <2>1, <3>1, <3>2
  <2> QED BY <2>2, <2>3
<1>7. (\A w \in warnings : \E t \in estate.statements \ unread : w = Warning(t))'
  <2> SUFFICES ASSUME NEW w \in warnings'
               PROVE  \E t \in estate.statements \ (unread \ {s}) : w = Warning(t)
    BY <1>1 DEF Warning
  <2>1. w \in warnings \/ w = Warning(s)
    BY DEF ReadNeighbor, Warning
  <2> QED BY <1>1, <2>1 DEF IInv
<1> QED BY <1>3, <1>4, <1>5, <1>6, <1>7 DEF IInv

LEMMA PairInv ==
  ASSUME IInv, PairDeferred
  PROVE  IInv'
<1> DEFINE ep == Head(deferred)
           matching == {i \in DOMAIN sessions : Pairs(sessions[i], ep)}
<1>1. /\ estate' = estate /\ unread' = unread /\ warnings' = warnings
      /\ deferred # <<>> /\ deferred' = Tail(deferred)
  BY DEF PairDeferred
<1>2. /\ deferred' \in Seq(Ends)
      /\ ep \in Ends
      /\ DOMAIN deferred = 1..Len(deferred)
      /\ DOMAIN deferred' = 1..Len(deferred)-1
      /\ Len(deferred) \in Nat \ {0}
      /\ deferred[1] = ep
      /\ \A j \in 1..Len(deferred)-1 : deferred'[j] = deferred[j+1]
  BY <1>1 DEF IInv
<1>3. \A t : Waits(deferred, t) => t = ep \/ Waits(deferred', t)
  <2> SUFFICES ASSUME NEW t, NEW j \in 1..Len(deferred), deferred[j] = t, j # 1
               PROVE  Waits(deferred', t)
    BY <1>2 DEF Waits
  <2>1. j-1 \in 1..Len(deferred)-1 /\ deferred'[j-1] = deferred[(j-1)+1]
    BY <1>2
  <2>2. deferred'[j-1] = t
    BY <2>1
  <2> QED BY <1>2, <2>1, <2>2 DEF Waits
<1>4. /\ sessions' \in GroupsOf(Keys, Ends)
      /\ \A e : Holds(sessions', e) <=> (Holds(sessions, e) \/ e = ep)
  <2>1. CASE matching # {}
    <3>1. sessions' = [sessions EXCEPT ![Min(matching)].members = Append(@, ep)]
      BY <2>1 DEF PairDeferred
    <3>2. Min(matching) \in DOMAIN sessions
      <4>1. matching \subseteq DOMAIN sessions /\ DOMAIN sessions \subseteq Nat
        BY DEF IInv, GroupsOf
      <4> HIDE DEF matching
      <4>2. \E n \in matching : \A m \in matching : n <= m
        BY <2>1, <4>1, LeastElement
      <4>3. Min(matching) \in matching
        BY <4>2 DEF Min
      <4> QED BY <4>1, <4>3
    <3> DEFINE J == {Min(matching)}
               new == [i \in DOMAIN sessions |->
                         IF i \in J THEN Appended(sessions[i], ep) ELSE sessions[i]]
    <3> HIDE DEF matching, ep
    <3>3. sessions' = new
      BY <3>1, <3>2 DEF Appended
    <3>4. J # {} /\ J \in SUBSET DOMAIN sessions
      BY <3>2
    <3>5. new \in GroupsOf(Keys, Ends) /\ \A e : Holds(new, e) <=> (Holds(sessions, e) \/ e = ep)
      <4>1. sessions \in GroupsOf(Keys, Ends) /\ ep \in Ends
        BY <1>2 DEF IInv
      <4> HIDE DEF J
      <4> QED BY <3>4, <4>1, AppendedTo
    <3> HIDE DEF new
    <3> QED BY <3>3, <3>5
  <2>2. CASE matching = {}
    <3>1. sessions' = Filed(sessions, UnpairedKey(ep), ep)
      BY <2>2 DEF PairDeferred
    <3>2. UnpairedKey(ep) \in Keys
      BY <1>2 DEF Keys
    <3> HIDE DEF ep
    <3> QED BY <1>2, <3>1, <3>2, FiledHolds DEF IInv
  <2> QED BY <2>1, <2>2
<1>5. (\A s \in Resolved \ unread : Kept(sessions, deferred, Endpoint(s)))'
  <2> SUFFICES ASSUME NEW s \in Resolved, s \notin unread
               PROVE  Kept(sessions', deferred', Endpoint(s))
    BY <1>1, SameEstate
  <2>1. Kept(sessions, deferred, Endpoint(s))
    BY DEF IInv
  <2> HIDE DEF ep
  <2> QED BY <1>3, <1>4, <2>1 DEF Kept
<1>6. /\ (\A s \in estate.statements \ unread : Warning(s) \in warnings <=> Ambiguous(s))'
      /\ (\A w \in warnings : \E s \in estate.statements \ unread : w = Warning(s))'
  BY <1>1, SameEstate DEF IInv, Warning
<1> QED BY <1>1, <1>2, <1>4, <1>5, <1>6, SameEstate DEF IInv

LEMMA StutterInv == ASSUME IInv, UNCHANGED vars PROVE IInv'
<1>1. /\ estate' = estate /\ unread' = unread /\ sessions' = sessions
      /\ deferred' = deferred /\ warnings' = warnings
  BY DEF vars
<1> QED BY <1>1, SameEstate DEF IInv, Warning

(* What is filed or deferred are ends of resolved statements, all of those *)
(* read, and the warnings are the ambiguous statements read.               *)
THEOREM InvariantHolds == Spec => []IInv
<1>1. Init => IInv
  BY InitInv
<1>2. IInv /\ [Next]_vars => IInv'
  BY ReadInv, PairInv, StutterInv DEF Next
<1> QED BY <1>1, <1>2, PTL DEF Spec

-----------------------------------------------------------------------------
LEMMA MemberIsEnd ==
  ASSUME IInv, NEW i \in DOMAIN sessions, NEW ep \in Members(i)
  PROVE  \E s \in Resolved : ep = Endpoint(s) /\ StatementOf(ep) = s
<1>0. sessions \in Seq([key : Keys, members : Seq(Ends)])
  BY DEF IInv, GroupsOf
<1>1. sessions[i].members \in Seq(Ends)
  <2> DEFINE Group == [key : Keys, members : Seq(Ends)]
  <2> HIDE DEF Group
  <2>1. sessions \in Seq(Group)
    BY <1>0 DEF Group
  <2>2. sessions[i] \in Group
    BY <2>1
  <2> QED BY <2>2 DEF Group
<1>2. ep \in Ends
  BY <1>1 DEF Members, ToSet
<1> QED BY <1>2, EndOfStatement DEF Ends, IInv, Resolved

(* An end that is drawn is drawn to the device its statement means         *)
(* (_resolve_peer_host, graph.py 259-276).                                 *)
THEOREM NothingGuessed == Spec => []NoSessionGuessed
<1>1. IInv => NoSessionGuessed
  <2> SUFFICES ASSUME IInv, NEW i \in DOMAIN sessions, NEW ep \in Members(i)
               PROVE  ep.peer_host = StatementOf(ep).target
    BY DEF NoSessionGuessed
  <2>1. PICK s \in Resolved : ep = Endpoint(s) /\ StatementOf(ep) = s
    BY MemberIsEnd
  <2>2. ep.peer_host = _resolve_peer_host(s)
    BY <2>1 DEF Endpoint
  <2> QED BY <2>1, <2>2, ResolvesToTarget DEF IInv, Resolved
<1> QED BY <1>1, InvariantHolds, PTL

(* A statement about a known device is drawn or reported as ambiguous, and *)
(* not both ("never guessed ... always warned about").                     *)
THEOREM NothingDropped == Spec => []DrawnOrReported
<1>1. IInv => DrawnOrReported
  <2> SUFFICES ASSUME IInv, Settled, NEW s \in estate.statements, s.target \in Hosts
               PROVE  (s \in Drawn) <=> Warning(s) \notin warnings
    BY DEF DrawnOrReported, Warning
  <2>1. unread = {} /\ deferred = <<>>
    BY DEF Settled
  <2>2. Candidates(s) # {}
    <3>1. s.target # s.host /\ s.peer_ip \in estate.owns[s.target]
      BY WellFormedStatement, EstateAssumption DEF IInv
    <3> QED BY <3>1 DEF Candidates, _ip_owners, _device_ips
  <2>3. Warning(s) \notin warnings <=> s \in Resolved
    BY <2>1, <2>2 DEF IInv, Ambiguous, Resolved
  <2>4. ASSUME s \in Resolved PROVE s \in Drawn
    <3>1. ~Waits(deferred, Endpoint(s))
      BY <2>1 DEF Waits
    <3>2. PICK i \in DOMAIN sessions : InGroup(sessions[i], Endpoint(s))
      BY <2>1, <2>4, <3>1 DEF IInv, Kept, Holds
    <3>3. Endpoint(s) \in Members(i)
      BY <3>2 DEF InGroup, Members, ToSet
    <3> QED BY <3>3, EndOfStatement DEF Drawn, Grouped, IInv
  <2>5. ASSUME s \in Drawn PROVE s \in Resolved
    <3>1. PICK i \in DOMAIN sessions : \E ep \in Members(i) : StatementOf(ep) = s
      BY <2>5 DEF Drawn, Grouped
    <3> QED BY <3>1, MemberIsEnd
  <2> QED BY <2>3, <2>4, <2>5
<1> QED BY <1>1, InvariantHolds, PTL

-----------------------------------------------------------------------------
(* What a step does to the groups: one of them gains the end at its tail,  *)
(* or a group of the end alone is opened after the others.                 *)

Joins(groups, new, i, ep) ==
  /\ i \in DOMAIN groups /\ DOMAIN new = DOMAIN groups
  /\ new[i] = Appended(groups[i], ep)
  /\ \A j \in DOMAIN groups : j # i => new[j] = groups[j]

Opens(groups, new, key, ep) ==
  /\ \A j \in DOMAIN groups : groups[j].key # key
  /\ \E n \in Nat :
       /\ DOMAIN groups = 1..n /\ DOMAIN new = 1..n+1
       /\ new[n+1] = [key |-> key, members |-> <<ep>>]
       /\ \A j \in 1..n : new[j] = groups[j]

KeysDiffer(groups) ==
  \A i, j \in DOMAIN groups : groups[i].key = groups[j].key => i = j

LEMMA FiledJoinsOrOpens ==
  ASSUME NEW K, NEW E, NEW groups \in GroupsOf(K, E), NEW key \in K, NEW ep \in E, KeysDiffer(groups)
  PROVE  LET new == Filed(groups, key, ep)
         IN  \/ \E i \in DOMAIN groups : groups[i].key = key /\ Joins(groups, new, i, ep)
             \/ Opens(groups, new, key, ep)
<1>1. CASE \E i \in DOMAIN groups : groups[i].key = key
  <2>1. PICK i \in DOMAIN groups : groups[i].key = key
    BY <1>1
  <2> DEFINE new == [j \in DOMAIN groups |-> IF groups[j].key = key THEN Appended(groups[j], ep) ELSE groups[j]]
  <2>2. Filed(groups, key, ep) = new
    BY <1>1 DEF Filed, Appended
  <2>3. \A j \in DOMAIN groups : j # i => groups[j].key # key
    BY <2>1 DEF KeysDiffer
  <2>4. Joins(groups, new, i, ep)
    BY <2>1, <2>3 DEF Joins
  <2> HIDE DEF new
  <2> QED BY <2>1, <2>2, <2>4
<1>2. CASE ~\E i \in DOMAIN groups : groups[i].key = key
  <2> DEFINE group == [key |-> key, members |-> <<ep>>]
             new == Append(groups, group)
             Group == [key : K, members : Seq(E)]
  <2>1. Filed(groups, key, ep) = new
    BY <1>2 DEF Filed
  <2>2. group \in Group /\ groups \in Seq(Group)
    BY DEF GroupsOf
  <2> HIDE DEF group, Group
  <2>3. /\ DOMAIN new = 1..Len(groups)+1
        /\ DOMAIN groups = 1..Len(groups)
        /\ Len(groups) \in Nat
        /\ \A j \in 1..Len(groups) : new[j] = groups[j]
        /\ new[Len(groups)+1] = group
    BY <2>2
  <2> HIDE DEF new
  <2>4. Opens(groups, new, key, ep)
    BY <1>2, <2>3 DEF Opens, group
  <2> QED BY <2>1, <2>4
<1> QED BY <1>1, <1>2

(* The tail of a group that gained an end.                                 *)
LEMMA AppendedTail ==
  ASSUME NEW K, NEW E, NEW group \in [key : K, members : Seq(E)], NEW ep \in E
  PROVE  /\ Appended(group, ep).key = group.key
         /\ Len(group.members) \in Nat
         /\ Len(Appended(group, ep).members) = Len(group.members) + 1
         /\ DOMAIN group.members = 1..Len(group.members)
         /\ DOMAIN Appended(group, ep).members = 1..Len(group.members)+1
         /\ \A j \in 1..Len(group.members) : Appended(group, ep).members[j] = group.members[j]
         /\ Appended(group, ep).members[Len(group.members)+1] = ep
<1> DEFINE old == group.members
           new == Append(old, ep)
<1>1. old \in Seq(E)
  OBVIOUS
<1>2. Appended(group, ep) = [key |-> group.key, members |-> new]
  BY DEF Appended
<1>3. /\ DOMAIN new = 1..Len(old)+1
      /\ DOMAIN old = 1..Len(old)
      /\ Len(old) \in Nat /\ Len(new) = Len(old) + 1
      /\ \A j \in 1..Len(old) : new[j] = old[j]
      /\ new[Len(old)+1] = ep
  BY <1>1
<1> HIDE DEF new
<1>4. Appended(group, ep).key = group.key /\ Appended(group, ep).members = new
  BY <1>2
<1> QED BY <1>3, <1>4

LEMMA GroupTyped ==
  ASSUME NEW K, NEW E, NEW groups \in GroupsOf(K, E), NEW i \in DOMAIN groups
  PROVE  groups[i] \in [key : K, members : Seq(E)]
<1> DEFINE Group == [key : K, members : Seq(E)]
<1>1. groups \in Seq(Group)
  BY DEF GroupsOf
<1> HIDE DEF Group
<1>2. groups[i] \in Group
  BY <1>1
<1> QED BY <1>2 DEF Group

(* How a step changes the groups, given that no two have one key.          *)
Grown(groups, new, key, ep) ==
  \/ \E i \in DOMAIN groups : groups[i].key = key /\ Joins(groups, new, i, ep)
  \/ Opens(groups, new, key, ep)

LEMMA ReadGroups ==
  ASSUME IInv, KeysDiffer(sessions), NEW s \in unread, ReadNeighbor(s)
  PROVE  \/ sessions' = sessions
         \/ /\ s \in Resolved /\ s.local_ip # Unknown
            /\ Grown(sessions, sessions', _session_key(Endpoint(s)), Endpoint(s))
<1>1. s \in estate.statements
  BY DEF IInv
<1>2. CASE _resolve_peer_host(s) # Unknown /\ s.local_ip # Unknown
  <2> DEFINE ep == Endpoint(s)
  <2>1. sessions' = Filed(sessions, _session_key(ep), ep) /\ s \in Resolved
    BY <1>1, <1>2 DEF ReadNeighbor, Resolved
  <2>2. ep \in Ends /\ _session_key(ep) \in Keys
    BY <2>1 DEF Ends, Keys
  <2> HIDE DEF ep
  <2>3. Grown(sessions, sessions', _session_key(ep), ep)
    BY <2>1, <2>2, FiledJoinsOrOpens DEF IInv, Grown
  <2> QED BY <1>2, <2>1, <2>3 DEF ep
<1>3. CASE _resolve_peer_host(s) = Unknown \/ s.local_ip = Unknown
  BY <1>3 DEF ReadNeighbor
<1> QED BY <1>2, <1>3

LEMMA DeferredEnd ==
  ASSUME IInv, PairDeferred
  PROVE  /\ Head(deferred) = deferred[1] /\ Head(deferred) \in Ends /\ Waits(deferred, Head(deferred))
         /\ DOMAIN deferred = 1..Len(deferred) /\ DOMAIN deferred' = 1..Len(deferred)-1
         /\ Len(deferred) \in Nat \ {0}
         /\ \A j \in 1..Len(deferred)-1 : deferred'[j] = deferred[j+1]
<1>1. deferred # <<>> /\ deferred' = Tail(deferred) /\ deferred \in Seq(Ends)
  BY DEF PairDeferred, IInv
<1>2. /\ Head(deferred) = deferred[1] /\ Head(deferred) \in Ends
      /\ DOMAIN deferred = 1..Len(deferred) /\ DOMAIN deferred' = 1..Len(deferred)-1
      /\ Len(deferred) \in Nat \ {0}
      /\ \A j \in 1..Len(deferred)-1 : deferred'[j] = deferred[j+1]
  BY <1>1
<1> QED BY <1>2 DEF Waits

LEMMA PairGroups ==
  ASSUME IInv, KeysDiffer(sessions), PairDeferred
  PROVE  LET ep == Head(deferred)
         IN  \/ \E i \in DOMAIN sessions : Pairs(sessions[i], ep) /\ Joins(sessions, sessions', i, ep)
             \/ /\ \A i \in DOMAIN sessions : ~Pairs(sessions[i], ep)
                /\ Grown(sessions, sessions', UnpairedKey(ep), ep)
<1> DEFINE ep == Head(deferred)
           matching == {i \in DOMAIN sessions : Pairs(sessions[i], ep)}
<1>1. ep \in Ends
  BY DeferredEnd
<1>2. CASE matching # {}
  <2>1. sessions' = [sessions EXCEPT ![Min(matching)].members = Append(@, ep)]
    BY <1>2 DEF PairDeferred
  <2>2. Min(matching) \in matching
    <3>1. matching \subseteq DOMAIN sessions /\ DOMAIN sessions \subseteq Nat
      BY DEF IInv, GroupsOf
    <3> HIDE DEF matching
    <3>2. \E n \in matching : \A m \in matching : n <= m
      BY <1>2, <3>1, LeastElement
    <3> QED BY <3>2 DEF Min
  <2>3. PICK i \in DOMAIN sessions : i = Min(matching) /\ Pairs(sessions[i], ep)
    BY <2>2
  <2> HIDE DEF matching, ep
  <2>4. Joins(sessions, sessions', i, ep)
    BY <2>1, <2>3 DEF Joins, Appended
  <2> QED BY <2>3, <2>4 DEF ep
<1>3. CASE matching = {}
  <2>1. sessions' = Filed(sessions, UnpairedKey(ep), ep)
    BY <1>3 DEF PairDeferred
  <2>2. UnpairedKey(ep) \in Keys
    BY <1>1 DEF Keys
  <2>3. \A i \in DOMAIN sessions : ~Pairs(sessions[i], ep)
    BY <1>3
  <2> HIDE DEF ep
  <2>4. Grown(sessions, sessions', UnpairedKey(ep), ep)
    BY <1>1, <2>1, <2>2, FiledJoinsOrOpens DEF IInv, Grown
  <2> QED BY <2>3, <2>4 DEF ep
<1> QED BY <1>2, <1>3

-----------------------------------------------------------------------------
(* Keys.  A group has the key of each of its ends with a local address,    *)
(* and no two groups have one key.                                         *)

KeyedBy(groups) ==
  \A i \in DOMAIN groups : \A ep :
    InGroup(groups[i], ep) /\ ep.local_ip # Unknown => groups[i].key = _session_key(ep)

LEMMA JoinsMembers ==
  ASSUME NEW K, NEW E, NEW groups \in GroupsOf(K, E), NEW ep \in E, NEW new, NEW i,
         Joins(groups, new, i, ep)
  PROVE  /\ DOMAIN new = DOMAIN groups
         /\ \A j \in DOMAIN groups :
              /\ new[j].key = groups[j].key
              /\ \A e : InGroup(new[j], e) <=> (InGroup(groups[j], e) \/ (j = i /\ e = ep))
<1> SUFFICES ASSUME NEW j \in DOMAIN groups
             PROVE  /\ new[j].key = groups[j].key
                    /\ \A e : InGroup(new[j], e) <=> (InGroup(groups[j], e) \/ (j = i /\ e = ep))
  BY DEF Joins
<1>1. CASE j = i
  <2>1. groups[j] \in [key : K, members : Seq(E)]
    BY GroupTyped
  <2>2. new[j] = Appended(groups[j], ep)
    BY <1>1 DEF Joins
  <2>3. new[j].key = groups[j].key
    BY <2>1, <2>2, AppendedTail
  <2>4. \A e : InGroup(new[j], e) <=> (e = ep \/ InGroup(groups[j], e))
    BY <2>1, <2>2, AppendedGroup
  <2> QED BY <1>1, <2>3, <2>4
<1>2. CASE j # i
  BY <1>2 DEF Joins
<1> QED BY <1>1, <1>2

OpenedAfter(n, groups, new, key, ep) ==
  /\ DOMAIN groups = 1..n /\ DOMAIN new = 1..n+1 /\ DOMAIN groups \subseteq DOMAIN new
  /\ \A j \in DOMAIN groups : new[j] = groups[j] /\ groups[j].key # key
  /\ new[n+1].key = key /\ new[n+1].members = <<ep>>
  /\ \A e : InGroup(new[n+1], e) <=> e = ep

LEMMA OpensMembers ==
  ASSUME NEW groups, NEW new, NEW key, NEW ep, Opens(groups, new, key, ep)
  PROVE  \E n \in Nat : OpenedAfter(n, groups, new, key, ep)
<1>1. PICK n \in Nat :
        /\ DOMAIN groups = 1..n /\ DOMAIN new = 1..n+1
        /\ new[n+1] = [key |-> key, members |-> <<ep>>]
        /\ \A j \in 1..n : new[j] = groups[j]
  BY DEF Opens
<1>2. new[n+1].key = key /\ new[n+1].members = <<ep>>
  BY <1>1
<1>3. DOMAIN <<ep>> = {1} /\ <<ep>>[1] = ep
  OBVIOUS
<1>4. \A e : InGroup(new[n+1], e) <=> e = ep
  BY <1>2, <1>3 DEF InGroup
<1>5. OpenedAfter(n, groups, new, key, ep)
  BY <1>1, <1>2, <1>4 DEF Opens, OpenedAfter
<1> QED BY <1>5

LEMMA KeysKept ==
  ASSUME NEW K, NEW E, NEW groups \in GroupsOf(K, E), NEW ep \in E, NEW new, NEW key,
         KeysDiffer(groups), KeyedBy(groups)
  PROVE  /\ \A i : Joins(groups, new, i, ep) /\ (ep.local_ip = Unknown \/ groups[i].key = _session_key(ep))
                     => KeysDiffer(new) /\ KeyedBy(new)
         /\ Opens(groups, new, key, ep) /\ (ep.local_ip = Unknown \/ key = _session_key(ep))
              => KeysDiffer(new) /\ KeyedBy(new)
<1>1. ASSUME NEW i, Joins(groups, new, i, ep), ep.local_ip = Unknown \/ groups[i].key = _session_key(ep)
      PROVE  KeysDiffer(new) /\ KeyedBy(new)
  <2>1. /\ DOMAIN new = DOMAIN groups
        /\ \A j \in DOMAIN groups :
              /\ new[j].key = groups[j].key
              /\ \A e : InGroup(new[j], e) <=> (InGroup(groups[j], e) \/ (j = i /\ e = ep))
    BY <1>1, JoinsMembers
  <2>2. KeysDiffer(new)
    BY <2>1 DEF KeysDiffer
  <2>3. KeyedBy(new)
    BY <1>1, <2>1 DEF KeyedBy
  <2> QED BY <2>2, <2>3
<1>2. ASSUME Opens(groups, new, key, ep), ep.local_ip = Unknown \/ key = _session_key(ep)
      PROVE  KeysDiffer(new) /\ KeyedBy(new)
  <2>0. PICK n \in Nat : OpenedAfter(n, groups, new, key, ep)
    BY <1>2, OpensMembers
  <2>1. /\ DOMAIN groups = 1..n /\ DOMAIN new = 1..n+1
        /\ \A j \in DOMAIN groups : new[j] = groups[j] /\ groups[j].key # key
        /\ new[n+1].key = key
        /\ \A e : InGroup(new[n+1], e) <=> e = ep
    BY <2>0 DEF OpenedAfter
  <2>2. \A j \in DOMAIN new : j \in DOMAIN groups \/ j = n+1
    BY <2>1
  <2>3. KeysDiffer(new)
    BY <2>1, <2>2 DEF KeysDiffer
  <2>4. KeyedBy(new)
    BY <1>2, <2>1, <2>2 DEF KeyedBy
  <2> QED BY <2>3, <2>4
<1> QED BY <1>1, <1>2

(* Only ends without a local address are deferred.                         *)
Deferrable == \A j \in DOMAIN deferred : deferred[j].local_ip = Unknown

KeyInv == KeysDiffer(sessions) /\ KeyedBy(sessions) /\ Deferrable

LEMMA InitKeys == Init => KeyInv
BY DEF Init, KeyInv, KeysDiffer, KeyedBy, Deferrable

LEMMA NextKeys ==
  ASSUME IInv, KeyInv, [Next]_vars
  PROVE  KeyInv'
<1>1. ASSUME NEW s \in unread, ReadNeighbor(s) PROVE KeyInv'
  <2> DEFINE ep == Endpoint(s)
  <2>1. KeysDiffer(sessions') /\ KeyedBy(sessions')
    <3>1. CASE sessions' = sessions
      BY <3>1 DEF KeyInv
    <3>2. CASE s \in Resolved /\ Grown(sessions, sessions', _session_key(ep), ep)
      <4>1. ep \in Ends
        BY <3>2 DEF Ends
      <4> HIDE DEF ep
      <4> QED BY <3>2, <4>1, KeysKept DEF Grown, IInv, KeyInv
    <3> QED BY <1>1, <3>1, <3>2, ReadGroups DEF KeyInv
  <2>2. Deferrable'
    <3>1. CASE deferred' = deferred
      BY <3>1 DEF KeyInv, Deferrable
    <3>2. CASE s.local_ip = Unknown /\ deferred' = Append(deferred, ep)
      <4>1. _resolve_peer_host(s) # Unknown \/ deferred' = deferred
        BY <1>1 DEF ReadNeighbor
      <4>2. CASE _resolve_peer_host(s) # Unknown
        <5>1. ep.local_ip = Unknown /\ ep \in Ends
          BY <3>2, <4>2 DEF Endpoint, Ends, Resolved, IInv
        <5> HIDE DEF ep
        <5>2. /\ DOMAIN deferred' = 1..Len(deferred)+1 /\ DOMAIN deferred = 1..Len(deferred)
              /\ Len(deferred) \in Nat
              /\ \A j \in 1..Len(deferred) : deferred'[j] = deferred[j]
              /\ deferred'[Len(deferred)+1] = ep
          BY <3>2, <5>1 DEF IInv
        <5>3. \A j \in DOMAIN deferred' : j \in DOMAIN deferred \/ j = Len(deferred)+1
          BY <5>2
        <5> QED BY <5>1, <5>2, <5>3 DEF KeyInv, Deferrable
      <4> QED BY <3>1, <4>1, <4>2
    <3> QED BY <1>1, <3>1, <3>2 DEF ReadNeighbor
  <2> QED BY <2>1, <2>2 DEF KeyInv, KeysDiffer, KeyedBy, Deferrable
<1>2. ASSUME PairDeferred PROVE KeyInv'
  <2> DEFINE ep == Head(deferred)
  <2>1. ep \in Ends /\ ep.local_ip = Unknown
    BY <1>2, DeferredEnd DEF KeyInv, Deferrable
  <2>2. \/ \E i \in DOMAIN sessions : Joins(sessions, sessions', i, ep)
        \/ Opens(sessions, sessions', UnpairedKey(ep), ep)
    BY <1>2, PairGroups DEF Grown, KeyInv
  <2> HIDE DEF ep
  <2>3. KeysDiffer(sessions') /\ KeyedBy(sessions')
    BY <2>1, <2>2, KeysKept DEF IInv, KeyInv
  <2>4. Deferrable'
    <3>1. /\ DOMAIN deferred = 1..Len(deferred) /\ DOMAIN deferred' = 1..Len(deferred)-1
          /\ Len(deferred) \in Nat \ {0}
          /\ \A j \in 1..Len(deferred)-1 : deferred'[j] = deferred[j+1]
      BY <1>2, DeferredEnd
    <3>2. \A j \in DOMAIN deferred' : j+1 \in DOMAIN deferred /\ deferred'[j] = deferred[j+1]
      BY <3>1
    <3> QED BY <3>2 DEF KeyInv, Deferrable
  <2> QED BY <2>3, <2>4 DEF KeyInv, KeysDiffer, KeyedBy, Deferrable
<1>3. ASSUME UNCHANGED vars PROVE KeyInv'
  BY <1>3 DEF vars, KeyInv, KeysDiffer, KeyedBy, Deferrable
<1> QED BY <1>1, <1>2, <1>3 DEF Next

LEMMA KeysHold == Spec => []KeyInv
<1>1. Init => KeyInv
  BY InitKeys
<1>2. IInv /\ KeyInv /\ [Next]_vars => KeyInv'
  BY NextKeys
<1> QED BY <1>1, <1>2, InvariantHolds, PTL DEF Spec

-----------------------------------------------------------------------------
(* Sessions.  Two statements of one session are the same or its two ends.  *)

Across(s, t) ==
  t.host = s.target /\ t.target = s.host /\ t.peer_ip = s.source /\ t.source = s.peer_ip

LEMMA PairOfEnds ==
  ASSUME NEW a, NEW b, NEW c, NEW d, {a, b} = {c, d}
  PROVE  (a = c /\ b = d) \/ (a = d /\ b = c)
OBVIOUS

LEMMA OneStatement ==
  ASSUME estate \in Estates, NEW s \in estate.statements, NEW t \in estate.statements,
         s.host = t.host, s.peer_ip = t.peer_ip
  PROVE  s = t
BY EstateAssumption DEF WellFormed

LEMMA EndsOfSession ==
  ASSUME estate \in Estates, NEW s \in estate.statements, NEW t \in estate.statements
  PROVE  Session(s) = Session(t) <=> s = t \/ Across(s, t)
<1>1. ASSUME Session(s) = Session(t) PROVE s = t \/ Across(s, t)
  <2> DEFINE near(x) == <<x.host, x.source>>
             far(x) == <<x.target, x.peer_ip>>
  <2>1. {near(s), far(s)} = {near(t), far(t)}
    BY <1>1 DEF Session
  <2> HIDE DEF near, far
  <2>2. (near(s) = near(t) /\ far(s) = far(t)) \/ (near(s) = far(t) /\ far(s) = near(t))
    BY <2>1, PairOfEnds
  <2>3. \/ s.host = t.host /\ s.peer_ip = t.peer_ip
        \/ s.host = t.target /\ s.source = t.peer_ip /\ s.target = t.host /\ s.peer_ip = t.source
    BY <2>2 DEF near, far
  <2> QED BY <2>3, OneStatement DEF Across
<1>2. ASSUME Across(s, t) PROVE Session(s) = Session(t)
  BY <1>2 DEF Across, Session
<1> QED BY <1>1, <1>2

LEMMA ResolvedFacts ==
  ASSUME estate \in Estates, NEW s \in Resolved
  PROVE  /\ s \in estate.statements /\ s.target = _resolve_peer_host(s)
         /\ s.target # s.host /\ s.target \in Hosts /\ s.host \in Hosts
         /\ s.peer_ip \in estate.owns[s.target] /\ s.source \in estate.owns[s.host]
         /\ s.local_ip # Unknown => s.local_ip = s.source
         /\ Endpoint(s).host = s.host /\ Endpoint(s).peer_host = s.target
         /\ Endpoint(s).peer_ip = s.peer_ip /\ Endpoint(s).local_ip = s.local_ip
<1>1. s \in estate.statements /\ s.target = _resolve_peer_host(s)
  BY ResolvesToTarget DEF Resolved
<1>2. s.source \in estate.owns[s.host] /\ (s.local_ip # Unknown => s.local_ip = s.source) /\ s \in Statements
  BY <1>1, EstateAssumption DEF WellFormed
<1>3. s.target \in Hosts
  <2>1. Candidates(s) # {}
    <3>1. CASE Cardinality(Candidates(s)) = 1
      BY <3>1, FS_EmptySet
    <3>2. CASE Cardinality(Candidates(s)) # 1
      BY <3>2 DEF Resolved, _resolve_peer_host
    <3> QED BY <3>1, <3>2
  <2> QED BY <1>1, <2>1, MeantIsCandidate DEF Candidates, _ip_owners
<1>4. s.target # s.host /\ s.peer_ip \in estate.owns[s.target]
  BY <1>1, <1>3, WellFormedStatement, EstateAssumption
<1> QED BY <1>1, <1>2, <1>3, <1>4 DEF Endpoint, Statements

(* Where no device names its own address, the key of an end tells its      *)
(* session: two devices that own both addresses would have one key for two.*)
LEMMA KeyTellsSession ==
  ASSUME estate \in Estates, OthersAddresses, NEW s \in Resolved, NEW t \in Resolved,
         s.local_ip # Unknown, t.local_ip # Unknown
  PROVE  _session_key(Endpoint(s)) = _session_key(Endpoint(t)) <=> Session(s) = Session(t)
<1>1. /\ _session_key(Endpoint(s)) =
           [hosts |-> {s.host, s.target}, addresses |-> {s.source, s.peer_ip}, from |-> Unknown]
      /\ _session_key(Endpoint(t)) =
           [hosts |-> {t.host, t.target}, addresses |-> {t.source, t.peer_ip}, from |-> Unknown]
  BY ResolvedFacts DEF _session_key
<1>2. ASSUME _session_key(Endpoint(s)) = _session_key(Endpoint(t)) PROVE Session(s) = Session(t)
  <2>1. {s.host, s.target} = {t.host, t.target} /\ {s.source, s.peer_ip} = {t.source, t.peer_ip}
    BY <1>1, <1>2
  <2>2. /\ s.peer_ip \notin estate.owns[s.host] /\ s.peer_ip \in estate.owns[s.target]
        /\ t.peer_ip \notin estate.owns[t.host] /\ t.peer_ip \in estate.owns[t.target]
        /\ s.source \in estate.owns[s.host] /\ t.source \in estate.owns[t.host]
    BY ResolvedFacts DEF OthersAddresses
  <2>3. (s.host = t.host /\ s.target = t.target) \/ (s.host = t.target /\ s.target = t.host)
    BY <2>1, PairOfEnds
  <2>4. (s.source = t.source /\ s.peer_ip = t.peer_ip) \/ (s.source = t.peer_ip /\ s.peer_ip = t.source)
    BY <2>1, PairOfEnds
  <2>5. CASE s.host = t.host /\ s.target = t.target
    <3>1. s.peer_ip = t.peer_ip
      BY <2>2, <2>4, <2>5
    <3>2. s = t
      BY <2>5, <3>1, OneStatement, ResolvedFacts
    <3> QED BY <3>2
  <2>6. CASE s.host = t.target /\ s.target = t.host
    <3>1. s.source = t.peer_ip /\ s.peer_ip = t.source
      BY <2>2, <2>4, <2>6
    <3> QED BY <2>6, <3>1, EndsOfSession, ResolvedFacts DEF Across
  <2> QED BY <2>3, <2>5, <2>6
<1>3. ASSUME Session(s) = Session(t) PROVE _session_key(Endpoint(s)) = _session_key(Endpoint(t))
  <2>1. s = t \/ Across(s, t)
    BY <1>3, EndsOfSession, ResolvedFacts
  <2>2. {s.host, s.target} = {t.host, t.target} /\ {s.source, s.peer_ip} = {t.source, t.peer_ip}
    BY <2>1 DEF Across
  <2> QED BY <1>1, <2>2
<1> QED BY <1>2, <1>3

(* "Two sessions between the same two devices are two distinct groups; the *)
(* same session seen from both ends is one" (_group_sessions, graph.py     *)
(* 375-378), for the ends with a local address.                            *)
THEOREM AddressedMeet == Spec => []AddressedSessionsMeet
<1>1. IInv /\ KeyInv => AddressedSessionsMeet
  <2> SUFFICES ASSUME IInv, KeyInv, OthersAddresses, NEW i \in DOMAIN sessions, NEW j \in DOMAIN sessions,
                      NEW a \in Members(i), NEW b \in Members(j), a.local_ip # Unknown, b.local_ip # Unknown
               PROVE  i = j <=> Session(StatementOf(a)) = Session(StatementOf(b))
    BY DEF AddressedSessionsMeet
  <2>1. PICK s \in Resolved : a = Endpoint(s) /\ StatementOf(a) = s
    BY MemberIsEnd
  <2>2. PICK t \in Resolved : b = Endpoint(t) /\ StatementOf(b) = t
    BY MemberIsEnd
  <2>3. InGroup(sessions[i], a) /\ InGroup(sessions[j], b)
    BY DEF Members, ToSet, InGroup
  <2>4. sessions[i].key = _session_key(a) /\ sessions[j].key = _session_key(b)
    BY <2>3 DEF KeyInv, KeyedBy
  <2>5. i = j <=> _session_key(a) = _session_key(b)
    BY <2>4 DEF KeyInv, KeysDiffer
  <2>6. s.local_ip # Unknown /\ t.local_ip # Unknown
    BY <2>1, <2>2, ResolvedFacts DEF IInv
  <2>7. _session_key(Endpoint(s)) = _session_key(Endpoint(t)) <=> Session(s) = Session(t)
    BY <2>6, KeyTellsSession DEF IInv
  <2> QED BY <2>1, <2>2, <2>5, <2>7
<1> QED BY <1>1, InvariantHolds, KeysHold, PTL

-----------------------------------------------------------------------------
(* One group per session, where the configurations tell the sessions apart.*)
(* A group is opened by one end of a session, and only the other end of    *)
(* that session ever joins it; an end that waits is not in a group yet.    *)

Fabric == OwnAddresses /\ OthersAddresses /\ ToldApart

SessionOf(ep) == Session(StatementOf(ep))

Lead(group) == group.members[1]

GroupOK(group) ==
  /\ Len(group.members) \in 1..2
  /\ \A j, k \in DOMAIN group.members : group.members[j] = group.members[k] => j = k
  /\ \A ep : InGroup(group, ep) => SessionOf(ep) = SessionOf(Lead(group))
  /\ group.key = IF Lead(group).local_ip = Unknown
                 THEN UnpairedKey(Lead(group)) ELSE _session_key(Lead(group))

GroupsOK(groups) ==
  /\ \A i \in DOMAIN groups : GroupOK(groups[i])
  /\ \A i, j \in DOMAIN groups : SessionOf(Lead(groups[i])) = SessionOf(Lead(groups[j])) => i = j

FabricInv ==
  /\ GroupsOK(sessions)
  /\ \A s \in Resolved \intersect unread : ~Kept(sessions, deferred, Endpoint(s))
  /\ \A j, k \in DOMAIN deferred : deferred[j] = deferred[k] => j = k
  /\ \A j \in DOMAIN deferred : ~Holds(sessions, deferred[j])
  /\ unread # {} => \A ep : Holds(sessions, ep) => ep.local_ip # Unknown

LEMMA EndIs ==
  ASSUME estate \in Estates, NEW ep \in Ends
  PROVE  \E s \in Resolved : ep = Endpoint(s) /\ StatementOf(ep) = s /\ SessionOf(ep) = Session(s)
BY EndOfStatement DEF Ends, Resolved, SessionOf

(* Three ends of one session are at most two.                              *)
LEMMA TwoEnds ==
  ASSUME estate \in Estates, NEW a \in Ends, NEW b \in Ends, NEW c \in Ends,
         SessionOf(a) = SessionOf(b), SessionOf(a) = SessionOf(c)
  PROVE  a = b \/ a = c \/ b = c
<1>1. PICK s \in Resolved : a = Endpoint(s) /\ SessionOf(a) = Session(s)
  BY EndIs
<1>2. PICK t \in Resolved : b = Endpoint(t) /\ SessionOf(b) = Session(t)
  BY EndIs
<1>3. PICK u \in Resolved : c = Endpoint(u) /\ SessionOf(c) = Session(u)
  BY EndIs
<1>4. s \in estate.statements /\ t \in estate.statements /\ u \in estate.statements
  BY DEF Resolved
<1>5. (s = t \/ Across(s, t)) /\ (s = u \/ Across(s, u))
  BY <1>1, <1>2, <1>3, <1>4, EndsOfSession
<1>6. Across(s, t) /\ Across(s, u) => t = u
  BY <1>4, OneStatement DEF Across
<1> QED BY <1>1, <1>2, <1>3, <1>5, <1>6

LEMMA HeldIsEnd ==
  ASSUME NEW K, NEW groups \in GroupsOf(K, Ends), NEW i \in DOMAIN groups, NEW ep, InGroup(groups[i], ep)
  PROVE  ep \in Ends
<1>1. groups[i] \in [key : K, members : Seq(Ends)]
  BY GroupTyped
<1>2. groups[i].members \in Seq(Ends)
  BY <1>1
<1> QED BY <1>2 DEF InGroup

LEMMA LeadIsEnd ==
  ASSUME NEW K, NEW groups \in GroupsOf(K, Ends), NEW i \in DOMAIN groups, GroupOK(groups[i])
  PROVE  Lead(groups[i]) \in Ends /\ InGroup(groups[i], Lead(groups[i])) /\ Holds(groups, Lead(groups[i]))
<1>1. groups[i] \in [key : K, members : Seq(Ends)]
  BY GroupTyped
<1>2. groups[i].members \in Seq(Ends) /\ Len(groups[i].members) \in 1..2
  BY <1>1 DEF GroupOK
<1>3. 1 \in DOMAIN groups[i].members
  BY <1>2
<1>4. InGroup(groups[i], Lead(groups[i]))
  BY <1>3 DEF InGroup, Lead
<1> QED BY <1>4, HeldIsEnd DEF Holds

(* The other end of its session joins a group.                             *)
LEMMA JoinsOK ==
  ASSUME estate \in Estates, NEW K, NEW groups \in GroupsOf(K, Ends), GroupsOK(groups),
         NEW ep \in Ends, ~Holds(groups, ep), NEW i, NEW new, Joins(groups, new, i, ep),
         SessionOf(ep) = SessionOf(Lead(groups[i]))
  PROVE  GroupsOK(new)
<1> DEFINE g == groups[i]
           n == Len(g.members)
<1>1. i \in DOMAIN groups /\ GroupOK(g) /\ g \in [key : K, members : Seq(Ends)] /\ new[i] = Appended(g, ep)
  BY GroupTyped DEF Joins, GroupsOK
<1>2. /\ new[i].key = g.key /\ Len(new[i].members) = n + 1 /\ n \in 1..2
      /\ DOMAIN g.members = 1..n /\ DOMAIN new[i].members = 1..n+1
      /\ \A j \in 1..n : new[i].members[j] = g.members[j]
      /\ new[i].members[n+1] = ep
  <2> HIDE DEF g
  <2> QED BY <1>1, AppendedTail DEF GroupOK
<1>3. Lead(g) \in Ends
  BY <1>1, LeadIsEnd
<1>4. n = 1
  <2> SUFFICES ASSUME n = 2 PROVE FALSE
    BY <1>2
  <2> DEFINE b == g.members[2]
  <2>1. 1 \in DOMAIN g.members /\ 2 \in DOMAIN g.members
    BY <1>2
  <2>2. InGroup(g, b) /\ InGroup(g, Lead(g)) /\ b # Lead(g)
    BY <1>1, <2>1 DEF InGroup, Lead, GroupOK
  <2>3. b \in Ends /\ SessionOf(b) = SessionOf(Lead(g))
    BY <1>1, <2>2, HeldIsEnd DEF GroupOK
  <2>4. ep # b /\ ep # Lead(g)
    BY <1>1, <2>2 DEF Holds
  <2> HIDE DEF b, g, n
  <2>5. SessionOf(ep) = SessionOf(Lead(g))
    BY DEF g
  <2> QED BY <1>3, <2>2, <2>3, <2>4, <2>5, TwoEnds
<1>5. Lead(new[i]) = Lead(g)
  BY <1>2, <1>4 DEF Lead
<1>6. GroupOK(new[i])
  <2>1. Len(new[i].members) \in 1..2
    BY <1>2, <1>4
  <2>2. \A j, k \in DOMAIN new[i].members : new[i].members[j] = new[i].members[k] => j = k
    <3>1. ~InGroup(g, ep)
      BY <1>1 DEF Holds
    <3>2. g.members[1] # ep
      BY <1>2, <1>4, <3>1 DEF InGroup
    <3>3. new[i].members[1] # new[i].members[2] /\ DOMAIN new[i].members = 1..2
      BY <1>2, <1>4, <3>2
    <3> QED BY <3>3
  <2>3. ASSUME NEW e, InGroup(new[i], e) PROVE SessionOf(e) = SessionOf(Lead(new[i]))
    <3>1. e = ep \/ InGroup(g, e)
      <4> HIDE DEF g
      <4> QED BY <1>1, <2>3, AppendedGroup
    <3> QED BY <1>1, <1>5, <3>1 DEF GroupOK
  <2>4. new[i].key = IF Lead(new[i]).local_ip = Unknown
                     THEN UnpairedKey(Lead(new[i])) ELSE _session_key(Lead(new[i]))
    BY <1>1, <1>2, <1>5 DEF GroupOK
  <2> QED BY <2>1, <2>2, <2>3, <2>4 DEF GroupOK
<1>7. \A j \in DOMAIN new : j \in DOMAIN groups /\ GroupOK(new[j]) /\ Lead(new[j]) = Lead(groups[j])
  BY <1>5, <1>6 DEF Joins, GroupsOK
<1> HIDE DEF g, n
<1> QED BY <1>7 DEF GroupsOK

(* An end of a session none of the groups is of opens its group.           *)
LEMMA OpensOK ==
  ASSUME estate \in Estates, NEW K, NEW groups \in GroupsOf(K, Ends), GroupsOK(groups),
         NEW ep \in Ends, NEW key, NEW new, Opens(groups, new, key, ep),
         key = IF ep.local_ip = Unknown THEN UnpairedKey(ep) ELSE _session_key(ep),
         \A i \in DOMAIN groups : SessionOf(ep) # SessionOf(Lead(groups[i]))
  PROVE  GroupsOK(new)
<1>0. PICK n \in Nat : OpenedAfter(n, groups, new, key, ep)
  BY OpensMembers
<1>1. /\ DOMAIN groups = 1..n /\ DOMAIN new = 1..n+1 /\ DOMAIN groups \subseteq DOMAIN new
      /\ \A j \in DOMAIN groups : new[j] = groups[j] /\ groups[j].key # key
      /\ new[n+1].key = key /\ new[n+1].members = <<ep>>
      /\ \A e : InGroup(new[n+1], e) <=> e = ep
  BY <1>0 DEF OpenedAfter
<1> DEFINE g == new[n+1]
<1>2. Lead(g) = ep /\ Len(g.members) = 1 /\ DOMAIN g.members = {1}
  BY <1>1 DEF Lead
<1>3. GroupOK(g)
  BY <1>1, <1>2 DEF GroupOK
<1>4. \A j \in DOMAIN new : j \in DOMAIN groups \/ j = n+1
  BY <1>1
<1>5. \A j \in DOMAIN groups : GroupOK(new[j]) /\ Lead(new[j]) = Lead(groups[j])
  BY <1>1 DEF GroupsOK
<1>6. n+1 \in DOMAIN new /\ GroupOK(new[n+1]) /\ Lead(new[n+1]) = ep
  BY <1>1, <1>2, <1>3
<1> HIDE DEF g
<1>7. \A j \in DOMAIN new : GroupOK(new[j])
  BY <1>4, <1>5, <1>6
<1>8. \A i, j \in DOMAIN new : SessionOf(Lead(new[i])) = SessionOf(Lead(new[j])) => i = j
  BY <1>4, <1>5, <1>6 DEF GroupsOK
<1> QED BY <1>7, <1>8 DEF GroupsOK

(* What holds of an end that is filed.                                     *)
LEMMA GrownHolds ==
  ASSUME NEW K, NEW E, NEW groups \in GroupsOf(K, E), NEW ep \in E, NEW new
  PROVE  /\ \A i : Joins(groups, new, i, ep) => \A e : Holds(new, e) <=> (Holds(groups, e) \/ e = ep)
         /\ \A key : Opens(groups, new, key, ep) => \A e : Holds(new, e) <=> (Holds(groups, e) \/ e = ep)
<1>1. ASSUME NEW i, Joins(groups, new, i, ep), NEW e
      PROVE  Holds(new, e) <=> (Holds(groups, e) \/ e = ep)
  <2>1. /\ DOMAIN new = DOMAIN groups
        /\ \A j \in DOMAIN groups : InGroup(new[j], e) <=> (InGroup(groups[j], e) \/ (j = i /\ e = ep))
    BY <1>1, JoinsMembers
  <2>2. i \in DOMAIN groups
    BY <1>1 DEF Joins
  <2> QED BY <2>1, <2>2 DEF Holds
<1>2. ASSUME NEW key, Opens(groups, new, key, ep), NEW e
      PROVE  Holds(new, e) <=> (Holds(groups, e) \/ e = ep)
  <2>1. PICK n \in Nat : OpenedAfter(n, groups, new, key, ep)
    BY <1>2, OpensMembers
  <2>2. /\ DOMAIN groups = 1..n /\ DOMAIN new = 1..n+1 /\ DOMAIN groups \subseteq DOMAIN new
        /\ \A j \in DOMAIN groups : new[j] = groups[j]
        /\ InGroup(new[n+1], e) <=> e = ep
    BY <2>1 DEF OpenedAfter
  <2>3. \A j \in DOMAIN new : j \in DOMAIN groups \/ j = n+1
    BY <2>2
  <2>4. n+1 \in DOMAIN new
    BY <2>2
  <2> QED BY <2>2, <2>3, <2>4 DEF Holds
<1> QED BY <1>1, <1>2

(* An end with a local address is filed while no other ends are in groups. *)
LEMMA ReadOK ==
  ASSUME IInv, KeyInv, Fabric, FabricInv, NEW s \in unread \intersect Resolved, s.local_ip # Unknown,
         NEW new, Grown(sessions, new, _session_key(Endpoint(s)), Endpoint(s))
  PROVE  GroupsOK(new)
<1> DEFINE ep == Endpoint(s)
<1>1. /\ estate \in Estates /\ sessions \in GroupsOf(Keys, Ends) /\ ep \in Ends /\ ep.local_ip # Unknown
      /\ GroupsOK(sessions) /\ ~Holds(sessions, ep)
  BY ResolvedFacts DEF IInv, FabricInv, Ends, Kept
<1>2. ASSUME NEW i \in DOMAIN sessions
      PROVE  SessionOf(ep) = SessionOf(Lead(sessions[i])) <=> sessions[i].key = _session_key(ep)
  <2> DEFINE lead == Lead(sessions[i])
  <2>1. GroupOK(sessions[i]) /\ lead \in Ends /\ Holds(sessions, lead)
    BY <1>1, LeadIsEnd DEF GroupsOK
  <2>2. lead.local_ip # Unknown
    BY <2>1 DEF FabricInv
  <2>3. sessions[i].key = _session_key(lead)
    BY <2>1, <2>2 DEF GroupOK
  <2>4. PICK t \in Resolved : lead = Endpoint(t) /\ SessionOf(lead) = Session(t)
    BY <1>1, <2>1, EndIs
  <2>5. t.local_ip # Unknown
    BY <1>1, <2>2, <2>4, ResolvedFacts
  <2>6. SessionOf(ep) = Session(s)
    BY <1>1, EndOfStatement DEF Resolved, SessionOf
  <2>7. _session_key(Endpoint(s)) = _session_key(Endpoint(t)) <=> Session(s) = Session(t)
    BY <1>1, <2>5, KeyTellsSession DEF Fabric
  <2> HIDE DEF lead
  <2>8. SessionOf(lead) = Session(t) /\ _session_key(ep) = _session_key(Endpoint(s)) /\ lead = Endpoint(t)
    BY <2>4
  <2> QED BY <2>3, <2>6, <2>7, <2>8 DEF lead
<1> HIDE DEF ep
<1>3. CASE \E i \in DOMAIN sessions : sessions[i].key = _session_key(ep) /\ Joins(sessions, new, i, ep)
  BY <1>1, <1>2, <1>3, JoinsOK
<1>4. CASE Opens(sessions, new, _session_key(ep), ep)
  <2>1. \A i \in DOMAIN sessions : sessions[i].key # _session_key(ep)
    BY <1>4 DEF Opens
  <2>2. \A i \in DOMAIN sessions : SessionOf(ep) # SessionOf(Lead(sessions[i]))
    BY <1>2, <2>1
  <2> QED BY <1>1, <1>4, <2>2, OpensOK
<1>5. Grown(sessions, new, _session_key(ep), ep)
  BY DEF ep
<1> QED BY <1>3, <1>4, <1>5 DEF Grown

(* A far end that points back is the other end of the session.             *)
LEMMA PairsIsSession ==
  ASSUME estate \in Estates, Fabric, NEW s \in Resolved, s.local_ip = Unknown,
         NEW t \in Resolved, t.host = s.target, t.peer_ip \in _device_ips(s.host),
         t.local_ip = s.peer_ip \/ t.local_ip = Unknown
  PROVE  Session(s) = Session(t)
<1>1. /\ s \in estate.statements /\ t \in estate.statements
      /\ t.target \in Hosts /\ t.peer_ip \in estate.owns[t.target] /\ t.peer_ip \in estate.owns[s.host]
  BY ResolvedFacts DEF _device_ips
<1>2. t.target = s.host
  <2> SUFFICES ASSUME t.target # s.host PROVE FALSE
    OBVIOUS
  <2>1. estate.owns[t.target] \intersect estate.owns[s.host] = {}
    BY <1>1 DEF Fabric, OwnAddresses
  <2> QED BY <1>1, <2>1
<1> QED BY <1>1, <1>2 DEF Fabric, ToldApart

(* A deferred end joins the group of its session, or there is none.        *)
LEMMA PairOK ==
  ASSUME IInv, KeyInv, Fabric, FabricInv, PairDeferred
  PROVE  GroupsOK(sessions')
<1> DEFINE ep == Head(deferred)
<1>1. /\ estate \in Estates /\ sessions \in GroupsOf(Keys, Ends) /\ ep \in Ends /\ ep.local_ip = Unknown
      /\ GroupsOK(sessions) /\ ~Holds(sessions, ep)
  <2>1. ep = deferred[1] /\ 1 \in DOMAIN deferred /\ ep \in Ends
    BY DeferredEnd
  <2> QED BY <2>1 DEF IInv, FabricInv, KeyInv, Deferrable
<1>2. PICK s \in Resolved : ep = Endpoint(s) /\ StatementOf(ep) = s /\ SessionOf(ep) = Session(s)
  BY <1>1, EndIs
<1>3. /\ ep.host = s.host /\ ep.peer_host = s.target /\ ep.peer_ip = s.peer_ip /\ s.local_ip = Unknown
      /\ s.source \in estate.owns[s.host] /\ s.peer_ip \in estate.owns[s.target]
      /\ s \in estate.statements /\ s.host \in Hosts
  BY <1>1, <1>2, ResolvedFacts
<1> HIDE DEF ep
<1>4. ASSUME NEW i \in DOMAIN sessions
      PROVE  SessionOf(ep) = SessionOf(Lead(sessions[i])) <=> Pairs(sessions[i], ep)
  <2> DEFINE g == sessions[i]
             lead == Lead(g)
  <2>1. GroupOK(g) /\ lead \in Ends /\ Holds(sessions, lead) /\ InGroup(g, lead)
    BY <1>1, LeadIsEnd DEF GroupsOK
  <2>2. PICK t \in Resolved : lead = Endpoint(t) /\ StatementOf(lead) = t /\ SessionOf(lead) = Session(t)
    BY <1>1, <2>1, EndIs
  <2>3. /\ lead.host = t.host /\ lead.peer_ip = t.peer_ip /\ lead.local_ip = t.local_ip
        /\ t \in estate.statements /\ (t.local_ip # Unknown => t.local_ip = t.source)
    BY <1>1, <2>2, ResolvedFacts
  <2>4. g.members[1] = lead
    BY DEF Lead
  <2> HIDE DEF g, lead
  <2>5. ASSUME Pairs(g, ep) PROVE Session(s) = Session(t)
    <3>1. /\ t.host = s.target /\ t.peer_ip \in _device_ips(s.host)
          /\ t.local_ip = s.peer_ip \/ t.local_ip = Unknown
      BY <1>3, <2>3, <2>4, <2>5 DEF Pairs
    <3> QED BY <1>1, <1>3, <3>1, PairsIsSession
  <2>6. ASSUME Session(s) = Session(t) PROVE Pairs(g, ep)
    <3>1. s # t
      BY <1>1, <1>2, <2>1, <2>2
    <3>2. Across(s, t)
      BY <1>1, <1>3, <2>3, <2>6, <3>1, EndsOfSession
    <3>3. Len(g.members) = 1
      <4> SUFFICES ASSUME Len(g.members) = 2 PROVE FALSE
        BY <2>1 DEF GroupOK
      <4> DEFINE b == g.members[2]
      <4>1. DOMAIN g.members = 1..2
        <5>1. g \in [key : Keys, members : Seq(Ends)]
          BY <1>1, GroupTyped DEF g
        <5>2. g.members \in Seq(Ends)
          BY <5>1
        <5> QED BY <5>2
      <4>2. InGroup(g, b) /\ b # lead
        BY <2>1, <2>4, <4>1 DEF InGroup, GroupOK
      <4>3. b \in Ends /\ SessionOf(b) = SessionOf(lead)
        BY <1>1, <2>1, <4>2, HeldIsEnd DEF GroupOK, g, lead
      <4>4. ep # b /\ ep # lead
        BY <1>1, <2>1, <4>2 DEF Holds, g
      <4>5. SessionOf(ep) = SessionOf(lead)
        BY <1>2, <2>2, <2>6
      <4> HIDE DEF b
      <4> QED BY <1>1, <2>1, <4>2, <4>3, <4>4, <4>5, TwoEnds
    <3>4. /\ t.host = s.target /\ t.peer_ip = s.source /\ t.source = s.peer_ip
      BY <3>2 DEF Across
    <3>5. t.peer_ip \in _device_ips(s.host) /\ s.peer_ip \in _device_ips(t.host)
      BY <1>3, <3>4 DEF _device_ips
    <3> QED BY <1>3, <2>3, <2>4, <3>3, <3>4, <3>5 DEF Pairs
  <2>7. SessionOf(lead) = Session(t) /\ SessionOf(ep) = Session(s)
    BY <1>2, <2>2
  <2>8. SessionOf(ep) = SessionOf(lead) <=> Pairs(g, ep)
    BY <2>5, <2>6, <2>7
  <2> QED BY <2>8 DEF g, lead
<1>5. ASSUME NEW i \in DOMAIN sessions, sessions[i].key = UnpairedKey(ep) PROVE FALSE
  <2> DEFINE lead == Lead(sessions[i])
  <2>1. GroupOK(sessions[i]) /\ lead \in Ends /\ Holds(sessions, lead)
    BY <1>1, LeadIsEnd DEF GroupsOK
  <2>2. PICK t \in Resolved : lead = Endpoint(t)
    BY <1>1, <2>1, EndIs
  <2>3. lead.host = t.host /\ lead.peer_ip = t.peer_ip /\ t \in estate.statements
    BY <1>1, <2>2, ResolvedFacts
  <2>4. sessions[i].key = IF lead.local_ip = Unknown THEN UnpairedKey(lead) ELSE _session_key(lead)
    BY <2>1 DEF GroupOK
  <2> HIDE DEF lead
  <2>5. UnpairedKey(ep).from = s.host /\ s.host # Unknown
    BY <1>3, EstateAssumption DEF UnpairedKey
  <2>6. lead.local_ip = Unknown
    BY <1>5, <2>4, <2>5 DEF _session_key
  <2>7. UnpairedKey(lead) = UnpairedKey(ep)
    BY <1>5, <2>4, <2>6
  <2>8. {lead.peer_ip} = {ep.peer_ip} /\ lead.host = ep.host
    BY <2>7 DEF UnpairedKey
  <2>9. s = t
    BY <1>1, <1>3, <2>3, <2>8, OneStatement
  <2> QED BY <1>1, <1>2, <2>1, <2>2, <2>9
<1>6. CASE \E i \in DOMAIN sessions : Pairs(sessions[i], ep) /\ Joins(sessions, sessions', i, ep)
  BY <1>1, <1>4, <1>6, JoinsOK
<1>7. CASE /\ \A i \in DOMAIN sessions : ~Pairs(sessions[i], ep)
           /\ Grown(sessions, sessions', UnpairedKey(ep), ep)
  <2>1. Opens(sessions, sessions', UnpairedKey(ep), ep)
    BY <1>5, <1>7 DEF Grown
  <2>2. \A i \in DOMAIN sessions : SessionOf(ep) # SessionOf(Lead(sessions[i]))
    BY <1>4, <1>7
  <2> QED BY <1>1, <2>1, <2>2, OpensOK
<1> QED BY <1>6, <1>7, PairGroups DEF ep, KeyInv

LEMMA SameSessions ==
  ASSUME estate' = estate
  PROVE  /\ \A ep : SessionOf(ep)' = SessionOf(ep)
         /\ \A group : GroupOK(group)' <=> GroupOK(group)
         /\ Fabric' <=> Fabric
<1>1. \A ep : SessionOf(ep)' = SessionOf(ep)
  BY SameEstate DEF SessionOf, Session
<1>2. \A group : GroupOK(group)' <=> GroupOK(group)
  BY <1>1 DEF GroupOK, InGroup, Lead, UnpairedKey, _session_key
<1>3. Fabric' <=> Fabric
  BY DEF Fabric, OwnAddresses, OthersAddresses, ToldApart, Session
<1> QED BY <1>1, <1>2, <1>3

LEMMA SameGroupsOK ==
  ASSUME estate' = estate, GroupsOK(sessions')
  PROVE  GroupsOK(sessions)'
<1>1. \A i \in DOMAIN sessions' : GroupOK(sessions'[i])
  BY DEF GroupsOK
<1>2. \A i \in DOMAIN sessions' : GroupOK(sessions[i])'
  <2> SUFFICES ASSUME NEW i \in DOMAIN sessions' PROVE GroupOK(sessions[i])'
    OBVIOUS
  <2>1. GroupOK(sessions'[i])
    BY <1>1
  <2> QED BY <2>1, SameSessions DEF GroupOK, InGroup, Lead, UnpairedKey, _session_key
<1>3. (\A i, j \in DOMAIN sessions : SessionOf(Lead(sessions[i])) = SessionOf(Lead(sessions[j])) => i = j)'
  BY SameSessions DEF GroupsOK, Lead
<1> QED BY <1>2, <1>3 DEF GroupsOK

LEMMA EndsDiffer ==
  ASSUME estate \in Estates, NEW s \in Resolved, NEW t \in Resolved, Endpoint(s) = Endpoint(t)
  PROVE  s = t
BY EndOfStatement DEF Resolved

LEMMA InitFabric == Init => FabricInv
<1> SUFFICES ASSUME Init PROVE FabricInv
  OBVIOUS
<1>1. DOMAIN sessions = {} /\ DOMAIN deferred = {}
  BY DEF Init
<1> QED BY <1>1 DEF FabricInv, GroupsOK, Kept, Holds, Waits

LEMMA ReadFabric ==
  ASSUME IInv, KeyInv, Fabric, FabricInv, NEW s \in unread, ReadNeighbor(s)
  PROVE  FabricInv'
<1> DEFINE ep == Endpoint(s)
<1>1. /\ estate' = estate /\ unread' = unread \ {s} /\ estate \in Estates
      /\ s \in estate.statements /\ Resolved' = Resolved
      /\ \A t : Endpoint(t)' = Endpoint(t)
  BY SameEstate DEF ReadNeighbor, NextStatement, IInv
<1>2. CASE _resolve_peer_host(s) = Unknown
  <2>1. sessions' = sessions /\ deferred' = deferred
    BY <1>2 DEF ReadNeighbor
  <2>2. GroupsOK(sessions)'
    BY <1>1, <2>1, SameGroupsOK DEF FabricInv
  <2> QED BY <1>1, <2>1, <2>2 DEF FabricInv, Kept, Holds, Waits, InGroup
<1>3. CASE _resolve_peer_host(s) # Unknown
  <2>1. s \in Resolved /\ ep \in Ends /\ ~Kept(sessions, deferred, ep) /\ ep.local_ip = s.local_ip
    BY <1>1, <1>3 DEF Resolved, Ends, FabricInv, Endpoint
  <2>2. ASSUME NEW t \in Resolved, t \in unread, t # s PROVE Endpoint(t) # ep /\ ~Kept(sessions, deferred, Endpoint(t))
    BY <1>1, <2>1, <2>2, EndsDiffer DEF FabricInv
  <2>3. CASE s.local_ip # Unknown
    <3>1. deferred' = deferred
      BY <1>3, <2>3 DEF ReadNeighbor
    <3>2. Grown(sessions, sessions', _session_key(ep), ep)
      <4>1. ep \in Ends /\ _session_key(ep) \in Keys /\ sessions' = Filed(sessions, _session_key(ep), ep)
        BY <1>3, <2>1, <2>3 DEF Keys, ReadNeighbor
      <4> HIDE DEF ep
      <4> QED BY <4>1, FiledJoinsOrOpens DEF IInv, KeyInv, Grown
    <3>3. GroupsOK(sessions')
      BY <2>1, <2>3, <3>2, ReadOK
    <3> HIDE DEF ep
    <3>4. \A e : Holds(sessions', e) <=> (Holds(sessions, e) \/ e = ep)
      BY <2>1, <3>2, GrownHolds DEF Grown, IInv
    <3>5. GroupsOK(sessions)'
      BY <1>1, <3>3, SameGroupsOK
    <3>6. \A t \in Resolved \intersect unread' : ~Kept(sessions', deferred', Endpoint(t))
      BY <1>1, <2>2, <3>1, <3>4 DEF Kept
    <3>7. \A j \in DOMAIN deferred : ~Holds(sessions', deferred[j])
      BY <2>1, <3>4 DEF FabricInv, Kept, Waits
    <3>8. unread' # {} => \A e : Holds(sessions', e) => e.local_ip # Unknown
      BY <2>1, <2>3, <3>4 DEF FabricInv
    <3>9. \A e : Holds(sessions, e)' <=> Holds(sessions', e)
      BY DEF Holds, InGroup
    <3>10. \A e : Kept(sessions, deferred, e)' <=> Kept(sessions', deferred', e)
      BY DEF Kept, Holds, InGroup, Waits
    <3> QED BY <1>1, <3>1, <3>5, <3>6, <3>7, <3>8, <3>9, <3>10 DEF FabricInv
  <2>4. CASE s.local_ip = Unknown
    <3>1. sessions' = sessions /\ deferred' = Append(deferred, ep)
      BY <1>3, <2>4 DEF ReadNeighbor
    <3> HIDE DEF ep
    <3>2. /\ DOMAIN deferred' = 1..Len(deferred)+1 /\ DOMAIN deferred = 1..Len(deferred)
          /\ Len(deferred) \in Nat
          /\ \A j \in 1..Len(deferred) : deferred'[j] = deferred[j]
          /\ deferred'[Len(deferred)+1] = ep
      BY <2>1, <3>1 DEF IInv
    <3>3. \A j \in DOMAIN deferred' : j \in DOMAIN deferred \/ j = Len(deferred)+1
      BY <3>2
    <3>4. \A j \in DOMAIN deferred : deferred'[j] = deferred[j] /\ deferred[j] # ep
      BY <2>1, <3>2 DEF Kept, Waits
    <3>5. \A j, k \in DOMAIN deferred' : deferred'[j] = deferred'[k] => j = k
      BY <3>2, <3>3, <3>4 DEF FabricInv
    <3>6. \A j \in DOMAIN deferred' : ~Holds(sessions', deferred'[j])
      BY <2>1, <3>1, <3>2, <3>3, <3>4 DEF FabricInv, Kept
    <3>7. \A t \in Resolved \intersect unread' : ~Kept(sessions', deferred', Endpoint(t))
      <4> SUFFICES ASSUME NEW t \in Resolved, t \in unread, t # s PROVE ~Kept(sessions', deferred', Endpoint(t))
        BY <1>1
      <4>1. Endpoint(t) # ep /\ ~Holds(sessions, Endpoint(t)) /\ ~Waits(deferred, Endpoint(t))
        BY <2>2 DEF Kept
      <4>2. ~Waits(deferred', Endpoint(t))
        BY <3>2, <3>3, <3>4, <4>1 DEF Waits
      <4> QED BY <3>1, <4>1, <4>2 DEF Kept
    <3>8. GroupsOK(sessions)'
      BY <1>1, <3>1, SameGroupsOK DEF FabricInv
    <3>9. \A e : Holds(sessions, e)' <=> Holds(sessions', e)
      BY DEF Holds, InGroup
    <3>10. \A e : Kept(sessions, deferred, e)' <=> Kept(sessions', deferred', e)
      BY DEF Kept, Holds, InGroup, Waits
    <3>11. unread' # {} => \A e : Holds(sessions', e) => e.local_ip # Unknown
      BY <3>1 DEF FabricInv
    <3> QED BY <1>1, <3>5, <3>6, <3>7, <3>8, <3>9, <3>10, <3>11 DEF FabricInv
  <2> QED BY <2>3, <2>4
<1> QED BY <1>2, <1>3

LEMMA PairFabric ==
  ASSUME IInv, KeyInv, Fabric, FabricInv, PairDeferred
  PROVE  FabricInv'
<1> DEFINE ep == Head(deferred)
<1>1. /\ estate' = estate /\ unread' = {} /\ unread = {}
  BY DEF PairDeferred
<1>2. /\ ep = deferred[1] /\ ep \in Ends
      /\ DOMAIN deferred = 1..Len(deferred) /\ DOMAIN deferred' = 1..Len(deferred)-1
      /\ Len(deferred) \in Nat \ {0}
      /\ \A j \in 1..Len(deferred)-1 : deferred'[j] = deferred[j+1]
  BY DeferredEnd
<1>3. GroupsOK(sessions)'
  BY <1>1, PairOK, SameGroupsOK
<1>4. \/ \E i \in DOMAIN sessions : Joins(sessions, sessions', i, ep)
      \/ Opens(sessions, sessions', UnpairedKey(ep), ep)
  BY PairGroups DEF Grown, KeyInv
<1> HIDE DEF ep
<1>5. \A e : Holds(sessions', e) <=> (Holds(sessions, e) \/ e = ep)
  <2>1. sessions \in GroupsOf(Keys, Ends) /\ ep \in Ends
    BY <1>2 DEF IInv
  <2>2. CASE \E i \in DOMAIN sessions : Joins(sessions, sessions', i, ep)
    BY <2>1, <2>2, GrownHolds
  <2>3. CASE Opens(sessions, sessions', UnpairedKey(ep), ep)
    BY <2>1, <2>3, GrownHolds
  <2> QED BY <1>4, <2>2, <2>3
<1>6. \A j \in DOMAIN deferred' :
        j \in Nat /\ j+1 \in DOMAIN deferred /\ deferred'[j] = deferred[j+1] /\ 1 \in DOMAIN deferred /\ j+1 # 1
  BY <1>2
<1>7. \A j \in DOMAIN deferred' : deferred'[j] # ep
  BY <1>2, <1>6 DEF FabricInv
<1>8. \A j \in DOMAIN deferred' : ~Holds(sessions', deferred'[j])
  BY <1>5, <1>6, <1>7 DEF FabricInv
<1>9. \A j, k \in DOMAIN deferred' : deferred'[j] = deferred'[k] => j = k
  <2> SUFFICES ASSUME NEW j \in DOMAIN deferred', NEW k \in DOMAIN deferred', deferred'[j] = deferred'[k]
               PROVE  j = k
    OBVIOUS
  <2>1. j+1 = k+1
    BY <1>6 DEF FabricInv
  <2> QED BY <1>6, <2>1
<1>10. \A e : Holds(sessions, e)' <=> Holds(sessions', e)
  BY DEF Holds, InGroup
<1> QED BY <1>1, <1>3, <1>8, <1>9, <1>10 DEF FabricInv

LEMMA FabricHolds == Spec => [](Fabric => FabricInv)
<1>1. Init => (Fabric => FabricInv)
  BY InitFabric
<1>2. IInv /\ KeyInv /\ (Fabric => FabricInv) /\ [Next]_vars => (Fabric => FabricInv)'
  <2> SUFFICES ASSUME IInv, KeyInv, Fabric => FabricInv, [Next]_vars, Fabric' PROVE FabricInv'
    OBVIOUS
  <2>1. estate' = estate
    BY DEF Next, ReadNeighbor, NextStatement, PairDeferred, vars
  <2>2. Fabric /\ FabricInv
    BY <2>1, SameSessions
  <2>3. ASSUME NEW s \in unread, ReadNeighbor(s) PROVE FabricInv'
    BY <2>2, <2>3, ReadFabric
  <2>4. CASE PairDeferred
    BY <2>2, <2>4, PairFabric
  <2>5. CASE UNCHANGED vars
    <3>1. UNCHANGED <<estate, unread, sessions, deferred>>
      BY <2>5 DEF vars
    <3>2. GroupsOK(sessions)'
      BY <2>2, <3>1, SameGroupsOK DEF FabricInv
    <3>3. \A e : Holds(sessions, e)' <=> Holds(sessions, e)
      BY <3>1 DEF Holds, InGroup
    <3>4. \A e : Kept(sessions, deferred, e)' <=> Kept(sessions, deferred, e)
      BY <3>1 DEF Kept, Holds, InGroup, Waits
    <3> QED BY <2>2, <3>1, <3>2, <3>3, <3>4, SameEstate DEF FabricInv
  <2> QED BY <2>3, <2>4, <2>5 DEF Next
<1> QED BY <1>1, <1>2, InvariantHolds, KeysHold, PTL DEF Spec

(* The other end of a session with an end without a local address resolves.*)
LEMMA OtherEndResolves ==
  ASSUME estate \in Estates, OwnAddresses, NEW s \in Resolved, s.local_ip = Unknown,
         NEW t \in estate.statements, Across(s, t)
  PROVE  t \in Resolved
<1>1. /\ s \in estate.statements /\ s.source \in estate.owns[s.host] /\ s.host \in Hosts
      /\ t.peer_ip = s.source /\ t.host = s.target /\ s.target # s.host /\ s.target \in Hosts
  BY ResolvedFacts DEF Across
<1>2. \A h \in Hosts \ {s.host} : s.source \notin estate.owns[h]
  <2> SUFFICES ASSUME NEW h \in Hosts \ {s.host}, s.source \in estate.owns[h] PROVE FALSE
    OBVIOUS
  <2>1. estate.owns[h] \intersect estate.owns[s.host] = {}
    BY <1>1 DEF OwnAddresses
  <2> QED BY <1>1, <2>1
<1>3. Candidates(t) = {s.host}
  BY <1>1, <1>2 DEF Candidates, _ip_owners, _device_ips
<1>4. Cardinality(Candidates(t)) = 1
  BY <1>3, FS_Singleton
<1>5. _resolve_peer_host(t) = s.host
  BY <1>3, <1>4 DEF _resolve_peer_host
<1> QED BY <1>1, <1>5, EstateAssumption DEF Resolved

(* The edge of a group is the session of its ends.                         *)
LEMMA EdgeOfGroup ==
  ASSUME IInv, FabricInv, Fabric, Settled, NEW i \in DOMAIN sessions,
         NEW s \in Resolved, InGroup(sessions[i], Endpoint(s))
  PROVE  Edge(sessions[i]) = TrueEdge(s)
<1> DEFINE g == sessions[i]
           a == g.members[1]
<1>1. /\ estate \in Estates /\ sessions \in GroupsOf(Keys, Ends) /\ GroupOK(g)
      /\ g \in [key : Keys, members : Seq(Ends)]
  BY GroupTyped DEF IInv, FabricInv, GroupsOK
<1>2. /\ g.members \in Seq(Ends) /\ DOMAIN g.members = 1..Len(g.members)
      /\ Len(g.members) \in 1..2 /\ a \in Ends /\ InGroup(g, a)
  <2> DEFINE m == g.members
  <2>1. m \in Seq(Ends) /\ Len(m) \in 1..2
    BY <1>1 DEF GroupOK
  <2> HIDE DEF g, m
  <2>2. DOMAIN m = 1..Len(m) /\ 1 \in DOMAIN m /\ m[1] \in Ends
    BY <2>1
  <2> QED BY <2>1, <2>2 DEF InGroup, m
<1>3. PICK u \in Resolved : a = Endpoint(u) /\ SessionOf(a) = Session(u)
  BY <1>1, <1>2, EndIs
<1>4. SessionOf(Endpoint(s)) = Session(s) /\ s \in estate.statements
  BY <1>1, EndOfStatement DEF Resolved, SessionOf
<1>5. Session(s) = Session(u)
  BY <1>1, <1>3, <1>4 DEF GroupOK, Lead
<1>6. /\ a.host = u.host /\ a.peer_host = u.target /\ a.peer_ip = u.peer_ip /\ a.local_ip = u.local_ip
      /\ u \in estate.statements /\ (u.local_ip # Unknown => u.local_ip = u.source) /\ u.host # u.target
  BY <1>1, <1>3, ResolvedFacts
<1>7. CASE Len(g.members) = 1
  <2>1. \A e : InGroup(g, e) => e = a
    BY <1>2, <1>7 DEF InGroup
  <2>2. s = u
    BY <1>1, <1>3, <2>1, EndsDiffer
  <2>3. FarEnd(g) = {}
    <3>1. {k \in DOMAIN g.members : g.members[k].host # g.members[1].host} = {}
      BY <1>2, <1>7
    <3> HIDE DEF g
    <3> QED BY <3>1 DEF FarEnd
  <2> HIDE DEF g
  <2>4. Edge(g) = Shown(s)
    BY <1>6, <2>2, <2>3 DEF Edge, Shown
  <2>5. CASE s.local_ip # Unknown
    <3>1. Shown(s) = Session(s)
      BY <1>6, <2>2, <2>5 DEF Shown, Session
    <3> QED BY <2>4, <3>1 DEF TrueEdge, g
  <2>6. CASE s.local_ip = Unknown
    <3>1. ~BothEnds(s)
      <4> SUFFICES ASSUME BothEnds(s) PROVE FALSE
        OBVIOUS
      <4>1. PICK t \in estate.statements : t # s /\ Session(t) = Session(s)
        BY DEF BothEnds
      <4>2. Across(s, t)
        BY <1>1, <1>4, <4>1, EndsOfSession
      <4>3. t \in Resolved
        BY <1>1, <2>6, <4>2, OtherEndResolves DEF Fabric
      <4>4. Holds(sessions, Endpoint(t))
        BY <4>3 DEF IInv, Settled, Kept, Waits
      <4>5. PICK j \in DOMAIN sessions : InGroup(sessions[j], Endpoint(t))
        BY <4>4 DEF Holds
      <4>6. SessionOf(Endpoint(t)) = Session(t)
        BY <1>1, EndOfStatement DEF SessionOf
      <4>7. SessionOf(Lead(sessions[j])) = Session(t) /\ SessionOf(Lead(sessions[i])) = Session(u)
        BY <1>3, <4>5, <4>6 DEF FabricInv, GroupsOK, GroupOK, Lead, g
      <4>8. j = i
        BY <1>5, <4>1, <4>7 DEF FabricInv, GroupsOK
      <4>9. Endpoint(t) = a
        BY <2>1, <4>5, <4>8 DEF g
      <4> QED BY <1>1, <1>3, <2>2, <4>1, <4>3, <4>9, EndsDiffer
    <3> QED BY <2>4, <3>1 DEF TrueEdge, g
  <2> QED BY <2>5, <2>6
<1>8. CASE Len(g.members) = 2
  <2> DEFINE b == g.members[2]
  <2>1. b \in Ends /\ InGroup(g, b) /\ b # a /\ DOMAIN g.members = 1..2
    <3>1. DOMAIN g.members = 1..2
      BY <1>2, <1>8
    <3>2. b # a /\ InGroup(g, b)
      BY <1>1, <3>1 DEF GroupOK, InGroup
    <3> QED BY <1>1, <3>1, <3>2, HeldIsEnd
  <2>2. PICK v \in Resolved : b = Endpoint(v) /\ SessionOf(b) = Session(v)
    BY <1>1, <2>1, EndIs
  <2>3. Session(v) = Session(u)
    BY <1>1, <1>3, <2>1, <2>2 DEF GroupOK, Lead
  <2>4. /\ b.host = v.host /\ b.peer_ip = v.peer_ip /\ b.local_ip = v.local_ip
        /\ v \in estate.statements /\ (v.local_ip # Unknown => v.local_ip = v.source)
    BY <1>1, <2>2, ResolvedFacts
  <2>5. v # u /\ Across(u, v)
    BY <1>1, <1>3, <1>6, <2>1, <2>2, <2>3, <2>4, EndsOfSession
  <2>6. v.host = u.target /\ v.target = u.host /\ v.peer_ip = u.source /\ v.source = u.peer_ip
    BY <2>5 DEF Across
  <2>7. FarEnd(g) = {b}
    <3> DEFINE others == {k \in DOMAIN g.members : g.members[k].host # g.members[1].host}
    <3>1. others = {2}
      BY <1>6, <2>1, <2>4, <2>6
    <3>2. Min(others) = 2
      <4> HIDE DEF others
      <4>1. \A k \in others : k = 2
        BY <3>1
      <4> QED BY <3>1, <4>1 DEF Min
    <3>3. others # {}
      BY <3>1
    <3> QED BY <3>2, <3>3 DEF FarEnd
  <2> HIDE DEF g, b
  <2>8. Edge(g) = Session(u)
    <3>1. (CHOOSE ep \in {b} : TRUE) = b
      OBVIOUS
    <3>2. Edge(g) = {<<a.host, IF a.local_ip = Unknown THEN b.peer_ip ELSE a.local_ip>>,
                     <<b.host, IF b.local_ip # Unknown THEN b.local_ip ELSE a.peer_ip>>}
      BY <2>7, <3>1 DEF Edge
    <3>3. (IF a.local_ip = Unknown THEN b.peer_ip ELSE a.local_ip) = u.source
      BY <1>6, <2>4, <2>6
    <3>4. (IF b.local_ip # Unknown THEN b.local_ip ELSE a.peer_ip) = u.peer_ip
      BY <1>6, <2>4, <2>6
    <3> QED BY <1>6, <2>4, <2>6, <3>2, <3>3, <3>4 DEF Session
  <2>9. BothEnds(s)
    BY <1>4, <1>5, <1>6, <2>3, <2>4, <2>5 DEF BothEnds
  <2> QED BY <1>5, <2>8, <2>9 DEF TrueEdge, g
<1> QED BY <1>2, <1>7, <1>8

(* One edge per session, between the right devices and with the right      *)
(* addresses, whatever the order of devices and statements (_add_bgp_edges *)
(* over _group_sessions), where the configurations tell the sessions apart,*)
(* no device without local addresses shares one and none names its own.    *)
THEOREM EdgesCorrect == Spec => []EdgesAreSessions
<1>1. IInv /\ (Fabric => FabricInv) => EdgesAreSessions
  <2> SUFFICES ASSUME IInv, FabricInv, Fabric, Settled
               PROVE  /\ bgp_edges = {TrueEdge(s) : s \in Drawn}
                      /\ Cardinality(DOMAIN sessions) = Cardinality({Session(s) : s \in Drawn})
    BY DEF EdgesAreSessions, Fabric
  <2>1. estate \in Estates /\ sessions \in GroupsOf(Keys, Ends)
    BY DEF IInv
  <2>2. ASSUME NEW i \in DOMAIN sessions
        PROVE  \E s \in Drawn : /\ s \in Resolved /\ InGroup(sessions[i], Endpoint(s))
                                /\ SessionOf(Lead(sessions[i])) = Session(s)
    <3>1. Lead(sessions[i]) \in Ends /\ InGroup(sessions[i], Lead(sessions[i]))
      BY <2>1, LeadIsEnd DEF FabricInv, GroupsOK
    <3>2. PICK s \in Resolved : /\ Lead(sessions[i]) = Endpoint(s) /\ StatementOf(Lead(sessions[i])) = s
                                /\ SessionOf(Lead(sessions[i])) = Session(s)
      BY <2>1, <3>1, EndIs
    <3>3. Lead(sessions[i]) \in Members(i)
      BY <3>1 DEF InGroup, Members, ToSet
    <3>4. s \in Drawn
      BY <3>2, <3>3 DEF Drawn, Grouped, Resolved
    <3> QED BY <3>1, <3>2, <3>4
  <2>3. ASSUME NEW s \in Drawn
        PROVE  \E i \in DOMAIN sessions : /\ s \in Resolved /\ InGroup(sessions[i], Endpoint(s))
                                          /\ SessionOf(Lead(sessions[i])) = Session(s)
    <3>1. PICK i \in DOMAIN sessions : \E ep \in Members(i) : StatementOf(ep) = s
      BY DEF Drawn, Grouped
    <3>2. PICK ep \in Members(i) : StatementOf(ep) = s
      BY <3>1
    <3>3. s \in Resolved /\ ep = Endpoint(s)
      BY <3>2, MemberIsEnd
    <3>4. InGroup(sessions[i], Endpoint(s))
      BY <3>2, <3>3 DEF InGroup, Members, ToSet
    <3>5. SessionOf(Endpoint(s)) = Session(s)
      BY <3>2, <3>3 DEF SessionOf
    <3>6. SessionOf(Lead(sessions[i])) = Session(s)
      BY <3>4, <3>5 DEF FabricInv, GroupsOK, GroupOK
    <3> QED BY <3>3, <3>4, <3>6
  <2>4. bgp_edges = {TrueEdge(s) : s \in Drawn}
    <3>1. ASSUME NEW i \in DOMAIN sessions PROVE Edge(sessions[i]) \in {TrueEdge(s) : s \in Drawn}
      <4>1. PICK s \in Drawn : s \in Resolved /\ InGroup(sessions[i], Endpoint(s))
        BY <2>2
      <4>2. Edge(sessions[i]) = TrueEdge(s)
        BY <4>1, EdgeOfGroup
      <4> QED BY <4>2
    <3>2. ASSUME NEW s \in Drawn PROVE TrueEdge(s) \in bgp_edges
      <4>1. PICK i \in DOMAIN sessions : s \in Resolved /\ InGroup(sessions[i], Endpoint(s))
        BY <2>3
      <4>2. Edge(sessions[i]) = TrueEdge(s)
        BY <4>1, EdgeOfGroup
      <4> QED BY <4>2 DEF bgp_edges
    <3> QED BY <3>1, <3>2 DEF bgp_edges
  <2>5. Cardinality(DOMAIN sessions) = Cardinality({Session(s) : s \in Drawn})
    <3> DEFINE T == {Session(s) : s \in Drawn}
               f == [i \in DOMAIN sessions |-> SessionOf(Lead(sessions[i]))]
    <3>1. \A i \in DOMAIN sessions : f[i] \in T
      BY <2>2
    <3>2. \A t \in T : \E i \in DOMAIN sessions : f[i] = t
      BY <2>3
    <3>3. \A i, j \in DOMAIN sessions : f[i] = f[j] => i = j
      BY DEF FabricInv, GroupsOK
    <3>4. f \in [DOMAIN sessions -> T]
      BY <3>1
    <3>5. IsFiniteSet(DOMAIN sessions)
      <4> DEFINE Group == [key : Keys, members : Seq(Ends)]
      <4>1. sessions \in Seq(Group)
        BY <2>1 DEF GroupsOf
      <4> HIDE DEF Group
      <4>2. DOMAIN sessions = 1..Len(sessions) /\ Len(sessions) \in Nat
        BY <4>1
      <4> QED BY <4>2, FS_Interval
    <3> HIDE DEF f, T
    <3>6. f \in Bijection(DOMAIN sessions, T)
      <4>1. IsInjective(f)
        BY <3>3, <3>4 DEF IsInjective
      <4>2. f \in Injection(DOMAIN sessions, T)
        BY <3>4, <4>1 DEF Injection
      <4>3. f \in Surjection(DOMAIN sessions, T)
        BY <3>2, <3>4 DEF Surjection
      <4> QED BY <4>2, <4>3 DEF Bijection
    <3>7. ExistsBijection(DOMAIN sessions, T)
      BY <3>6 DEF ExistsBijection
    <3>8. Cardinality(T) = Cardinality(DOMAIN sessions)
      BY <3>5, <3>7, FS_Bijection
    <3> QED BY <3>8 DEF T
  <2> QED BY <2>4, <2>5
<1> QED BY <1>1, InvariantHolds, FabricHolds, PTL

-----------------------------------------------------------------------------
(***************************************************************************)
(* Proofs about module DependencyGraph, for configurations of any size:    *)
(* the links dangle exactly where nothing is defined, every reference is   *)
(* an edge of the graph between the right nodes, the orphans are what no   *)
(* read field names, and no node is made up.                               *)
(*                                                                         *)
(* ResolverInv says which references have been walked, and that links and  *)
(* marks are those of the walked ones; GraphInv that the nodes and edges   *)
(* built so far are those of the links taken.  The orphan property needs   *)
(* the first at the moment the last family has been walked.                *)
(***************************************************************************)

Target(r) == <<r.row.ref, RefName(r)>>

ResolverInv ==
  /\ config \in Configuration
  /\ phase \in {"resolve", "nodes", "edges", "done"}
  /\ at \in 1..Len(Families)
  /\ links \in Seq({LinkOf(r) : r \in config.references})
  /\ walked \subseteq {r \in config.references : r.row \in Read /\ Links(r)}
  /\ \A f \in 1..Len(Families) : f < at => Walked(f) \subseteq walked
  /\ Emitted = {LinkOf(r) : r \in walked}
  /\ referenced = {Target(r) : r \in {q \in walked : q.row.ref \in Tracked}}
  /\ phase # "resolve" =>
       /\ at = Len(Families) /\ Walked(at) \subseteq walked
       /\ orphaned = _find_orphans

GraphInv ==
  /\ built \in 0..Len(links)
  /\ phase = "done" => built = Len(links)
  /\ phase \in {"resolve", "nodes"} => built = 0 /\ DOMAIN edges = {}
  /\ phase \in {"edges", "done"} =>
       /\ DOMAIN nodes = Defined \cup {links[i].target : i \in 1..built}
       /\ \A id \in DOMAIN nodes :
            nodes[id] = IF id \notin Defined THEN "missing" ELSE IF id \in orphaned THEN "orphan" ELSE "ok"
       /\ DOMAIN edges = {<<links[i].source, links[i].target>> : i \in 1..built}
       /\ \A e \in DOMAIN edges : edges[e].resolved <=> e[2] \in Defined

BuildInv == ResolverInv /\ GraphInv

-----------------------------------------------------------------------------
LEMMA FamiliesLength == Len(Families) = 18
BY DEF Families

(* The two files agree on the names.                                       *)
LEMMA NamesAgree == ASSUME NEW o PROVE SourceId(o) = _node_id(o)
BY DEF SourceId, LinkName, _node_id, NodeName, Singletons, PerVrf

LEMMA ResolvedIsDefined ==
  ASSUME NEW type, NEW name
  PROVE  _is_resolved(type, name) <=> <<type, name>> \in Defined
BY NamesAgree DEF _is_resolved, Defined

(* A link joins the node of the object that holds the reference to the     *)
(* identifier the reference names.                                         *)
LEMMA LinkEnds ==
  ASSUME config \in Configuration, NEW r \in config.references
  PROVE  /\ LinkOf(r).source = _node_id(r.source) /\ LinkOf(r).source \in Defined
         /\ LinkOf(r).target = Target(r)
         /\ LinkOf(r).resolved <=> Target(r) \in Defined
<1>1. r.source \in config.objects
  BY DEF Configuration
<1>2. LinkOf(r).source = _node_id(r.source)
  BY NamesAgree DEF LinkOf
<1>3. _node_id(r.source) \in Defined
  BY <1>1 DEF Defined
<1>4. LinkOf(r).target = Target(r) /\ LinkOf(r).resolved = _is_resolved(r.row.ref, RefName(r))
  BY DEF LinkOf, Target
<1> QED BY <1>2, <1>3, <1>4, ResolvedIsDefined DEF Target

(* The only reference whose link depends on what was parsed is no name of  *)
(* a tracked object.                                                       *)
LEMMA TrackedAreLinked ==
  ASSUME NEW r, r.row \in Read, r.row.ref \in Tracked
  PROVE  Links(r)
<1> DEFINE Good(entries) == \A row \in entries : row.field = "tunnel_ike_gateway" => row.ref = "crypto"
<1>1. Good(_resolve_bgp)
  BY DEF _resolve_bgp, _resolve_policy_holder, Rows
<1>2. Good(_resolve_ospf) /\ Good(_resolve_eigrp) /\ Good(_resolve_rip) /\ Good(_resolve_vrfs)
  BY DEF _resolve_ospf, _resolve_eigrp, _resolve_rip, _resolve_vrfs, Rows
<1>3. Good(_resolve_interfaces)
  BY DEF _resolve_interfaces, Rows
<1>4. Good(_resolve_route_maps)
  <2>1. \A row \in _resolve_route_maps : row.field \in DOMAIN _infer_match_ref_type
    BY DEF _resolve_route_maps, Rows
  <2> QED BY <2>1 DEF _infer_match_ref_type
<1>5. Good(_resolve_static_routes) /\ Good(_resolve_ntp) /\ Good(_resolve_snmp) /\ Good(_resolve_lines)
  BY DEF _resolve_static_routes, _resolve_ntp, _resolve_snmp, _resolve_lines, Rows
<1>6. Good(_resolve_qos) /\ Good(_resolve_nat) /\ Good(_resolve_crypto) /\ Good(_resolve_ipsla)
  BY DEF _resolve_qos, _resolve_nat, _resolve_crypto, _resolve_ipsla, Rows
<1>7. Good(_resolve_object_tracking) /\ Good(_resolve_multicast) /\ Good(_resolve_zones)
  BY DEF _resolve_object_tracking, _resolve_multicast, _resolve_zones, Rows
<1> HIDE DEF Good
<1>8. \A f \in 1..Len(Families) : Good(Families[f])
  BY <1>1, <1>2, <1>3, <1>4, <1>5, <1>6, <1>7, FamiliesLength DEF Families
<1>9. PICK f \in 1..Len(Families) : r.row \in Families[f]
  BY DEF Read
<1>10. r.row.field = "tunnel_ike_gateway" => r.row.ref = "crypto"
  BY <1>8, <1>9 DEF Good
<1> QED BY <1>10 DEF Links, Tracked

-----------------------------------------------------------------------------
LEMMA BuildInitInv == ASSUME GraphInit PROVE BuildInv
<1>1. config \in Configuration
  BY ConfigurationsAssumption DEF GraphInit
<1>2. /\ phase = "resolve" /\ at = 1 /\ walked = {} /\ links = <<>>
      /\ referenced = {} /\ built = 0 /\ DOMAIN edges = {}
  BY DEF GraphInit
<1>3. Emitted = {} /\ Len(links) = 0
  BY <1>2 DEF Emitted
<1>4. ResolverInv
  BY <1>1, <1>2, <1>3, FamiliesLength DEF ResolverInv
<1>5. GraphInv
  BY <1>2, <1>3 DEF GraphInv
<1> QED BY <1>4, <1>5 DEF BuildInv

(* While the configuration stays, so do the names and nodes made of it.    *)
LEMMA SameConfig ==
  ASSUME config' = config
  PROVE  /\ Defined' = Defined
         /\ \A r : LinkOf(r)' = LinkOf(r)
         /\ \A f : Walked(f)' = Walked(f)
         /\ \A r : Links(r)' = Links(r)
BY DEF Defined, LinkOf, Walked, Links, _is_resolved

LEMMA SameResolver ==
  ASSUME ResolverInv, UNCHANGED resolverVars, phase' \in {"resolve", "nodes", "edges", "done"},
         phase = "resolve" => phase' = "resolve"
  PROVE  ResolverInv'
<1>1. /\ config' = config /\ at' = at /\ walked' = walked /\ links' = links
      /\ referenced' = referenced /\ orphaned' = orphaned
  BY DEF resolverVars
<1>2. Emitted' = Emitted /\ _find_orphans' = _find_orphans
  BY <1>1 DEF Emitted, _find_orphans
<1> QED BY <1>1, <1>2, SameConfig DEF ResolverInv

LEMMA WalkRefInv == ASSUME BuildInv, WalkReference PROVE BuildInv'
<1>1. PICK r \in Walked(at) \ walked :
        /\ walked' = walked \cup {r} /\ links' = Append(links, LinkOf(r))
        /\ referenced' = referenced \cup Marks(LinkOf(r))
  BY DEF WalkReference
<1>2. /\ phase = "resolve" /\ phase' = phase /\ config' = config /\ at' = at
      /\ orphaned' = orphaned /\ built' = built /\ nodes' = nodes /\ edges' = edges
  BY DEF WalkReference
<1>3. r \in config.references /\ r.row \in Read /\ Links(r)
  BY <1>1 DEF Walked, Read, BuildInv, ResolverInv
<1>4. links' \in Seq({LinkOf(q) : q \in config.references})
  BY <1>1, <1>3 DEF BuildInv, ResolverInv
<1>5. Emitted' = Emitted \cup {LinkOf(r)}
  <2> DEFINE L == {LinkOf(q) : q \in config.references}
  <2>1. links \in Seq(L) /\ LinkOf(r) \in L
    BY <1>3 DEF BuildInv, ResolverInv
  <2>2. /\ Len(links') = Len(links) + 1 /\ Len(links) \in Nat
        /\ \A i \in 1..Len(links) : links'[i] = links[i]
        /\ links'[Len(links) + 1] = LinkOf(r)
    <3> HIDE DEF L
    <3> QED BY <1>1, <2>1
  <2>3. 1..Len(links') = (1..Len(links)) \cup {Len(links) + 1}
    BY <2>2
  <2> QED BY <2>2, <2>3 DEF Emitted
<1>6. Emitted' = {LinkOf(q) : q \in walked'}
  BY <1>1, <1>5 DEF BuildInv, ResolverInv
<1>7. referenced' = {Target(q) : q \in {q \in walked' : q.row.ref \in Tracked}}
  <2>1. LinkOf(r).target = Target(r)
    BY <1>3, LinkEnds DEF BuildInv, ResolverInv
  <2>2. Target(r)[1] = r.row.ref
    BY DEF Target
  <2>3. Marks(LinkOf(r)) = IF r.row.ref \in Tracked THEN {Target(r)} ELSE {}
    BY <2>1, <2>2 DEF Marks
  <2>4. referenced = {Target(q) : q \in {q \in walked : q.row.ref \in Tracked}}
    BY DEF BuildInv, ResolverInv
  <2> QED BY <1>1, <2>3, <2>4
<1>8. \A f \in 1..Len(Families) : f < at => Walked(f) \subseteq walked'
  BY <1>1 DEF BuildInv, ResolverInv
<1>9. walked' \subseteq {q \in config.references : q.row \in Read /\ Links(q)}
  BY <1>1, <1>3 DEF BuildInv, ResolverInv
<1>10. \A q : Target(q)' = Target(q)
  BY DEF Target, RefName
<1>11. ResolverInv'
  BY <1>2, <1>4, <1>6, <1>7, <1>8, <1>9, <1>10, SameConfig DEF BuildInv, ResolverInv
<1>12. GraphInv'
  <2>1. built = 0 /\ DOMAIN edges = {}
    BY <1>2 DEF BuildInv, GraphInv
  <2>2. Len(links') \in Nat
    BY <1>4
  <2> QED BY <1>2, <2>1, <2>2 DEF GraphInv
<1> QED BY <1>11, <1>12 DEF BuildInv

LEMMA FamilyInv == ASSUME BuildInv, NextFamily PROVE BuildInv'
<1>1. /\ phase = "resolve" /\ at < Len(Families) /\ Walked(at) \subseteq walked /\ at' = at + 1
      /\ phase' = phase /\ config' = config /\ walked' = walked /\ links' = links
      /\ referenced' = referenced /\ orphaned' = orphaned /\ built' = built
      /\ nodes' = nodes /\ edges' = edges
  BY DEF NextFamily
<1>2. \A f \in 1..Len(Families) : f < at + 1 => Walked(f) \subseteq walked
  BY <1>1, FamiliesLength DEF BuildInv, ResolverInv
<1>3. at + 1 \in 1..Len(Families)
  BY <1>1, FamiliesLength DEF BuildInv, ResolverInv
<1>4. Emitted' = Emitted /\ \A q : Target(q)' = Target(q)
  BY <1>1 DEF Emitted, Target, RefName
<1>5. ResolverInv'
  BY <1>1, <1>2, <1>3, <1>4, SameConfig DEF BuildInv, ResolverInv
<1>6. GraphInv'
  BY <1>1 DEF BuildInv, GraphInv
<1> QED BY <1>5, <1>6 DEF BuildInv

LEMMA ReportInv == ASSUME BuildInv, ReturnReport PROVE BuildInv'
<1>1. /\ phase = "resolve" /\ at = Len(Families) /\ Walked(at) \subseteq walked
      /\ orphaned' = _find_orphans /\ phase' = "nodes"
      /\ config' = config /\ at' = at /\ walked' = walked /\ links' = links
      /\ referenced' = referenced /\ built' = built /\ nodes' = nodes /\ edges' = edges
  BY DEF ReturnReport
<1>2. Emitted' = Emitted /\ _find_orphans' = _find_orphans /\ \A q : Target(q)' = Target(q)
  BY <1>1 DEF Emitted, _find_orphans, Target, RefName
<1>3. ResolverInv'
  BY <1>1, <1>2, SameConfig DEF BuildInv, ResolverInv
<1>4. GraphInv'
  BY <1>1 DEF BuildInv, GraphInv
<1> QED BY <1>3, <1>4 DEF BuildInv

LEMMA NodesInv == ASSUME BuildInv, AddDefinedNodes PROVE BuildInv'
<1>1. /\ phase = "nodes" /\ phase' = "edges" /\ UNCHANGED resolverVars
      /\ built' = built /\ edges' = edges
      /\ nodes' = [id \in {_node_id(o) : o \in config.objects} |->
                     IF id \in orphaned THEN "orphan" ELSE "ok"]
  BY DEF AddDefinedNodes
<1>2. /\ config' = config /\ links' = links /\ orphaned' = orphaned
  BY <1>1 DEF resolverVars
<1>3. ResolverInv'
  BY <1>1, SameResolver DEF BuildInv
<1>4. built = 0 /\ DOMAIN edges = {} /\ 1..0 = {}
  BY <1>1 DEF BuildInv, GraphInv
<1>5. DOMAIN nodes' = Defined
  BY <1>1 DEF Defined
<1>6. Len(links) \in Nat
  BY DEF BuildInv, ResolverInv
<1>7. \A id \in Defined : nodes'[id] = IF id \in orphaned THEN "orphan" ELSE "ok"
  BY <1>1 DEF Defined
<1>8. GraphInv'
  BY <1>1, <1>2, <1>4, <1>5, <1>6, <1>7, SameConfig DEF GraphInv
<1> QED BY <1>3, <1>8 DEF BuildInv

(* The link taken has its source among the nodes; its target is there, or  *)
(* is not defined and becomes a ghost.                                     *)
LEMMA LinkInv == ASSUME BuildInv, AddLink PROVE BuildInv'
<1> DEFINE k == built + 1
           l == links[k]
           e == <<l.source, l.target>>
<1>1. /\ phase = "edges" /\ built < Len(links) /\ built' = k /\ phase' = phase /\ UNCHANGED resolverVars
      /\ nodes' = WithTarget(l)
      /\ edges' = IF l.source \in DOMAIN nodes
                  THEN Extended(edges, e, [field |-> l.field, resolved |-> l.resolved]) ELSE edges
  BY DEF AddLink
<1>2. /\ config' = config /\ links' = links /\ orphaned' = orphaned
  BY <1>1 DEF resolverVars
<1>3. ResolverInv'
  BY <1>1, SameResolver DEF BuildInv
<1>4. /\ built \in Nat /\ Len(links) \in Nat /\ k \in 1..Len(links)
      /\ 1..k = (1..built) \cup {k}
  BY <1>1 DEF BuildInv, GraphInv, ResolverInv
<1>5. PICK r \in config.references : l = LinkOf(r)
  BY <1>4 DEF BuildInv, ResolverInv
<1>6. l.source \in Defined /\ (l.resolved <=> l.target \in Defined)
  BY <1>5, LinkEnds DEF BuildInv, ResolverInv
<1>7. /\ DOMAIN nodes = Defined \cup {links[i].target : i \in 1..built}
      /\ \A id \in DOMAIN nodes :
           nodes[id] = IF id \notin Defined THEN "missing" ELSE IF id \in orphaned THEN "orphan" ELSE "ok"
      /\ DOMAIN edges = {<<links[i].source, links[i].target>> : i \in 1..built}
      /\ \A x \in DOMAIN edges : edges[x].resolved <=> x[2] \in Defined
  BY <1>1 DEF BuildInv, GraphInv
<1> HIDE DEF k, l, e
<1>8. nodes' = IF l.target \in DOMAIN nodes THEN nodes ELSE Extended(nodes, l.target, "missing")
  BY <1>1, <1>6, <1>7 DEF WithTarget
<1>9. DOMAIN nodes' = DOMAIN nodes \cup {l.target}
  BY <1>8 DEF Extended
<1>10. \A id \in DOMAIN nodes' :
         nodes'[id] = IF id \notin Defined THEN "missing" ELSE IF id \in orphaned THEN "orphan" ELSE "ok"
  BY <1>7, <1>8, <1>9 DEF Extended
<1>11. edges' = Extended(edges, e, [field |-> l.field, resolved |-> l.resolved])
  BY <1>1, <1>6, <1>7
<1>12. DOMAIN edges' = DOMAIN edges \cup {e}
  BY <1>11 DEF Extended
<1>13. \A x \in DOMAIN edges' : edges'[x].resolved <=> x[2] \in Defined
  <2>1. edges'[e].resolved = l.resolved /\ e[2] = l.target
    BY <1>11 DEF Extended, e
  <2>2. \A x \in DOMAIN edges' : x # e => x \in DOMAIN edges /\ edges'[x] = edges[x]
    BY <1>11, <1>12 DEF Extended
  <2> QED BY <1>6, <1>7, <2>1, <2>2
<1>14. DOMAIN nodes' = Defined \cup {links[i].target : i \in 1..k}
  BY <1>4, <1>7, <1>9 DEF l
<1>15. DOMAIN edges' = {<<links[i].source, links[i].target>> : i \in 1..k}
  BY <1>4, <1>7, <1>12 DEF l, e
<1>16. GraphInv'
  BY <1>1, <1>2, <1>4, <1>10, <1>13, <1>14, <1>15, SameConfig DEF GraphInv
<1> QED BY <1>3, <1>16 DEF BuildInv

LEMMA GraphDoneInv == ASSUME BuildInv, ReturnGraph PROVE BuildInv'
<1>1. /\ phase = "edges" /\ built = Len(links) /\ phase' = "done" /\ UNCHANGED resolverVars
      /\ built' = built /\ nodes' = nodes /\ edges' = edges
  BY DEF ReturnGraph
<1>2. config' = config /\ links' = links /\ orphaned' = orphaned
  BY <1>1 DEF resolverVars
<1>3. ResolverInv'
  BY <1>1, SameResolver DEF BuildInv
<1>4. GraphInv'
  BY <1>1, <1>2, SameConfig DEF BuildInv, GraphInv
<1> QED BY <1>3, <1>4 DEF BuildInv

LEMMA BuildStutterInv == ASSUME BuildInv, UNCHANGED graphVars PROVE BuildInv'
<1>1. /\ UNCHANGED resolverVars /\ config' = config /\ links' = links /\ orphaned' = orphaned
      /\ phase' = phase /\ built' = built /\ nodes' = nodes /\ edges' = edges
  BY DEF graphVars, resolverVars
<1>2. ResolverInv'
  BY <1>1, SameResolver DEF BuildInv, ResolverInv
<1>3. GraphInv'
  BY <1>1, SameConfig DEF BuildInv, GraphInv
<1> QED BY <1>2, <1>3 DEF BuildInv

THEOREM BuildInvariantHolds == GraphSpec => []BuildInv
<1>1. GraphInit => BuildInv
  BY BuildInitInv
<1>2. BuildInv /\ [GraphNext]_graphVars => BuildInv'
  BY WalkRefInv, FamilyInv, ReportInv, NodesInv, LinkInv, GraphDoneInv, BuildStutterInv DEF GraphNext
<1> QED BY <1>1, <1>2, PTL DEF GraphSpec

-----------------------------------------------------------------------------
(* When the families have all been walked, so has every reference that is  *)
(* read.                                                                   *)
LEMMA AllWalked ==
  ASSUME BuildInv, phase # "resolve", NEW r \in config.references, r.row \in Read, Links(r)
  PROVE  r \in walked
<1>1. PICK f \in 1..Len(Families) : r.row \in Families[f]
  BY DEF Read
<1>2. r \in Walked(f)
  BY <1>1 DEF Walked
<1>3. f < at \/ f = at
  BY <1>1, FamiliesLength DEF BuildInv, ResolverInv
<1> QED BY <1>2, <1>3 DEF BuildInv, ResolverInv

(* A link dangles exactly when its target is not the node of an object.    *)
THEOREM DanglingCorrect == GraphSpec => []DanglingIsUndefined
<1>1. BuildInv => DanglingIsUndefined
  <2> SUFFICES ASSUME BuildInv, NEW l \in Emitted PROVE l.resolved <=> l.target \in Defined
    BY DEF DanglingIsUndefined
  <2>1. PICK r \in config.references : l = LinkOf(r)
    BY DEF BuildInv, ResolverInv
  <2> QED BY <2>1, LinkEnds DEF BuildInv, ResolverInv
<1> QED BY <1>1, BuildInvariantHolds, PTL

(* Every reference that is read is an edge, marked as it should be.        *)
THEOREM LinksDrawn == GraphSpec => []EveryLinkDrawn
<1>1. BuildInv => EveryLinkDrawn
  <2> SUFFICES ASSUME BuildInv, phase = "done", NEW r \in config.references, r.row \in Read, Links(r)
               PROVE  LET e == <<_node_id(r.source), <<r.row.ref, RefName(r)>>>>
                      IN  e \in DOMAIN edges /\ (edges[e].resolved <=> e[2] \in Defined)
    BY DEF EveryLinkDrawn
  <2> DEFINE e == <<_node_id(r.source), Target(r)>>
  <2>1. LinkOf(r) \in Emitted
    BY AllWalked DEF BuildInv, ResolverInv
  <2>2. PICK i \in 1..Len(links) : links[i] = LinkOf(r)
    BY <2>1 DEF Emitted
  <2>3. e = <<links[i].source, links[i].target>>
    BY <2>2, LinkEnds DEF BuildInv, ResolverInv
  <2>4. e \in DOMAIN edges
    BY <2>2, <2>3 DEF BuildInv, GraphInv
  <2>5. edges[e].resolved <=> e[2] \in Defined
    BY <2>4 DEF BuildInv, GraphInv
  <2> QED BY <2>4, <2>5 DEF Target
<1> QED BY <1>1, BuildInvariantHolds, PTL

(* The orphans are what no read field of any family names.                 *)
THEOREM OrphansCorrect == GraphSpec => []OrphansAreUnlinked
<1>1. BuildInv => OrphansAreUnlinked
  <2> SUFFICES ASSUME BuildInv, phase = "done", NEW o \in config.objects, o.type \in Tracked
               PROVE  LET named == \E r \in config.references : r.row \in Read /\ Target(r) = _node_id(o)
                      IN  /\ _node_id(o) \in orphaned <=> ~named
                          /\ nodes[_node_id(o)] = IF named THEN "ok" ELSE "orphan"
    BY DEF OrphansAreUnlinked, Target
  <2> DEFINE named == \E r \in config.references : r.row \in Read /\ Target(r) = _node_id(o)
  <2>1. _node_id(o) \in {_node_id(x) : x \in {x \in config.objects : x.type \in Tracked}}
    OBVIOUS
  <2>2. \A g : _node_id(o) # <<"bgp_peer_group", g[1], g[2]>>
    BY DEF _node_id
  <2>3. orphaned = _find_orphans
    BY DEF BuildInv, ResolverInv
  <2>4. _node_id(o) \in orphaned <=> _node_id(o) \notin referenced
    BY <2>1, <2>2, <2>3, NamesAgree DEF _find_orphans
  <2>5. named => _node_id(o) \in referenced
    <3> SUFFICES ASSUME NEW r \in config.references, r.row \in Read, Target(r) = _node_id(o)
                 PROVE  _node_id(o) \in referenced
      OBVIOUS
    <3>1. r.row.ref = o.type
      BY DEF Target, _node_id
    <3>2. r \in walked
      BY <3>1, TrackedAreLinked, AllWalked
    <3> QED BY <3>1, <3>2 DEF BuildInv, ResolverInv
  <2>6. _node_id(o) \in referenced => named
    BY DEF BuildInv, ResolverInv
  <2>7. _node_id(o) \in Defined
    BY DEF Defined
  <2>8. nodes[_node_id(o)] = IF _node_id(o) \in orphaned THEN "orphan" ELSE "ok"
    BY <2>7 DEF BuildInv, GraphInv
  <2> HIDE DEF named
  <2>9. /\ _node_id(o) \in orphaned <=> ~named
        /\ nodes[_node_id(o)] = IF named THEN "ok" ELSE "orphan"
    BY <2>4, <2>5, <2>6, <2>8
  <2> QED BY <2>9 DEF named
<1> QED BY <1>1, BuildInvariantHolds, PTL

(* The graph has the defined objects, a ghost per missing target and no    *)
(* other node.                                                             *)
THEOREM GhostsCorrect == GraphSpec => []GhostsAreTheMissing
<1>1. BuildInv => GhostsAreTheMissing
  <2> SUFFICES ASSUME BuildInv, phase = "done" PROVE GhostsAreTheMissing
    BY DEF GhostsAreTheMissing
  <2>1. {links[i].target : i \in 1..built} = {l.target : l \in Emitted}
    BY DEF BuildInv, GraphInv, Emitted
  <2>2. DOMAIN nodes = Defined \cup {l.target : l \in Emitted}
    BY <2>1 DEF BuildInv, GraphInv
  <2>3. \A id \in DOMAIN nodes :
          nodes[id] = IF id \notin Defined THEN "missing" ELSE IF id \in orphaned THEN "orphan" ELSE "ok"
    BY DEF BuildInv, GraphInv
  <2> HIDE DEF BuildInv
  <2> QED BY <2>2, <2>3 DEF GhostsAreTheMissing
<1> QED BY <1>1, BuildInvariantHolds, PTL
=============================================================================
