-------------------------- MODULE IgpInstanceProofs --------------------------
(***************************************************************************)
(* Proofs about module IgpInstance: for scripts of any length, with any    *)
(* number of blocks, members and spellings, over any baseline, the replay  *)
(* leaves every member at its last word and no withdrawal is lost.         *)
(*                                                                         *)
(* The invariant says of each part of the state what it was made of: the   *)
(* instances, the queue and the ledger of the blocks read, the operations  *)
(* of instances and queue, and the configuration of the operations         *)
(* replayed, which nothing left precedes.  At the end each slot holds the  *)
(* value of its last operation, and the rest of the proof shows that this  *)
(* is what the last line about the slot says.                              *)
(***************************************************************************)
EXTENDS IgpInstance, WellFoundedInduction, TLAPS

(* Every non-empty set of natural numbers has a least element.             *)
LEMMA LeastElement ==
  ASSUME NEW S \in SUBSET Nat, S # {}
  PROVE  \E n \in S : \A m \in S : n <= m
<1> DEFINE Less == {ss \in Nat \X Nat : ss[1] < ss[2]}
<1>1. IsWellFoundedOn(Less, Nat)
  BY NatLessThanWellFounded DEF OpToRel
<1> HIDE DEF Less
<1>2. PICK n \in S : \A m \in S : ~(<<m, n>> \in Less)
  BY <1>1, WFMin
<1>3. \A m \in S : ~(m < n)
  BY <1>2 DEF Less
<1> QED BY <1>3

(* Every non-empty set of numbers up to N has a greatest element.          *)
LEMMA GreatestElement ==
  ASSUME NEW N \in Nat, NEW S \in SUBSET (1..N), S # {}
  PROVE  \E n \in S : \A m \in S : m <= n
<1> DEFINE T == {N - n : n \in S}
<1>1. T \in SUBSET Nat /\ T # {}
  <2>1. \A n \in S : n \in 1..N /\ N - n \in Nat
    OBVIOUS
  <2>2. PICK n \in S : TRUE
    OBVIOUS
  <2>3. N - n \in T
    OBVIOUS
  <2> QED BY <2>1, <2>3
<1>2. PICK t \in T : \A u \in T : t <= u
  <2> HIDE DEF T
  <2> QED BY <1>1, LeastElement
<1>3. PICK n \in S : t = N - n
  OBVIOUS
<1>4. \A m \in S : N - n <= N - m
  BY <1>2, <1>3
<1>5. \A m \in S : m <= n
  BY <1>4
<1> QED BY <1>5

-----------------------------------------------------------------------------
(* The blocks of a script. *)

Given == <<protocol, script>> \in Scripts

(* What the assumption says of the script at hand.                         *)
LEMMA GivenScript ==
  ASSUME Given
  PROVE  /\ protocol \in Protocols /\ script \in Seq(Line) /\ 1 \in Headers
         /\ \A n \in Lines :
              /\ script[n] \in Line /\ script[n].kind \in KindsOf(protocol) \cup {"header"}
              /\ ~script[n].no /\ script[n].kind \notin Valued \cup {"header"} => script[n].val = On
              /\ \A m \in Lines :
                   script[n].kind = "default_information" /\ script[m].kind = "default_information"
                     => script[n].key = script[m].key
<1> DEFINE s == <<protocol, script>>
<1>1. s \in Scripts /\ s[1] = protocol /\ s[2] = script
  BY DEF Given
<1> HIDE DEF s
<1>2. /\ protocol \in Protocols /\ script \in Seq(Line)
      /\ Len(script) >= 1 /\ script[1].kind = "header"
      /\ \A n \in 1..Len(script) :
           /\ script[n].kind \in KindsOf(protocol) \cup {"header"}
           /\ ~script[n].no /\ script[n].kind \notin Valued \cup {"header"} => script[n].val = On
           /\ \A m \in 1..Len(script) :
                script[n].kind = "default_information" /\ script[m].kind = "default_information"
                  => script[n].key = script[m].key
  BY <1>1, ScriptsAssumption
<1>3. 1 \in Headers
  BY <1>2 DEF Headers, Lines
<1>4. \A n \in Lines : script[n] \in Line
  BY <1>2 DEF Lines
<1> QED BY <1>2, <1>3, <1>4 DEF Lines

LEMMA KindsAre ==
  ASSUME Given
  PROVE  /\ KindsOf(protocol) \subseteq Kinds /\ "header" \notin Kinds
         /\ Withdrawable(protocol) \subseteq KindsOf(protocol) \ {"log_adjacency"}
<1>1. protocol \in Protocols
  BY GivenScript
<1> QED BY <1>1 DEF Protocols, KindsOf, Withdrawable, Kinds, AreaKinds

(* Every line that is not a header is a child of one block.                *)
LEMMA BlockOfLine ==
  ASSUME Given, NEW n \in Lines, n \notin Headers
  PROVE  \E h \in Headers : n \in Children(h)
<1>1. script \in Seq(Line) /\ 1 \in Headers /\ Len(script) \in Nat
  BY GivenScript
<1> DEFINE S == {h \in Headers : h < n}
<1>2. S \in SUBSET (1..Len(script)) /\ 1 \in S
  <2>1. n # 1 /\ n \in 1..Len(script)
    BY <1>1 DEF Lines
  <2> QED BY <1>1, <2>1 DEF Headers, Lines
<1>3. PICK h \in S : \A m \in S : m <= h
  <2> HIDE DEF S
  <2> QED BY <1>1, <1>2, GreatestElement
<1>4. \A m \in Headers : ~(h < m /\ m <= n)
  <2> SUFFICES ASSUME NEW m \in Headers, h < m, m <= n PROVE FALSE
    OBVIOUS
  <2>1. m \in Nat /\ h \in Nat /\ n \in Nat /\ m # n
    BY <1>1 DEF Headers, Lines
  <2>2. m < n
    BY <2>1
  <2> QED BY <1>3, <2>1, <2>2
<1> QED BY <1>3, <1>4 DEF Children

(* The block of a later line does not open before that of an earlier one.  *)
LEMMA BlocksInOrder ==
  ASSUME Given, NEW h \in Headers, NEW g \in Headers,
         NEW n \in Children(h), NEW m \in Children(g), m <= n
  PROVE  g <= h
<1>1. script \in Seq(Line) /\ Len(script) \in Nat
  BY GivenScript
<1>2. h \in Nat /\ g \in Nat /\ n \in Nat /\ m \in Nat
  BY <1>1 DEF Headers, Children, Lines
<1>3. ~(h < g /\ g <= n) /\ g < m
  BY DEF Children
<1> QED BY <1>2, <1>3

LEMMA OneBlock ==
  ASSUME Given, NEW h \in Headers, NEW g \in Headers,
         NEW n \in Children(h), n \in Children(g)
  PROVE  g = h
<1>1. script \in Seq(Line) /\ Len(script) \in Nat
  BY GivenScript
<1>2. h \in Nat /\ g \in Nat /\ n \in Nat
  BY <1>1 DEF Headers, Children, Lines
<1>3. g <= h /\ h <= g
  BY <1>2, BlocksInOrder
<1> QED BY <1>2, <1>3

(* What lies between the header of a block and a child of it is a child.   *)
LEMMA Between ==
  ASSUME Given, NEW h \in Headers, NEW n \in Children(h),
         NEW m \in Lines, h <= m, m <= n, m \notin Headers
  PROVE  m \in Children(h)
<1>1. script \in Seq(Line) /\ Len(script) \in Nat
  BY GivenScript
<1>2. h \in Nat /\ n \in Nat /\ m \in Nat /\ h # m
  BY <1>1 DEF Headers, Children, Lines
<1>3. \A x \in Headers : ~(h < x /\ x <= n) /\ x \in Nat
  BY <1>1 DEF Children, Headers, Lines
<1>4. \A x \in Headers : ~(h < x /\ x <= m)
  BY <1>2, <1>3
<1> QED BY <1>2, <1>4 DEF Children

-----------------------------------------------------------------------------
(* What a block becomes. *)

MembersOf(h) ==
  CASE protocol = "ospf"  -> OspfMembers(h)
    [] protocol = "eigrp" -> EigrpMembers(h)
    [] protocol = "isis"  -> IsisMembers(h)

RemovalsOf(h) ==
  CASE protocol = "ospf"  -> OspfOps(h)
    [] protocol = "eigrp" -> EigrpOps(h)
    [] protocol = "isis"  -> IsisOps(h)

ClaimsOf(h) ==
  CASE protocol = "ospf"  -> OspfClaims(h)
    [] protocol = "eigrp" -> EigrpClaims(h)
    [] protocol = "isis"  -> IsisClaims(h)

Positive(h) == {n \in Children(h) : ~script[n].no /\ script[n].kind \in KindsOf(protocol) \ {"log_adjacency"}}

AreaLines(h) == {n \in Children(h) : script[n].kind \in AreaKinds /\ ~script[n].no}

Opens(h, f, n) ==
  /\ f \in AreaLines(h) /\ RawKey(f) = RawKey(n)
  /\ \A m \in AreaLines(h) : RawKey(m) = RawKey(n) => f <= m

Replaced(h, n) ==
  script[n].kind = "filter_list" /\ \E m \in Stating(h, "filter_list") : m > n /\ RawKey(m) = RawKey(n)

(* The group of a member: the line that opens its area, none elsewhere.    *)
Grouped(h, n, g) ==
  IF script[n].kind \in AreaKinds THEN Opens(h, g, n) ELSE g = 0

LEMMA AreasAre ==
  ASSUME NEW h
  PROVE  _parse_ospf_areas(h) =
           {Member(p[1], p[2]) : p \in {p \in AreaLines(h) \X AreaLines(h) :
              Opens(h, p[2], p[1]) /\ ~Replaced(h, p[1])}}
BY DEF _parse_ospf_areas, AreaLines, Opens, Replaced

LEMMA AreaMembers ==
  ASSUME NEW h, NEW m \in _parse_ospf_areas(h)
  PROVE  \E n \in AreaLines(h), g \in AreaLines(h) : m = Member(n, g) /\ Opens(h, g, n)
<1>1. PICK p \in AreaLines(h) \X AreaLines(h) : m = Member(p[1], p[2]) /\ Opens(h, p[2], p[1])
  BY AreasAre
<1> QED BY <1>1

(* A member comes from one positive line of the block.                     *)
LEMMA MembersAre ==
  ASSUME Given, NEW h \in Headers, NEW m \in MembersOf(h)
  PROVE  \E n \in Positive(h), g \in Nat : m = Member(n, g) /\ Grouped(h, n, g)
<1>1. protocol \in Protocols /\ script \in Seq(Line) /\ Len(script) \in Nat
  BY GivenScript
<1>2. ASSUME NEW kind \in KindsOf(protocol) \ (AreaKinds \cup {"log_adjacency"}), m \in Members(h, kind)
      PROVE  \E n \in Positive(h), g \in Nat : m = Member(n, g) /\ Grouped(h, n, g)
  <2>1. PICK n \in Stating(h, kind) : m = Member(n, 0)
    BY <1>2 DEF Members
  <2>2. n \in Positive(h) /\ Grouped(h, n, 0)
    BY <1>2, <2>1 DEF Stating, Positive, Grouped
  <2> QED BY <2>1, <2>2
<1>3. ASSUME m \in DefaultInformation(h), "default_information" \in KindsOf(protocol)
      PROVE  m \in Members(h, "default_information")
  BY <1>3 DEF DefaultInformation, Members
<1>4. CASE protocol = "ospf"
  <2>1. KindsOf(protocol) = Kinds
    BY <1>4 DEF KindsOf
  <2>2. /\ "network" \in Kinds \ (AreaKinds \cup {"log_adjacency"})
        /\ "redistribute" \in Kinds \ (AreaKinds \cup {"log_adjacency"})
        /\ "default_information" \in Kinds \ (AreaKinds \cup {"log_adjacency"})
    BY DEF Kinds, AreaKinds
  <2>3. CASE m \in _parse_ospf_areas(h)
    <3>1. PICK n \in AreaLines(h), g \in AreaLines(h) : m = Member(n, g) /\ Opens(h, g, n)
      BY <2>3, AreaMembers
    <3>2. n \in Positive(h) /\ Grouped(h, n, g) /\ g \in Nat
      BY <1>1, <2>1, <3>1 DEF AreaLines, Positive, Grouped, Children, Lines, Kinds, AreaKinds
    <3> QED BY <3>1, <3>2
  <2>4. CASE m \in DefaultInformation(h) \cup Members(h, "network") \cup Members(h, "redistribute")
    BY <1>2, <1>3, <2>1, <2>2, <2>4
  <2> QED BY <1>4, <2>3, <2>4 DEF MembersOf, OspfMembers, _parse_ospf_redistribute
<1>5. CASE protocol = "eigrp"
  <2>1. /\ "network" \in KindsOf(protocol) \ (AreaKinds \cup {"log_adjacency"})
        /\ "redistribute" \in KindsOf(protocol) \ (AreaKinds \cup {"log_adjacency"})
    BY <1>5 DEF KindsOf, AreaKinds
  <2>2. m \in Members(h, "network") \cup Members(h, "redistribute")
    BY <1>5 DEF MembersOf, EigrpMembers
  <2> QED BY <1>2, <2>1, <2>2
<1>6. CASE protocol = "isis"
  <2>1. /\ "network" \in KindsOf(protocol) \ (AreaKinds \cup {"log_adjacency"})
        /\ "redistribute" \in KindsOf(protocol) \ (AreaKinds \cup {"log_adjacency"})
        /\ "default_information" \in KindsOf(protocol) \ (AreaKinds \cup {"log_adjacency"})
    BY <1>6 DEF KindsOf, AreaKinds
  <2>2. m \in DefaultInformation(h) \cup Members(h, "network") \cup Members(h, "redistribute")
    BY <1>6 DEF MembersOf, IsisMembers
  <2> QED BY <1>2, <1>3, <2>1, <2>2
<1> QED BY <1>1, <1>4, <1>5, <1>6 DEF Protocols

(* An area is opened by the first line of the block that spells its id.    *)
LEMMA AreaOpened ==
  ASSUME Given, NEW h \in Headers, NEW n \in AreaLines(h)
  PROVE  \E f \in AreaLines(h) : Opens(h, f, n)
<1>1. script \in Seq(Line) /\ Len(script) \in Nat
  BY GivenScript
<1> DEFINE S == {m \in AreaLines(h) : RawKey(m) = RawKey(n)}
<1>2. S \in SUBSET Nat /\ n \in S
  BY <1>1 DEF AreaLines, Children, Lines
<1>3. PICK f \in S : \A m \in S : f <= m
  <2> HIDE DEF S
  <2> QED BY <1>2, LeastElement
<1> QED BY <1>3 DEF Opens

(* Every positive line has a member, but for a filter list replaced by a   *)
(* later one of its area and a repeated `default-information`.             *)
LEMMA MembersComplete ==
  ASSUME Given, NEW h \in Headers, NEW n \in Positive(h), ~Replaced(h, n)
  PROVE  \/ \E g \in Nat : Member(n, g) \in MembersOf(h) /\ Grouped(h, n, g)
         \/ /\ script[n].kind = "default_information"
            /\ \E m \in Stating(h, "default_information") : Member(m, 0) \in MembersOf(h)
<1> DEFINE kind == script[n].kind
<1>1. protocol \in Protocols /\ script \in Seq(Line) /\ Len(script) \in Nat
  BY GivenScript
<1>2. n \in Stating(h, kind) /\ kind \in KindsOf(protocol) \ {"log_adjacency"}
  BY DEF Positive, Stating
<1>3. kind \in {"network", "redistribute", "default_information"} \cup AreaKinds
  BY <1>2, KindsAre DEF Kinds
<1>4. CASE kind = "default_information"
  <2>1. Stating(h, "default_information") \in SUBSET Nat
    BY <1>1 DEF Stating, Children, Lines
  <2>2. PICK m \in Stating(h, "default_information") : \A o \in Stating(h, "default_information") : m <= o
    BY <1>2, <1>4, <2>1, LeastElement
  <2>3. Member(m, 0) \in DefaultInformation(h)
    BY <2>2 DEF DefaultInformation
  <2>4. protocol \in {"ospf", "isis"}
    BY <1>1, <1>2, <1>4 DEF Protocols, KindsOf
  <2>5. Member(m, 0) \in MembersOf(h)
    BY <2>3, <2>4 DEF MembersOf, OspfMembers, IsisMembers
  <2> QED BY <1>4, <2>2, <2>5
<1>5. CASE kind \in AreaKinds
  <2>1. protocol = "ospf"
    BY <1>1, <1>2, <1>5 DEF Protocols, KindsOf, AreaKinds
  <2>2. n \in AreaLines(h)
    BY <1>5 DEF Positive, AreaLines
  <2>3. PICK f \in AreaLines(h) : Opens(h, f, n)
    BY <2>2, AreaOpened
  <2>4. Member(n, f) \in _parse_ospf_areas(h)
    <3>1. <<n, f>> \in {p \in AreaLines(h) \X AreaLines(h) : Opens(h, p[2], p[1]) /\ ~Replaced(h, p[1])}
      BY <2>2, <2>3
    <3> QED BY <3>1, AreasAre
  <2>5. Member(n, f) \in MembersOf(h)
    BY <2>1, <2>4 DEF MembersOf, OspfMembers
  <2>6. Grouped(h, n, f) /\ f \in Nat
    BY <1>1, <1>5, <2>3 DEF Grouped, AreaLines, Children, Lines
  <2> QED BY <2>5, <2>6
<1>6. CASE kind \in {"network", "redistribute"}
  <2>1. Member(n, 0) \in Members(h, kind)
    BY <1>2 DEF Members
  <2>2. Member(n, 0) \in MembersOf(h)
    BY <1>1, <1>6, <2>1 DEF Protocols, MembersOf, OspfMembers, EigrpMembers, IsisMembers, _parse_ospf_redistribute
  <2>3. Grouped(h, n, 0)
    BY <1>6 DEF Grouped, AreaKinds
  <2> QED BY <2>2, <2>3
<1> QED BY <1>3, <1>4, <1>5, <1>6

-----------------------------------------------------------------------------
(* What a block queues and claims. *)

Withdrawal(h, n, o) ==
  /\ n \in Children(h) /\ script[n].no /\ script[n].kind \in Withdrawable(protocol) /\ ~StatedLater(h, n)
  /\ \E verb \in {"LIST_REMOVE", "UNSET"} : o = Removal(verb, n)

LogOp(n) == Op("SET", [Member(n, 0) EXCEPT !.val = IF script[n].no THEN Off ELSE On], n)

Logged(h, n, o) ==
  n \in Children(h) /\ script[n].kind = "log_adjacency" /\ o = LogOp(n)

LEMMA RemovalsOfKind ==
  ASSUME NEW h, NEW kind \in Withdrawable(protocol), NEW verb \in {"LIST_REMOVE", "UNSET"},
         NEW o \in Removals(h, kind, verb)
  PROVE  \E n \in Children(h) : Withdrawal(h, n, o)
<1>1. PICK n \in Negating(h, kind) : ~StatedLater(h, n) /\ o = Removal(verb, n)
  BY DEF Removals
<1>2. n \in Children(h) /\ script[n].no /\ script[n].kind = kind
  BY <1>1 DEF Negating
<1>3. Withdrawal(h, n, o)
  BY <1>1, <1>2 DEF Withdrawal
<1> QED BY <1>2, <1>3

LEMMA RemovalsAre ==
  ASSUME Given, NEW h \in Headers, NEW o \in RemovalsOf(h)
  PROVE  \E n \in Children(h) : Withdrawal(h, n, o) \/ Logged(h, n, o)
<1>1. protocol \in Protocols
  BY GivenScript
<1>2. ASSUME NEW kind \in Withdrawable(protocol), NEW verb \in {"LIST_REMOVE", "UNSET"},
             o \in Removals(h, kind, verb)
      PROVE  \E n \in Children(h) : Withdrawal(h, n, o) \/ Logged(h, n, o)
  BY <1>2, RemovalsOfKind
<1>3. CASE protocol = "ospf"
  <2>1. /\ "network" \in Withdrawable(protocol) /\ "range" \in Withdrawable(protocol)
        /\ "redistribute" \in Withdrawable(protocol) /\ "default_information" \in Withdrawable(protocol)
        /\ "virtual_link" \in Withdrawable(protocol) /\ "filter_list" \in Withdrawable(protocol)
    BY <1>3 DEF Withdrawable, Kinds, AreaKinds
  <2>2. CASE o \in LogAdjacencyOps(h)
    BY <2>2 DEF LogAdjacencyOps, Logged, LogOp
  <2>3. o \in LogAdjacencyOps(h) \/ o \in Removals(h, "network", "LIST_REMOVE")
        \/ o \in Removals(h, "range", "LIST_REMOVE") \/ o \in Removals(h, "redistribute", "LIST_REMOVE")
        \/ o \in Removals(h, "default_information", "UNSET") \/ o \in Removals(h, "virtual_link", "LIST_REMOVE")
        \/ o \in Removals(h, "filter_list", "UNSET")
    BY <1>3 DEF RemovalsOf, OspfOps, _queue_ospf_network_removal_ops, RangeRemovals, RedistributeRemovals,
                DefaultInformationRemovals, VirtualLinkRemovals, FilterListRemovals
  <2> QED BY <1>2, <2>1, <2>2, <2>3
<1>4. CASE protocol = "eigrp"
  <2>1. "network" \in Withdrawable(protocol) /\ "redistribute" \in Withdrawable(protocol)
    BY <1>4 DEF Withdrawable
  <2>2. o \in Removals(h, "network", "LIST_REMOVE") \/ o \in Removals(h, "redistribute", "LIST_REMOVE")
    BY <1>4 DEF RemovalsOf, EigrpOps
  <2> QED BY <1>2, <2>1, <2>2
<1>5. CASE protocol = "isis"
  <2>1. "network" \in Withdrawable(protocol) /\ o \in Removals(h, "network", "LIST_REMOVE")
    BY <1>5 DEF Withdrawable, RemovalsOf, IsisOps
  <2> QED BY <1>2, <2>1
<1> QED BY <1>1, <1>3, <1>4, <1>5 DEF Protocols

(* Every negation some walk matches, and that is not stated later in its   *)
(* block, is queued.                                                       *)
LEMMA RemovalsComplete ==
  ASSUME Given, NEW h \in Headers, NEW n \in Children(h), script[n].no,
         script[n].kind \in Withdrawable(protocol), ~StatedLater(h, n)
  PROVE  \E verb \in {"LIST_REMOVE", "UNSET"} : Removal(verb, n) \in RemovalsOf(h)
<1> DEFINE kind == script[n].kind
<1>1. protocol \in Protocols
  BY GivenScript
<1>2. n \in Negating(h, kind)
  BY DEF Negating
<1>3. \A verb : Removal(verb, n) \in Removals(h, kind, verb)
  BY <1>2 DEF Removals
<1>4. CASE protocol = "ospf"
  <2>1. kind \in {"network", "range", "redistribute", "default_information", "virtual_link", "filter_list"}
    BY <1>4 DEF Withdrawable, Kinds, AreaKinds
  <2>2. /\ kind = "default_information" \/ kind = "filter_list" => Removal("UNSET", n) \in RemovalsOf(h)
        /\ kind \in {"network", "range", "redistribute", "virtual_link"} => Removal("LIST_REMOVE", n) \in RemovalsOf(h)
    <3> HIDE DEF kind
    <3> QED BY <1>3, <1>4 DEF RemovalsOf, OspfOps, _queue_ospf_network_removal_ops, RangeRemovals, RedistributeRemovals,
                DefaultInformationRemovals, VirtualLinkRemovals, FilterListRemovals
  <2> QED BY <2>1, <2>2
<1>5. CASE protocol = "eigrp"
  <2>1. kind \in {"network", "redistribute"}
    BY <1>5 DEF Withdrawable
  <2>2. Removal("LIST_REMOVE", n) \in RemovalsOf(h)
    <3> HIDE DEF kind
    <3> QED BY <1>3, <1>5, <2>1 DEF RemovalsOf, EigrpOps
  <2> QED BY <2>2
<1>6. CASE protocol = "isis"
  <2>1. kind = "network"
    BY <1>6 DEF Withdrawable
  <2>2. Removal("LIST_REMOVE", n) \in RemovalsOf(h)
    <3> HIDE DEF kind
    <3> QED BY <1>3, <1>6, <2>1 DEF RemovalsOf, IsisOps
  <2> QED BY <2>2
<1> QED BY <1>1, <1>4, <1>5, <1>6 DEF Protocols

LEMMA LogComplete ==
  ASSUME Given, NEW h \in Headers, NEW n \in Children(h), script[n].kind = "log_adjacency"
  PROVE  LogOp(n) \in RemovalsOf(h)
<1>1. protocol \in Protocols /\ n \in Lines
  BY GivenScript DEF Children
<1>2. "log_adjacency" \in KindsOf(protocol)
  BY <1>1, GivenScript
<1>3. protocol = "ospf"
  BY <1>1, <1>2 DEF Protocols, KindsOf
<1>4. LogOp(n) \in LogAdjacencyOps(h)
  BY DEF LogOp, LogAdjacencyOps
<1> QED BY <1>3, <1>4 DEF RemovalsOf, OspfOps

LEMMA ClaimsAre ==
  ASSUME Given, NEW h \in Headers, NEW n \in ClaimsOf(h)
  PROVE  n \in Children(h) /\ StatedLater(h, n)
<1>1. protocol \in Protocols
  BY GivenScript
<1>2. \A kind : n \in Suppressed(h, kind) => n \in Children(h) /\ StatedLater(h, n)
  BY DEF Suppressed, Negating
<1>3. \E kind : n \in Suppressed(h, kind)
  BY <1>1 DEF Protocols, ClaimsOf, OspfClaims, EigrpClaims, IsisClaims
<1> QED BY <1>2, <1>3

-----------------------------------------------------------------------------
(* The script does not change, nor does what its blocks become.            *)
LEMMA SameChildren ==
  ASSUME UNCHANGED <<protocol, script>>
  PROVE  /\ Lines' = Lines /\ Headers' = Headers
         /\ \A h : Children(h)' = Children(h)
         /\ \A h, kind : Stating(h, kind)' = Stating(h, kind) /\ Negating(h, kind)' = Negating(h, kind)
         /\ \A n : KeyOf(n)' = KeyOf(n) /\ RawKey(n)' = RawKey(n)
         /\ \A n, g : Member(n, g)' = Member(n, g)
<1>1. Lines' = Lines
  BY DEF Lines
<1>2. Headers' = Headers
  BY <1>1 DEF Headers
<1>3. \A h : Children(h)' = Children(h)
  BY <1>1, <1>2 DEF Children
<1>4. \A h, kind : Stating(h, kind)' = Stating(h, kind)
  BY <1>3 DEF Stating
<1>5. \A h, kind : Negating(h, kind)' = Negating(h, kind)
  BY <1>3 DEF Negating
<1>6. \A n : KeyOf(n)' = KeyOf(n) /\ RawKey(n)' = RawKey(n)
  BY DEF KeyOf, RawKey, CanonicalKey, TheOnlyOne
<1>7. \A n, g : Member(n, g)' = Member(n, g)
  BY DEF Member
<1> QED BY <1>1, <1>2, <1>3, <1>4, <1>5, <1>6, <1>7

LEMMA SameMembers ==
  ASSUME Given, UNCHANGED <<protocol, script>>, NEW h
  PROVE  MembersOf(h)' = MembersOf(h)
<1>1. \A kind : Members(h, kind)' = Members(h, kind)
  BY SameChildren DEF Members
<1>2. DefaultInformation(h)' = DefaultInformation(h)
  BY SameChildren DEF DefaultInformation
<1>3. _parse_ospf_areas(h)' = _parse_ospf_areas(h)
  <2>1. AreaLines(h)' = AreaLines(h)
    BY SameChildren DEF AreaLines
  <2>2. \A f, n : Opens(h, f, n)' <=> Opens(h, f, n)
    BY SameChildren, <2>1 DEF Opens
  <2>3. \A n : Replaced(h, n)' <=> Replaced(h, n)
    BY SameChildren DEF Replaced
  <2>4. _parse_ospf_areas(h)' =
           {Member(p[1], p[2])' : p \in {p \in AreaLines(h)' \X AreaLines(h)' :
              Opens(h, p[2], p[1])' /\ ~Replaced(h, p[1])'}}
    BY DEF _parse_ospf_areas, AreaLines, Opens, Replaced
  <2> QED BY SameChildren, <2>1, <2>2, <2>3, <2>4, AreasAre
<1>4. /\ OspfMembers(h)' = OspfMembers(h) /\ EigrpMembers(h)' = EigrpMembers(h)
      /\ IsisMembers(h)' = IsisMembers(h)
  BY <1>1, <1>2, <1>3 DEF OspfMembers, EigrpMembers, IsisMembers, _parse_ospf_redistribute
<1>5. protocol \in Protocols
  BY GivenScript
<1> QED BY <1>4, <1>5 DEF MembersOf, Protocols

LEMMA SameRemovals ==
  ASSUME Given, UNCHANGED <<protocol, script>>, NEW h
  PROVE  RemovalsOf(h)' = RemovalsOf(h) /\ ClaimsOf(h)' = ClaimsOf(h)
<1>1. \A n : StatedLater(h, n)' <=> StatedLater(h, n)
  BY SameChildren DEF StatedLater
<1>2. \A verb, n : Removal(verb, n)' = Removal(verb, n)
  BY SameChildren DEF Removal, Op
<1>3. \A kind, verb : Removals(h, kind, verb)' = Removals(h, kind, verb)
  BY SameChildren, <1>1, <1>2 DEF Removals
<1>4. \A kind : Suppressed(h, kind)' = Suppressed(h, kind)
  BY SameChildren, <1>1 DEF Suppressed
<1>5. LogAdjacencyOps(h)' = LogAdjacencyOps(h)
  BY SameChildren DEF LogAdjacencyOps, Op
<1>6. OspfOps(h)' = OspfOps(h) /\ EigrpOps(h)' = EigrpOps(h) /\ IsisOps(h)' = IsisOps(h)
  BY <1>3, <1>5 DEF OspfOps, EigrpOps, IsisOps, _queue_ospf_network_removal_ops, RangeRemovals,
                RedistributeRemovals, DefaultInformationRemovals, VirtualLinkRemovals, FilterListRemovals
<1>7. OspfClaims(h)' = OspfClaims(h) /\ EigrpClaims(h)' = EigrpClaims(h) /\ IsisClaims(h)' = IsisClaims(h)
  BY <1>4 DEF OspfClaims, EigrpClaims, IsisClaims
<1>8. protocol \in Protocols
  BY GivenScript
<1>9. RemovalsOf(h)' = RemovalsOf(h)
  BY <1>6, <1>8 DEF RemovalsOf, Protocols
<1>10. ClaimsOf(h)' = ClaimsOf(h)
  BY <1>7, <1>8 DEF ClaimsOf, Protocols
<1> QED BY <1>9, <1>10

-----------------------------------------------------------------------------
(* The inductive invariant. *)

BlocksRead ==
  /\ read \subseteq Headers
  /\ instances = {[line |-> h, members |-> MembersOf(h)] : h \in read}
  /\ pending = UNION {RemovalsOf(h) : h \in read}
  /\ ledger = UNION {ClaimsOf(h) : h \in read}

Attached == ops = {} \/ (read = Headers /\ ops = InstanceOps \cup pending)

(* Nothing left precedes what has been replayed.                           *)
InTurn ==
  /\ replayed \subseteq ops
  /\ \A o \in replayed, p \in ops \ replayed : InScriptOrder(o, p)

Slot(o) == <<o.kind, o.key>>
Value(o) == IF o.verb = "SET" THEN o.val ELSE Absent

(* A slot holds the value of the last operation about it.                  *)
LastOf(s, value, done) ==
  \/ value = baseline[s] /\ \A o \in done : Slot(o) # s
  \/ \E o \in done :
       /\ Slot(o) = s /\ value = Value(o)
       /\ \A p \in done : Slot(p) = s /\ p # o => InScriptOrder(p, o)

LastWord == \A s \in Slots : LastOf(s, config[s], replayed)

IInv ==
  /\ Given
  /\ baseline \in [Slots -> Settings] /\ config \in [Slots -> Settings]
  /\ BlocksRead /\ Attached /\ InTurn /\ LastWord

LEMMA InstanceOpsAre ==
  ASSUME BlocksRead, NEW o
  PROVE  o \in InstanceOps <=> \E h \in read : \E m \in MembersOf(h) : o = Op("SET", m, h)
<1>1. o \in InstanceOps <=> \E i \in instances : \E m \in i.members : o = Op("SET", m, i.line)
  BY DEF InstanceOps
<1>2. instances = {[line |-> h, members |-> MembersOf(h)] : h \in read}
  BY DEF BlocksRead
<1>3. ASSUME NEW i \in instances, NEW m \in i.members, o = Op("SET", m, i.line)
      PROVE  \E h \in read : \E x \in MembersOf(h) : o = Op("SET", x, h)
  <2>1. PICK h \in read : i = [line |-> h, members |-> MembersOf(h)]
    BY <1>2
  <2>2. i.line = h /\ i.members = MembersOf(h)
    BY <2>1
  <2>3. m \in MembersOf(h) /\ o = Op("SET", m, h)
    BY <1>3, <2>2
  <2> QED BY <2>3
<1>4. ASSUME NEW h \in read, NEW m \in MembersOf(h), o = Op("SET", m, h)
      PROVE  \E i \in instances : \E x \in i.members : o = Op("SET", x, i.line)
  <2> DEFINE i == [line |-> h, members |-> MembersOf(h)]
  <2>1. i \in instances
    BY <1>2
  <2>2. i.line = h /\ i.members = MembersOf(h)
    OBVIOUS
  <2> HIDE DEF i
  <2>3. m \in i.members /\ o = Op("SET", m, i.line)
    BY <1>4, <2>2
  <2> QED BY <2>1, <2>3
<1> QED BY <1>1, <1>3, <1>4

(* Whose word an operation carries: a member of a block, at its header, a  *)
(* withdrawal or a line of `log-adjacency-changes`, at its own line.       *)
Stated(h, n, g, o) == n \in Positive(h) /\ Grouped(h, n, g) /\ o = Op("SET", Member(n, g), h)

LEMMA OpsAre ==
  ASSUME Given, BlocksRead, NEW o \in InstanceOps \cup pending
  PROVE  \E h \in read : \E n \in Children(h) :
           (\E g \in Nat : Stated(h, n, g, o)) \/ Withdrawal(h, n, o) \/ Logged(h, n, o)
<1>1. read \subseteq Headers /\ pending = UNION {RemovalsOf(h) : h \in read}
  BY DEF BlocksRead
<1>2. CASE o \in InstanceOps
  <2>1. PICK h \in read : \E m \in MembersOf(h) : o = Op("SET", m, h)
    BY <1>2, InstanceOpsAre
  <2>2. PICK m \in MembersOf(h) : o = Op("SET", m, h)
    BY <2>1
  <2>3. PICK n \in Positive(h), g \in Nat : m = Member(n, g) /\ Grouped(h, n, g)
    BY <1>1, MembersAre
  <2>4. n \in Children(h) /\ Stated(h, n, g, o)
    BY <2>2, <2>3 DEF Stated, Positive
  <2> QED BY <2>4
<1>3. CASE o \in pending
  <2>1. PICK h \in read : o \in RemovalsOf(h)
    BY <1>1, <1>3
  <2>2. PICK n \in Children(h) : Withdrawal(h, n, o) \/ Logged(h, n, o)
    BY <1>1, <2>1, RemovalsAre
  <2> QED BY <2>2
<1> QED BY <1>2, <1>3

StatedFields(h, n, g, o) ==
  /\ o.verb = "SET" /\ o.kind = script[n].kind /\ o.key = script[n].key /\ o.val = script[n].val
  /\ o.line = h /\ o.group = g /\ o.source = n

LineFields(n, o) ==
  /\ o.kind = script[n].kind /\ o.key = script[n].key /\ o.line = n /\ o.group = 0 /\ o.source = n

LEMMA StatedHas ==
  ASSUME NEW h, NEW n, NEW g, NEW o, Stated(h, n, g, o)
  PROVE  StatedFields(h, n, g, o)
BY DEF Stated, StatedFields, Member, Op

LEMMA WithdrawalHas ==
  ASSUME NEW h, NEW n, NEW o, Withdrawal(h, n, o)
  PROVE  LineFields(n, o) /\ o.verb \in {"LIST_REMOVE", "UNSET"} /\ o.val = Absent
<1>1. PICK verb \in {"LIST_REMOVE", "UNSET"} : o = Removal(verb, n)
  BY DEF Withdrawal
<1>2. o = Op(verb, [Member(n, 0) EXCEPT !.val = Absent], n)
  BY <1>1 DEF Removal
<1> QED BY <1>2 DEF LineFields, Member, Op

LEMMA LoggedHas ==
  ASSUME NEW h, NEW n, NEW o, Logged(h, n, o)
  PROVE  LineFields(n, o) /\ o.verb = "SET" /\ o.val = IF script[n].no THEN Off ELSE On
<1> DEFINE v == IF script[n].no THEN Off ELSE On
<1>1. o = Op("SET", [Member(n, 0) EXCEPT !.val = v], n)
  BY DEF Logged, LogOp
<1> HIDE DEF v
<1>2. LineFields(n, o) /\ o.verb = "SET" /\ o.val = v
  BY <1>1 DEF LineFields, Member, Op
<1> QED BY <1>2 DEF v

(* An operation is well formed.                                            *)
OpOK(o) ==
  /\ o.verb \in {"SET", "LIST_REMOVE", "UNSET"} /\ o.line \in Lines
  /\ o.source \in Lines /\ o.group \in Nat
  /\ <<o.kind, o.key>> \in Slots /\ o.val \in Settings

LEMMA OpsTyped ==
  ASSUME Given, BlocksRead, NEW o \in InstanceOps \cup pending
  PROVE  OpOK(o)
<1>0. PICK h \in read : \E n \in Children(h) :
        (\E g \in Nat : Stated(h, n, g, o)) \/ Withdrawal(h, n, o) \/ Logged(h, n, o)
  BY OpsAre
<1>1. PICK n \in Children(h) :
        (\E g \in Nat : Stated(h, n, g, o)) \/ Withdrawal(h, n, o) \/ Logged(h, n, o)
  BY <1>0
<1>2. h \in Lines /\ n \in Lines
  BY DEF BlocksRead, Headers, Children
<1>3. script[n].key \in Keys /\ script[n].val \in Settings
  BY <1>2, GivenScript DEF Line
<1>4. Absent \in Settings /\ On \in Settings /\ Off \in Settings
  BY DEF Settings
<1>5. CASE \E g \in Nat : Stated(h, n, g, o)
  <2>1. PICK g \in Nat : Stated(h, n, g, o)
    BY <1>5
  <2>2. script[n].kind \in Kinds
    BY <2>1, KindsAre DEF Stated, Positive
  <2> QED BY <1>2, <1>3, <2>1, <2>2, StatedHas DEF StatedFields, OpOK, Slots
<1>6. CASE Withdrawal(h, n, o)
  <2>1. script[n].kind \in Kinds
    BY <1>6, KindsAre DEF Withdrawal
  <2> QED BY <1>2, <1>3, <1>4, <1>6, <2>1, WithdrawalHas DEF LineFields, OpOK, Slots
<1>7. CASE Logged(h, n, o)
  <2>1. script[n].kind \in Kinds
    BY <1>7 DEF Logged, Kinds
  <2> QED BY <1>2, <1>3, <1>4, <1>7, <2>1, LoggedHas DEF LineFields, OpOK, Slots
<1> QED BY <1>1, <1>5, <1>6, <1>7

-----------------------------------------------------------------------------
(* The invariant is inductive. *)

LEMMA InitIInv == Init => IInv
<1> SUFFICES ASSUME Init PROVE IInv
  OBVIOUS
<1>1. Given
  <2>1. PICK s \in Scripts : protocol = s[1] /\ script = s[2]
    BY DEF Init
  <2>2. s \in Protocols \X Seq(Line)
    BY ScriptsAssumption
  <2> QED BY <2>1, <2>2 DEF Given
<1>2. baseline \in [Slots -> Settings] /\ config \in [Slots -> Settings]
  <2>1. PICK present \in BOOLEAN :
          baseline = [s \in Slots |-> IF ~present THEN Absent
                                      ELSE IF s[1] \in Valued THEN CHOOSE v \in Values : TRUE ELSE On]
    BY DEF Init
  <2>2. (CHOOSE v \in Values : TRUE) \in Values
    BY ValuesAssumption
  <2>3. \A s \in Slots : (IF ~present THEN Absent ELSE IF s[1] \in Valued THEN CHOOSE v \in Values : TRUE ELSE On) \in Settings
    BY <2>2 DEF Settings
  <2> QED BY <2>1, <2>3 DEF Init
<1>3. BlocksRead /\ Attached /\ InTurn
  BY DEF Init, BlocksRead, Attached, InTurn
<1>4. LastWord
  BY DEF Init, LastWord, LastOf
<1> QED BY <1>1, <1>2, <1>3, <1>4 DEF IInv

LEMMA BlockStep ==
  ASSUME IInv, NEW h \in Lines, NextBlock(h),
         ReadBlock(h, MembersOf(h), RemovalsOf(h), ClaimsOf(h))
  PROVE  IInv'
<1>1. UNCHANGED <<protocol, script, baseline, ops, replayed, config>>
  BY DEF ReadBlock
<1>2. Given /\ Headers' = Headers
  BY <1>1, SameChildren DEF IInv
<1>3. \A g : MembersOf(g)' = MembersOf(g) /\ RemovalsOf(g)' = RemovalsOf(g) /\ ClaimsOf(g)' = ClaimsOf(g)
  BY <1>1, <1>2, SameMembers, SameRemovals
<1>4. ops = {} /\ replayed = {}
  BY DEF IInv, Attached, InTurn, NextBlock
<1>5. BlocksRead'
  <2>1. read' = read \cup {h} /\ read' \subseteq Headers'
    BY <1>2 DEF ReadBlock, NextBlock, IInv, BlocksRead
  <2>2. instances' = {[line |-> g, members |-> MembersOf(g)] : g \in read'}
    BY <2>1 DEF ReadBlock, IInv, BlocksRead
  <2>3. pending' = UNION {RemovalsOf(g) : g \in read'}
    BY <2>1 DEF ReadBlock, IInv, BlocksRead
  <2>4. ledger' = UNION {ClaimsOf(g) : g \in read'}
    BY <2>1 DEF ReadBlock, IInv, BlocksRead
  <2> HIDE DEF MembersOf, RemovalsOf, ClaimsOf
  <2> QED BY <1>3, <2>1, <2>2, <2>3, <2>4 DEF BlocksRead
<1>6. Attached'
  BY <1>1, <1>4 DEF Attached
<1>7. InTurn'
  BY <1>1, <1>4 DEF InTurn
<1>8. LastWord'
  BY <1>1, <1>4 DEF IInv, LastWord, LastOf
<1> QED BY <1>1, <1>2, <1>5, <1>6, <1>7, <1>8 DEF IInv, Given

LEMMA AttachStep ==
  ASSUME IInv, _native_ops
  PROVE  IInv'
<1>1. UNCHANGED <<protocol, script, baseline, read, instances, pending, ledger, replayed, config>>
  BY DEF _native_ops
<1>2. Given /\ Headers' = Headers
  BY <1>1, SameChildren DEF IInv
<1>3. \A g : MembersOf(g)' = MembersOf(g) /\ RemovalsOf(g)' = RemovalsOf(g) /\ ClaimsOf(g)' = ClaimsOf(g)
  BY <1>1, <1>2, SameMembers, SameRemovals
<1>4. replayed = {} /\ replayed' = {}
  BY <1>1 DEF IInv, InTurn, _native_ops
<1>5. BlocksRead'
  BY <1>1, <1>2, <1>3 DEF IInv, BlocksRead
<1>6. Attached'
  <2>1. InstanceOps' = InstanceOps
    BY <1>1 DEF InstanceOps, Op
  <2> QED BY <1>1, <1>2, <2>1 DEF Attached, _native_ops
<1>7. InTurn'
  BY <1>4 DEF InTurn
<1>8. LastWord'
  BY <1>1, <1>4 DEF IInv, LastWord, LastOf
<1> QED BY <1>1, <1>2, <1>5, <1>6, <1>7, <1>8 DEF IInv, Given

LEMMA ReplayStep ==
  ASSUME IInv, ReplayOp
  PROVE  IInv'
<1>1. PICK o \in ops \ replayed :
        /\ \A p \in ops \ replayed : p # o => InScriptOrder(o, p)
        /\ replayed' = replayed \cup {o}
        /\ config' = [config EXCEPT ![<<o.kind, o.key>>] = IF o.verb = "SET" THEN o.val ELSE Absent]
        /\ UNCHANGED <<protocol, script, baseline, read, instances, pending, ledger, ops>>
  BY DEF ReplayOp
<1>2. Given /\ Headers' = Headers
  BY <1>1, SameChildren DEF IInv
<1>3. \A g : MembersOf(g)' = MembersOf(g) /\ RemovalsOf(g)' = RemovalsOf(g) /\ ClaimsOf(g)' = ClaimsOf(g)
  BY <1>1, <1>2, SameMembers, SameRemovals
<1>4. OpOK(o)
  BY OpsTyped DEF IInv, Attached
<1>5. Slot(o) \in Slots /\ Value(o) \in Settings
  BY <1>4 DEF OpOK, Slot, Value, Settings
<1>6. config' = [config EXCEPT ![Slot(o)] = Value(o)]
  BY <1>1 DEF Slot, Value
<1>7. config' \in [Slots -> Settings]
  BY <1>5, <1>6 DEF IInv
<1>8. BlocksRead'
  BY <1>1, <1>2, <1>3 DEF IInv, BlocksRead
<1>9. Attached'
  <2>1. InstanceOps' = InstanceOps
    BY <1>1 DEF InstanceOps, Op
  <2> QED BY <1>1, <1>2, <2>1 DEF IInv, Attached
<1>10. InTurn'
  BY <1>1 DEF IInv, InTurn
<1>11. LastWord'
  <2> SUFFICES ASSUME NEW s \in Slots PROVE LastOf(s, config'[s], replayed') /\ baseline' = baseline
    BY <1>1 DEF LastWord, LastOf
  <2>1. LastOf(s, config[s], replayed)
    BY DEF IInv, LastWord
  <2>2. \A p \in replayed : InScriptOrder(p, o)
    BY <1>1 DEF IInv, InTurn
  <2>3. CASE s = Slot(o)
    <3>1. config'[s] = Value(o)
      BY <1>5, <1>6, <2>3 DEF IInv
    <3> QED BY <1>1, <2>2, <2>3, <3>1 DEF LastOf
  <2>4. CASE s # Slot(o)
    <3>1. config'[s] = config[s]
      BY <1>5, <1>6, <2>4 DEF IInv
    <3> QED BY <1>1, <2>1, <2>4, <3>1 DEF LastOf
  <2> QED BY <1>1, <2>3, <2>4
<1> QED BY <1>1, <1>2, <1>7, <1>8, <1>9, <1>10, <1>11 DEF IInv, Given

LEMMA NextIInv == IInv /\ [Next]_vars => IInv'
<1> SUFFICES ASSUME IInv, [Next]_vars PROVE IInv'
  OBVIOUS
<1>1. CASE parse_ospf
  <2>1. PICK h \in Lines : NextBlock(h) /\ ReadBlock(h, OspfMembers(h), OspfOps(h), OspfClaims(h))
    BY <1>1 DEF parse_ospf
  <2>2. ReadBlock(h, MembersOf(h), RemovalsOf(h), ClaimsOf(h))
    BY <1>1, <2>1 DEF parse_ospf, MembersOf, RemovalsOf, ClaimsOf
  <2> QED BY <2>1, <2>2, BlockStep
<1>2. CASE parse_eigrp
  <2>1. PICK h \in Lines : NextBlock(h) /\ ReadBlock(h, EigrpMembers(h), EigrpOps(h), EigrpClaims(h))
    BY <1>2 DEF parse_eigrp
  <2>2. ReadBlock(h, MembersOf(h), RemovalsOf(h), ClaimsOf(h))
    BY <1>2, <2>1 DEF parse_eigrp, MembersOf, RemovalsOf, ClaimsOf
  <2> QED BY <2>1, <2>2, BlockStep
<1>3. CASE parse_isis
  <2>1. PICK h \in Lines : NextBlock(h) /\ ReadBlock(h, IsisMembers(h), IsisOps(h), IsisClaims(h))
    BY <1>3 DEF parse_isis
  <2>2. ReadBlock(h, MembersOf(h), RemovalsOf(h), ClaimsOf(h))
    BY <1>3, <2>1 DEF parse_isis, MembersOf, RemovalsOf, ClaimsOf
  <2> QED BY <2>1, <2>2, BlockStep
<1>4. CASE _native_ops
  BY <1>4, AttachStep
<1>5. CASE ReplayOp
  BY <1>5, ReplayStep
<1>6. CASE UNCHANGED vars
  <2>1. Headers' = Headers /\ Given
    BY <1>6, SameChildren DEF vars, IInv
  <2>2. \A g : MembersOf(g)' = MembersOf(g) /\ RemovalsOf(g)' = RemovalsOf(g) /\ ClaimsOf(g)' = ClaimsOf(g)
    BY <1>6, <2>1, SameMembers, SameRemovals DEF vars
  <2>3. InstanceOps' = InstanceOps
    BY <1>6 DEF vars, InstanceOps, Op
  <2>4. BlocksRead'
    BY <1>6, <2>1, <2>2 DEF vars, IInv, BlocksRead
  <2>5. Attached' /\ InTurn' /\ LastWord'
    BY <1>6, <2>1, <2>3 DEF vars, IInv, Attached, InTurn, LastWord, LastOf
  <2> QED BY <1>6, <2>4, <2>5 DEF vars, IInv, Given
<1> QED BY <1>1, <1>2, <1>3, <1>4, <1>5, <1>6 DEF Next

LEMMA Invariant == Spec => []IInv
BY InitIInv, NextIInv, PTL DEF Spec

(***************************************************************************)
(* Type correctness: every operation is about a member of the script's     *)
(* kinds, at a line of the script, and only attached ones are replayed.    *)
(***************************************************************************)
THEOREM TypeCorrect == Spec => []TypeOK
<1>1. IInv => TypeOK
  <2> SUFFICES ASSUME IInv PROVE TypeOK
    OBVIOUS
  <2>1. protocol \in Protocols /\ script \in Seq(Line)
    BY GivenScript DEF IInv
  <2>2. ledger \subseteq Lines
    <3> SUFFICES ASSUME NEW n \in ledger PROVE n \in Lines
      OBVIOUS
    <3>1. PICK h \in Headers : n \in ClaimsOf(h)
      BY DEF IInv, BlocksRead
    <3> QED BY <3>1, ClaimsAre DEF IInv, Children
  <2>3. \A o \in pending \cup ops : OpOK(o)
    BY OpsTyped DEF IInv, Attached
  <2> QED BY <2>1, <2>2, <2>3 DEF IInv, TypeOK, BlocksRead, InTurn, OpOK
<1> QED BY <1>1, Invariant, PTL

-----------------------------------------------------------------------------
(* Withdrawals. *)

LEMMA SameKey ==
  ASSUME Given, NEW n \in Lines, NEW m \in Lines, script[m].kind = script[n].kind, KeyOf(m) = KeyOf(n)
  PROVE  script[m].key = script[n].key
<1>1. CASE script[n].kind = "default_information"
  BY <1>1, GivenScript
<1>2. CASE script[n].kind \in {"virtual_link", "filter_list"}
  BY <1>2 DEF KeyOf, RawKey
<1>3. CASE script[n].kind \notin {"virtual_link", "filter_list", "default_information"}
  BY <1>3 DEF KeyOf, CanonicalKey
<1> QED BY <1>1, <1>2, <1>3

LEMMA SameKeyOf ==
  ASSUME NEW n \in Lines, NEW m \in Lines, script[m].kind = script[n].kind, script[m].key = script[n].key,
         script[n].kind \in {"virtual_link", "filter_list"} => script[m].as = script[n].as
  PROVE  KeyOf(m) = KeyOf(n)
<1>1. CASE script[n].kind = "default_information"
  BY <1>1 DEF KeyOf, TheOnlyOne
<1>2. CASE script[n].kind \in {"virtual_link", "filter_list"}
  BY <1>2 DEF KeyOf, RawKey
<1>3. CASE script[n].kind \notin {"virtual_link", "filter_list", "default_information"}
  BY <1>3 DEF KeyOf, CanonicalKey
<1> QED BY <1>1, <1>2, <1>3

(***************************************************************************)
(* No withdrawal is lost and none is counted twice: at the end a negation  *)
(* some walk matches is queued at its own line or its member is stated     *)
(* again after it in its block, and no line is both queued and claimed.    *)
(***************************************************************************)
THEOREM WithdrawalsCorrect == Spec => []NoWithdrawalLost
<1>1. IInv => NoWithdrawalLost
  <2> SUFFICES ASSUME IInv, read = Headers, NEW n \in Lines, script[n].no,
                      script[n].kind \in Withdrawable(protocol)
               PROVE  LET queued == \E o \in pending : o.line = n
                          restated == \E h \in Headers : \E m \in Stating(h, script[n].kind) :
                                         n \in Children(h) /\ m > n /\ script[m].key = script[n].key
                      IN  (queued \/ restated) /\ ~(queued /\ n \in ledger)
    BY DEF NoWithdrawalLost
  <2>1. /\ Given /\ BlocksRead /\ Len(script) \in Nat
        /\ pending = UNION {RemovalsOf(h) : h \in Headers} /\ ledger = UNION {ClaimsOf(h) : h \in Headers}
    BY GivenScript DEF IInv, BlocksRead
  <2>2. n \notin Headers /\ script[n].kind # "log_adjacency"
    BY <2>1, KindsAre DEF Headers
  <2>3. PICK h \in Headers : n \in Children(h)
    BY <2>1, <2>2, BlockOfLine
  <2>4. CASE StatedLater(h, n)
    <3>1. PICK m \in Stating(h, script[n].kind) : KeyOf(m) = KeyOf(n) /\ m > n
      BY <2>4 DEF StatedLater
    <3>2. m \in Lines /\ script[m].kind = script[n].kind
      BY <3>1 DEF Stating, Children
    <3>3. script[m].key = script[n].key
      BY <2>1, <3>1, <3>2, SameKey
    <3>4. ~\E o \in pending : o.line = n
      <4> SUFFICES ASSUME NEW o \in pending, o.line = n PROVE FALSE
        OBVIOUS
      <4>1. PICK g \in Headers : o \in RemovalsOf(g)
        BY <2>1
      <4>2. PICK x \in Children(g) : Withdrawal(g, x, o) \/ Logged(g, x, o)
        BY <2>1, <4>1, RemovalsAre
      <4>3. x = n
        BY <4>2, WithdrawalHas, LoggedHas DEF LineFields
      <4>4. Withdrawal(g, n, o) /\ g = h
        BY <2>1, <2>2, <2>3, <4>2, <4>3, OneBlock DEF Logged
      <4> QED BY <2>4, <4>4 DEF Withdrawal
    <3> QED BY <2>3, <3>1, <3>3, <3>4
  <2>5. CASE ~StatedLater(h, n)
    <3>1. PICK verb \in {"LIST_REMOVE", "UNSET"} : Removal(verb, n) \in RemovalsOf(h)
      BY <2>1, <2>3, <2>5, RemovalsComplete
    <3>2. Removal(verb, n) \in pending /\ Removal(verb, n).line = n
      BY <2>1, <3>1 DEF Removal, Op
    <3>3. n \notin ledger
      <4> SUFFICES ASSUME n \in ledger PROVE FALSE
        OBVIOUS
      <4>1. PICK g \in Headers : n \in ClaimsOf(g)
        BY <2>1
      <4>2. n \in Children(g) /\ StatedLater(g, n)
        BY <2>1, <4>1, ClaimsAre
      <4>3. g = h
        BY <2>1, <2>3, <4>2, OneBlock
      <4> QED BY <2>5, <4>2, <4>3
    <3> QED BY <3>2, <3>3
  <2> QED BY <2>4, <2>5
<1> QED BY <1>1, Invariant, PTL

-----------------------------------------------------------------------------
(* The last word. *)

Ops == InstanceOps \cup pending

LastLine(s, n) == n \in About(s) /\ \A m \in About(s) : m <= n

(* o decides its slot: whatever is not before it has the word of line n.   *)
Decides(s, n, o) ==
  /\ o \in Ops /\ Slot(o) = s
  /\ \A p \in Ops : Slot(p) = s /\ (p # o => InScriptOrder(o, p)) => Value(p) = Word(n)

(* An operation about a slot comes from a line about it.                   *)
LEMMA OpsAbout ==
  ASSUME Given, BlocksRead, NEW k \in Kinds, NEW key \in Keys,
         NEW o \in Ops, Slot(o) = <<k, key>>
  PROVE  \E h \in Headers : \E n \in Children(h) :
           /\ n \in About(<<k, key>>)
           /\ (\E g \in Nat : Stated(h, n, g, o)) \/ Withdrawal(h, n, o) \/ Logged(h, n, o)
<1>1. PICK h \in read : \E n \in Children(h) :
        (\E g \in Nat : Stated(h, n, g, o)) \/ Withdrawal(h, n, o) \/ Logged(h, n, o)
  BY OpsAre DEF Ops
<1>2. PICK n \in Children(h) :
        (\E g \in Nat : Stated(h, n, g, o)) \/ Withdrawal(h, n, o) \/ Logged(h, n, o)
  BY <1>1
<1>3. h \in Headers /\ n \in Lines
  BY DEF BlocksRead, Children
<1>4. o.kind = script[n].kind /\ o.key = script[n].key
  BY <1>2, StatedHas, WithdrawalHas, LoggedHas DEF StatedFields, LineFields
<1>5. n \in About(<<k, key>>)
  BY <1>3, <1>4 DEF About, Slot
<1> QED BY <1>2, <1>3, <1>5

LEMMA AboutIs ==
  ASSUME NEW k, NEW key, NEW n
  PROVE  n \in About(<<k, key>>) <=> n \in Lines /\ script[n].kind = k /\ script[n].key = key
BY DEF About

(* A SET of the block that states a member last is never before a removal  *)
(* of it that was queued: the walk would have suppressed the removal.      *)
LEMMA NoneAfterLast ==
  ASSUME Given, NEW k \in Kinds, NEW key \in Keys,
         k \in {"virtual_link", "filter_list"} => SpelledAlike(k, key),
         NEW h \in Headers, NEW n \in Children(h), ~script[n].no, LastLine(<<k, key>>, n),
         NEW o, o.line = h, o.verb = "SET",
         NEW g \in Headers, NEW m \in About(<<k, key>>), NEW p, Withdrawal(g, m, p),
         p # o => InScriptOrder(o, p)
  PROVE  FALSE
<1>1. Len(script) \in Nat /\ Lines \subseteq Nat /\ n \in Lines /\ h \in Lines /\ m \in Lines
  BY GivenScript, AboutIs DEF Lines, Children, Headers
<1>2. /\ script[n].kind = k /\ script[n].key = key /\ script[m].kind = k /\ script[m].key = key
  BY AboutIs DEF LastLine
<1>3. LineFields(m, p) /\ p.verb # "SET" /\ m \in Children(g) /\ script[m].no /\ ~StatedLater(g, m)
  BY WithdrawalHas DEF Withdrawal
<1>4. h <= m
  <2>1. p # o /\ p.line = m /\ o.line = h
    BY <1>3 DEF LineFields
  <2>2. o.line < p.line \/ o.line = p.line
    BY <2>1 DEF InScriptOrder
  <2>3. h \in Nat /\ m \in Nat /\ (h < m \/ h = m)
    BY <1>1, <2>1, <2>2
  <2> QED BY <2>3
<1>5. m < n
  BY <1>1, <1>3 DEF LastLine
<1>6. m \notin Headers
  BY <1>2, KindsAre DEF Headers
<1>7. m \in Children(h) /\ g = h
  <2>1. m \in Children(h)
    BY <1>1, <1>4, <1>5, <1>6, Between
  <2> QED BY <1>3, <2>1, OneBlock
<1>8. n \in Stating(h, script[m].kind)
  BY <1>2 DEF Stating
<1>9. KeyOf(n) = KeyOf(m)
  <2>1. k \in {"virtual_link", "filter_list"} => script[n].as = script[m].as
    BY <1>1, <1>2, AboutIs DEF SpelledAlike
  <2> QED BY <1>1, <1>2, <2>1, SameKeyOf
<1> QED BY <1>1, <1>3, <1>5, <1>7, <1>8, <1>9 DEF StatedLater

LEMMA LastStated ==
  ASSUME Given, BlocksRead, read = Headers, NEW k \in Kinds, k # "log_adjacency", NEW key \in Keys,
         k \in {"virtual_link", "filter_list"} => SpelledAlike(k, key),
         NEW n, LastLine(<<k, key>>, n), ~script[n].no
  PROVE  \E o : Decides(<<k, key>>, n, o)
<1> DEFINE s == <<k, key>>
<1>1. /\ n \in Lines /\ script[n].kind = k /\ script[n].key = key
      /\ \A m \in About(s) : m <= n
  BY AboutIs DEF LastLine
<1>2. Len(script) \in Nat /\ Lines \subseteq Nat /\ Word(n) = script[n].val
  BY GivenScript DEF Lines, Word
<1>3. n \notin Headers /\ k \in KindsOf(protocol)
  BY <1>1, GivenScript, KindsAre DEF Headers
<1>4. PICK h \in Headers : n \in Children(h)
  BY <1>1, <1>3, BlockOfLine
<1>5. n \in Positive(h)
  BY <1>1, <1>3, <1>4 DEF Positive
<1>6. ~Replaced(h, n)
  <2> SUFFICES ASSUME Replaced(h, n) PROVE FALSE
    OBVIOUS
  <2>1. PICK m \in Stating(h, "filter_list") : m > n /\ RawKey(m) = RawKey(n) /\ k = "filter_list"
    BY <1>1 DEF Replaced
  <2>2. m \in About(s)
    BY <1>1, <2>1, AboutIs DEF RawKey, Stating, Children
  <2>3. m \in Nat /\ n \in Nat /\ m <= n
    BY <1>1, <1>2, <2>2, AboutIs
  <2> QED BY <2>1, <2>3
<1>7. k \notin Valued => Word(n) = On
  BY <1>1, <1>2, KindsAre, GivenScript
(* The operations about the slot are SETs of lines that are not later.      *)
<1>9. ASSUME NEW o \in Ops, o.line = h, o.verb = "SET",
             NEW p \in Ops, Slot(p) = s, p # o => InScriptOrder(o, p)
      PROVE  \E g \in Headers : \E m \in Children(g) : \E j \in Nat :
               m \in About(s) /\ g <= h /\ Stated(g, m, j, p)
  <2>1. PICK g \in Headers : \E m \in Children(g) :
          /\ m \in About(s)
          /\ (\E j \in Nat : Stated(g, m, j, p)) \/ Withdrawal(g, m, p) \/ Logged(g, m, p)
    BY <1>9, OpsAbout
  <2>2. PICK m \in Children(g) :
          /\ m \in About(s)
          /\ (\E j \in Nat : Stated(g, m, j, p)) \/ Withdrawal(g, m, p) \/ Logged(g, m, p)
    BY <2>1
  <2>3. ~Withdrawal(g, m, p)
    BY <1>4, <1>9, <2>2, NoneAfterLast
  <2>4. ~Logged(g, m, p)
    BY <2>2, AboutIs DEF Logged
  <2>5. g <= h
    BY <1>1, <1>4, <2>2, BlocksInOrder
  <2> QED BY <2>2, <2>3, <2>4, <2>5
<1>10. CASE \E j \in Nat : Member(n, j) \in MembersOf(h) /\ Grouped(h, n, j)
  <2>1. PICK j \in Nat : Member(n, j) \in MembersOf(h) /\ Grouped(h, n, j)
    BY <1>10
  <2> DEFINE o == Op("SET", Member(n, j), h)
  <2>2. Stated(h, n, j, o)
    BY <1>5, <2>1 DEF Stated
  <2>3. StatedFields(h, n, j, o)
    BY <2>2, StatedHas
  <2>4. o \in Ops
    BY <2>1, InstanceOpsAre DEF Ops
  <2> HIDE DEF o
  <2>5. Slot(o) = s
    BY <1>1, <2>3 DEF StatedFields, Slot
  <2>6. ASSUME NEW p \in Ops, Slot(p) = s, p # o => InScriptOrder(o, p)
        PROVE  Value(p) = Word(n)
    <3>1. PICK g \in Headers : \E m \in Children(g) : \E i \in Nat :
            m \in About(s) /\ g <= h /\ Stated(g, m, i, p)
      BY <1>9, <2>3, <2>4, <2>6 DEF StatedFields
    <3>2. PICK m \in Children(g), i \in Nat : m \in About(s) /\ g <= h /\ Stated(g, m, i, p)
      BY <3>1
    <3>3. StatedFields(g, m, i, p) /\ Value(p) = script[m].val
      BY <3>2, StatedHas DEF StatedFields, Value
    <3>4. m \in Lines /\ script[m].kind = k /\ script[m].key = key /\ ~script[m].no
      BY <3>2, AboutIs DEF Stated, Positive
    <3>5. CASE k \notin Valued
      BY <1>7, <3>3, <3>4, <3>5, KindsAre, GivenScript
    <3>6. CASE p = o
      BY <1>1, <1>2, <2>3, <3>3, <3>6 DEF StatedFields
    <3>7. CASE k \in Valued /\ p # o
      <4>1. h \in Nat /\ g \in Nat
        BY <1>2 DEF Headers
      <4>2. InScriptOrder(o, p)
        BY <2>6, <3>7
      <4>3. h < g \/ (h = g /\ Lexicographic(j, i, n, m))
        BY <2>3, <3>3, <4>2 DEF StatedFields, InScriptOrder
      <4>4. h = g /\ Lexicographic(j, i, n, m)
        BY <3>2, <4>1, <4>3
      <4>5. j = i
        <5>1. CASE k \notin AreaKinds
          BY <1>1, <2>1, <3>2, <3>4, <5>1 DEF Stated, Grouped
        <5>2. CASE k \in AreaKinds
          <6>1. k \in {"virtual_link", "filter_list"}
            BY <3>7, <5>2 DEF AreaKinds, Valued
          <6>2. RawKey(n) = RawKey(m)
            BY <1>1, <3>4, <6>1, AboutIs DEF SpelledAlike, RawKey
          <6>3. Opens(h, j, n) /\ Opens(h, i, m)
            BY <1>1, <2>1, <3>2, <3>4, <4>4, <5>2 DEF Stated, Grouped
          <6>4. j <= i /\ i <= j
            BY <6>2, <6>3 DEF Opens
          <6> QED BY <6>4
        <5> QED BY <5>1, <5>2
      <4>6. n < m
        BY <4>4, <4>5 DEF Lexicographic
      <4> QED BY <1>1, <1>2, <3>2, <3>4, <4>6
    <3> QED BY <3>5, <3>6, <3>7
  <2> QED BY <2>4, <2>5, <2>6 DEF Decides
<1>11. CASE /\ script[n].kind = "default_information"
            /\ \E m \in Stating(h, "default_information") : Member(m, 0) \in MembersOf(h)
  <2>1. PICK l \in Stating(h, "default_information") : Member(l, 0) \in MembersOf(h)
    BY <1>11
  <2>2. l \in Lines /\ l \in Children(h) /\ script[l].kind = k /\ script[l].key = key /\ k \notin Valued
    BY <1>1, <1>11, <2>1, GivenScript DEF Stating, Children, Valued
  <2> DEFINE o == Op("SET", Member(l, 0), h)
  <2>3. o \in Ops
    BY <1>4, <2>1, InstanceOpsAre DEF Ops
  <2>4. o.line = h /\ o.verb = "SET" /\ Slot(o) = s
    BY <2>2 DEF Op, Member, Slot
  <2> HIDE DEF o
  <2>5. ASSUME NEW p \in Ops, Slot(p) = s, p # o => InScriptOrder(o, p)
        PROVE  Value(p) = Word(n)
    <3>1. PICK g \in Headers : \E m \in Children(g) : \E i \in Nat :
            m \in About(s) /\ g <= h /\ Stated(g, m, i, p)
      BY <1>9, <2>3, <2>4, <2>5
    <3>2. PICK m \in Children(g), i \in Nat : m \in About(s) /\ g <= h /\ Stated(g, m, i, p)
      BY <3>1
    <3>3. Value(p) = script[m].val
      BY <3>2, StatedHas DEF StatedFields, Value
    <3>4. m \in Lines /\ script[m].kind = k /\ ~script[m].no
      BY <3>2, AboutIs DEF Stated, Positive
    <3> QED BY <1>7, <2>2, <3>3, <3>4, KindsAre, GivenScript
  <2> QED BY <2>3, <2>4, <2>5 DEF Decides
<1> QED BY <1>5, <1>6, <1>10, <1>11, MembersComplete

LEMMA LastWithdrawn ==
  ASSUME Given, BlocksRead, read = Headers, NEW k \in Kinds, k # "log_adjacency", NEW key \in Keys, Withdrawn(k),
         NEW n, LastLine(<<k, key>>, n), script[n].no
  PROVE  \E o : Decides(<<k, key>>, n, o)
<1> DEFINE s == <<k, key>>
<1>1. /\ n \in Lines /\ script[n].kind = k /\ script[n].key = key
      /\ \A m \in About(s) : m <= n
  BY AboutIs DEF LastLine
<1>2. Len(script) \in Nat /\ Lines \subseteq Nat /\ Word(n) = Absent
  BY <1>1, GivenScript DEF Lines, Word
<1>3. n \notin Headers /\ k \in Withdrawable(protocol)
  BY <1>1, KindsAre DEF Headers, Withdrawn
<1>4. PICK h \in Headers : n \in Children(h)
  BY <1>1, <1>3, BlockOfLine
<1>5. ~StatedLater(h, n)
  <2> SUFFICES ASSUME StatedLater(h, n) PROVE FALSE
    OBVIOUS
  <2>1. PICK m \in Stating(h, k) : KeyOf(m) = KeyOf(n) /\ m > n
    BY <1>1 DEF StatedLater
  <2>2. m \in Lines /\ script[m].kind = k
    BY <2>1 DEF Stating, Children
  <2>3. script[m].key = key
    BY <1>1, <2>1, <2>2, SameKey
  <2>4. m \in Nat /\ n \in Nat /\ m <= n
    BY <1>1, <1>2, <2>2, <2>3, AboutIs
  <2> QED BY <2>1, <2>4
<1>6. PICK verb \in {"LIST_REMOVE", "UNSET"} : Removal(verb, n) \in RemovalsOf(h)
  BY <1>1, <1>3, <1>4, <1>5, RemovalsComplete
<1> DEFINE o == Removal(verb, n)
<1>7. o \in Ops
  BY <1>4, <1>6 DEF Ops, BlocksRead
<1>8. Withdrawal(h, n, o)
  BY <1>1, <1>3, <1>4, <1>5 DEF Withdrawal
<1> HIDE DEF o
<1>9. LineFields(n, o) /\ Value(o) = Absent /\ Slot(o) = s
  BY <1>1, <1>8, WithdrawalHas DEF LineFields, Value, Slot
<1>10. ASSUME NEW p \in Ops, Slot(p) = s, p # o => InScriptOrder(o, p)
       PROVE  Value(p) = Word(n)
  <2>1. PICK g \in Headers : \E m \in Children(g) :
          /\ m \in About(s)
          /\ (\E j \in Nat : Stated(g, m, j, p)) \/ Withdrawal(g, m, p) \/ Logged(g, m, p)
    BY <1>10, OpsAbout
  <2>2. PICK m \in Children(g) :
          /\ m \in About(s)
          /\ (\E j \in Nat : Stated(g, m, j, p)) \/ Withdrawal(g, m, p) \/ Logged(g, m, p)
    BY <2>1
  <2>3. ~Logged(g, m, p)
    BY <2>2, AboutIs DEF Logged
  <2>4. CASE \E j \in Nat : Stated(g, m, j, p)
    <3>1. PICK j \in Nat : Stated(g, m, j, p)
      BY <2>4
    <3>2. p.line = g /\ p.source = m
      BY <3>1, StatedHas DEF StatedFields
    <3>3. g \in Nat /\ m \in Nat /\ n \in Nat /\ g < m /\ m <= n
      BY <1>1, <1>2, <2>2 DEF Headers, Children
    <3>4. CASE p = o
      BY <1>9, <3>2, <3>3, <3>4 DEF LineFields
    <3>5. CASE p # o
      <4>1. n < g \/ n = g
        BY <1>9, <1>10, <3>2, <3>5 DEF InScriptOrder, LineFields
      <4> QED BY <3>3, <4>1
    <3> QED BY <3>4, <3>5
  <2>5. CASE Withdrawal(g, m, p)
    BY <1>2, <2>5, WithdrawalHas DEF Value
  <2> QED BY <2>2, <2>3, <2>4, <2>5
<1> QED BY <1>7, <1>9, <1>10 DEF Decides

LEMMA LastLogged ==
  ASSUME Given, BlocksRead, read = Headers, NEW k \in Kinds, k = "log_adjacency", NEW key \in Keys,
         NEW n, LastLine(<<k, key>>, n)
  PROVE  \E o : Decides(<<k, key>>, n, o)
<1> DEFINE s == <<k, key>>
<1>1. /\ n \in Lines /\ script[n].kind = k /\ script[n].key = key
      /\ \A m \in About(s) : m <= n
  BY AboutIs DEF LastLine
<1>2. Len(script) \in Nat /\ Lines \subseteq Nat
  BY GivenScript DEF Lines
<1>3. n \notin Headers
  BY <1>1 DEF Headers
<1>4. PICK h \in Headers : n \in Children(h)
  BY <1>1, <1>3, BlockOfLine
<1>5. Word(n) = IF script[n].no THEN Off ELSE On
  BY <1>1, GivenScript DEF Word, Valued
<1> DEFINE o == LogOp(n)
<1>6. o \in Ops
  BY <1>1, <1>4, LogComplete DEF Ops, BlocksRead
<1>7. Logged(h, n, o)
  BY <1>1, <1>4 DEF Logged
<1> HIDE DEF o
<1>8. LineFields(n, o) /\ Slot(o) = s
  BY <1>1, <1>7, LoggedHas DEF LineFields, Slot
<1>9. ASSUME NEW p \in Ops, Slot(p) = s, p # o => InScriptOrder(o, p)
      PROVE  Value(p) = Word(n)
  <2>1. PICK g \in Headers : \E m \in Children(g) :
          /\ m \in About(s)
          /\ (\E j \in Nat : Stated(g, m, j, p)) \/ Withdrawal(g, m, p) \/ Logged(g, m, p)
    BY <1>9, OpsAbout
  <2>2. PICK m \in Children(g) :
          /\ m \in About(s)
          /\ (\E j \in Nat : Stated(g, m, j, p)) \/ Withdrawal(g, m, p) \/ Logged(g, m, p)
    BY <2>1
  <2>3. Logged(g, m, p)
    BY <2>2, KindsAre, AboutIs DEF Stated, Positive, Withdrawal
  <2>4. LineFields(m, p) /\ p.verb = "SET" /\ p.val = IF script[m].no THEN Off ELSE On
    BY <2>3, LoggedHas
  <2>5. m = n
    <3>1. m \in Nat /\ n \in Nat /\ m <= n
      BY <1>1, <1>2, <2>2, AboutIs
    <3>2. CASE p = o
      BY <1>8, <2>4, <3>2 DEF LineFields
    <3>3. CASE p # o
      <4>1. n < m \/ n = m
        BY <1>8, <1>9, <2>4, <3>3 DEF InScriptOrder, LineFields
      <4> QED BY <3>1, <4>1
    <3> QED BY <3>2, <3>3
  <2> QED BY <1>5, <2>4, <2>5 DEF Value
<1> QED BY <1>6, <1>8, <1>9 DEF Decides

(***************************************************************************)
(* Line-ordered replay is the router: over any baseline, for any number of *)
(* blocks and any mixture of statements and withdrawals, the operations    *)
(* leave each member what the last line about it says, and a member no     *)
(* line is about what it was.  Virtual links and filter lists are held to  *)
(* it where the script spells their area one way.                          *)
(***************************************************************************)
THEOREM ReplayCorrect == Spec => []ReplayIsDevice
<1>1. IInv => ReplayIsDevice
  <2> SUFFICES ASSUME IInv, Finished, NEW k \in Kinds, NEW key \in Keys, Withdrawn(k),
                      k \in {"virtual_link", "filter_list"} => SpelledAlike(k, key)
               PROVE  config[<<k, key>>] = Device[<<k, key>>]
    BY DEF ReplayIsDevice
  <2> DEFINE s == <<k, key>>
  <2>1. Given /\ BlocksRead /\ read = Headers /\ replayed = Ops
    BY DEF IInv, Finished, Attached, Ops
  <2>2. s \in Slots
    BY DEF Slots
  <2>3. LastOf(s, config[s], Ops)
    BY <2>1, <2>2 DEF IInv, LastWord
  <2>4. CASE About(s) = {}
    <3>1. \A o \in Ops : Slot(o) # s
      BY <2>1, <2>4, OpsAbout
    <3>2. config[s] = baseline[s]
      BY <2>3, <3>1 DEF LastOf
    <3>3. Device[s] = baseline[s]
      BY <2>2, <2>4 DEF Device
    <3> QED BY <3>2, <3>3
  <2>5. CASE About(s) # {}
    <3>1. Len(script) \in Nat /\ About(s) \in SUBSET (1..Len(script))
      BY <2>1, GivenScript DEF About, Lines
    <3>2. PICK n \in About(s) : \A m \in About(s) : m <= n
      <4> HIDE DEF s
      <4> QED BY <2>5, <3>1, GreatestElement
    <3>3. LastLine(s, n)
      BY <3>2 DEF LastLine
    <3>4. Device[s] = Word(n)
      <4>1. Device[s] = Word(CHOOSE x \in About(s) : \A m \in About(s) : m <= x)
        BY <2>2, <2>5 DEF Device
      <4>2. \A x \in About(s) : (\A m \in About(s) : m <= x) => x = n
        BY <3>1, <3>2
      <4>3. (CHOOSE x \in About(s) : \A m \in About(s) : m <= x) = n
        <5> HIDE DEF s
        <5> QED BY <3>2, <4>2
      <4> QED BY <4>1, <4>3
    <3>5. PICK o : Decides(s, n, o)
      BY <2>1, <3>3, LastStated, LastWithdrawn, LastLogged
    <3>6. PICK p \in Ops : /\ Slot(p) = s /\ config[s] = Value(p)
                           /\ \A q \in Ops : Slot(q) = s /\ q # p => InScriptOrder(q, p)
      BY <2>3, <3>5 DEF LastOf, Decides
    <3>7. Value(p) = Word(n)
      BY <3>5, <3>6 DEF Decides
    <3> QED BY <3>4, <3>6, <3>7
  <2> QED BY <2>4, <2>5
<1> QED BY <1>1, Invariant, PTL
=============================================================================
