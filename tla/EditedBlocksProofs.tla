------------------------- MODULE EditedBlocksProofs -------------------------
(***************************************************************************)
(* Proofs about module EditedBlocks: for scripts of any length about an    *)
(* object of any of the families, over any baseline, the replay leaves     *)
(* every slot as the device has it, and no reset follows a member.         *)
(*                                                                         *)
(* The invariant says at each phase what the objects, the resets and the   *)
(* removals are of the script, and of the replay that nothing left         *)
(* precedes what was replayed and that each slot holds what the last       *)
(* operation on it leaves.  The rest shows that this is what the last line *)
(* about the slot says: `Speaks` tells the lines with a SET from those     *)
(* with a removal, and in either case an operation of that sort is the     *)
(* last one.                                                               *)
(***************************************************************************)
EXTENDS EditedBlocks, WellFoundedInduction, TLAPS

(* Every non-empty set of natural numbers has a least element.             *)
LEMMA LeastElement ==
  ASSUME NEW S \in SUBSET Nat, S # {}
  PROVE  \E n \in S : \A m \in S : n <= m
<1> DEFINE Less == {ss \in Nat \X Nat : ss[1] < ss[2]}
<1>1. IsWellFoundedOn(Less, Nat)
  BY NatLessThanWellFounded DEF OpToRel
<1> HIDE DEF Less
<1>2. PICK n \in S : \A m \in S : ~(<<m, n>> \in Less)
  BY <1>1, WFMin
<1>3. \A m \in S : ~(m < n)
  BY <1>2 DEF Less
<1> QED BY <1>3

(* Every non-empty set of numbers up to N has a greatest element.          *)
LEMMA GreatestElement ==
  ASSUME NEW N \in Nat, NEW S \in SUBSET (1..N), S # {}
  PROVE  \E n \in S : \A m \in S : m <= n
<1> DEFINE T == {N - n : n \in S}
<1>1. T \in SUBSET Nat /\ T # {}
  <2>1. \A n \in S : n \in 1..N /\ N - n \in Nat
    OBVIOUS
  <2>2. PICK n \in S : TRUE
    OBVIOUS
  <2>3. N - n \in T
    OBVIOUS
  <2> QED BY <2>1, <2>3
<1>2. PICK t \in T : \A u \in T : t <= u
  <2> HIDE DEF T
  <2> QED BY <1>1, LeastElement
<1>3. PICK n \in S : t = N - n
  OBVIOUS
<1>4. \A m \in S : N - n <= N - m
  BY <1>2, <1>3
<1>5. \A m \in S : m <= n
  BY <1>4
<1> QED BY <1>5

-----------------------------------------------------------------------------
(* The lines of a script. *)

Given == <<family, script>> \in Scripts

(* What the assumption says of the script at hand.                         *)
LEMMA GivenScript ==
  ASSUME Given
  PROVE  /\ family \in Families /\ script \in Seq(Line)
         /\ Len(script) \in Nat /\ Lines = 1..Len(script) /\ Lines \subseteq Nat
         /\ \A n \in Lines :
              /\ script[n] \in Line /\ Belongs(script[n], family)
              /\ family \in Headed /\ script[n].kind # "block" => InBlock(script, n)
<1> DEFINE s == <<family, script>>
<1>1. s \in Scripts /\ s[1] = family /\ s[2] = script
  BY DEF Given
<1> HIDE DEF s
<1>2. /\ family \in Families /\ script \in Seq(Line)
      /\ \A n \in 1..Len(script) :
           /\ Belongs(script[n], family)
           /\ family \in Headed /\ script[n].kind # "block" => InBlock(script, n)
  BY <1>1, ScriptsAssumption
<1>3. \A n \in Lines : script[n] \in Line
  BY <1>2 DEF Lines
<1>4. Len(script) \in Nat /\ Lines = 1..Len(script) /\ Lines \subseteq Nat
  BY <1>2 DEF Lines
<1> QED BY <1>2, <1>3, <1>4

(* A set of lines has a first and a last one, if it has any.               *)
LEMMA LastIs ==
  ASSUME Given, NEW S \in SUBSET Lines, S # {}
  PROVE  /\ LastOf(S) \in S /\ \A m \in S : m <= LastOf(S)
         /\ OnlyLast(S) = {LastOf(S)}
<1>1. Lines = 1..Len(script) /\ Len(script) \in Nat /\ S \subseteq Nat
  BY GivenScript
<1>2. PICK n \in S : \A m \in S : m <= n
  BY <1>1, GreatestElement
<1>3. n \in OnlyLast(S)
  BY <1>2 DEF OnlyLast
<1>4. LastOf(S) \in S /\ LastOf(S) \in OnlyLast(S)
  BY <1>2, <1>3 DEF LastOf
<1>5. \A m \in OnlyLast(S) : m = LastOf(S)
  <2> SUFFICES ASSUME NEW m \in OnlyLast(S) PROVE m = LastOf(S)
    OBVIOUS
  <2> DEFINE L == LastOf(S)
  <2>1. L \in S /\ m \in S /\ m <= L /\ L <= m
    BY <1>4 DEF OnlyLast
  <2> HIDE DEF L
  <2>2. m = L
    BY <1>1, <2>1
  <2> QED BY <2>2 DEF L
<1> QED BY <1>4, <1>5 DEF OnlyLast

LEMMA FirstIs ==
  ASSUME Given, NEW S \in SUBSET Lines, S # {}
  PROVE  \E n \in S : OnlyFirst(S) = {n} /\ \A m \in S : n <= m
<1>1. S \subseteq Nat
  BY GivenScript
<1>2. PICK n \in S : \A m \in S : n <= m
  BY <1>1, LeastElement
<1>3. \A m \in OnlyFirst(S) : m = n
  BY <1>1, <1>2 DEF OnlyFirst
<1>4. n \in OnlyFirst(S)
  BY <1>2 DEF OnlyFirst
<1> QED BY <1>2, <1>3, <1>4

LEMMA NoneLast ==
  /\ LastOf({}) = NoLine /\ OnlyLast({}) = {}
  /\ OnlyFirst({}) = {}
BY DEF LastOf, OnlyLast, OnlyFirst

LEMMA LinesAre ==
  ASSUME NEW k, NEW key
  PROVE  /\ Stating(k, key) \in SUBSET Lines /\ Negating(k, key) \in SUBSET Lines
         /\ Negations(k) \in SUBSET Lines /\ Either(k) \in SUBSET Lines /\ Reset(k) \in SUBSET Lines
         /\ Blocks \in SUBSET Lines /\ Deletes \in SUBSET Lines
BY DEF Stating, Negating, Negations, Either, Reset, Blocks, Deletes

LEMMA LineIs ==
  ASSUME Given, NEW n \in Lines
  PROVE  LET l == script[n] IN
         /\ n \in Nat /\ n >= 1 /\ l.no \in BOOLEAN /\ l.as \in BOOLEAN /\ l.val \in Settings
         /\ l.kind \in Kinds
         /\ l.kind # "block" => l.kind \in KindsOf(family)
         /\ l.kind # "block" /\ ~l.no =>
              l.key \in KeysOf(l.kind) /\ l.val \in ValuesOf(l.kind) /\ (l.kind \notin Resettable => l.as)
         /\ l.kind # "block" /\ l.no => l.key \in Operands(l.kind)
         /\ l.kind = "block" =>
              /\ family \in Headed \/ (family = "section" /\ l.no)
              /\ l.key = One /\ (~l.no => l.val = On)
<1> DEFINE l == script[n]
<1>1. n \in Nat /\ n >= 1
  BY GivenScript
<1>2. l \in Line /\ Belongs(l, family)
  BY GivenScript
<1> HIDE DEF l
<1>3. l.no \in BOOLEAN /\ l.as \in BOOLEAN /\ l.val \in Settings /\ l.kind \in Kinds
  BY <1>2 DEF Line
<1>4. /\ l.kind # "block" => l.kind \in KindsOf(family)
      /\ l.kind = "block" => family \in Headed \/ (family = "section" /\ l.no)
  BY <1>2 DEF Belongs
<1>5. /\ ~l.no => l.key \in KeysOf(l.kind) /\ l.val \in ValuesOf(l.kind) /\ (l.kind \notin Resettable => l.as)
      /\ l.no => l.key \in Operands(l.kind)
  BY <1>2 DEF Belongs
<1>6. KeysOf("block") = {One} /\ Operands("block") = {One} /\ ValuesOf("block") = {On}
  BY DEF KeysOf, Operands, ValuesOf, ListKinds
<1> QED BY <1>1, <1>3, <1>4, <1>5, <1>6 DEF l

(* In the families with blocks, a line that is not a header is a child.    *)
LEMMA BlockOfLine ==
  ASSUME Given, family \in Headed, NEW n \in Lines, script[n].kind # "block"
  PROVE  \E h \in Blocks : n \in Children(h)
<1>1. n \in 1..Len(script) /\ Lines = 1..Len(script) /\ Len(script) \in Nat
  BY GivenScript
<1>2. PICK h \in 1..n : script[h].kind = "block" /\ ~script[h].no /\ \A m \in h+1..n : script[m].kind # "block"
  BY GivenScript DEF InBlock
<1>3. h \in Blocks
  BY <1>1, <1>2 DEF Blocks
<1>4. h < n
  BY <1>1, <1>2
<1> QED BY <1>2, <1>3, <1>4 DEF Children

(* The kinds of each family.                                               *)
LEMMA FamilyOf ==
  ASSUME Given, NEW k \in KindsOf(family)
  PROVE  /\ k \in Fields \cup Resettable <=> family = "interface"
         /\ k \in {"route_target", "rd"} <=> family = "vrf"
         /\ k = "entry" <=> family = "acl"
         /\ k = "next_hop" <=> family = "static"
         /\ k = "server" <=> family = "section"
         /\ k \in {"lookup", "logging"} <=> family = "toggles"
         /\ family # "vlan" /\ k # "block"
<1>1. family \in Families
  BY GivenScript
<1> QED BY <1>1 DEF Families, KindsOf, Fields, Resettable

(* The member of a kind and key read from a set of lines is the one of the *)
(* first of them.                                                          *)
SameMember(n, m) == script[m].kind = script[n].kind /\ script[m].key = script[n].key

LEMMA MembersAre ==
  ASSUME NEW lines, NEW m
  PROVE  m \in MembersOf(lines) <=>
           \E n \in lines : m = Stated(n) /\ \A j \in lines : SameMember(n, j) => n <= j
BY DEF MembersOf, SameMember

LEMMA MembersComplete ==
  ASSUME Given, NEW lines \in SUBSET Lines, NEW n \in lines
  PROVE  \E j \in lines : SameMember(n, j) /\ j <= n /\ Stated(j) \in MembersOf(lines)
<1> DEFINE S == {j \in lines : SameMember(n, j)}
<1>1. S \in SUBSET Lines /\ n \in S
  BY DEF SameMember
<1>2. PICK j \in S : \A i \in S : j <= i
  <2> HIDE DEF S
  <2> QED BY <1>1, FirstIs
<1>3. \A i \in lines : SameMember(j, i) => j <= i
  BY <1>2 DEF SameMember
<1>4. Stated(j) \in MembersOf(lines)
  BY <1>2, <1>3, MembersAre
<1> QED BY <1>1, <1>2, <1>4

-----------------------------------------------------------------------------
(* Interfaces: which line a member is read from. *)

FieldFrom(n, m) ==
  LET k == script[n].kind
  IN  \/ /\ k \in {"access_group", "description", "unnumbered", "mpls_ip"}
         /\ n \in OnlyLast(Stating(k, One)) /\ m = Stated(n)
      \/ k = "shutdown" /\ _is_shutdown /\ n \in OnlyLast(Stating(k, One)) /\ m = Stated(n)
      \/ k = "ospf_passive" /\ n \in OnlyLast(Either(k)) /\ m = Member(n, Polarity(n))
      \/ k = "cdp_enable" /\ n \in OnlyLast(Negating(k, One)) /\ m = Member(n, Off)
      \/ /\ k \in Resettable /\ ~script[n].no /\ m = Stated(n)
         /\ \A j \in Lines : SameMember(n, j) /\ ~script[j].no => n <= j

LEMMA LastValueIs ==
  ASSUME NEW k, NEW m
  PROVE  m \in LastValue(k) <=>
           \E n \in Lines : script[n].kind = k /\ n \in OnlyLast(Stating(k, One)) /\ m = Stated(n)
BY DEF LastValue, OnlyLast, Stating

LEMMA FieldMembersAre ==
  ASSUME NEW m
  PROVE  m \in FieldMembers \cup ListMembers <=> \E n \in Lines : FieldFrom(n, m)
<1>1. m \in OspfPassive <=>
        \E n \in Lines : /\ script[n].kind = "ospf_passive" /\ n \in OnlyLast(Either("ospf_passive"))
                         /\ m = Member(n, Polarity(n))
  BY DEF OspfPassive, OnlyLast, Either, Stating, Negating
<1>2. m \in {Member(n, Off) : n \in OnlyLast(Negating("cdp_enable", One))} <=>
        \E n \in Lines : /\ script[n].kind = "cdp_enable" /\ n \in OnlyLast(Negating("cdp_enable", One))
                         /\ m = Member(n, Off)
  BY DEF OnlyLast, Negating
<1>3. m \in ListMembers <=>
        \E n \in Lines : /\ script[n].kind \in Resettable /\ ~script[n].no /\ m = Stated(n)
                         /\ \A j \in Lines : SameMember(n, j) /\ ~script[j].no => n <= j
  <2>1. \A n : n \in {x \in _coalesce_interface_stanzas : script[x].kind \in Resettable /\ ~script[x].no}
                 <=> n \in Lines /\ script[n].kind \in Resettable /\ ~script[n].no
    BY DEF _coalesce_interface_stanzas, Resettable
  <2> QED BY <2>1, MembersAre DEF ListMembers, SameMember
<1>4. m \in FieldMembers <=>
        \/ m \in LastValue("access_group") \/ m \in LastValue("description")
        \/ m \in LastValue("unnumbered") \/ m \in LastValue("mpls_ip")
        \/ _is_shutdown /\ m \in LastValue("shutdown")
        \/ m \in OspfPassive
        \/ m \in {Member(n, Off) : n \in OnlyLast(Negating("cdp_enable", One))}
  BY DEF FieldMembers
<1> QED BY <1>1, <1>2, <1>3, <1>4, LastValueIs DEF FieldFrom

-----------------------------------------------------------------------------
(* What the SETs say. *)

\* The lines whose operation is a SET.
Speaks(n) == ~script[n].no \/ script[n].kind \in {"ospf_passive", "cdp_enable", "logging"}

\* A SET stands at or before a line that speaks of its slot.
SpokenAt(o, n) ==
  /\ n \in Lines /\ Speaks(n) /\ script[n].kind = o.kind /\ script[n].key = o.key
  /\ family # "section" => o.line <= n

Says(o) ==
  LET k == o.kind
  IN  /\ k \in {"access_group", "description", "unnumbered", "mpls_ip", "shutdown"} =>
           o.val = script[LastOf(Stating(k, One))].val
      /\ k \in {"ospf_passive", "logging"} => o.val = Polarity(LastOf(Either(k)))
      /\ k = "cdp_enable" => o.val = IF Negating(k, One) = {} THEN On ELSE Off
      /\ k = "rd" => \E x \in Stating(k, One) : o.val = script[x].val
      /\ k \in ListKinds \cup {"block", "lookup"} => o.val = On

SetOK(o) ==
  /\ o.verb = "SET" /\ o.val \in Settings
  /\ o.line \in Lines /\ o.object \in Lines /\ o.source \in Lines \cup {NoLine}
  /\ (family = "section" /\ o.kind = "block") \/ \E n \in Lines : SpokenAt(o, n)
  /\ Says(o)

LEMMA OpHas ==
  ASSUME NEW verb, NEW m, NEW line, NEW object
  PROVE  LET o == Op(verb, m, line, object) IN
         /\ o.verb = verb /\ o.kind = m.kind /\ o.key = m.key /\ o.val = m.val
         /\ o.line = line /\ o.object = object /\ o.source = m.source
BY DEF Op

LEMMA MemberHas ==
  ASSUME NEW n, NEW val
  PROVE  LET m == Member(n, val) IN
         /\ m.kind = script[n].kind /\ m.key = script[n].key /\ m.val = val /\ m.source = n
BY DEF Member

\* The first header of an interface is before its lines.
LEMMA FirstBlockBefore ==
  ASSUME Given, family \in Headed, NEW h \in OnlyFirst(Blocks), NEW n \in Lines
  PROVE  /\ h \in Blocks /\ h \in Lines
         /\ script[n].kind # "block" => h < n
<1>1. h \in Blocks /\ h \in Lines /\ \A b \in Blocks : h <= b
  BY DEF OnlyFirst, Blocks
<1>2. ASSUME script[n].kind # "block" PROVE h < n
  <2>1. PICK b \in Blocks : n \in Children(b)
    BY <1>2, BlockOfLine
  <2>2. b < n /\ h <= b /\ h \in Nat /\ b \in Nat /\ n \in Nat
    BY <1>1, <2>1, GivenScript DEF Children, Blocks
  <2> QED BY <2>2
<1> QED BY <1>1, <1>2

\* A value that only one line of a kind can say.
LEMMA ValueOn ==
  ASSUME Given, NEW n \in Lines, ~script[n].no
  PROVE  /\ script[n].kind \in ListKinds \cup {"block", "lookup", "logging", "mpls_ip", "cdp_enable", "ospf_passive"}
              => script[n].val = On
         /\ script[n].kind \notin ListKinds => script[n].key = One
         /\ script[n].kind \in ListKinds => script[n].key \in Keys
BY LineIs DEF ValuesOf, ListKinds, KeysOf

LEMMA NegatedKey ==
  ASSUME Given, NEW n \in Lines, script[n].no
  PROVE  /\ script[n].kind \notin ListKinds => script[n].key = One
         /\ script[n].kind \in ListKinds => script[n].key \in Keys \cup {All}
         /\ script[n].kind # "unnumbered"
         /\ script[n].kind = "ipv6" => script[n].key = All
<1>1. CASE script[n].kind = "block"
  BY <1>1, LineIs DEF ListKinds
<1>2. CASE script[n].kind # "block"
  <2>1. script[n].key \in Operands(script[n].kind)
    BY <1>2, LineIs
  <2> QED BY <2>1 DEF Operands, ListKinds, KeysOf
<1> QED BY <1>1, <1>2

\* Where a member of an interface is, and what it says.
FieldFacts(h, n, m) ==
  LET k == script[n].kind
  IN  /\ m.kind = k /\ m.key = script[n].key /\ m.source = n
      /\ k \in {"access_group", "description", "mpls_ip", "shutdown"} =>
           LineOfMember(m, h) = n /\ n = LastOf(Stating(k, One)) /\ m.val = script[n].val
      /\ k = "unnumbered" => LineOfMember(m, h) = h /\ n = LastOf(Stating(k, One)) /\ m.val = script[n].val
      /\ k = "ospf_passive" => LineOfMember(m, h) = n /\ n = LastOf(Either(k)) /\ m.val = Polarity(n)
      /\ k = "cdp_enable" => LineOfMember(m, h) = LastOf(Either(k)) /\ n \in Negating(k, One) /\ m.val = Off
      /\ k \in Resettable =>
           /\ LineOfMember(m, h) = Located(LastOf({x \in Stating(k, script[n].key) : script[x].as}), h)
           /\ ~script[n].no /\ m.val = On
      /\ k \in Fields \cup Resettable

LEMMA FieldIs ==
  ASSUME Given, family = "interface", NEW h \in OnlyFirst(Blocks), NEW n \in Lines,
         NEW m, FieldFrom(n, m)
  PROVE  FieldFacts(h, n, m)
<1> DEFINE k == script[n].kind
<1>1. m.kind = k /\ m.key = script[n].key /\ m.source = n
  BY MemberHas DEF FieldFrom, Stated
<1>2. NoLine \notin Lines
  BY GivenScript DEF NoLine
<1>3. \A S \in SUBSET Lines : n \in OnlyLast(S) => n \in S /\ n = LastOf(S) /\ n # NoLine
  BY <1>2, LastIs, NoneLast
<1>4. ASSUME k \in {"access_group", "description", "mpls_ip", "unnumbered"}
      PROVE  /\ n \in OnlyLast(Stating(k, One)) /\ n = LastOf(Stating(k, One)) /\ n # NoLine
             /\ m.val = script[n].val
  BY <1>3, <1>4, LinesAre, MemberHas DEF FieldFrom, Stated, Resettable
<1>5. ASSUME k = "shutdown"
      PROVE  n = LastOf(Stating(k, One)) /\ m.val = script[n].val /\ LastOf(Either(k)) = n /\ n # NoLine
  <2>1. _is_shutdown /\ n \in OnlyLast(Stating(k, One)) /\ m = Stated(n)
    BY <1>5 DEF FieldFrom, Resettable
  <2>2. n = LastOf(Stating(k, One)) /\ n # NoLine /\ n \in Stating(k, One)
    BY <1>3, <2>1, LinesAre
  <2>3. n > LastOf(Negating(k, One))
    BY <1>5, <2>1, <2>2 DEF _is_shutdown
  <2>4. \A x \in Either(k) : x <= n
    <3> SUFFICES ASSUME NEW x \in Either(k) PROVE x <= n
      OBVIOUS
    <3>1. CASE x \in Stating(k, One)
      BY <2>1, <3>1 DEF OnlyLast
    <3>2. CASE x \in Negating(k, One)
      <4>1. x <= LastOf(Negating(k, One)) /\ LastOf(Negating(k, One)) \in Negating(k, One)
        BY <3>2, LastIs, LinesAre
      <4> DEFINE l == LastOf(Negating(k, One))
      <4>2. x \in Nat /\ l \in Nat /\ n \in Nat
        BY <3>2, <4>1, LinesAre, GivenScript
      <4>3. x <= l /\ n > l
        BY <2>3, <4>1
      <4> HIDE DEF l
      <4> QED BY <4>2, <4>3
    <3> QED BY <3>1, <3>2 DEF Either
  <2>5. n \in OnlyLast(Either(k))
    BY <2>2, <2>4 DEF OnlyLast, Either
  <2> QED BY <1>3, <2>1, <2>2, <2>5, LinesAre, MemberHas DEF Stated
<1>6. ASSUME k = "ospf_passive"
      PROVE  n = LastOf(Either(k)) /\ m.val = Polarity(n) /\ n # NoLine
  BY <1>3, <1>6, LinesAre, MemberHas DEF FieldFrom, Resettable
<1>7. ASSUME k = "cdp_enable"
      PROVE  n \in Negating(k, One) /\ m.val = Off /\ LastOf(Either(k)) # NoLine
  <2>1. n \in Negating(k, One) /\ m.val = Off
    BY <1>3, <1>7, LinesAre, MemberHas DEF FieldFrom, Resettable
  <2>2. LastOf(Either(k)) \in Lines
    BY <2>1, LastIs, LinesAre DEF Either
  <2> QED BY <1>2, <2>1, <2>2
<1>8. ASSUME k \in Resettable PROVE ~script[n].no /\ m.val = On
  <2>1. ~script[n].no /\ m = Stated(n)
    BY <1>8 DEF FieldFrom, Resettable
  <2> QED BY <1>8, <2>1, ValueOn, MemberHas DEF Stated, ListKinds, Resettable
<1>9. k \in Fields \cup Resettable
  BY DEF FieldFrom, Fields
<1>10. LineOfMember(m, h) =
         IF k \in Fields THEN Located(_IFACE_OP_LINE_PATTERNS(k), h)
         ELSE Located(_IFACE_MEMBER_LINE_BUILDERS(m), h)
  BY <1>1, <1>9 DEF LineOfMember, Fields, Resettable
<1>11. k \in {"access_group", "description", "mpls_ip"} => LineOfMember(m, h) = n
  BY <1>4, <1>10 DEF Fields, _IFACE_OP_LINE_PATTERNS, Located
<1>12. k \in {"shutdown", "ospf_passive", "cdp_enable"} => LineOfMember(m, h) = LastOf(Either(k))
  BY <1>5, <1>6, <1>7, <1>10 DEF Fields, _IFACE_OP_LINE_PATTERNS, Located
<1>13. k = "unnumbered" => LineOfMember(m, h) = h
  BY <1>10 DEF Fields, _IFACE_OP_LINE_PATTERNS, Located
<1>14. k \in Resettable =>
         LineOfMember(m, h) = Located(LastOf({x \in Stating(k, script[n].key) : script[x].as}), h)
  BY <1>1, <1>10 DEF Fields, Resettable, _IFACE_MEMBER_LINE_BUILDERS
<1> QED BY <1>1, <1>4, <1>5, <1>6, <1>7, <1>8, <1>9, <1>11, <1>12, <1>13, <1>14 DEF FieldFacts

-----------------------------------------------------------------------------
(* The SETs of the parsed objects. *)

ResetKinds == IF family = "interface" /\ Blocks # {} THEN {kind \in Resettable : Reset(kind) # {}} ELSE {}

Final == {Stanza({m \in i.members : Kept(m)}, i.line) : i \in Parsed}
Finalized == objects = Final /\ resets = ResetKinds

\* Member m of the parsed object with its header at h.
ReadIn(h, m) == \E i \in Parsed : i.line = h /\ m \in i.members

LEMMA MemberSetsAre ==
  ASSUME Finalized, NEW o
  PROVE  o \in MemberSets <=>
           \E h, m : ReadIn(h, m) /\ Kept(m) /\ o = Op("SET", m, LineOfMember(m, h), h)
<1>1. \A i : LET f == Stanza({m \in i.members : Kept(m)}, i.line) IN
               f.line = i.line /\ \A m : m \in f.members <=> m \in i.members /\ Kept(m)
  BY DEF Stanza
<1>2. o \in MemberSets <=>
        \E i \in objects : \E m \in i.members : o = Op("SET", m, LineOfMember(m, i.line), i.line)
  BY DEF MemberSets
<1>3. o \in MemberSets <=>
        \E i \in Parsed : LET f == Stanza({m \in i.members : Kept(m)}, i.line) IN
          \E m \in f.members : o = Op("SET", m, LineOfMember(m, f.line), f.line)
  BY <1>2 DEF Finalized, Final
<1>4. o \in MemberSets <=>
        \E i \in Parsed : \E m \in i.members : Kept(m) /\ o = Op("SET", m, LineOfMember(m, i.line), i.line)
  BY <1>1, <1>3
<1> QED BY <1>4 DEF ReadIn

LEMMA StanzaHas ==
  ASSUME NEW members, NEW h
  PROVE  Stanza(members, h).line = h /\ Stanza(members, h).members = members
BY DEF Stanza

LEMMA ParsedInterface ==
  ASSUME family = "interface", NEW h, NEW m
  PROVE  ReadIn(h, m) <=> h \in OnlyFirst(Blocks) /\ \E n \in Lines : FieldFrom(n, m)
<1> DEFINE M == FieldMembers \cup ListMembers
           S == OnlyFirst(Blocks)
<1>1. Parsed = {Stanza(M, b) : b \in S}
  BY DEF Parsed
<1>2. m \in M <=> \E n \in Lines : FieldFrom(n, m)
  BY FieldMembersAre
<1> HIDE DEF M, S
<1>3. ReadIn(h, m) <=> h \in S /\ m \in M
  BY <1>1, StanzaHas DEF ReadIn
<1> QED BY <1>2, <1>3 DEF S

\* In the other families a member is a positive line, the first of its kind
\* and key in its object.
Within(h) ==
  CASE family = "static"  -> {h}
    [] family = "section" -> ServersStated
    [] OTHER              -> {n \in Children(h) : ~script[n].no}

Opens(h) ==
  CASE family = "static"  -> h \in RoutesStated
    [] family = "section" -> h \in OnlyFirst(ServersStated)
    [] OTHER              -> h \in Blocks

LEMMA ParsedOther ==
  ASSUME Given, family # "interface", NEW h, NEW m
  PROVE  ReadIn(h, m) <=>
           Opens(h) /\ \E n \in Within(h) : m = Stated(n) /\ \A j \in Within(h) : SameMember(n, j) => n <= j
<1>1. CASE family = "static"
  <2>1. Parsed = {Stanza({Stated(n)}, n) : n \in RoutesStated}
    BY <1>1 DEF Parsed
  <2>2. ReadIn(h, m) <=> h \in RoutesStated /\ m = Stated(h)
    <3> DEFINE R == RoutesStated
    <3>1. Parsed = {Stanza({Stated(n)}, n) : n \in R}
      BY <2>1
    <3> HIDE DEF R
    <3>2. ASSUME ReadIn(h, m) PROVE h \in R /\ m = Stated(h)
      <4>1. PICK i \in Parsed : i.line = h /\ m \in i.members
        BY <3>2 DEF ReadIn
      <4>2. PICK n \in R : i = Stanza({Stated(n)}, n)
        BY <3>1
      <4> QED BY <4>1, <4>2, StanzaHas
    <3>3. ASSUME h \in R, m = Stated(h) PROVE ReadIn(h, m)
      <4>1. Stanza({Stated(h)}, h) \in Parsed
        BY <3>1, <3>3
      <4> QED BY <3>3, <4>1, StanzaHas DEF ReadIn
    <3> QED BY <3>2, <3>3 DEF R
  <2>3. Opens(h) => h <= h
    <3>1. Opens(h) => h \in Lines
      BY <1>1 DEF Opens, RoutesStated
    <3> QED BY <3>1, GivenScript
  <2> QED BY <1>1, <2>2, <2>3 DEF Within, Opens
<1>2. CASE family = "section"
  <2>1. Parsed = {Stanza(MembersOf(ServersStated), n) : n \in OnlyFirst(ServersStated)}
    BY <1>2 DEF Parsed
  <2>2. ReadIn(h, m) <=> h \in OnlyFirst(ServersStated) /\ m \in MembersOf(ServersStated)
    BY <2>1, StanzaHas DEF ReadIn
  <2> QED BY <1>2, <2>2, MembersAre DEF Within, Opens
<1>3. CASE family \notin {"static", "section"}
  <2>1. Parsed = {Stanza(MembersIn(b), b) : b \in Blocks}
    BY <1>3 DEF Parsed
  <2>2. ReadIn(h, m) <=> h \in Blocks /\ m \in MembersIn(h)
    BY <2>1, StanzaHas DEF ReadIn
  <2> QED BY <1>3, <2>2, MembersAre DEF Within, Opens, MembersIn
<1> QED BY <1>1, <1>2, <1>3

LEMMA InterfaceSetOK ==
  ASSUME Given, family = "interface", Finalized, NEW o \in SetOps
  PROVE  SetOK(o)
<1>1. \/ o \in MemberSets \/ o \in _IFACE_POSITIVE_RESTATE_PATTERNS
  BY DEF SetOps, _native_iface_set_ops
<1>2. NoLine \notin Lines /\ Lines \subseteq Nat /\ family \in Headed
  BY GivenScript DEF NoLine, Headed
<1>3. CASE o \in MemberSets
  <2>1. PICK h, m : ReadIn(h, m) /\ Kept(m) /\ o = Op("SET", m, LineOfMember(m, h), h)
    BY <1>3, MemberSetsAre
  <2>2. h \in OnlyFirst(Blocks)
    BY <2>1, ParsedInterface
  <2>3. PICK n \in Lines : FieldFrom(n, m)
    BY <2>1, ParsedInterface
  <2>0. FieldFacts(h, n, m)
    BY <2>2, <2>3, FieldIs
  <2> DEFINE k == script[n].kind
             key == script[n].key
  <2>4. /\ o.verb = "SET" /\ o.kind = k /\ o.key = key /\ o.val = m.val
        /\ o.line = LineOfMember(m, h) /\ o.object = h /\ o.source = n
    BY <2>0, <2>1, OpHas DEF FieldFacts
  <2>5. h \in Lines /\ n \in Nat /\ h \in Nat /\ k \in Kinds /\ script[n].val \in Settings
    BY <1>2, <2>2, LineIs, FirstBlockBefore
  <2>6. k \in Fields \cup Resettable
    BY <2>0 DEF FieldFacts
  <2>7. h < n
    BY <1>2, <2>2, <2>6, FirstBlockBefore DEF Fields, Resettable
  <2>8. \A x \in Lines : x <= x
    BY <1>2
  <2>9. CASE k \in {"access_group", "description", "mpls_ip", "shutdown", "unnumbered"}
    <3>1. o.val = script[n].val /\ n = LastOf(Stating(k, One)) /\ o.line \in {n, h}
      BY <2>0, <2>4, <2>9 DEF FieldFacts
    <3>2. ~script[n].no
      BY <2>3, <2>9 DEF FieldFrom, Resettable, OnlyLast, Stating
    <3>3. SpokenAt(o, n)
      BY <2>4, <2>5, <2>7, <2>8, <3>1, <3>2 DEF SpokenAt, Speaks
    <3>4. Says(o)
      BY <2>4, <2>9, <3>1 DEF Says, ListKinds
    <3> QED BY <2>4, <2>5, <3>1, <3>3, <3>4 DEF SetOK
  <2>10. CASE k = "ospf_passive"
    <3>1. o.val = Polarity(n) /\ n = LastOf(Either(k)) /\ o.line = n
      BY <2>0, <2>4, <2>10 DEF FieldFacts
    <3>2. SpokenAt(o, n)
      BY <2>4, <2>5, <2>8, <2>10, <3>1 DEF SpokenAt, Speaks
    <3>3. Says(o)
      BY <2>4, <2>10, <3>1 DEF Says, ListKinds
    <3> QED BY <2>4, <2>5, <3>1, <3>2, <3>3 DEF SetOK, Settings, Polarity
  <2>11. CASE k = "cdp_enable"
    <3>1. o.val = Off /\ n \in Negating(k, One) /\ o.line = LastOf(Either(k))
      BY <2>0, <2>4, <2>11 DEF FieldFacts
    <3> DEFINE l == LastOf(Either(k))
    <3>2. l \in Lines /\ script[l].kind = k /\ script[l].key = One /\ key = One
      <4>1. Either(k) # {} /\ key = One
        BY <3>1 DEF Either, Negating
      <4>2. l \in Either(k)
        BY <4>1, LastIs, LinesAre
      <4> HIDE DEF l
      <4> QED BY <4>1, <4>2 DEF Either, Stating, Negating
    <3>3. SpokenAt(o, l)
      BY <2>4, <2>8, <2>11, <3>1, <3>2 DEF SpokenAt, Speaks
    <3>4. Says(o)
      BY <2>4, <2>11, <3>1 DEF Says, ListKinds
    <3> QED BY <2>4, <2>5, <3>1, <3>2, <3>3, <3>4 DEF SetOK, Settings
  <2>12. CASE k \in Resettable
    <3> DEFINE T == {x \in Stating(k, key) : script[x].as}
               l == LastOf(T)
    <3>1. o.val = On /\ ~script[n].no /\ o.line = Located(l, h)
      BY <2>0, <2>4, <2>12 DEF FieldFacts
    <3>2. o.line \in Lines /\ \E x \in Lines : SpokenAt(o, x)
      <4>1. CASE T = {}
        <5>1. l = NoLine
          BY <4>1, NoneLast
        <5>2. o.line = h
          BY <3>1, <5>1 DEF Located
        <5>3. SpokenAt(o, n)
          BY <2>4, <2>5, <2>7, <3>1, <5>2 DEF SpokenAt, Speaks
        <5> QED BY <2>5, <5>2, <5>3
      <4>2. CASE T # {}
        <5>1. l \in T
          BY <4>2, LastIs, LinesAre
        <5> HIDE DEF l
        <5>2. l \in Lines /\ script[l].kind = k /\ script[l].key = key /\ ~script[l].no /\ l # NoLine
          BY <1>2, <5>1 DEF Stating
        <5>3. o.line = l
          BY <3>1, <5>2 DEF Located
        <5>4. SpokenAt(o, l)
          BY <2>4, <2>8, <5>2, <5>3 DEF SpokenAt, Speaks
        <5> QED BY <5>2, <5>3, <5>4
      <4> QED BY <4>1, <4>2
    <3>3. Says(o)
      BY <2>4, <2>12, <3>1 DEF Says, ListKinds, Resettable
    <3> QED BY <2>4, <2>5, <3>1, <3>2, <3>3 DEF SetOK, Settings
  <2> QED BY <2>6, <2>9, <2>10, <2>11, <2>12 DEF Fields
<1>4. CASE o \in _IFACE_POSITIVE_RESTATE_PATTERNS
  <2>1. PICK n \in OnlyLast(Stating("cdp_enable", One)) : o = Op("SET", Stated(n), n, n)
    BY <1>4 DEF _IFACE_POSITIVE_RESTATE_PATTERNS
  <2>2. Negating("cdp_enable", One) = {}
    BY <1>4 DEF _IFACE_POSITIVE_RESTATE_PATTERNS
  <2>3. n \in Lines /\ script[n].kind = "cdp_enable" /\ script[n].key = One /\ ~script[n].no
    BY DEF OnlyLast, Stating
  <2>4. /\ o.verb = "SET" /\ o.kind = "cdp_enable" /\ o.key = One /\ o.val = On
        /\ o.line = n /\ o.object = n /\ o.source = n
    BY <2>1, <2>3, OpHas, MemberHas, ValueOn DEF Stated
  <2>5. SpokenAt(o, n)
    <3>1. n <= n
      BY <1>2, <2>3
    <3> QED BY <2>3, <2>4, <3>1 DEF SpokenAt, Speaks
  <2>6. Says(o)
    BY <2>2, <2>4 DEF Says, ListKinds
  <2> QED BY <2>3, <2>4, <2>5, <2>6 DEF SetOK, Settings
<1> QED BY <1>1, <1>3, <1>4

LEMMA ObjectLines ==
  ASSUME Given, Finalized, family # "interface", NEW h
  PROVE  (\E i \in objects : i.line = h) <=> Opens(h)
<1>1. (\E i \in objects : i.line = h) <=> \E i \in Parsed : i.line = h
  <2>1. \A i : Stanza({m \in i.members : Kept(m)}, i.line).line = i.line
    BY StanzaHas
  <2> QED BY <2>1 DEF Finalized, Final
<1>2. CASE family = "static"
  <2>1. Parsed = {Stanza({Stated(n)}, n) : n \in RoutesStated}
    BY <1>2 DEF Parsed
  <2>2. \A n : Stanza({Stated(n)}, n).line = n
    BY StanzaHas
  <2> DEFINE R == RoutesStated
  <2>3. Parsed = {Stanza({Stated(n)}, n) : n \in R}
    BY <2>1
  <2> HIDE DEF R
  <2>4. (\E i \in Parsed : i.line = h) <=> h \in R
    BY <2>2, <2>3
  <2> QED BY <1>1, <1>2, <2>4 DEF Opens, R
<1>3. CASE family = "section"
  <2>1. Parsed = {Stanza(MembersOf(ServersStated), n) : n \in OnlyFirst(ServersStated)}
    BY <1>3 DEF Parsed
  <2> QED BY <1>1, <1>3, <2>1, StanzaHas DEF Opens
<1>4. CASE family \notin {"static", "section"}
  <2>1. Parsed = {Stanza(MembersIn(b), b) : b \in Blocks}
    BY <1>4 DEF Parsed
  <2> QED BY <1>1, <1>4, <2>1, StanzaHas DEF Opens
<1> QED BY <1>2, <1>3, <1>4

LEMMA OpensAt ==
  ASSUME Given, family # "interface", NEW h, Opens(h)
  PROVE  h \in Lines /\ Within(h) \in SUBSET {n \in Lines : ~script[n].no /\ script[n].kind \in KindsOf(family)}
<1>1. CASE family = "static"
  <2>1. h \in Lines /\ ~script[h].no /\ script[h].kind = "next_hop" /\ Within(h) = {h}
    BY <1>1 DEF Opens, Within, RoutesStated
  <2> QED BY <1>1, <2>1 DEF KindsOf
<1>2. CASE family = "section"
  <2>1. h \in Lines /\ Within(h) = ServersStated
    BY <1>2 DEF Opens, Within, ServersStated, OnlyFirst
  <2> QED BY <1>2, <2>1 DEF KindsOf, ServersStated
<1>3. CASE family \notin {"static", "section"}
  <2>1. h \in Lines /\ Within(h) = {n \in Children(h) : ~script[n].no}
    BY <1>3 DEF Opens, Within, Blocks
  <2>2. ASSUME NEW n \in Children(h) PROVE n \in Lines /\ script[n].kind \in KindsOf(family)
    <3>1. n \in Lines /\ n > h /\ \A m \in h+1..n : script[m].kind # "block"
      BY DEF Children
    <3>2. n \in h+1..n
      BY <2>1, <3>1, GivenScript
    <3> QED BY <3>1, <3>2, LineIs
  <2> QED BY <2>1, <2>2
<1> QED BY <1>1, <1>2, <1>3

\* Where a member is in the other families.
LEMMA OtherLine ==
  ASSUME Given, family # "interface", NEW h, Opens(h), NEW n \in Within(h)
  PROVE  LET line == LineOfMember(Stated(n), h)
             l == LastOf(Stating(script[n].kind, script[n].key))
         IN  /\ family \in {"vrf", "acl"} => line = l /\ l \in Stating(script[n].kind, script[n].key)
             /\ family = "static" => line = n /\ n = h
             /\ family = "section" => line = h
<1> DEFINE k == script[n].kind
           m == Stated(n)
           l == LastOf(Stating(k, script[n].key))
<1>1. n \in Lines /\ ~script[n].no /\ k \in KindsOf(family)
  BY OpensAt
<1>2. m.kind = k /\ m.key = script[n].key
  BY MemberHas DEF Stated
<1>3. l \in Stating(k, script[n].key)
  <2>1. n \in Stating(k, script[n].key)
    BY <1>1 DEF Stating
  <2> QED BY <2>1, LastIs, LinesAre
<1>4. l # NoLine
  BY <1>3, LinesAre, GivenScript DEF NoLine
<1>5. family \in {"vrf", "acl"} => k \in {"route_target", "rd", "entry"}
  BY <1>1 DEF KindsOf
<1>6. k \in {"route_target", "rd", "entry"} => LineOfMember(m, h) = l
  <2>1. k \in {"route_target", "rd", "entry"} => LineOfMember(m, h) = Located(MemberLastLine(m), h)
    BY <1>2 DEF LineOfMember, Fields, Resettable
  <2> QED BY <1>2, <1>4, <2>1 DEF MemberLastLine, Located
<1>7. k \in {"next_hop", "server"} => LineOfMember(m, h) = h
  BY <1>2 DEF LineOfMember, Fields, Resettable
<1>8. family = "static" => k = "next_hop" /\ n = h
  BY <1>1 DEF KindsOf, Within
<1>9. family = "section" => k = "server"
  BY <1>1 DEF KindsOf
<1> QED BY <1>3, <1>5, <1>6, <1>7, <1>8, <1>9

LEMMA MemberSetOK ==
  ASSUME Given, family \in {"vrf", "acl", "static", "section"}, Finalized, NEW o \in MemberSets
  PROVE  SetOK(o)
<1>1. PICK h, m : ReadIn(h, m) /\ o = Op("SET", m, LineOfMember(m, h), h)
  BY MemberSetsAre
<1>2. Opens(h) /\ \E n \in Within(h) : m = Stated(n)
  BY <1>1, ParsedOther
<1>3. PICK n \in Within(h) : m = Stated(n)
  BY <1>2
<1> DEFINE k == script[n].kind
           l == LastOf(Stating(k, script[n].key))
<1>4. h \in Lines /\ n \in Lines /\ ~script[n].no /\ k \in KindsOf(family)
  BY <1>2, OpensAt
<1>5. /\ o.verb = "SET" /\ o.kind = k /\ o.key = script[n].key /\ o.val = script[n].val
      /\ o.line = LineOfMember(m, h) /\ o.object = h /\ o.source = n
  BY <1>1, <1>3, OpHas, MemberHas DEF Stated
<1>6. script[n].val \in Settings /\ \A x \in Lines : x <= x
  BY <1>4, LineIs, GivenScript
<1>7. o.line \in Lines /\ \E x \in Lines : SpokenAt(o, x)
  <2>1. CASE family \in {"vrf", "acl"}
    <3>1. o.line = l /\ l \in Stating(k, script[n].key)
      BY <1>2, <1>3, <1>5, <2>1, OtherLine
    <3> HIDE DEF l
    <3>2. l \in Lines /\ SpokenAt(o, l)
      BY <1>5, <1>6, <3>1 DEF Stating, SpokenAt, Speaks
    <3> QED BY <3>1, <3>2
  <2>2. CASE family = "static"
    <3>1. o.line = n
      BY <1>2, <1>3, <1>5, <2>2, OtherLine
    <3> QED BY <1>4, <1>5, <1>6, <3>1 DEF SpokenAt, Speaks
  <2>3. CASE family = "section"
    <3>1. o.line = h
      BY <1>2, <1>3, <1>5, <2>3, OtherLine
    <3> QED BY <1>4, <1>5, <2>3, <3>1 DEF SpokenAt, Speaks
  <2> QED BY <2>1, <2>2, <2>3
<1>8. Says(o)
  <2>1. k \in {"route_target", "rd", "entry", "next_hop", "server"}
    BY <1>4 DEF KindsOf
  <2>2. k = "rd" => script[n].key = One
    BY <1>4, ValueOn DEF ListKinds
  <2>3. k = "rd" => n \in Stating(k, One)
    BY <1>4, <2>2 DEF Stating
  <2>4. k # "rd" => o.val = On
    BY <1>4, <1>5, <2>1, ValueOn DEF ListKinds
  <2> QED BY <1>5, <2>1, <2>3, <2>4 DEF Says, ListKinds
<1> QED BY <1>4, <1>5, <1>6, <1>7, <1>8 DEF SetOK

LEMMA BlockHas ==
  ASSUME NEW line, NEW object
  PROVE  LET o == Op("SET", Block, line, object) IN
         /\ o.verb = "SET" /\ o.kind = "block" /\ o.key = One /\ o.val = On
         /\ o.line = line /\ o.object = object /\ o.source = NoLine
BY DEF Op, Block

LEMMA BlockSetOK ==
  ASSUME Given, Finalized, NEW h, Opens(h), family \in {"vrf", "acl", "vlan", "section"},
         NEW line, line = IF family = "vlan" THEN LastOf(Blocks) ELSE h
  PROVE  SetOK(Op("SET", Block, line, h))
<1> DEFINE o == Op("SET", Block, line, h)
<1>1. h \in Lines
  BY OpensAt
<1>2. /\ o.verb = "SET" /\ o.kind = "block" /\ o.key = One /\ o.val = On
      /\ o.line = line /\ o.object = h /\ o.source = NoLine
  BY BlockHas
<1> HIDE DEF o
<1>3. Says(o)
  BY <1>2 DEF Says, ListKinds
<1>4. ASSUME family = "section" PROVE SetOK(o)
  BY <1>1, <1>2, <1>3, <1>4 DEF SetOK, Settings
<1>5. ASSUME family # "section" PROVE SetOK(o)
  <2>1. h \in Blocks
    BY <1>5 DEF Opens
  <2>2. line \in Blocks
    BY <2>1, LastIs, LinesAre
  <2>3. line \in Lines /\ script[line].kind = "block" /\ ~script[line].no /\ script[line].key = One /\ line <= line
    BY <2>2, ValueOn, GivenScript DEF Blocks, ListKinds
  <2>4. SpokenAt(o, line)
    BY <1>2, <2>3 DEF SpokenAt, Speaks
  <2> QED BY <1>1, <1>2, <1>3, <2>3, <2>4 DEF SetOK, Settings
<1> QED BY <1>4, <1>5 DEF o

LEMMA ToggleSetOK ==
  ASSUME Given, NEW o \in LoggingWinner \cup LookupRestated
  PROVE  SetOK(o)
<1>1. CASE o \in LoggingWinner
  <2>1. PICK n \in OnlyLast(Either("logging")) : o = Op("SET", Member(n, Polarity(n)), n, n)
    BY <1>1 DEF LoggingWinner
  <2>2. n \in Lines /\ script[n].kind = "logging" /\ n <= n /\ n = LastOf(Either("logging"))
    <3>1. Either("logging") # {} /\ n \in Either("logging")
      BY DEF OnlyLast
    <3>2. n = LastOf(Either("logging"))
      BY <3>1, LastIs, LinesAre
    <3>3. n \in Lines /\ script[n].kind = "logging"
      BY <3>1 DEF Either, Stating, Negating
    <3>4. n <= n
      BY <3>3, GivenScript
    <3> QED BY <3>2, <3>3, <3>4
  <2>3. /\ o.verb = "SET" /\ o.kind = "logging" /\ o.key = script[n].key /\ o.val = Polarity(n)
        /\ o.line = n /\ o.object = n /\ o.source = n
    BY <2>1, <2>2, OpHas, MemberHas
  <2>4. SpokenAt(o, n)
    BY <2>2, <2>3 DEF SpokenAt, Speaks
  <2>5. Says(o)
    BY <2>2, <2>3 DEF Says, ListKinds
  <2> QED BY <2>2, <2>3, <2>4, <2>5 DEF SetOK, Settings, Polarity
<1>2. CASE o \in LookupRestated
  <2>1. PICK n \in OnlyLast(Stating("lookup", One)) : o = Op("SET", Stated(n), n, n)
    BY <1>2 DEF LookupRestated
  <2>2. n \in Lines /\ script[n].kind = "lookup" /\ ~script[n].no /\ n <= n
    BY GivenScript DEF OnlyLast, Stating
  <2>3. /\ o.verb = "SET" /\ o.kind = "lookup" /\ o.key = script[n].key /\ o.val = On
        /\ o.line = n /\ o.object = n /\ o.source = n
    BY <2>1, <2>2, OpHas, MemberHas, ValueOn DEF Stated
  <2>4. SpokenAt(o, n)
    BY <2>2, <2>3 DEF SpokenAt, Speaks
  <2>5. Says(o)
    BY <2>3 DEF Says, ListKinds
  <2> QED BY <2>2, <2>3, <2>4, <2>5 DEF SetOK, Settings
<1> QED BY <1>1, <1>2

(* Every SET is at a line, at or before a line that speaks of its slot, and *)
(* says what its kind makes of the lines.                                   *)
LEMMA SetsOK ==
  ASSUME Given, Finalized, NEW o \in SetOps
  PROVE  SetOK(o)
<1>1. family \in Families
  BY GivenScript
<1>2. CASE family = "interface"
  BY <1>2, InterfaceSetOK
<1>3. CASE family = "vlan"
  <2>1. PICK i \in objects : o = Op("SET", Block, LastOf(Blocks), i.line)
    BY <1>3 DEF SetOps, _native_vlan_ops
  <2>2. Opens(i.line)
    BY <1>3, ObjectLines
  <2> QED BY <1>3, <2>1, <2>2, BlockSetOK
<1>4. CASE family = "static"
  BY <1>4, MemberSetOK DEF SetOps, _native_static_ops
<1>5. CASE family = "toggles"
  BY <1>5, ToggleSetOK DEF SetOps
<1>6. CASE family \in {"vrf", "acl", "section"}
  <2>1. o \in BlockSetOps
    BY <1>6 DEF SetOps
  <2>2. CASE o \in MemberSets
    BY <1>6, <2>2, MemberSetOK
  <2>3. CASE o \in {Op("SET", Block, i.line, i.line) : i \in objects}
    <3>1. PICK i \in objects : o = Op("SET", Block, i.line, i.line)
      BY <2>3
    <3>2. Opens(i.line)
      BY <1>6, ObjectLines
    <3> QED BY <1>6, <3>1, <3>2, BlockSetOK
  <2> QED BY <2>1, <2>2, <2>3 DEF BlockSetOps
<1> QED BY <1>1, <1>2, <1>3, <1>4, <1>5, <1>6 DEF Families

-----------------------------------------------------------------------------
(* What the removals remove. *)

FieldRemovals ==
  IF family = "interface" /\ Blocks # {}
  THEN ShadowedUnsets \cup _detect_interface_field_negation_ops \cup FlagUnsets ELSE {}
AllRemovals == FieldRemovals \cup QueuedRemovals

\* The lines whose operation is a removal.
Withdraws(n) == n \in Lines /\ ~Speaks(n)

RemovalVerbs == {"UNSET", "LIST_REMOVE", "OBJECT_DELETE"}
RemovalOf(o, n) ==
  /\ Withdraws(n) /\ o.verb \in RemovalVerbs
  /\ o.kind = script[n].kind /\ o.key = script[n].key /\ o.val = Absent
  /\ o.line = n /\ o.object = n /\ o.source = n
RemovalOK(o) == \E n \in Lines : RemovalOf(o, n)

LEMMA RemovalHas ==
  ASSUME NEW verb \in RemovalVerbs, NEW n, Withdraws(n)
  PROVE  RemovalOf(Removal(verb, n), n)
<1>1. LET m == Member(n, Absent) IN
        m.kind = script[n].kind /\ m.key = script[n].key /\ m.val = Absent /\ m.source = n
  BY MemberHas
<1>2. LET m == Member(n, Absent)
          o == Removal(verb, n)
      IN  /\ o.verb = verb /\ o.kind = m.kind /\ o.key = m.key /\ o.val = m.val
          /\ o.line = n /\ o.object = n /\ o.source = m.source
  BY OpHas DEF Removal
<1> QED BY <1>1, <1>2 DEF RemovalOf

LEMMA RemovalsAtOK ==
  ASSUME NEW verb \in RemovalVerbs, NEW lines, \A n \in lines : Withdraws(n),
         NEW o \in RemovalsAt(verb, lines)
  PROVE  RemovalOK(o)
<1>1. PICK n \in lines : o = Removal(verb, n)
  BY DEF RemovalsAt
<1> QED BY <1>1, RemovalHas DEF RemovalOK, Withdraws

LEMMA WithdrawsIs ==
  ASSUME NEW n
  PROVE  Withdraws(n) <=> /\ n \in Lines /\ script[n].no
                          /\ script[n].kind \notin {"ospf_passive", "cdp_enable", "logging"}
BY DEF Withdraws, Speaks

LEMMA RemovalsOK ==
  ASSUME Given, NEW o \in AllRemovals
  PROVE  RemovalOK(o)
<1> DEFINE Quiet(k) == k \notin {"ospf_passive", "cdp_enable", "logging"}
<1>1. /\ \A k : Quiet(k) => \A n \in Negations(k) : Withdraws(n)
      /\ \A k, key : Quiet(k) => \A n \in Negating(k, key) : Withdraws(n)
      /\ \A n \in Deletes : Withdraws(n)
  BY WithdrawsIs DEF Negations, Negating, Deletes
<1>2. /\ \A k : Quiet(k) => \A n \in OnlyLast(Negations(k)) : Withdraws(n)
      /\ \A k : Quiet(k) => \A n \in OnlyLast(Reset(k)) : Withdraws(n)
      /\ \A k : Quiet(k) => \A n \in WithOperand(k) : Withdraws(n)
      /\ \A n \in OnlyFirst(Deletes) : Withdraws(n)
  BY <1>1 DEF OnlyLast, OnlyFirst, Reset, WithOperand
<1>3. "UNSET" \in RemovalVerbs /\ "LIST_REMOVE" \in RemovalVerbs /\ "OBJECT_DELETE" \in RemovalVerbs
  BY DEF RemovalVerbs
<1>4. CASE o \in FieldRemovals
  <2>1. \/ o \in RemovalsAt("UNSET", OnlyLast(Negations("description")))
        \/ o \in RemovalsAt("UNSET", Negations("access_group"))
        \/ o \in RemovalsAt("UNSET", OnlyLast(Negations("shutdown")))
        \/ o \in RemovalsAt("UNSET", OnlyLast(Reset("helper")))
        \/ o \in RemovalsAt("UNSET", OnlyLast(Reset("ipv6")))
        \/ o \in RemovalsAt("UNSET", OnlyLast(Negations("mpls_ip")))
    BY <1>4 DEF FieldRemovals, ShadowedUnsets, _detect_interface_field_negation_ops, FlagUnsets
  <2> QED BY <1>1, <1>2, <1>3, <2>1, RemovalsAtOK
<1>5. CASE o \in QueuedRemovals
  <2>1. family \in Families
    BY GivenScript
  <2>2. \/ o \in RemovalsAt("OBJECT_DELETE", Deletes)
        \/ o \in RemovalsAt("UNSET", OnlyFirst(Deletes))
        \/ o \in RemovalsAt("LIST_REMOVE", WithOperand("helper"))
        \/ o \in RemovalsAt("LIST_REMOVE", Negations("route_target"))
        \/ o \in RemovalsAt("UNSET", Negations("rd"))
        \/ o \in RemovalsAt("LIST_REMOVE", Negations("entry"))
        \/ o \in RemovalsAt("LIST_REMOVE", Negations("next_hop"))
        \/ o \in RemovalsAt("LIST_REMOVE", Negations("server"))
        \/ o \in RemovalsAt("UNSET", OnlyLast(Negations("lookup")))
    BY <1>5, <2>1 DEF QueuedRemovals, WholeDeletes, NullOut, Families
  <2> QED BY <1>1, <1>2, <1>3, <2>2, RemovalsAtOK
<1> QED BY <1>4, <1>5 DEF AllRemovals

-----------------------------------------------------------------------------
(* The lines about a slot. *)

LastAbout(s, n) == n \in About(s) /\ \A m \in About(s) : m <= n

LEMMA AboutIs ==
  ASSUME NEW k, NEW key, NEW n
  PROVE  n \in About(<<k, key>>) <=>
           /\ n \in Lines
           /\ ~script[n].no => script[n].kind = k /\ script[n].key = key
           /\ script[n].no => \/ script[n].kind = "block"
                              \/ script[n].kind = k /\ script[n].key \in {All, key}
BY DEF About

LEMMA SlotIs ==
  ASSUME Given, NEW s \in SlotsOf(family)
  PROVE  /\ s = <<s[1], s[2]>> /\ s[1] \in Kinds
         /\ s[1] \in KindsOf(family) \/ (s[1] = "block" /\ family \in {"vrf", "acl", "vlan"})
         /\ s[1] \in ListKinds => s[2] \in Keys /\ s[2] # All
         /\ s[1] \notin ListKinds => s[2] = One
BY KeysAssumption DEF SlotsOf, KeysOf

(* If the last line about a slot does not speak, it has a removal; in a    *)
(* section a removal wins wherever it is.                                  *)
LEMMA LastHasRemoval ==
  ASSUME Given, NEW k, NEW key, <<k, key>> \in SlotsOf(family), ~Blurred(<<k, key>>),
         NEW n, LastAbout(<<k, key>>, n), Withdraws(n)
  PROVE  \E m \in About(<<k, key>>), verb \in RemovalVerbs :
           /\ Removal(verb, m) \in AllRemovals /\ Withdraws(m)
           /\ m = n \/ family = "section"
<1> DEFINE s == <<k, key>>
<1>1. /\ n \in Lines /\ script[n].no
      /\ script[n].kind = "block" \/ (script[n].kind = k /\ script[n].key \in {All, key})
  BY AboutIs, WithdrawsIs DEF LastAbout
<1>2. /\ k \in KindsOf(family) \/ (k = "block" /\ family \in {"vrf", "acl", "vlan"})
      /\ k \in ListKinds => key \in Keys /\ key # All
      /\ k \notin ListKinds => key = One
  BY SlotIs
<1>3. n \in About(s) /\ \A m \in About(s) : m <= n
  BY DEF LastAbout
<1>4. "UNSET" \in RemovalVerbs /\ "LIST_REMOVE" \in RemovalVerbs /\ "OBJECT_DELETE" \in RemovalVerbs
  BY DEF RemovalVerbs
<1>5. SUFFICES \/ \E m \in About(s), verb \in RemovalVerbs :
                    Removal(verb, m) \in AllRemovals /\ Withdraws(m) /\ family = "section"
               \/ \E verb \in RemovalVerbs : Removal(verb, n) \in AllRemovals
  BY <1>3
<1>6. CASE script[n].kind = "block"
  <2>1. n \in Deletes
    BY <1>1, <1>6 DEF Deletes
  <2>2. CASE family = "section"
    <3>1. PICK m \in Deletes : OnlyFirst(Deletes) = {m}
      BY <2>1, FirstIs, LinesAre
    <3>2. Removal("UNSET", m) \in AllRemovals
      BY <2>2, <3>1 DEF AllRemovals, QueuedRemovals, NullOut, RemovalsAt
    <3>3. m \in About(s) /\ Withdraws(m)
      BY AboutIs, WithdrawsIs DEF Deletes
    <3> QED BY <1>4, <2>2, <3>2, <3>3
  <2>3. CASE family # "section"
    <3>1. family \in {"interface", "vrf", "acl", "vlan"}
      BY <1>1, <1>6, <2>3, LineIs DEF Headed
    <3>2. Removal("OBJECT_DELETE", n) \in AllRemovals
      BY <2>1, <3>1 DEF AllRemovals, QueuedRemovals, WholeDeletes, RemovalsAt
    <3> QED BY <1>4, <3>2
  <2> QED BY <2>2, <2>3
<1>7. CASE script[n].kind # "block"
  <2>1. script[n].kind = k /\ script[n].key \in {All, key} /\ k \in KindsOf(family)
    BY <1>1, <1>7, LineIs
  <2>2. /\ k \notin ListKinds => script[n].key = One
        /\ k \in ListKinds => script[n].key \in Keys \cup {All}
        /\ k # "unnumbered"
        /\ k = "ipv6" => script[n].key = All
    BY <1>1, <2>1, NegatedKey
  <2>3. n \in Negations(k) /\ n \in Negating(k, script[n].key)
    BY <1>1, <2>1 DEF Negations, Negating
  <2>4. \A m \in Negations(k) : k \notin ListKinds => m \in About(s)
    <3> SUFFICES ASSUME NEW m \in Negations(k), k \notin ListKinds PROVE m \in About(s)
      OBVIOUS
    <3>1. m \in Lines /\ script[m].no /\ script[m].kind = k
      BY DEF Negations
    <3>2. script[m].key = One
      BY <3>1, NegatedKey
    <3> QED BY <1>2, <3>1, <3>2, AboutIs
  <2>5. k \notin ListKinds => n \in OnlyLast(Negations(k))
    BY <1>3, <2>3, <2>4 DEF OnlyLast
  <2>6. script[n].key = All => n \in OnlyLast(Reset(k))
    <3>1. \A m \in Reset(k) : m \in About(s)
      BY AboutIs DEF Reset, Negating
    <3> QED BY <1>3, <2>3, <3>1 DEF OnlyLast, Reset
  <2>7. CASE family = "interface"
    <3>1. Blocks # {}
      BY <1>1, <1>7, <2>7, BlockOfLine DEF Headed
    <3>2. FieldRemovals = ShadowedUnsets \cup _detect_interface_field_negation_ops \cup FlagUnsets
      BY <2>7, <3>1 DEF FieldRemovals
    <3>3. k \in Fields \cup Resettable /\ k # "unnumbered" /\ k \notin {"ospf_passive", "cdp_enable"}
      BY <2>1, <2>2, <2>7, WithdrawsIs DEF KindsOf
    <3>4. CASE k = "access_group"
      <4>1. Removal("UNSET", n) \in FieldRemovals
        BY <2>3, <3>2, <3>4 DEF _detect_interface_field_negation_ops, RemovalsAt
      <4> QED BY <1>4, <4>1 DEF AllRemovals
    <3>5. CASE k = "description"
      <4>1. Stating(k, One) = {}
        <5> SUFFICES ASSUME NEW m \in Stating(k, One) PROVE FALSE
          OBVIOUS
        <5>1. key = One /\ m \in Lines /\ ~script[m].no /\ script[m].kind = k /\ script[m].key = One
          BY <1>2, <3>5 DEF Stating, ListKinds
        <5>2. m \in About(s) /\ m # n
          BY <1>1, <5>1, AboutIs
        <5>3. m \in Nat /\ n \in Nat /\ m <= n
          BY <1>1, <1>3, <5>1, <5>2, GivenScript
        <5>4. m < n
          BY <5>2, <5>3
        <5>5. s[1] = k /\ s[2] = key
          OBVIOUS
        <5> HIDE DEF s
        <5>6. ~Blurred(s)
          BY DEF s
        <5> QED BY <2>3, <3>5, <5>1, <5>4, <5>5, <5>6 DEF Blurred, Resettable
      <4>2. Removal("UNSET", n) \in FieldRemovals
        BY <2>5, <3>2, <3>5, <4>1 DEF ShadowedUnsets, RemovalsAt, ListKinds
      <4> QED BY <1>4, <4>2 DEF AllRemovals
    <3>6. CASE k = "shutdown"
      <4>1. ~_is_shutdown
        <5> DEFINE a == LastOf(Stating("shutdown", One))
                   b == LastOf(Negating("shutdown", One))
        <5>1. key = One /\ n \in Negating("shutdown", One)
          BY <1>2, <2>2, <2>3, <3>6 DEF ListKinds
        <5>2. b \in Nat /\ n <= b /\ n \in Nat
          BY <5>1, LastIs, LinesAre, GivenScript
        <5>3. a \in Nat /\ a <= n
          <6>1. CASE Stating("shutdown", One) = {}
            <7>1. a = NoLine
              BY <6>1, NoneLast
            <7> HIDE DEF a
            <7>2. a \in Nat /\ a <= n
              BY <1>1, <7>1, GivenScript DEF NoLine
            <7> QED BY <7>2 DEF a
          <6>2. CASE Stating("shutdown", One) # {}
            <7>1. a \in Stating("shutdown", One)
              BY <6>2, LastIs, LinesAre
            <7> HIDE DEF a
            <7>2. a \in About(s)
              BY <3>6, <5>1, <7>1, AboutIs DEF Stating
            <7> QED BY <1>3, <7>1, <7>2, LinesAre, GivenScript
          <6> QED BY <6>1, <6>2
        <5>4. ~(a > b)
          <6> HIDE DEF a, b
          <6> QED BY <5>2, <5>3
        <5> QED BY <5>4 DEF _is_shutdown
      <4>2. Removal("UNSET", n) \in FieldRemovals
        BY <2>5, <3>2, <3>6, <4>1 DEF _detect_interface_field_negation_ops, RemovalsAt, ListKinds
      <4> QED BY <1>4, <4>2 DEF AllRemovals
    <3>7. CASE k = "mpls_ip"
      <4>1. Removal("UNSET", n) \in FieldRemovals
        BY <2>5, <3>2, <3>7 DEF FlagUnsets, RemovalsAt, ListKinds
      <4> QED BY <1>4, <4>1 DEF AllRemovals
    <3>8. CASE k \in Resettable /\ script[n].key = All
      <4>1. Removal("UNSET", n) \in FieldRemovals
        BY <2>6, <3>2, <3>8 DEF _detect_interface_field_negation_ops, RemovalsAt, Resettable
      <4> QED BY <1>4, <4>1 DEF AllRemovals
    <3>9. CASE k = "helper" /\ script[n].key # All
      <4>1. Removal("LIST_REMOVE", n) \in QueuedRemovals
        BY <2>3, <2>7, <3>9 DEF QueuedRemovals, RemovalsAt, WithOperand
      <4> QED BY <1>4, <4>1 DEF AllRemovals
    <3> QED BY <2>2, <3>3, <3>4, <3>5, <3>6, <3>7, <3>8, <3>9 DEF Fields, Resettable
  <2>8. CASE family # "interface"
    <3>1. family \in Families
      BY GivenScript
    <3>2. k # "logging"
      BY <2>1, WithdrawsIs
    <3>3. \/ family = "vrf" /\ k \in {"route_target", "rd"}
          \/ family = "acl" /\ k = "entry"
          \/ family = "static" /\ k = "next_hop"
          \/ family = "section" /\ k = "server"
          \/ family = "toggles" /\ k = "lookup"
      <4>1. family = "vrf" => k \in {"route_target", "rd"}
        BY <2>1 DEF KindsOf
      <4>2. family = "acl" => k = "entry"
        BY <2>1 DEF KindsOf
      <4>3. family = "static" => k = "next_hop"
        BY <2>1 DEF KindsOf
      <4>4. family = "section" => k = "server"
        BY <2>1 DEF KindsOf
      <4>5. family = "toggles" => k \in {"lookup", "logging"}
        BY <2>1 DEF KindsOf
      <4>6. family # "vlan"
        BY <2>1 DEF KindsOf
      <4> QED BY <2>8, <3>1, <3>2, <4>1, <4>2, <4>3, <4>4, <4>5, <4>6 DEF Families
    <3>4. CASE k \in {"route_target", "entry", "next_hop", "server"}
      <4>1. Removal("LIST_REMOVE", n) \in QueuedRemovals
        BY <2>3, <3>3, <3>4 DEF QueuedRemovals, RemovalsAt
      <4> QED BY <1>4, <4>1 DEF AllRemovals
    <3>5. CASE k = "rd"
      <4>1. Removal("UNSET", n) \in QueuedRemovals
        BY <2>3, <3>3, <3>5 DEF QueuedRemovals, RemovalsAt
      <4> QED BY <1>4, <4>1 DEF AllRemovals
    <3>6. CASE k = "lookup"
      <4>1. Removal("UNSET", n) \in QueuedRemovals
        BY <2>5, <3>3, <3>6 DEF QueuedRemovals, RemovalsAt, ListKinds
      <4> QED BY <1>4, <4>1 DEF AllRemovals
    <3> QED BY <3>3, <3>4, <3>5, <3>6
  <2> QED BY <2>7, <2>8
<1> QED BY <1>6, <1>7

(* If the last line about a slot speaks, it has a SET, and the SET is at   *)
(* the line or no line about the slot withdraws anything.                  *)
Undisturbed(s) == \A m \in About(s) : ~Withdraws(m)

SetAt(k, key, n, o) ==
  /\ o.verb = "SET" /\ o.kind = k /\ o.key = key
  /\ o.line = n \/ Undisturbed(<<k, key>>)

LEMMA LastStating ==
  ASSUME Given, NEW k, NEW key, NEW n, LastAbout(<<k, key>>, n)
  PROVE  /\ n \in Lines /\ n \in Nat /\ n # NoLine
         /\ ~script[n].no =>
              /\ script[n].kind = k /\ script[n].key = key
              /\ n \in Stating(k, key) /\ n \in OnlyLast(Stating(k, key)) /\ LastOf(Stating(k, key)) = n
         /\ key = One /\ script[n].kind = k /\ script[n].key = key =>
              /\ n \in OnlyLast(Either(k)) /\ LastOf(Either(k)) = n
              /\ script[n].no => n \in OnlyLast(Negating(k, key))
         /\ \A m \in About(<<k, key>>) : m \in Nat /\ (m < n \/ m = n)
<1> DEFINE s == <<k, key>>
<1>1. n \in Lines /\ n \in Nat /\ n >= 1 /\ \A m \in About(s) : m <= n
  BY AboutIs, LineIs DEF LastAbout
<1>2. \A m \in About(s) : m \in Nat /\ (m < n \/ m = n)
  BY <1>1, AboutIs, GivenScript
<1>3. ASSUME ~script[n].no
      PROVE  /\ script[n].kind = k /\ script[n].key = key
             /\ n \in Stating(k, key) /\ n \in OnlyLast(Stating(k, key)) /\ LastOf(Stating(k, key)) = n
  <2>1. script[n].kind = k /\ script[n].key = key
    BY <1>3, AboutIs DEF LastAbout
  <2>2. n \in Stating(k, key) /\ \A m \in Stating(k, key) : m <= n
    BY <1>1, <1>3, <2>1, AboutIs DEF Stating
  <2>3. n \in OnlyLast(Stating(k, key))
    BY <2>2 DEF OnlyLast
  <2> QED BY <2>1, <2>2, <2>3, LastIs, LinesAre
<1>4. ASSUME key = One, script[n].kind = k, script[n].key = key
      PROVE  n \in OnlyLast(Either(k)) /\ LastOf(Either(k)) = n /\ (script[n].no => n \in OnlyLast(Negating(k, key)))
  <2>1. n \in Either(k) /\ \A m \in Either(k) : m <= n
    BY <1>1, <1>4, AboutIs DEF Either, Stating, Negating
  <2>2. n \in OnlyLast(Either(k)) /\ (script[n].no => n \in OnlyLast(Negating(k, key)))
    BY <1>1, <1>4, <2>1 DEF OnlyLast, Either, Negating
  <2> QED BY <2>1, <2>2, LastIs, LinesAre
<1> QED BY <1>1, <1>2, <1>3, <1>4 DEF NoLine

LEMMA FieldSet ==
  ASSUME Given, family = "interface", Finalized, NEW x \in Lines, script[x].kind # "block",
         NEW m, FieldFrom(x, m), Kept(m)
  PROVE  \E h \in OnlyFirst(Blocks) : FieldFacts(h, x, m) /\ Op("SET", m, LineOfMember(m, h), h) \in SetOps
<1>1. Blocks # {}
  BY BlockOfLine DEF Headed
<1>2. PICK h \in OnlyFirst(Blocks) : TRUE
  BY <1>1, FirstIs, LinesAre
<1>3. ReadIn(h, m)
  BY ParsedInterface
<1>4. Op("SET", m, LineOfMember(m, h), h) \in MemberSets
  BY <1>3, MemberSetsAre
<1>5. Op("SET", m, LineOfMember(m, h), h) \in SetOps
  BY <1>4 DEF SetOps, _native_iface_set_ops
<1> QED BY <1>5, FieldIs

LEMMA InterfaceLastHasSet ==
  ASSUME Given, family = "interface", Finalized, NEW k, NEW key, <<k, key>> \in SlotsOf(family),
         ~Blurred(<<k, key>>), NEW n, LastAbout(<<k, key>>, n), Speaks(n), script[n].kind = k, script[n].key = key
  PROVE  \E o \in SetOps : SetAt(k, key, n, o)
<1> DEFINE s == <<k, key>>
<1>1. /\ k \in KindsOf(family) /\ k # "block"
      /\ k \in ListKinds => key \in Keys /\ key # All
      /\ k \notin ListKinds => key = One
  BY SlotIs, FamilyOf
<1>2. k \in Fields \cup Resettable
  BY <1>1 DEF KindsOf
<1>3. /\ n \in Lines /\ n \in Nat /\ n # NoLine
      /\ ~script[n].no => n \in Stating(k, key) /\ n \in OnlyLast(Stating(k, key)) /\ LastOf(Stating(k, key)) = n
      /\ key = One => n \in OnlyLast(Either(k)) /\ LastOf(Either(k)) = n
      /\ key = One /\ script[n].no => n \in OnlyLast(Negating(k, key))
      /\ \A m \in About(s) : m \in Nat /\ (m < n \/ m = n)
  BY LastStating
<1>4. /\ \A m : m.kind \in Fields => Kept(m)
      /\ \A m : m.kind = k /\ Reset(k) = {} => Kept(m)
  BY DEF Kept, Finalized, ResetKinds, Fields, Resettable
<1>5. ASSUME NEW x \in Lines, NEW m, FieldFrom(x, m), Kept(m), script[x].kind = k, script[x].key = key
      PROVE  \E o \in SetOps, h \in OnlyFirst(Blocks) :
               /\ o.verb = "SET" /\ o.kind = k /\ o.key = key /\ o.line = LineOfMember(m, h) /\ FieldFacts(h, x, m)
  <2>1. PICK h \in OnlyFirst(Blocks) : FieldFacts(h, x, m) /\ Op("SET", m, LineOfMember(m, h), h) \in SetOps
    BY <1>1, <1>5, FieldSet
  <2>2. m.kind = k /\ m.key = key
    BY <1>5, <2>1 DEF FieldFacts
  <2> QED BY <2>1, <2>2, OpHas
<1>6. \A m \in About(s) : Withdraws(m) => m < n /\ script[m].no
  <2> SUFFICES ASSUME NEW m \in About(s), Withdraws(m) PROVE m < n /\ script[m].no
    OBVIOUS
  <2>1. m # n /\ script[m].no
    BY DEF Withdraws, Speaks
  <2> QED BY <1>3, <2>1
<1>7. CASE k \in {"access_group", "description", "mpls_ip", "unnumbered"}
  <2>1. ~script[n].no /\ key = One /\ k \in Fields
    BY <1>1, <1>7 DEF Speaks, ListKinds, Fields
  <2>2. FieldFrom(n, Stated(n))
    BY <1>3, <1>7, <2>1 DEF FieldFrom
  <2>3. Kept(Stated(n))
    BY <1>4, <2>1, MemberHas DEF Stated
  <2>4. PICK o \in SetOps, h \in OnlyFirst(Blocks) :
          o.verb = "SET" /\ o.kind = k /\ o.key = key /\ o.line = LineOfMember(Stated(n), h) /\ FieldFacts(h, n, Stated(n))
    BY <1>3, <1>5, <2>2, <2>3
  <2>5. CASE k # "unnumbered"
    <3>1. o.line = n
      BY <1>7, <2>4, <2>5 DEF FieldFacts
    <3> QED BY <2>4, <3>1 DEF SetAt
  <2>6. CASE k = "unnumbered"
    <3>1. Undisturbed(s)
      <4> SUFFICES ASSUME NEW m \in About(s), Withdraws(m) PROVE FALSE
        BY DEF Undisturbed
      <4>1. m < n /\ script[m].no
        BY <1>6
      <4>2. s[1] = k /\ s[2] = key /\ n \in Stating(k, key)
        BY <1>3, <2>1
      <4> HIDE DEF s
      <4>3. m \in RemovedBefore(n, s)
        BY <4>1 DEF RemovedBefore
      <4>4. ~Blurred(s)
        BY DEF s
      <4> QED BY <2>6, <4>2, <4>3, <4>4 DEF Blurred, Resettable
    <3> QED BY <2>4, <3>1 DEF SetAt
  <2> QED BY <2>5, <2>6
<1>8. CASE k = "shutdown"
  <2>1. ~script[n].no /\ key = One /\ k \in Fields
    BY <1>1, <1>8 DEF Speaks, ListKinds, Fields
  <2>2. _is_shutdown
    <3> DEFINE b == LastOf(Negating(k, One))
    <3>1. b < n
      <4>1. CASE Negating(k, One) = {}
        <5>1. b = NoLine
          BY <4>1, NoneLast
        <5> HIDE DEF b
        <5> QED BY <1>3, <5>1 DEF NoLine
      <4>2. CASE Negating(k, One) # {}
        <5>1. b \in Negating(k, One)
          BY <4>2, LastIs, LinesAre
        <5> HIDE DEF b
        <5>2. b \in About(s) /\ b # n
          BY <2>1, <5>1, AboutIs DEF Negating
        <5> QED BY <1>3, <5>2
      <4> QED BY <4>1, <4>2
    <3>2. LastOf(Stating(k, One)) = n
      BY <1>3, <2>1
    <3>3. b \in Nat
      <4>1. b = NoLine \/ b \in Lines
        BY LastIs, LinesAre, NoneLast
      <4> HIDE DEF b
      <4> QED BY <4>1, GivenScript DEF NoLine
    <3>4. n > b
      <4> HIDE DEF b
      <4> QED BY <1>3, <3>1, <3>3
    <3> QED BY <1>8, <3>2, <3>4 DEF _is_shutdown
  <2>3. FieldFrom(n, Stated(n))
    BY <1>3, <1>8, <2>1, <2>2 DEF FieldFrom
  <2>4. Kept(Stated(n))
    BY <1>4, <2>1, MemberHas DEF Stated
  <2>5. PICK o \in SetOps, h \in OnlyFirst(Blocks) :
          o.verb = "SET" /\ o.kind = k /\ o.key = key /\ o.line = LineOfMember(Stated(n), h) /\ FieldFacts(h, n, Stated(n))
    BY <1>3, <1>5, <2>3, <2>4
  <2>6. o.line = n
    BY <1>8, <2>5 DEF FieldFacts
  <2> QED BY <2>5, <2>6 DEF SetAt
<1>9. CASE k = "ospf_passive"
  <2> DEFINE mem == Member(n, Polarity(n))
  <2>1. key = One /\ k \in Fields
    BY <1>1, <1>9 DEF ListKinds, Fields
  <2>2. FieldFrom(n, mem)
    BY <1>3, <1>9, <2>1 DEF FieldFrom
  <2>3. Kept(mem)
    BY <1>4, <2>1, MemberHas
  <2> HIDE DEF mem
  <2>4. PICK o \in SetOps, h \in OnlyFirst(Blocks) :
          o.verb = "SET" /\ o.kind = k /\ o.key = key /\ o.line = LineOfMember(mem, h) /\ FieldFacts(h, n, mem)
    BY <1>3, <1>5, <2>2, <2>3
  <2>5. o.line = n
    BY <1>9, <2>4 DEF FieldFacts
  <2> QED BY <2>4, <2>5 DEF SetAt
<1>10. CASE k = "cdp_enable"
  <2>1. key = One /\ k \in Fields
    BY <1>1, <1>10 DEF ListKinds, Fields
  <2>2. CASE script[n].no
    <3> DEFINE mem == Member(n, Off)
    <3>1. FieldFrom(n, mem)
      BY <1>3, <1>10, <2>1, <2>2 DEF FieldFrom
    <3>2. Kept(mem)
      BY <1>4, <2>1, MemberHas
    <3> HIDE DEF mem
    <3>3. PICK o \in SetOps, h \in OnlyFirst(Blocks) :
            o.verb = "SET" /\ o.kind = k /\ o.key = key /\ o.line = LineOfMember(mem, h) /\ FieldFacts(h, n, mem)
      BY <1>3, <1>5, <3>1, <3>2
    <3>4. o.line = n
      BY <1>3, <1>10, <2>1, <3>3 DEF FieldFacts
    <3> QED BY <3>3, <3>4 DEF SetAt
  <2>3. CASE ~script[n].no
    <3>1. Negating(k, One) = {}
      <4> SUFFICES ASSUME NEW m \in Negating(k, One) PROVE FALSE
        OBVIOUS
      <4>1. m \in About(s) /\ m # n /\ m \in Negations(k)
        BY <2>1, <2>3, AboutIs DEF Negating, Negations
      <4>2. m < n /\ n \in Stating(k, key) /\ s[1] = k /\ s[2] = key
        BY <1>3, <2>3, <4>1
      <4> HIDE DEF s
      <4>3. ~Blurred(s)
        BY DEF s
      <4> QED BY <1>10, <4>1, <4>2, <4>3 DEF Blurred, Resettable
    <3>2. objects # {}
      <4>1. Blocks # {}
        BY <1>1, <1>3, BlockOfLine DEF Headed
      <4>2. PICK h \in OnlyFirst(Blocks) : TRUE
        BY <4>1, FirstIs, LinesAre
      <4>3. Stanza(FieldMembers \cup ListMembers, h) \in Parsed
        BY DEF Parsed
      <4> QED BY <4>3 DEF Finalized, Final
    <3> DEFINE o == Op("SET", Stated(n), n, n)
    <3>3. o \in _IFACE_POSITIVE_RESTATE_PATTERNS
      BY <1>3, <1>10, <2>1, <2>3, <3>1, <3>2 DEF _IFACE_POSITIVE_RESTATE_PATTERNS
    <3>4. o \in SetOps
      BY <3>3 DEF SetOps, _native_iface_set_ops
    <3>5. o.verb = "SET" /\ o.kind = k /\ o.key = key /\ o.line = n
      BY OpHas, MemberHas DEF Stated
    <3> HIDE DEF o
    <3> QED BY <3>4, <3>5 DEF SetAt
  <2> QED BY <2>2, <2>3
<1>11. CASE k \in Resettable
  <2>1. ~script[n].no
    BY <1>11 DEF Speaks, Resettable
  <2>2. PICK x \in Stating(k, key) : \A j \in Stating(k, key) : x <= j
    BY <1>3, <2>1, FirstIs, LinesAre
  <2>3. x \in Lines /\ script[x].kind = k /\ script[x].key = key /\ ~script[x].no
    BY DEF Stating
  <2>4. FieldFrom(x, Stated(x))
    <3>1. \A j \in Lines : SameMember(x, j) /\ ~script[j].no => j \in Stating(k, key)
      BY <2>3 DEF SameMember, Stating
    <3> QED BY <1>11, <2>2, <2>3, <3>1 DEF FieldFrom
  <2>5. Stated(x).kind = k /\ Stated(x).key = key
    BY <2>3, MemberHas DEF Stated
  <2>6. \A m \in Reset(k) : m \in About(s) /\ script[m].no /\ m < n
    <3> SUFFICES ASSUME NEW m \in Reset(k) PROVE m \in About(s) /\ script[m].no /\ m < n
      OBVIOUS
    <3>1. m \in About(s) /\ script[m].no /\ m # n
      BY <2>1, AboutIs DEF Reset, Negating
    <3> QED BY <1>3, <3>1
  <2> DEFINE T == {y \in Stating(k, key) : script[y].as}
  <2>7. CASE script[n].as
    <3>1. n \in T /\ T \in SUBSET Lines
      BY <1>3, <2>1, <2>7 DEF Stating
    <3>2. LastOf(T) = n
      <4>1. OnlyLast(T) = {LastOf(T)}
        BY <3>1, LastIs
      <4>2. n \in OnlyLast(T)
        BY <1>3, <2>1, <3>1 DEF OnlyLast
      <4> QED BY <4>1, <4>2
    <3>3. Kept(Stated(x))
      <4>1. _IFACE_MEMBER_LINE_BUILDERS(Stated(x)) = n
        BY <2>5, <3>2 DEF _IFACE_MEMBER_LINE_BUILDERS
      <4>2. n > LastOf(Reset(k))
        <5> DEFINE b == LastOf(Reset(k))
        <5>1. CASE Reset(k) = {}
          <6>1. b = NoLine
            BY <5>1, NoneLast
          <6> HIDE DEF b
          <6>2. n > b
            BY <1>3, <6>1 DEF NoLine
          <6> QED BY <6>2 DEF b
        <5>2. CASE Reset(k) # {}
          <6>1. b \in Reset(k)
            BY <5>2, LastIs, LinesAre
          <6> HIDE DEF b
          <6>2. b < n /\ b \in Nat
            BY <2>6, <6>1, LinesAre, GivenScript
          <6>3. n > b
            BY <1>3, <6>2
          <6> QED BY <6>3 DEF b
        <5> QED BY <5>1, <5>2
      <4> QED BY <2>5, <4>1, <4>2 DEF Kept
    <3>4. PICK o \in SetOps, h \in OnlyFirst(Blocks) :
            o.verb = "SET" /\ o.kind = k /\ o.key = key /\ o.line = LineOfMember(Stated(x), h) /\ FieldFacts(h, x, Stated(x))
      BY <1>5, <2>3, <2>4, <3>3
    <3>5. o.line = Located(LastOf(T), h)
      BY <1>11, <2>3, <3>4 DEF FieldFacts
    <3>6. o.line = n
      BY <1>3, <3>2, <3>5 DEF Located
    <3> QED BY <3>4, <3>6 DEF SetAt
  <2>8. CASE ~script[n].as
    <3>2. \A m \in About(s) : ~(script[m].no /\ m < n)
      <4> SUFFICES ASSUME NEW m \in About(s), script[m].no, m < n PROVE FALSE
        OBVIOUS
      <4>1. s[1] = k /\ s[2] = key /\ n \in Stating(k, key)
        BY <1>3, <2>1
      <4> HIDE DEF s
      <4>2. m \in RemovedBefore(n, s)
        BY DEF RemovedBefore
      <4>3. ~Blurred(s)
        BY DEF s
      <4> QED BY <1>11, <2>8, <4>1, <4>2, <4>3 DEF Blurred, Resettable
    <3>3. Reset(k) = {} /\ Undisturbed(s)
      BY <1>6, <2>6, <3>2 DEF Undisturbed
    <3>4. Kept(Stated(x))
      BY <1>4, <2>5, <3>3
    <3>5. PICK o \in SetOps, h \in OnlyFirst(Blocks) :
            o.verb = "SET" /\ o.kind = k /\ o.key = key /\ o.line = LineOfMember(Stated(x), h) /\ FieldFacts(h, x, Stated(x))
      BY <1>5, <2>3, <2>4, <3>4
    <3> QED BY <3>3, <3>5 DEF SetAt
  <2> QED BY <2>7, <2>8
<1> QED BY <1>2, <1>7, <1>8, <1>9, <1>10, <1>11 DEF Fields

LEMMA MemberSetsIn ==
  ASSUME family \in {"vrf", "acl", "static", "section"}
  PROVE  MemberSets \subseteq SetOps
BY DEF SetOps, BlockSetOps, _native_static_ops

LEMMA BlockLastHasSet ==
  ASSUME Given, family \in {"vrf", "acl", "vlan"}, Finalized,
         NEW n, LastAbout(<<"block", One>>, n), ~script[n].no
  PROVE  \E o \in SetOps : SetAt("block", One, n, o)
<1>1. /\ n \in Blocks /\ LastOf(Stating("block", One)) = n
  BY LastStating DEF Blocks
<1>2. Stating("block", One) = Blocks
  <2>1. \A m \in Lines : script[m].kind = "block" => script[m].key = One
    BY LineIs
  <2> QED BY <2>1 DEF Stating, Blocks
<1>3. Opens(n)
  BY <1>1 DEF Opens
<1>4. PICK i \in objects : i.line = n
  BY <1>3, ObjectLines
<1> DEFINE o == Op("SET", Block, n, n)
<1>5. o \in SetOps
  <2>1. CASE family = "vlan"
    BY <1>1, <1>2, <1>4, <2>1 DEF SetOps, _native_vlan_ops
  <2>2. CASE family \in {"vrf", "acl"}
    BY <1>4, <2>2 DEF SetOps, BlockSetOps
  <2> QED BY <2>1, <2>2
<1>6. o.verb = "SET" /\ o.kind = "block" /\ o.key = One /\ o.line = n
  BY BlockHas
<1> HIDE DEF o
<1> QED BY <1>5, <1>6 DEF SetAt

LEMMA MemberLastHasSet ==
  ASSUME Given, family \in {"vrf", "acl", "static", "section"}, Finalized,
         NEW k \in KindsOf(family), NEW key, ~Overruled(<<k, key>>),
         NEW n, LastAbout(<<k, key>>, n), ~script[n].no
  PROVE  \E o \in SetOps : SetAt(k, key, n, o)
<1> DEFINE s == <<k, key>>
<1>1. /\ n \in Lines /\ script[n].kind = k /\ script[n].key = key /\ n \in Stating(k, key)
      /\ LastOf(Stating(k, key)) = n /\ \A m \in About(s) : m \in Nat /\ (m < n \/ m = n)
  BY LastStating
<1>2. k # "block" /\ k \notin Resettable
  BY FamilyOf
<1>3. PICK h : Opens(h) /\ n \in Within(h) /\ (family = "static" => h = n)
  <2>1. CASE family \in {"vrf", "acl"}
    <3>1. PICK h \in Blocks : n \in Children(h)
      BY <1>1, <1>2, <2>1, BlockOfLine DEF Headed
    <3>2. Opens(h) /\ n \in Within(h)
      BY <2>1, <3>1 DEF Opens, Within
    <3> QED BY <2>1, <3>2
  <2>2. CASE family = "static"
    <3>1. k = "next_hop"
      BY <2>2 DEF KindsOf
    <3>2. Opens(n) /\ n \in Within(n)
      BY <1>1, <2>2, <3>1 DEF Opens, Within, RoutesStated
    <3> QED BY <3>2
  <2>3. CASE family = "section"
    <3>1. k = "server"
      BY <2>3 DEF KindsOf
    <3>2. n \in ServersStated /\ ServersStated \in SUBSET Lines
      BY <1>1, <3>1 DEF ServersStated
    <3>3. PICK h \in ServersStated : OnlyFirst(ServersStated) = {h}
      BY <3>2, FirstIs
    <3>4. Opens(h) /\ n \in Within(h)
      BY <2>3, <3>2, <3>3 DEF Opens, Within
    <3> QED BY <2>3, <3>4
  <2> QED BY <2>1, <2>2, <2>3
<1>4. PICK j \in Within(h) : SameMember(n, j) /\ Stated(j) \in MembersOf(Within(h))
  BY <1>3, OpensAt, MembersComplete
<1>5. ReadIn(h, Stated(j))
  BY <1>3, <1>4, MembersAre, ParsedOther
<1>6. j \in Lines /\ script[j].kind = k /\ script[j].key = key
  BY <1>1, <1>3, <1>4, OpensAt DEF SameMember
<1>7. Kept(Stated(j))
  <2>1. Stated(j).kind = k
    BY <1>6, MemberHas DEF Stated
  <2>2. resets \subseteq Resettable
    BY DEF Finalized, ResetKinds
  <2> QED BY <1>2, <2>1, <2>2 DEF Kept
<1> DEFINE o == Op("SET", Stated(j), LineOfMember(Stated(j), h), h)
<1>8. o \in SetOps
  BY <1>5, <1>7, MemberSetsAre, MemberSetsIn
<1>9. o.verb = "SET" /\ o.kind = k /\ o.key = key /\ o.line = LineOfMember(Stated(j), h)
  BY <1>6, OpHas, MemberHas DEF Stated
<1> HIDE DEF o
<1>10. CASE family \in {"vrf", "acl"}
  <2>1. o.line = n
    BY <1>1, <1>3, <1>6, <1>9, <1>10, OtherLine
  <2> QED BY <1>8, <1>9, <2>1 DEF SetAt
<1>11. CASE family = "static"
  <2>1. j = h
    BY <1>11 DEF Within
  <2>2. o.line = n
    BY <1>3, <1>9, <1>11, <2>1, OtherLine
  <2> QED BY <1>8, <1>9, <2>2 DEF SetAt
<1>12. CASE family = "section"
  <2>1. Undisturbed(s)
    <3> SUFFICES ASSUME NEW m \in About(s), Withdraws(m) PROVE FALSE
      BY DEF Undisturbed
    <3>1. script[m].no /\ m < n /\ s[1] = k /\ s[2] = key
      BY <1>1 DEF Withdraws, Speaks
    <3> HIDE DEF s
    <3>2. ~Overruled(s)
      BY DEF s
    <3> QED BY <1>1, <1>12, <3>1, <3>2 DEF Overruled
  <2> QED BY <1>8, <1>9, <2>1 DEF SetAt
<1> QED BY <1>10, <1>11, <1>12

LEMMA ToggleLastHasSet ==
  ASSUME Given, family = "toggles", NEW k \in KindsOf(family), NEW key, key = One,
         NEW n, LastAbout(<<k, key>>, n), Speaks(n), script[n].kind = k, script[n].key = key
  PROVE  \E o \in SetOps : SetAt(k, key, n, o)
<1>1. k = "lookup" \/ k = "logging"
  BY DEF KindsOf
<1>2. CASE k = "lookup"
  <2>1. ~script[n].no
    BY <1>2 DEF Speaks
  <2>2. n \in OnlyLast(Stating("lookup", One))
    BY <1>2, <2>1, LastStating
  <2> DEFINE o == Op("SET", Stated(n), n, n)
  <2>3. o \in SetOps
    BY <2>2 DEF SetOps, LookupRestated
  <2>4. o.verb = "SET" /\ o.kind = k /\ o.key = key /\ o.line = n
    BY OpHas, MemberHas DEF Stated
  <2> HIDE DEF o
  <2> QED BY <2>3, <2>4 DEF SetAt
<1>3. CASE k = "logging"
  <2>2. n \in OnlyLast(Either("logging"))
    BY <1>3, LastStating
  <2> DEFINE o == Op("SET", Member(n, Polarity(n)), n, n)
  <2>3. o \in SetOps
    BY <2>2 DEF SetOps, LoggingWinner
  <2>4. o.verb = "SET" /\ o.kind = k /\ o.key = key /\ o.line = n
    BY OpHas, MemberHas
  <2> HIDE DEF o
  <2> QED BY <2>3, <2>4 DEF SetAt
<1> QED BY <1>1, <1>2, <1>3

\* A line about a slot that speaks is a line of its member.
LEMMA SpeakerIs ==
  ASSUME Given, NEW k, NEW key, <<k, key>> \in SlotsOf(family),
         NEW n \in About(<<k, key>>), Speaks(n)
  PROVE  script[n].kind = k /\ script[n].key = key
<1>1. n \in Lines
  BY AboutIs
<1>2. CASE ~script[n].no
  BY <1>2, AboutIs
<1>3. CASE script[n].no
  <2>1. script[n].kind \in {"ospf_passive", "cdp_enable", "logging"}
    BY <1>3 DEF Speaks
  <2>2. script[n].key = One /\ script[n].kind \notin ListKinds /\ script[n].kind # "block"
    BY <1>1, <1>3, <2>1, NegatedKey DEF ListKinds
  <2>3. script[n].kind = k
    BY <1>3, <2>2, AboutIs
  <2> QED BY <2>2, <2>3, SlotIs
<1> QED BY <1>2, <1>3

LEMMA LastHasSet ==
  ASSUME Given, Finalized, NEW k, NEW key, <<k, key>> \in SlotsOf(family),
         ~Blurred(<<k, key>>), ~Overruled(<<k, key>>),
         NEW n, LastAbout(<<k, key>>, n), Speaks(n)
  PROVE  \E o \in SetOps : SetAt(k, key, n, o)
<1>1. /\ k \in KindsOf(family) \/ (k = "block" /\ family \in {"vrf", "acl", "vlan"})
      /\ k \notin ListKinds => key = One
  BY SlotIs
<1>2. n \in Lines
  BY LastStating
<1>3. script[n].kind = k /\ script[n].key = key
  BY SpeakerIs DEF LastAbout
<1>4. CASE k = "block"
  <2>1. family \in {"vrf", "acl", "vlan"} /\ key = One
    BY <1>1, <1>4, FamilyOf DEF ListKinds
  <2>2. ~script[n].no
    BY <1>3, <1>4 DEF Speaks
  <2> QED BY <1>4, <2>1, <2>2, BlockLastHasSet
<1>5. CASE k # "block"
  <2>1. k \in KindsOf(family)
    BY <1>1, <1>5
  <2>2. family \in Families /\ family # "vlan"
    BY <2>1, GivenScript, FamilyOf
  <2>3. CASE family = "interface"
    BY <1>3, <2>3, InterfaceLastHasSet
  <2>4. CASE family \in {"vrf", "acl", "static", "section"}
    <3>1. k \notin {"ospf_passive", "cdp_enable", "logging"}
      BY <2>1, <2>4, FamilyOf DEF Fields
    <3>2. ~script[n].no
      BY <1>3, <3>1 DEF Speaks
    <3> QED BY <2>1, <2>4, <3>2, MemberLastHasSet
  <2>5. CASE family = "toggles"
    <3>1. key = One
      BY <1>1, <2>1, <2>5, FamilyOf DEF ListKinds, KindsOf
    <3> QED BY <1>3, <2>1, <2>5, <3>1, ToggleLastHasSet
  <2> QED BY <2>2, <2>3, <2>4, <2>5 DEF Families
<1> QED BY <1>4, <1>5

-----------------------------------------------------------------------------
(* The last operation on a slot says what the last line about it says. *)

LEMMA SetsSayWord ==
  ASSUME Given, NEW k, NEW key, <<k, key>> \in SlotsOf(family), ~Blurred(<<k, key>>),
         NEW n, LastAbout(<<k, key>>, n), Speaks(n),
         NEW o, SetOK(o), o.kind = k, o.key = key
  PROVE  o.val = Word(n)
<1> DEFINE s == <<k, key>>
<1>1. /\ k \in KindsOf(family) \/ (k = "block" /\ family \in {"vrf", "acl", "vlan"})
      /\ k \notin ListKinds => key = One
  BY SlotIs
<1>2. script[n].kind = k /\ script[n].key = key
  BY SpeakerIs DEF LastAbout
<1>3. /\ n \in Lines
      /\ ~script[n].no => n \in Stating(k, key) /\ LastOf(Stating(k, key)) = n
      /\ key = One => LastOf(Either(k)) = n
      /\ key = One /\ script[n].no => n \in OnlyLast(Negating(k, key))
      /\ \A m \in About(s) : m \in Nat /\ (m < n \/ m = n)
  BY <1>2, LastStating
<1>4. ~script[n].no => Word(n) = script[n].val
  BY DEF Word
<1>5. k \notin {"ospf_passive", "cdp_enable", "logging"} => ~script[n].no
  BY <1>2 DEF Speaks
<1>6. s[1] = k /\ s[2] = key
  OBVIOUS
<1>7. ~Blurred(s)
  OBVIOUS
<1>8. CASE k \in {"access_group", "description", "unnumbered", "mpls_ip", "shutdown"}
  <2>1. o.val = script[LastOf(Stating(k, One))].val
    BY <1>8 DEF SetOK, Says
  <2>2. LastOf(Stating(k, One)) = n /\ ~script[n].no
    BY <1>1, <1>3, <1>5, <1>8 DEF ListKinds
  <2> QED BY <1>4, <2>1, <2>2
<1>9. CASE k \in {"ospf_passive", "logging"}
  <2>1. o.val = Polarity(LastOf(Either(k)))
    BY <1>9 DEF SetOK, Says
  <2>2. LastOf(Either(k)) = n
    BY <1>1, <1>3, <1>9 DEF ListKinds
  <2>3. CASE script[n].no
    BY <1>2, <1>9, <2>1, <2>2, <2>3 DEF Polarity, Word, ByDefaultOn
  <2>4. CASE ~script[n].no
    BY <1>2, <1>3, <1>4, <1>9, <2>1, <2>2, <2>4, ValueOn DEF Polarity
  <2> QED BY <2>3, <2>4
<1>10. CASE k = "cdp_enable"
  <2>1. o.val = IF Negating(k, One) = {} THEN On ELSE Off
    BY <1>10 DEF SetOK, Says
  <2>2. key = One
    BY <1>1, <1>10 DEF ListKinds
  <2>3. CASE script[n].no
    <3>1. Negating(k, One) # {}
      BY <1>3, <2>2, <2>3 DEF OnlyLast
    <3> QED BY <1>2, <1>10, <2>1, <2>3, <3>1 DEF Word, ByDefaultOn
  <2>4. CASE ~script[n].no
    <3>1. Negating(k, One) = {}
      <4> SUFFICES ASSUME NEW m \in Negating(k, One) PROVE FALSE
        OBVIOUS
      <4>1. m \in About(s) /\ m # n /\ m \in Negations(k)
        BY <2>2, <2>4, AboutIs DEF Negating, Negations
      <4>2. m < n /\ n \in Stating(k, key)
        BY <1>3, <2>4, <4>1
      <4> HIDE DEF s
      <4> QED BY <1>6, <1>7, <1>10, <4>1, <4>2 DEF Blurred, Resettable
    <3> QED BY <1>2, <1>3, <1>4, <1>10, <2>1, <2>4, <3>1, ValueOn
  <2> QED BY <2>3, <2>4
<1>11. CASE k = "rd"
  <2>1. PICK x \in Stating(k, One) : o.val = script[x].val
    BY <1>11 DEF SetOK, Says
  <2>2. ~script[n].no /\ key = One
    BY <1>1, <1>5, <1>11 DEF ListKinds
  <2>3. n \in Stating(k, One)
    BY <1>3, <2>2
  <2>4. script[x].val = script[n].val
    <3> HIDE DEF s
    <3> QED BY <1>6, <1>7, <1>11, <2>1, <2>2, <2>3 DEF Blurred, Resettable
  <2> QED BY <1>4, <2>1, <2>2, <2>4
<1>12. CASE k \in ListKinds \cup {"block", "lookup"}
  <2>1. o.val = On
    BY <1>12 DEF SetOK, Says
  <2>2. ~script[n].no
    BY <1>5, <1>12 DEF ListKinds
  <2> QED BY <1>2, <1>3, <1>4, <1>12, <2>1, <2>2, ValueOn
<1>13. \/ k \in Fields \/ k \in Resettable
       \/ k \in {"route_target", "rd", "entry", "next_hop", "server", "lookup", "logging", "block"}
  <2>1. CASE k \in KindsOf(family)
    <3>1. family \in Families
      BY GivenScript
    <3>2. family = "interface" => k \in Fields \/ k \in Resettable
      BY <2>1 DEF KindsOf
    <3>3. family # "interface" =>
            k \in {"route_target", "rd", "entry", "next_hop", "server", "lookup", "logging"}
      BY <2>1, <3>1 DEF KindsOf, Families
    <3> QED BY <3>2, <3>3
  <2> QED BY <1>1, <2>1
<1> QED BY <1>8, <1>9, <1>10, <1>11, <1>12, <1>13 DEF Fields, Resettable, ListKinds

LEMMA TouchesIs ==
  ASSUME NEW o, NEW k, NEW key
  PROVE  /\ o.verb = "SET" => (Touches(o, <<k, key>>) <=> o.kind = k /\ o.key = key)
         /\ \A m : RemovalOf(o, m) => (Touches(o, <<k, key>>) <=> m \in About(<<k, key>>))
<1>1. o.verb = "SET" => (Touches(o, <<k, key>>) <=> o.kind = k /\ o.key = key)
  BY DEF Touches
<1>2. ASSUME NEW m, RemovalOf(o, m)
      PROVE  Touches(o, <<k, key>>) <=> m \in About(<<k, key>>)
  <2>1. m \in Lines /\ script[m].no /\ o.verb # "SET" /\ o.kind = script[m].kind /\ o.key = script[m].key
    BY <1>2, WithdrawsIs DEF RemovalOf, RemovalVerbs
  <2>2. Touches(o, <<k, key>>) <=> o.kind = "block" \/ (o.kind = k /\ o.key \in {All, key})
    BY <2>1 DEF Touches
  <2> QED BY <2>1, <2>2, AboutIs
<1> QED BY <1>1, <1>2

\* All removals of a slot leave it in the same way.
LEMMA RemovalsSayWord ==
  ASSUME Given, NEW k, NEW key, <<k, key>> \in SlotsOf(family),
         NEW n \in About(<<k, key>>), Withdraws(n),
         NEW p, NEW m \in About(<<k, key>>), RemovalOf(p, m)
  PROVE  Leaves(p) = Word(n)
<1>1. /\ m \in Lines /\ script[m].no /\ n \in Lines /\ script[n].no
      /\ p.verb # "SET" /\ p.kind = script[m].kind
      /\ script[n].kind \notin {"ospf_passive", "cdp_enable", "logging"}
      /\ script[m].kind \in {"block", k} /\ script[n].kind \in {"block", k}
  BY AboutIs, WithdrawsIs DEF RemovalOf, RemovalVerbs
<1>2. Word(n) = IF script[n].kind = "lookup" THEN Off ELSE Absent
  BY <1>1 DEF Word, ByDefaultOn
<1>3. Leaves(p) = IF script[m].kind = "lookup" THEN Off ELSE Absent
  BY <1>1 DEF Leaves
<1>4. CASE k # "lookup"
  BY <1>1, <1>2, <1>3, <1>4
<1>5. CASE k = "lookup"
  <2>1. k \in KindsOf(family)
    BY <1>5, SlotIs
  <2>2. family = "toggles"
    BY <1>5, <2>1, FamilyOf
  <2>3. script[m].kind # "block" /\ script[n].kind # "block"
    BY <1>1, <2>2, LineIs DEF Headed
  <2> QED BY <1>1, <1>2, <1>3, <2>3
<1> QED BY <1>4, <1>5

Ops == SetOps \cup AllRemovals

Decides(s, n, o) ==
  /\ o \in Ops /\ Touches(o, s)
  /\ \A p \in Ops : Touches(p, s) /\ (p = o \/ Precedes(o, p)) => Leaves(p) = Word(n)

LEMMA SpokenDecides ==
  ASSUME Given, Finalized, NEW k, NEW key, <<k, key>> \in SlotsOf(family),
         ~Blurred(<<k, key>>), ~Overruled(<<k, key>>),
         NEW n, LastAbout(<<k, key>>, n), Speaks(n)
  PROVE  \E o : Decides(<<k, key>>, n, o)
<1> DEFINE s == <<k, key>>
<1>1. PICK o \in SetOps : SetAt(k, key, n, o)
  BY LastHasSet
<1>2. o \in Ops /\ o.verb = "SET" /\ Touches(o, s)
  BY <1>1, TouchesIs DEF Ops, SetAt
<1>3. ASSUME NEW p \in SetOps, Touches(p, s) PROVE Leaves(p) = Word(n)
  <2>1. SetOK(p)
    BY SetsOK
  <2>2. p.kind = k /\ p.key = key /\ Leaves(p) = p.val
    BY <1>3, <2>1, TouchesIs DEF SetOK, Leaves
  <2> QED BY <2>1, <2>2, SetsSayWord
<1>4. ASSUME NEW p \in AllRemovals, Touches(p, s), p = o \/ Precedes(o, p) PROVE FALSE
  <2>1. PICK m \in Lines : RemovalOf(p, m)
    BY RemovalsOK DEF RemovalOK
  <2>2. m \in About(s) /\ Withdraws(m) /\ script[m].no
    BY <1>4, <2>1, TouchesIs, WithdrawsIs DEF RemovalOf
  <2>3. o.line = n
    BY <1>1, <2>2 DEF SetAt, Undisturbed
  <2>4. m # n
    BY <2>2 DEF Withdraws
  <2>5. m \in Nat /\ n \in Nat /\ m < n
    BY <2>2, <2>4, LastStating
  <2>6. p.verb # "SET" /\ p.line = m /\ p.kind = script[m].kind
    BY <2>1 DEF RemovalOf, RemovalVerbs
  <2>7. Precedes(o, p) /\ ~Wins(o)
    BY <1>2, <1>4, <2>6 DEF Wins
  <2>8. ~Wins(p)
    <3> SUFFICES ASSUME Wins(p) PROVE FALSE
      OBVIOUS
    <3>1. (family = "vrf" /\ script[m].kind = "block") \/ family = "section"
      BY <2>6 DEF Wins
    <3>2. k \notin {"ospf_passive", "cdp_enable", "logging"}
      <4>1. k = "block" \/ k \in KindsOf(family)
        BY SlotIs
      <4> QED BY <3>1, <4>1, FamilyOf DEF Fields
    <3>3. ~script[n].no
      <4>1. script[n].kind = k
        BY SpeakerIs DEF LastAbout
      <4> QED BY <3>2, <4>1 DEF Speaks
    <3>4. n \in Stating(k, key)
      BY <3>3, LastStating
    <3>5. s[1] = k /\ s[2] = key /\ ~Overruled(s)
      OBVIOUS
    <3> HIDE DEF s
    <3> QED BY <2>2, <2>5, <3>1, <3>4, <3>5 DEF Overruled
  <2>9. InScriptOrder(o, p)
    BY <2>7, <2>8 DEF Precedes
  <2>10. n < m \/ n = m
    BY <2>3, <2>6, <2>9 DEF InScriptOrder
  <2> QED BY <2>5, <2>10
<1>5. Decides(s, n, o)
  BY <1>2, <1>3, <1>4 DEF Decides, Ops
<1> QED BY <1>5

LEMMA WithdrawnDecides ==
  ASSUME Given, Finalized, NEW k, NEW key, <<k, key>> \in SlotsOf(family),
         ~Blurred(<<k, key>>), NEW n, LastAbout(<<k, key>>, n), ~Speaks(n)
  PROVE  \E o : Decides(<<k, key>>, n, o)
<1> DEFINE s == <<k, key>>
<1>1. n \in About(s) /\ n \in Lines /\ Withdraws(n)
  BY LastStating DEF LastAbout, Withdraws
<1>2. PICK m \in About(s), verb \in RemovalVerbs :
        /\ Removal(verb, m) \in AllRemovals /\ Withdraws(m)
        /\ m = n \/ family = "section"
  BY <1>1, LastHasRemoval
<1> DEFINE o == Removal(verb, m)
<1>3. RemovalOf(o, m)
  BY <1>2, RemovalHas
<1>4. o \in Ops
  BY <1>2 DEF Ops
<1> HIDE DEF o
<1>5. Touches(o, s)
  BY <1>3, TouchesIs
<1>6. o.verb # "SET" /\ o.line = m
  BY <1>3 DEF RemovalOf, RemovalVerbs
<1>7. ASSUME NEW p \in AllRemovals, Touches(p, s) PROVE Leaves(p) = Word(n)
  <2>1. PICK j \in Lines : RemovalOf(p, j)
    BY RemovalsOK DEF RemovalOK
  <2>2. j \in About(s)
    BY <1>7, <2>1, TouchesIs
  <2> QED BY <1>1, <2>1, <2>2, RemovalsSayWord
<1>8. ASSUME NEW p \in SetOps, Touches(p, s), p = o \/ Precedes(o, p) PROVE FALSE
  <2>1. SetOK(p)
    BY SetsOK
  <2>2. p.verb = "SET" /\ p.kind = k /\ p.key = key /\ ~Wins(p)
    BY <1>8, <2>1, TouchesIs DEF SetOK, Wins
  <2>3. Precedes(o, p)
    BY <1>6, <1>8, <2>2
  <2>4. CASE family = "section"
    <3>1. Wins(o)
      BY <1>6, <2>4 DEF Wins
    <3> QED BY <2>2, <2>3, <3>1 DEF Precedes
  <2>5. CASE family # "section"
    <3>1. PICK x \in Lines : SpokenAt(p, x)
      BY <2>1, <2>5 DEF SetOK
    <3>2. x \in About(s) /\ Speaks(x) /\ p.line <= x
      <4>1. Speaks(x) /\ script[x].kind = k /\ script[x].key = key /\ p.line <= x
        BY <2>2, <2>5, <3>1 DEF SpokenAt
      <4> QED BY <4>1, AboutIs
    <3>3. x \in Nat /\ n \in Nat /\ x < n /\ m = n
      BY <1>2, <2>5, <3>2, LastStating
    <3>4. p.line \in Nat
      BY <2>1, GivenScript DEF SetOK
    <3>5. InScriptOrder(o, p)
      BY <2>2, <2>3 DEF Precedes
    <3>6. n < p.line \/ n = p.line
      BY <1>6, <3>3, <3>5 DEF InScriptOrder
    <3> QED BY <3>2, <3>3, <3>4, <3>6
  <2> QED BY <2>4, <2>5
<1>9. Decides(s, n, o)
  BY <1>4, <1>5, <1>7, <1>8 DEF Decides, Ops
<1> QED BY <1>9

-----------------------------------------------------------------------------
(* The script does not change, nor does what is made of it. *)

LEMMA SameLines ==
  ASSUME UNCHANGED <<family, script>>
  PROVE  /\ Lines' = Lines /\ Blocks' = Blocks /\ Deletes' = Deletes
         /\ \A k, key : Stating(k, key)' = Stating(k, key) /\ Negating(k, key)' = Negating(k, key)
         /\ \A k : /\ Negations(k)' = Negations(k) /\ Either(k)' = Either(k) /\ Reset(k)' = Reset(k)
                   /\ WithOperand(k)' = WithOperand(k)
         /\ \A h : Children(h)' = Children(h)
         /\ \A n, v : Member(n, v)' = Member(n, v)
         /\ \A n : Stated(n)' = Stated(n) /\ Polarity(n)' = Polarity(n)
<1>1. Lines' = Lines
  BY DEF Lines
<1>2. Blocks' = Blocks /\ Deletes' = Deletes
  BY <1>1 DEF Blocks, Deletes
<1>3. \A k, key : Stating(k, key)' = Stating(k, key)
  BY <1>1 DEF Stating
<1>4. \A k, key : Negating(k, key)' = Negating(k, key)
  BY <1>1 DEF Negating
<1>5. \A k : Negations(k)' = Negations(k)
  BY <1>1 DEF Negations
<1>6. \A k : Either(k)' = Either(k)
  BY <1>3, <1>4 DEF Either
<1>7. \A k : Reset(k)' = Reset(k)
  BY <1>4 DEF Reset
<1>8. \A k : WithOperand(k)' = WithOperand(k)
  BY <1>5 DEF WithOperand
<1>9. \A h : Children(h)' = Children(h)
  BY <1>1 DEF Children
<1>10. \A n, v : Member(n, v)' = Member(n, v)
  BY DEF Member
<1>11. \A n : Stated(n)' = Stated(n) /\ Polarity(n)' = Polarity(n)
  BY <1>10 DEF Stated, Polarity, Member
<1> QED BY <1>1, <1>2, <1>3, <1>4, <1>5, <1>6, <1>7, <1>8, <1>9, <1>10, <1>11

LEMMA SameParsed ==
  ASSUME UNCHANGED <<family, script>>
  PROVE  Parsed' = Parsed
<1>1. \A k : LastValue(k)' = LastValue(k)
  BY SameLines DEF LastValue
<1>2. _is_shutdown' <=> _is_shutdown
  BY SameLines DEF _is_shutdown
<1>3. OspfPassive' = OspfPassive
  BY SameLines DEF OspfPassive
<1>4. {Member(n, Off) : n \in OnlyLast(Negating("cdp_enable", One))}' =
        {Member(n, Off) : n \in OnlyLast(Negating("cdp_enable", One))}
  BY SameLines
<1>5. FieldMembers' = FieldMembers
  BY <1>1, <1>2, <1>3, <1>4 DEF FieldMembers
<1>6. \A lines : MembersOf(lines)' = MembersOf(lines)
  BY SameLines DEF MembersOf
<1>7. ListMembers' = ListMembers
  <2>1. {n \in _coalesce_interface_stanzas : script[n].kind \in Resettable /\ ~script[n].no}' =
           {n \in _coalesce_interface_stanzas : script[n].kind \in Resettable /\ ~script[n].no}
    BY SameLines DEF _coalesce_interface_stanzas
  <2> QED BY <1>6, <2>1, SameLines DEF ListMembers, MembersOf
<1>8. \A h : MembersIn(h)' = MembersIn(h)
  BY SameLines DEF MembersIn, MembersOf
<1>9. ServersStated' = ServersStated /\ RoutesStated' = RoutesStated
  BY SameLines DEF ServersStated, RoutesStated
<1>10. MembersOf(ServersStated)' = MembersOf(ServersStated)
  BY <1>9, SameLines DEF MembersOf
<1> QED BY <1>5, <1>7, <1>8, <1>9, <1>10, SameLines DEF Parsed, Stanza

LEMMA SameRemovals ==
  ASSUME UNCHANGED <<family, script>>
  PROVE  FieldRemovals' = FieldRemovals /\ QueuedRemovals' = QueuedRemovals /\ ResetKinds' = ResetKinds
<1>1. \A verb, n : Removal(verb, n)' = Removal(verb, n)
  BY SameLines DEF Removal, Op
<1>2. \A verb, lines : RemovalsAt(verb, lines)' = RemovalsAt(verb, lines)
  BY <1>1 DEF RemovalsAt
<1>3. _is_shutdown' <=> _is_shutdown
  BY SameLines DEF _is_shutdown
<1>4. ShadowedUnsets' = ShadowedUnsets
  BY <1>1, SameLines DEF ShadowedUnsets, RemovalsAt
<1>5. _detect_interface_field_negation_ops' = _detect_interface_field_negation_ops
  BY <1>1, <1>3, SameLines DEF _detect_interface_field_negation_ops, RemovalsAt
<1>6. FlagUnsets' = FlagUnsets
  BY <1>1, SameLines DEF FlagUnsets, RemovalsAt
<1>7. WholeDeletes' = WholeDeletes /\ NullOut' = NullOut
  BY <1>1, SameLines DEF WholeDeletes, NullOut, RemovalsAt
<1>8. QueuedRemovals' = QueuedRemovals
  <2>1. \A verb, k : /\ RemovalsAt(verb, Negations(k))' = RemovalsAt(verb, Negations(k))
                     /\ RemovalsAt(verb, WithOperand(k))' = RemovalsAt(verb, WithOperand(k))
                     /\ RemovalsAt(verb, OnlyLast(Negations(k)))' = RemovalsAt(verb, OnlyLast(Negations(k)))
    BY <1>1, SameLines DEF RemovalsAt
  <2> QED BY <1>7, <2>1 DEF QueuedRemovals
<1> QED BY <1>4, <1>5, <1>6, <1>8, SameLines DEF FieldRemovals, ResetKinds

LEMMA SameFinal ==
  ASSUME UNCHANGED <<family, script, resets>>
  PROVE  /\ \A m : Kept(m)' <=> Kept(m)
         /\ Final' = Final
<1>1. \A m : _IFACE_MEMBER_LINE_BUILDERS(m)' = _IFACE_MEMBER_LINE_BUILDERS(m)
  BY SameLines DEF _IFACE_MEMBER_LINE_BUILDERS
<1>2. \A m : Kept(m)' <=> Kept(m)
  BY <1>1, SameLines DEF Kept
<1>3. Final' = Final
  BY <1>2, SameParsed DEF Final, Stanza
<1> QED BY <1>2, <1>3

LEMMA SameSetOps ==
  ASSUME UNCHANGED <<family, script, objects>>
  PROVE  SetOps' = SetOps
<1>1. \A m : /\ _IFACE_MEMBER_LINE_BUILDERS(m)' = _IFACE_MEMBER_LINE_BUILDERS(m)
             /\ MemberLastLine(m)' = MemberLastLine(m)
  BY SameLines DEF _IFACE_MEMBER_LINE_BUILDERS, MemberLastLine
<1>2. \A k : _IFACE_OP_LINE_PATTERNS(k)' = _IFACE_OP_LINE_PATTERNS(k)
  BY SameLines DEF _IFACE_OP_LINE_PATTERNS
<1>3. \A m, h : LineOfMember(m, h)' = LineOfMember(m, h)
  BY <1>1, <1>2 DEF LineOfMember, Located
<1>4. MemberSets' = MemberSets
  BY <1>3 DEF MemberSets, Op
<1>5. _IFACE_POSITIVE_RESTATE_PATTERNS' = _IFACE_POSITIVE_RESTATE_PATTERNS
  <2>1. {Op("SET", Stated(n), n, n) : n \in OnlyLast(Stating("cdp_enable", One))}' =
           {Op("SET", Stated(n), n, n) : n \in OnlyLast(Stating("cdp_enable", One))}
    BY SameLines DEF Op
  <2> QED BY <2>1, SameLines DEF _IFACE_POSITIVE_RESTATE_PATTERNS
<1>6. LoggingWinner' = LoggingWinner /\ LookupRestated' = LookupRestated
  BY SameLines DEF LoggingWinner, LookupRestated, Op
<1>7. BlockSetOps' = BlockSetOps /\ _native_vlan_ops' = _native_vlan_ops
  BY <1>4, SameLines DEF BlockSetOps, _native_vlan_ops, Op, Block
<1> QED BY <1>4, <1>5, <1>6, <1>7 DEF SetOps, _native_iface_set_ops, _native_static_ops

-----------------------------------------------------------------------------
(* The inductive invariant. *)

\* What the state is made of at each phase.
Stage ==
  /\ phase \in {"objects", "negations", "resets", "attach", "replay"}
  /\ phase = "objects" => objects = {} /\ resets = {} /\ removals = {}
  /\ phase = "negations" => objects = Parsed /\ resets = ResetKinds /\ removals = FieldRemovals
  /\ phase = "resets" => objects = Parsed /\ resets = ResetKinds /\ removals = AllRemovals
  /\ phase \in {"attach", "replay"} => Finalized /\ removals = AllRemovals
  /\ phase # "replay" => ops = {}
  /\ phase = "replay" => ops = Ops

\* Nothing left precedes what has been replayed.
InTurn ==
  /\ replayed \subseteq ops
  /\ \A o \in replayed, p \in ops \ replayed : Precedes(o, p)

\* A slot holds what the last operation on it leaves.
LastOn(s, value, done) ==
  \/ value = baseline[s] /\ \A o \in done : ~Touches(o, s)
  \/ \E o \in done :
       /\ Touches(o, s) /\ value = Leaves(o)
       /\ \A p \in done : Touches(p, s) /\ p # o => Precedes(p, o)

LastWord == \A s \in SlotsOf(family) : LastOn(s, config[s], replayed)

IInv ==
  /\ Given
  /\ baseline \in [SlotsOf(family) -> Settings] /\ config \in [SlotsOf(family) -> Settings]
  /\ Stage /\ InTurn /\ LastWord

LEMMA OpsTyped ==
  ASSUME Given, Finalized, NEW o \in Ops
  PROVE  SetOK(o) \/ RemovalOK(o)
BY SetsOK, RemovalsOK DEF Ops

LEMMA LeavesTyped ==
  ASSUME Given, Finalized, NEW o \in Ops
  PROVE  Leaves(o) \in Settings
<1>1. CASE SetOK(o)
  BY <1>1 DEF SetOK, Leaves
<1>2. CASE RemovalOK(o)
  BY <1>2 DEF RemovalOK, RemovalOf, RemovalVerbs, Leaves, Settings
<1> QED BY <1>1, <1>2, OpsTyped

LEMMA InitIInv == Init => IInv
<1> SUFFICES ASSUME Init PROVE IInv
  OBVIOUS
<1>1. Given
  <2>1. PICK s \in Scripts : family = s[1] /\ script = s[2]
    BY DEF Init
  <2>2. s \in Families \X Seq(Line)
    BY ScriptsAssumption
  <2> QED BY <2>1, <2>2 DEF Given
<1>2. baseline \in [SlotsOf(family) -> Settings] /\ config \in [SlotsOf(family) -> Settings]
  BY DEF Init, Settings
<1>3. Stage /\ InTurn
  BY DEF Init, Stage, InTurn
<1>4. LastWord
  BY DEF Init, LastWord, LastOn
<1> QED BY <1>1, <1>2, <1>3, <1>4 DEF IInv

\* Before the replay, nothing is replayed and the configuration is the baseline.
LEMMA ReadStep ==
  ASSUME IInv, UNCHANGED <<inputs, replayed, config>>, phase # "replay", Stage'
  PROVE  IInv'
<1>1. UNCHANGED <<family, script, baseline>>
  BY DEF inputs
<1>2. replayed = {} /\ replayed' = {}
  BY DEF IInv, Stage, InTurn
<1>3. Given' /\ (baseline \in [SlotsOf(family) -> Settings] /\ config \in [SlotsOf(family) -> Settings])'
  BY <1>1 DEF IInv, Given
<1>4. InTurn'
  BY <1>2 DEF InTurn
<1>5. LastWord'
  <2>1. \A s \in SlotsOf(family) : config[s] = baseline[s]
    BY <1>2 DEF IInv, LastWord, LastOn
  <2> QED BY <1>1, <1>2, <2>1 DEF LastWord, LastOn
<1> QED BY <1>3, <1>4, <1>5 DEF IInv

LEMMA ReplayStep ==
  ASSUME IInv, ReplayOp
  PROVE  IInv'
<1>1. PICK o \in ops \ replayed :
        /\ \A p \in ops \ replayed : p # o => Precedes(o, p)
        /\ replayed' = replayed \cup {o}
        /\ config' = [s \in SlotsOf(family) |-> IF Touches(o, s) THEN Leaves(o) ELSE config[s]]
  BY DEF ReplayOp
<1>2. UNCHANGED <<family, script, baseline, phase, objects, resets, removals, ops>>
  BY DEF ReplayOp, inputs
<1>3. phase = "replay" /\ Finalized /\ removals = AllRemovals /\ ops = Ops /\ Given
  BY DEF ReplayOp, IInv, Stage
<1>4. Leaves(o) \in Settings
  BY <1>3, LeavesTyped
<1>5. config' \in [SlotsOf(family) -> Settings]
  BY <1>1, <1>4 DEF IInv
<1>6. Given' /\ (baseline \in [SlotsOf(family) -> Settings] /\ config \in [SlotsOf(family) -> Settings])'
  BY <1>2, <1>5 DEF IInv, Given
<1>7. Stage'
  <2>1. AllRemovals' = AllRemovals /\ ResetKinds' = ResetKinds
    BY <1>2, SameRemovals DEF AllRemovals
  <2>2. Finalized'
    BY <1>2, <1>3, <2>1, SameFinal DEF Finalized
  <2>3. Ops' = Ops
    BY <1>2, <2>1, SameSetOps DEF Ops
  <2> QED BY <1>2, <1>3, <2>1, <2>2, <2>3 DEF Stage
<1>8. \A p, q : Precedes(p, q)' <=> Precedes(p, q)
  BY <1>2 DEF Precedes, Wins, InScriptOrder
<1>9. InTurn'
  BY <1>1, <1>2, <1>8 DEF IInv, InTurn
<1>10. LastWord'
  <2> SUFFICES ASSUME NEW s \in SlotsOf(family) PROVE LastOn(s, config[s], replayed)'
    BY <1>2 DEF LastWord
  <2>1. LastOn(s, config[s], replayed)
    BY DEF IInv, LastWord
  <2>2. \A p \in replayed : Precedes(p, o)
    BY <1>1 DEF IInv, InTurn
  <2>3. CASE Touches(o, s)
    <3>1. config'[s] = Leaves(o)
      BY <1>1, <2>3
    <3>2. \A p \in replayed' : p # o => Precedes(p, o)
      BY <1>1, <2>2
    <3> QED BY <1>1, <1>8, <2>3, <3>1, <3>2 DEF LastOn, Touches, Leaves
  <2>4. CASE ~Touches(o, s)
    <3>1. config'[s] = config[s]
      BY <1>1, <2>4
    <3>2. CASE config[s] = baseline[s] /\ \A p \in replayed : ~Touches(p, s)
      BY <1>1, <1>2, <2>4, <3>1, <3>2 DEF LastOn, Touches
    <3>3. CASE \E p \in replayed :
                 /\ Touches(p, s) /\ config[s] = Leaves(p)
                 /\ \A q \in replayed : Touches(q, s) /\ q # p => Precedes(q, p)
      <4>1. PICK p \in replayed :
              /\ Touches(p, s) /\ config[s] = Leaves(p)
              /\ \A q \in replayed : Touches(q, s) /\ q # p => Precedes(q, p)
        BY <3>3
      <4>2. \A q \in replayed' : Touches(q, s) /\ q # p => Precedes(q, p)
        BY <1>1, <2>4, <4>1
      <4> QED BY <1>1, <1>8, <3>1, <4>1, <4>2 DEF LastOn, Touches, Leaves
    <3> QED BY <2>1, <3>2, <3>3 DEF LastOn
  <2> QED BY <2>3, <2>4
<1> QED BY <1>6, <1>7, <1>9, <1>10 DEF IInv

LEMMA NextIInv == IInv /\ [Next]_vars => IInv'
<1> SUFFICES ASSUME IInv, [Next]_vars PROVE IInv'
  OBVIOUS
<1>1. CASE ReadObjects
  <2>1. UNCHANGED <<inputs, ops, replayed, config>> /\ UNCHANGED <<family, script>>
    BY <1>1 DEF ReadObjects, inputs
  <2>2. phase = "objects" /\ phase' = "negations" /\ objects' = Parsed
    BY <1>1 DEF ReadObjects
  <2>3. resets' = ResetKinds /\ removals' = FieldRemovals
    BY <1>1, <2>2 DEF ReadObjects, IInv, Stage, ResetKinds, FieldRemovals
  <2>4. Stage'
    BY <2>1, <2>2, <2>3, SameParsed, SameRemovals DEF IInv, Stage
  <2> QED BY <2>1, <2>2, <2>4, ReadStep
<1>2. CASE ReadNegations
  <2>1. UNCHANGED <<inputs, objects, resets, ops, replayed, config>> /\ UNCHANGED <<family, script>>
    BY <1>2 DEF ReadNegations, inputs
  <2>2. phase = "negations" /\ phase' = "resets" /\ removals' = AllRemovals
    BY <1>2 DEF ReadNegations, IInv, Stage, AllRemovals
  <2>3. Stage'
    BY <2>1, <2>2, SameParsed, SameRemovals DEF IInv, Stage, AllRemovals
  <2> QED BY <2>1, <2>2, <2>3, ReadStep
<1>3. CASE _apply_whole_list_reset_to_model
  <2>1. UNCHANGED <<inputs, resets, removals, ops, replayed, config>> /\ UNCHANGED <<family, script, resets>>
    BY <1>3 DEF _apply_whole_list_reset_to_model, inputs
  <2>2. phase = "resets" /\ phase' = "attach" /\ objects' = Final
    BY <1>3 DEF _apply_whole_list_reset_to_model, IInv, Stage, Final
  <2>3. Stage'
    BY <2>1, <2>2, SameFinal, SameRemovals DEF IInv, Stage, AllRemovals, Finalized
  <2> QED BY <2>1, <2>2, <2>3, ReadStep
<1>4. CASE AttachOps
  <2>1. UNCHANGED <<inputs, objects, resets, removals, replayed, config>> /\ UNCHANGED <<family, script, objects, resets>>
    BY <1>4 DEF AttachOps, inputs
  <2>2. phase = "attach" /\ phase' = "replay" /\ ops' = Ops
    BY <1>4 DEF AttachOps, IInv, Stage, Ops
  <2>3. Ops' = Ops /\ AllRemovals' = AllRemovals
    BY <2>1, SameSetOps, SameRemovals DEF Ops, AllRemovals
  <2>4. Finalized'
    BY <2>1, <2>2, SameFinal, SameRemovals DEF IInv, Stage, Finalized
  <2>5. Stage'
    BY <2>1, <2>2, <2>3, <2>4 DEF IInv, Stage
  <2> QED BY <2>1, <2>2, <2>5, ReadStep
<1>5. CASE ReplayOp
  BY <1>5, ReplayStep
<1>6. CASE UNCHANGED vars
  <2>1. UNCHANGED <<family, script, baseline, phase, objects, resets, removals, ops, replayed, config>>
    BY <1>6 DEF vars, inputs
  <2>2. Parsed' = Parsed /\ FieldRemovals' = FieldRemovals /\ AllRemovals' = AllRemovals /\ ResetKinds' = ResetKinds
    BY <2>1, SameParsed, SameRemovals DEF AllRemovals
  <2>3. Final' = Final /\ Ops' = Ops
    BY <2>1, <2>2, SameFinal, SameSetOps DEF Ops
  <2>4. Stage'
    BY <2>1, <2>2, <2>3 DEF IInv, Stage, Finalized
  <2>5. InTurn' /\ LastWord'
    BY <2>1 DEF IInv, InTurn, LastWord, LastOn, Precedes, Wins, InScriptOrder
  <2> QED BY <2>1, <2>4, <2>5 DEF IInv, Given
<1> QED BY <1>1, <1>2, <1>3, <1>4, <1>5, <1>6 DEF Next

LEMMA Invariant == Spec => []IInv
BY InitIInv, NextIInv, PTL DEF Spec

(***************************************************************************)
(* Type correctness: every operation is at a line of the script, a removal *)
(* at one that negates what it removes, and only attached ones are         *)
(* replayed.                                                               *)
(***************************************************************************)
THEOREM TypeCorrect == Spec => []TypeOK
<1>1. IInv => TypeOK
  <2> SUFFICES ASSUME IInv PROVE TypeOK
    OBVIOUS
  <2>1. Given /\ family \in Families /\ script \in Seq(Line)
    BY GivenScript DEF IInv
  <2>2. \A i \in Parsed : i.line \in Lines
    <3>1. CASE family = "interface"
      <4>1. Parsed = {Stanza(FieldMembers \cup ListMembers, h) : h \in OnlyFirst(Blocks)}
        BY <3>1 DEF Parsed
      <4> QED BY <4>1, StanzaHas DEF OnlyFirst, Blocks
    <3>2. CASE family = "static"
      <4>1. Parsed = {Stanza({Stated(n)}, n) : n \in RoutesStated}
        BY <3>2 DEF Parsed
      <4>2. RoutesStated \subseteq Lines
        BY DEF RoutesStated
      <4>3. ASSUME NEW i \in Parsed PROVE i.line \in Lines
        <5>1. PICK n \in RoutesStated : i = Stanza({Stated(n)}, n)
          BY <4>1
        <5> QED BY <4>2, <5>1, StanzaHas
      <4> QED BY <4>3
    <3>3. CASE family = "section"
      <4>1. Parsed = {Stanza(MembersOf(ServersStated), n) : n \in OnlyFirst(ServersStated)}
        BY <3>3 DEF Parsed
      <4>2. OnlyFirst(ServersStated) \subseteq Lines
        BY DEF OnlyFirst, ServersStated
      <4>3. ASSUME NEW i \in Parsed PROVE i.line \in Lines
        <5>1. PICK n \in OnlyFirst(ServersStated) : i = Stanza(MembersOf(ServersStated), n)
          BY <4>1
        <5> QED BY <4>2, <5>1, StanzaHas
      <4> QED BY <4>3
    <3>4. CASE family \notin {"interface", "static", "section"}
      <4>1. Parsed = {Stanza(MembersIn(h), h) : h \in Blocks}
        BY <3>4 DEF Parsed
      <4> QED BY <4>1, StanzaHas DEF Blocks
    <3> QED BY <3>1, <3>2, <3>3, <3>4
  <2>3. \A i \in Final : i.line \in Lines
    <3>1. ASSUME NEW i \in Final PROVE i.line \in Lines
      <4>1. PICK j \in Parsed : i = Stanza({m \in j.members : Kept(m)}, j.line)
        BY DEF Final
      <4>2. i.line = j.line
        BY <4>1, StanzaHas
      <4> QED BY <2>2, <4>2
    <3> QED BY <3>1
  <2>4. objects = {} \/ objects = Parsed \/ objects = Final
    BY DEF IInv, Stage, Finalized
  <2>5. \A i \in objects : i.line \in Lines
    BY <2>2, <2>3, <2>4
  <2>6. resets \subseteq Resettable
    BY DEF IInv, Stage, Finalized, ResetKinds
  <2>7. \A o \in removals \cup ops : SetOK(o) \/ RemovalOK(o)
    <3>1. removals \subseteq AllRemovals
      BY DEF IInv, Stage, AllRemovals
    <3>2. ops = {} \/ (Finalized /\ ops = Ops)
      BY DEF IInv, Stage
    <3> QED BY <2>1, <3>1, <3>2, RemovalsOK, OpsTyped
  <2>8. \A o : SetOK(o) =>
          /\ o.verb = "SET" /\ o.line \in Lines /\ o.object \in Lines /\ o.source \in Lines \cup {NoLine}
          /\ o.val \in Settings
    BY DEF SetOK
  <2>9. \A o : RemovalOK(o) =>
          /\ o.verb \in {"UNSET", "LIST_REMOVE", "OBJECT_DELETE"}
          /\ o.line \in Lines /\ o.object \in Lines /\ o.source \in Lines \cup {NoLine}
          /\ o.val \in Settings /\ script[o.line].no /\ script[o.line].kind = o.kind
    <3> SUFFICES ASSUME NEW o, NEW n \in Lines, RemovalOf(o, n)
                 PROVE  /\ o.verb \in {"UNSET", "LIST_REMOVE", "OBJECT_DELETE"}
                        /\ o.line \in Lines /\ o.object \in Lines /\ o.source \in Lines \cup {NoLine}
                        /\ o.val \in Settings /\ script[o.line].no /\ script[o.line].kind = o.kind
      BY DEF RemovalOK
    <3>1. script[n].no
      BY WithdrawsIs DEF RemovalOf
    <3> QED BY <3>1 DEF RemovalOf, RemovalVerbs, Settings
  <2>10. \A o \in removals \cup ops :
          /\ o.verb \in {"SET", "UNSET", "LIST_REMOVE", "OBJECT_DELETE"}
          /\ o.line \in Lines /\ o.object \in Lines /\ o.source \in Lines \cup {NoLine}
          /\ o.val \in Settings
          /\ o.verb # "SET" => script[o.line].no /\ script[o.line].kind = o.kind
    BY <2>7, <2>8, <2>9
  <2>11. /\ phase \in {"objects", "negations", "resets", "attach", "replay"} /\ replayed \subseteq ops
         /\ baseline \in [SlotsOf(family) -> Settings] /\ config \in [SlotsOf(family) -> Settings]
    BY DEF IInv, Stage, InTurn
  <2> QED BY <2>1, <2>5, <2>6, <2>10, <2>11 DEF TypeOK
<1> QED BY <1>1, Invariant, PTL

-----------------------------------------------------------------------------
(* A reset stands before the members it leaves. *)

LEMMA RemovalsAtAre ==
  ASSUME NEW verb, NEW lines, NEW u \in RemovalsAt(verb, lines)
  PROVE  u.verb = verb /\ \E n \in lines : u.kind = script[n].kind /\ u.key = script[n].key /\ u.line = n
<1>1. PICK n \in lines : u = Removal(verb, n)
  BY DEF RemovalsAt
<1>2. LET m == Member(n, Absent) IN m.kind = script[n].kind /\ m.key = script[n].key
  BY MemberHas
<1>3. LET m == Member(n, Absent) IN u.verb = verb /\ u.kind = m.kind /\ u.key = m.key /\ u.line = n
  BY <1>1, OpHas DEF Removal
<1> QED BY <1>2, <1>3

\* A kind that is not a list, or a block, is not negated without an operand.
LEMMA KeyedUnset ==
  ASSUME Given, NEW k, k \notin ListKinds, NEW lines \in SUBSET Negations(k),
         NEW verb, NEW u \in RemovalsAt(verb, lines)
  PROVE  u.key # All
<1>1. PICK n \in lines : u.key = script[n].key
  BY RemovalsAtAre
<1>2. n \in Lines /\ script[n].no /\ script[n].kind = k
  BY DEF Negations
<1>3. u.key = One
  BY <1>1, <1>2, NegatedKey
<1> QED BY <1>3 DEF One, All

LEMMA ResetIs ==
  ASSUME Given, NEW u \in AllRemovals, u.verb = "UNSET", u.key = All
  PROVE  /\ family = "interface" /\ u.kind \in Resettable
         /\ Reset(u.kind) # {} /\ u.line = LastOf(Reset(u.kind))
<1>1. /\ \A k : OnlyLast(Negations(k)) \in SUBSET Negations(k)
      /\ OnlyFirst(Deletes) \in SUBSET Negations("block")
      /\ {"description", "access_group", "shutdown", "mpls_ip", "rd", "lookup", "block"} \cap ListKinds = {}
  BY DEF OnlyLast, OnlyFirst, Deletes, Negations, ListKinds
<1>2. \A verb, lines : u \in RemovalsAt(verb, lines) => verb = "UNSET"
  BY RemovalsAtAre
<1>3. CASE u \in QueuedRemovals
  <2>1. family \in Families
    BY GivenScript
  <2>2. \/ u \in RemovalsAt("OBJECT_DELETE", Deletes)
        \/ u \in RemovalsAt("UNSET", OnlyFirst(Deletes))
        \/ u \in RemovalsAt("LIST_REMOVE", WithOperand("helper"))
        \/ u \in RemovalsAt("LIST_REMOVE", Negations("route_target"))
        \/ u \in RemovalsAt("UNSET", Negations("rd"))
        \/ u \in RemovalsAt("LIST_REMOVE", Negations("entry"))
        \/ u \in RemovalsAt("LIST_REMOVE", Negations("next_hop"))
        \/ u \in RemovalsAt("LIST_REMOVE", Negations("server"))
        \/ u \in RemovalsAt("UNSET", OnlyLast(Negations("lookup")))
    BY <1>3, <2>1 DEF QueuedRemovals, WholeDeletes, NullOut, Families
  <2>3. \/ u \in RemovalsAt("UNSET", OnlyFirst(Deletes))
        \/ u \in RemovalsAt("UNSET", Negations("rd"))
        \/ u \in RemovalsAt("UNSET", OnlyLast(Negations("lookup")))
    BY <1>2, <2>2
  <2> QED BY <1>1, <2>3, KeyedUnset
<1>4. CASE u \in FieldRemovals
  <2>1. family = "interface"
    BY <1>4 DEF FieldRemovals
  <2>2. \/ u \in RemovalsAt("UNSET", OnlyLast(Negations("description")))
        \/ u \in RemovalsAt("UNSET", Negations("access_group"))
        \/ u \in RemovalsAt("UNSET", OnlyLast(Negations("shutdown")))
        \/ u \in RemovalsAt("UNSET", OnlyLast(Negations("mpls_ip")))
        \/ u \in RemovalsAt("UNSET", OnlyLast(Reset("helper")))
        \/ u \in RemovalsAt("UNSET", OnlyLast(Reset("ipv6")))
    BY <1>4 DEF FieldRemovals, ShadowedUnsets, _detect_interface_field_negation_ops, FlagUnsets
  <2>3. \E k \in Resettable : u \in RemovalsAt("UNSET", OnlyLast(Reset(k)))
    BY <1>1, <2>2, KeyedUnset DEF Resettable
  <2>4. PICK k \in Resettable : u \in RemovalsAt("UNSET", OnlyLast(Reset(k)))
    BY <2>3
  <2>5. PICK n \in OnlyLast(Reset(k)) : u.kind = script[n].kind /\ u.line = n
    BY <2>4, RemovalsAtAre
  <2>6. n \in Reset(k) /\ script[n].kind = k
    BY DEF OnlyLast, Reset, Negating
  <2>7. n = LastOf(Reset(k))
    BY <2>6, LastIs, LinesAre
  <2> QED BY <2>1, <2>5, <2>6, <2>7
<1> QED BY <1>3, <1>4 DEF AllRemovals

(***************************************************************************)
(* "No SET/UNSET contradiction on the same field": whatever the stanzas, a *)
(* member SET of a list that a bare negation resets stands after the       *)
(* UNSET, in the operations of _native_iface_set_ops as in the model that  *)
(* _apply_whole_list_reset_to_model left.                                  *)
(***************************************************************************)
THEOREM ResetsCorrect == Spec => []ResetsComeFirst
<1>1. IInv => ResetsComeFirst
  <2> SUFFICES ASSUME IInv, NEW o \in ops, NEW u \in ops,
                      o.verb = "SET", u.verb = "UNSET", u.kind = o.kind, u.key = All
               PROVE  u.line < o.line
    BY DEF ResetsComeFirst
  <2>1. Given /\ Finalized /\ ops = Ops
    BY DEF IInv, Stage
  <2>2. u \in AllRemovals
    BY <2>1, SetsOK DEF Ops, SetOK
  <2> DEFINE k == o.kind
             l == LastOf(Reset(k))
  <2>3. family = "interface" /\ k \in Resettable /\ Reset(k) # {} /\ u.line = l
    BY <2>1, <2>2, ResetIs
  <2>4. o \in SetOps
    BY <2>1, RemovalsOK DEF Ops, RemovalOK, RemovalOf, RemovalVerbs
  <2>5. o \in MemberSets
    <3>1. CASE o \in _IFACE_POSITIVE_RESTATE_PATTERNS
      <4>1. PICK n \in OnlyLast(Stating("cdp_enable", One)) : o = Op("SET", Stated(n), n, n)
        BY <3>1 DEF _IFACE_POSITIVE_RESTATE_PATTERNS
      <4>2. k = script[n].kind
        BY <4>1, OpHas, MemberHas DEF Stated
      <4>3. k = "cdp_enable"
        BY <4>2 DEF OnlyLast, Stating
      <4> QED BY <2>3, <4>3 DEF Resettable
    <3> QED BY <2>3, <2>4, <3>1 DEF SetOps, _native_iface_set_ops
  <2>6. PICK h, m : ReadIn(h, m) /\ Kept(m) /\ o = Op("SET", m, LineOfMember(m, h), h)
    BY <2>1, <2>5, MemberSetsAre
  <2> DEFINE b == _IFACE_MEMBER_LINE_BUILDERS(m)
  <2>7. m.kind = k /\ o.line = LineOfMember(m, h)
    BY <2>6, OpHas
  <2>8. k \in resets
    <3>1. Blocks # {}
      BY <2>3, <2>6, ParsedInterface DEF OnlyFirst
    <3> QED BY <2>1, <2>3, <3>1 DEF Finalized, ResetKinds
  <2>9. b > l
    BY <2>6, <2>7, <2>8 DEF Kept
  <2>10. l \in Nat /\ l >= 1
    <3>1. l \in Lines
      BY <2>1, <2>3, LastIs, LinesAre
    <3> HIDE DEF l
    <3> QED BY <2>1, <3>1, GivenScript
  <2>11. b \in Nat
    <3>1. b = NoLine \/ b \in Lines
      <4> DEFINE T == {n \in Stating(m.kind, m.key) : script[n].as}
      <4>1. T \in SUBSET Lines /\ b = LastOf(T)
        BY LinesAre DEF _IFACE_MEMBER_LINE_BUILDERS
      <4> HIDE DEF T, b
      <4> QED BY <2>1, <4>1, LastIs, NoneLast
    <3> HIDE DEF b
    <3> QED BY <2>1, <3>1, GivenScript DEF NoLine
  <2>12. o.line = Located(b, h)
    BY <2>3, <2>7 DEF LineOfMember, Resettable, Fields
  <2> HIDE DEF b, l
  <2>13. b # NoLine
    BY <2>9, <2>10, <2>11 DEF NoLine
  <2>14. o.line = b
    BY <2>12, <2>13 DEF Located
  <2>15. l < b
    BY <2>9, <2>10, <2>11
  <2> QED BY <2>3, <2>14, <2>15
<1> QED BY <1>1, Invariant, PTL

-----------------------------------------------------------------------------
(***************************************************************************)
(* The operations of a script are its edits: for scripts of any length and *)
(* in every family, their replay leaves each slot as the device has it,    *)
(* whatever the baseline, the number of blocks and the place of whole      *)
(* deletions between them.  Held out are the removals that win by mandate  *)
(* and the kinds whose walk loses the order of its lines, as Blurred names *)
(* them.                                                                   *)
(***************************************************************************)
THEOREM EditsCorrect == Spec => []EditsAreDevice
<1>1. IInv => EditsAreDevice
  <2> SUFFICES ASSUME IInv, Finished, NEW s \in SlotsOf(family), ~Overruled(s), ~Blurred(s)
               PROVE  config[s] = Device[s]
    BY DEF EditsAreDevice
  <2>1. Given /\ Finalized /\ replayed = Ops
    BY DEF IInv, Stage, Finished
  <2>2. LastOn(s, config[s], Ops)
    BY <2>1 DEF IInv, LastWord
  <2>3. PICK k, key : s = <<k, key>>
    BY <2>1, SlotIs
  <2>4. CASE About(s) = {}
    <3>1. \A o \in Ops : ~Touches(o, s)
      <4> SUFFICES ASSUME NEW o \in Ops, Touches(o, s) PROVE FALSE
        OBVIOUS
      <4>1. CASE SetOK(o)
        <5>1. o.kind = k /\ o.key = key
          BY <2>3, <4>1, TouchesIs DEF SetOK
        <5>2. ~(family = "section" /\ k = "block")
          BY <2>1, <2>3, SlotIs, FamilyOf
        <5>3. PICK n \in Lines : SpokenAt(o, n)
          BY <4>1, <5>1, <5>2 DEF SetOK
        <5>4. script[n].kind = k /\ script[n].key = key
          BY <5>1, <5>3 DEF SpokenAt
        <5>5. n \in About(s)
          BY <2>3, <5>4, AboutIs
        <5> QED BY <2>4, <5>5
      <4>2. CASE RemovalOK(o)
        BY <2>3, <2>4, <4>2, TouchesIs DEF RemovalOK
      <4> QED BY <2>1, <4>1, <4>2, OpsTyped
    <3>2. config[s] = baseline[s]
      BY <2>2, <3>1 DEF LastOn
    <3>3. Device[s] = baseline[s]
      BY <2>4 DEF Device
    <3> QED BY <3>2, <3>3
  <2>5. CASE About(s) # {}
    <3> DEFINE n == LastOf(About(s))
    <3>1. About(s) \in SUBSET Lines
      BY DEF About
    <3>2. LastAbout(s, n)
      BY <2>1, <2>5, <3>1, LastIs DEF LastAbout
    <3>3. Device[s] = Word(n)
      BY <2>5 DEF Device
    <3> HIDE DEF n
    <3>4. PICK o : Decides(s, n, o)
      BY <2>1, <2>3, <3>2, SpokenDecides, WithdrawnDecides
    <3>5. PICK p \in Ops : /\ Touches(p, s) /\ config[s] = Leaves(p)
                           /\ \A q \in Ops : Touches(q, s) /\ q # p => Precedes(q, p)
      BY <2>2, <3>4 DEF LastOn, Decides
    <3>6. Leaves(p) = Word(n)
      BY <3>4, <3>5 DEF Decides
    <3> QED BY <3>3, <3>5, <3>6
  <2> QED BY <2>4, <2>5
<1> QED BY <1>1, Invariant, PTL
=============================================================================
