----------------------------- MODULE EditedBlocks -----------------------------
(***************************************************************************)
(* The objects a change script edits block by block -- interfaces, VRFs,   *)
(* access lists, VLANs, static routes and the singleton sections -- and    *)
(* the native operations IOSParser makes of the edits.                     *)
(*                                                                         *)
(* The positive side is read into objects that forget order: the value of  *)
(* a field, the members of a list.  parse_deletion_commands and the        *)
(* negation walks queue the removals at their own lines, none suppressed.  *)
(* _attach_native_change_ops then gives every SET a line, in most families *)
(* the LAST occurrence of its member, so that the line-ordered replay can  *)
(* tell a refresh from a withdrawal.                                       *)
(*                                                                         *)
(* A script edits one object of one family: `block` lines open it (or,     *)
(* negated, delete it), the others state or withdraw a member of a kind.   *)
(* The kinds of an interface stand each for the fields read the same way.  *)
(* A VRF is a `vrf definition`: of the classic `ip vrf` neither the rules  *)
(* for negations nor the search for last lines know the header, so nothing *)
(* is queued for the negations in it.  An access list is an                *)
(* `ip access-list` with sequence numbers: no removal addresses an entry   *)
(* without one.                                                            *)
(***************************************************************************)
EXTENDS Naturals, Sequences

CONSTANTS
  Keys,        \* of the members of a list
  Values,      \* of the fields that carry one
  Scripts      \* pairs of a family and a sequence of lines

Absent == "absent"    \* the default of a field
On == "on"
Off == "off"
All == "all"          \* the key of a negation without an operand
One == "one"          \* the key of a kind that is not a list

Fields == {"access_group", "description", "unnumbered", "shutdown", "ospf_passive", "mpls_ip", "cdp_enable"}
Resettable == {"helper", "ipv6"}

Families == {"interface", "vrf", "acl", "vlan", "static", "section", "toggles"}
Headed == {"interface", "vrf", "acl", "vlan"}    \* the families with blocks

KindsOf(f) ==
  CASE f = "interface" -> Fields \cup Resettable
    [] f = "vrf"       -> {"route_target", "rd"}
    [] f = "acl"       -> {"entry"}
    [] f = "vlan"      -> {}
    [] f = "static"    -> {"next_hop"}
    [] f = "section"   -> {"server"}
    [] f = "toggles"   -> {"lookup", "logging"}

Kinds == {"block"} \cup UNION {KindsOf(f) : f \in Families}
ListKinds == {"helper", "ipv6", "route_target", "entry", "next_hop", "server"}
KeysOf(kind) == IF kind \in ListKinds THEN Keys ELSE {One}

\* What a positive line says, and what a negated one may name.
ValuesOf(kind) ==
  CASE kind \in {"access_group", "description", "unnumbered", "rd"} -> Values
    [] kind = "shutdown"                                           -> {Off}
    [] OTHER                                                       -> {On}

Operands(kind) ==
  CASE kind = "ipv6"                   -> {All}
    [] kind \in {"helper", "next_hop"} -> Keys \cup {All}
    [] kind = "unnumbered"             -> {}
    [] OTHER                           -> KeysOf(kind)

\* What a family has: its members, and the presence of its block.
SlotsOf(f) ==
  {s \in Kinds \X (Keys \cup {One}) :
     /\ s[1] \in KindsOf(f) \/ (s[1] = "block" /\ f \in {"vrf", "acl", "vlan"})
     /\ s[2] \in KeysOf(s[1])}

Settings == Values \cup {Absent, On, Off}

\* `as` is FALSE for a member not spelled the way the model prints it: an IPv6
\* address in another notation, a helper address with a keyword behind it.
Line == [kind : Kinds, no : BOOLEAN, key : Keys \cup {One, All}, val : Settings, as : BOOLEAN]

\* A section has no header but can be nulled out.
Belongs(l, f) ==
  /\ IF l.kind = "block" THEN f \in Headed \/ (f = "section" /\ l.no) ELSE l.kind \in KindsOf(f)
  /\ IF l.no THEN l.key \in Operands(l.kind)
     ELSE l.key \in KeysOf(l.kind) /\ l.val \in ValuesOf(l.kind) /\ (l.kind \notin Resettable => l.as)

\* Line n of s is in a block.
InBlock(s, n) ==
  \E h \in 1..n : s[h].kind = "block" /\ ~s[h].no /\ \A m \in h+1..n : s[m].kind # "block"

ASSUME ScriptsAssumption ==
  \A s \in Scripts :
    /\ s \in Families \X Seq(Line)
    /\ \A n \in 1..Len(s[2]) :
         /\ Belongs(s[2][n], s[1])
         /\ s[1] \in Headed /\ s[2][n].kind # "block" => InBlock(s[2], n)

ASSUME KeysAssumption == All \notin Keys

NoLine == 0

VARIABLES
  family, script,
  baseline,    \* the object before the change
  phase,       \* of parse()
  objects,     \* the parsed objects: header line and members
  resets,      \* _pending_whole_list_resets
  removals,    \* the _pending_native_... queues
  ops,         \* native_change_ops, once attached
  replayed,    \* the operations replayed
  config       \* the baseline under the operations replayed so far

inputs == <<family, script, baseline>>
vars == <<inputs, phase, objects, resets, removals, ops, replayed, config>>

-----------------------------------------------------------------------------
(* Lines *)

Lines == 1..Len(script)
Blocks == {n \in Lines : script[n].kind = "block" /\ ~script[n].no}
Deletes == {n \in Lines : script[n].kind = "block" /\ script[n].no}

Stating(kind, key) == {n \in Lines : script[n].kind = kind /\ script[n].key = key /\ ~script[n].no}
Negating(kind, key) == {n \in Lines : script[n].kind = kind /\ script[n].key = key /\ script[n].no}
Either(kind) == Stating(kind, One) \cup Negating(kind, One)
Negations(kind) == {n \in Lines : script[n].kind = kind /\ script[n].no}

\* The first and the last of a set of lines, if it has any.
OnlyFirst(S) == {n \in S : \A m \in S : n <= m}
OnlyLast(S) == {n \in S : \A m \in S : m <= n}

FirstOf(S) == IF S = {} THEN NoLine ELSE CHOOSE n \in S : n \in OnlyFirst(S)   \* (mutant)
LastOf(S) == IF S = {} THEN NoLine ELSE CHOOSE n \in S : n \in OnlyLast(S)

\* The children of the block at line h.
Children(h) == {n \in Lines : n > h /\ \A m \in h+1..n : script[m].kind # "block"}

\* `source` is the line a member is read from.
Member(n, val) == [kind |-> script[n].kind, key |-> script[n].key, val |-> val, source |-> n]
Stated(n) == Member(n, script[n].val)

\* Distinct members, each read from its first line.
MembersOf(lines) ==
  {Stated(n) : n \in {n \in lines : \A m \in lines :
                        script[m].kind = script[n].kind /\ script[m].key = script[n].key => n <= m}}

-----------------------------------------------------------------------------
(* Interfaces: duplicate stanzas are one block *)

_coalesce_interface_stanzas == {n \in Lines : script[n].kind # "block"}

\* [-1] of the positive lines.
LastValue(kind) == {Stated(n) : n \in OnlyLast(Stating(kind, One))}

_is_shutdown == LastOf(Stating("shutdown", One)) > LastOf(Negating("shutdown", One))

Polarity(n) == IF script[n].no THEN Off ELSE On
OspfPassive == {Member(n, Polarity(n)) : n \in OnlyLast(Either("ospf_passive"))}

FieldMembers ==
  LastValue("access_group") \cup LastValue("description") \cup LastValue("unnumbered")
    \cup (IF _is_shutdown THEN LastValue("shutdown") ELSE {})
    \cup OspfPassive
    \cup LastValue("mpls_ip")
    \cup {Member(n, Off) : n \in OnlyLast(Negating("cdp_enable", One))}

ListMembers ==
  MembersOf({n \in _coalesce_interface_stanzas : script[n].kind \in Resettable /\ ~script[n].no})

Op(verb, m, line, object) ==
  [verb |-> verb, kind |-> m.kind, key |-> m.key, val |-> m.val, line |-> line, object |-> object, source |-> m.source]
Removal(verb, n) == Op(verb, Member(n, Absent), n, n)
RemovalsAt(verb, lines) == {Removal(verb, n) : n \in lines}

\* `no description` and its like count only where no positive line does.
ShadowedUnsets ==
  IF Stating("description", One) = {} THEN RemovalsAt("UNSET", OnlyLast(Negations("description"))) ELSE {}

Reset(kind) == Negating(kind, All)

_detect_interface_field_negation_ops ==
  RemovalsAt("UNSET", Negations("access_group"))
    \cup (IF _is_shutdown THEN {} ELSE RemovalsAt("UNSET", OnlyLast(Negations("shutdown"))))
    \cup RemovalsAt("UNSET", OnlyLast(Reset("helper")))
    \cup RemovalsAt("UNSET", OnlyLast(Reset("ipv6")))

FlagUnsets == RemovalsAt("UNSET", OnlyLast(Negations("mpls_ip")))

-----------------------------------------------------------------------------
(* The locators *)

\* Fields without an entry fall back to the block header.
_IFACE_OP_LINE_PATTERNS(kind) ==
  CASE kind \in {"access_group", "description", "mpls_ip"}     -> LastOf(Stating(kind, One))
    [] kind \in {"shutdown", "ospf_passive", "cdp_enable"}     -> LastOf(Either(kind))
    [] OTHER                                                   -> NoLine

\* The expressions are built from the parsed member: a line that spells it
\* in another way is not found.
_IFACE_MEMBER_LINE_BUILDERS(m) == LastOf({n \in Stating(m.kind, m.key) : script[n].as})

FirstLines(m) == FirstOf(Stating(m.kind, m.key))                \* (mutant)
MemberLastLine(m) == LastOf(Stating(m.kind, m.key))

Located(line, h) == IF line = NoLine THEN h ELSE line

-----------------------------------------------------------------------------
(* Reading: one object per interface, per block, per route, per section *)

Stanza(members, h) == [line |-> h, members |-> members]

MembersIn(h) == MembersOf({n \in Children(h) : ~script[n].no})

ServersStated == {n \in Lines : script[n].kind = "server" /\ ~script[n].no}

RoutesStated == {n \in Lines : script[n].kind = "next_hop" /\ ~script[n].no}

Parsed ==
  CASE family = "interface" -> {Stanza(FieldMembers \cup ListMembers, h) : h \in OnlyFirst(Blocks)}
    [] family = "static"    -> {Stanza({Stated(n)}, n) : n \in RoutesStated}
    [] family = "section"   -> {Stanza(MembersOf(ServersStated), n) : n \in OnlyFirst(ServersStated)}
    [] OTHER                -> {Stanza(MembersIn(h), h) : h \in Blocks}

ReadObjects ==
  /\ phase = "objects"
  /\ phase' = "negations"
  /\ objects' = Parsed
  /\ IF family = "interface" /\ Blocks # {}
     THEN /\ removals' = ShadowedUnsets \cup _detect_interface_field_negation_ops \cup FlagUnsets
          /\ resets' = {kind \in Resettable : Reset(kind) # {}}
     ELSE UNCHANGED <<removals, resets>>
  /\ UNCHANGED <<inputs, ops, replayed, config>>

-----------------------------------------------------------------------------
(* parse_deletion_commands: every negation at its own line *)

WithOperand(kind) == {n \in Negations(kind) : script[n].key # All}

WholeDeletes == RemovalsAt("OBJECT_DELETE", Deletes)
NullOut == RemovalsAt("UNSET", OnlyFirst(Deletes))

QueuedRemovals ==
  CASE family = "interface" -> WholeDeletes \cup RemovalsAt("LIST_REMOVE", WithOperand("helper"))
    [] family = "vrf"       -> WholeDeletes \cup RemovalsAt("LIST_REMOVE", Negations("route_target"))
                                 \cup RemovalsAt("UNSET", Negations("rd"))
    [] family = "acl"       -> WholeDeletes \cup RemovalsAt("LIST_REMOVE", Negations("entry"))
    [] family = "vlan"      -> WholeDeletes
    [] family = "static"    -> RemovalsAt("LIST_REMOVE", Negations("next_hop"))
    [] family = "section"   -> NullOut \cup RemovalsAt("LIST_REMOVE", Negations("server"))
    [] family = "toggles"   -> RemovalsAt("UNSET", OnlyLast(Negations("lookup")))

ReadNegations ==
  /\ phase = "negations"
  /\ phase' = "resets"
  /\ removals' = removals \cup QueuedRemovals
  /\ UNCHANGED <<inputs, objects, resets, ops, replayed, config>>

-----------------------------------------------------------------------------
(* Finalization *)

KeptAlways(m) == TRUE    \* (mutant) the model is not reconciled
Kept(m) == m.kind \in resets => _IFACE_MEMBER_LINE_BUILDERS(m) > LastOf(Reset(m.kind))

_apply_whole_list_reset_to_model ==
  /\ phase = "resets"
  /\ phase' = "attach"
  /\ objects' = {Stanza({m \in i.members : Kept(m)}, i.line) : i \in objects}
  /\ UNCHANGED <<inputs, resets, removals, ops, replayed, config>>

\* Where the operation of a member stands, h the header of its object.
LineOfMember(m, h) ==
  CASE m.kind \in Fields                          -> Located(_IFACE_OP_LINE_PATTERNS(m.kind), h)
    [] m.kind \in Resettable                      -> Located(_IFACE_MEMBER_LINE_BUILDERS(m), h)
    [] m.kind \in {"route_target", "rd", "entry"} -> Located(MemberLastLine(m), h)
    [] OTHER                                      -> h

MemberSets == UNION {{Op("SET", m, LineOfMember(m, i.line), i.line) : m \in i.members} : i \in objects}

\* A block stands before its members.
Block == [kind |-> "block", key |-> One, val |-> On, source |-> NoLine]

\* Only a positive restatement whose value is the default still.
_IFACE_POSITIVE_RESTATE_PATTERNS ==
  IF objects # {} /\ Negating("cdp_enable", One) = {}
  THEN {Op("SET", Stated(n), n, n) : n \in OnlyLast(Stating("cdp_enable", One))} ELSE {}

_native_iface_set_ops == MemberSets \cup _IFACE_POSITIVE_RESTATE_PATTERNS

\* A CREATE of every block, and its members.
BlockSetOps == {Op("SET", Block, i.line, i.line) : i \in objects} \cup MemberSets

_native_vlan_ops == {Op("SET", Block, LastOf(Blocks), i.line) : i \in objects}
_native_static_ops == MemberSets

\* The later of the two polarities, whatever the parsed state says.
LoggingWinner == {Op("SET", Member(n, Polarity(n)), n, n) : n \in OnlyLast(Either("logging"))}

LookupRestated == {Op("SET", Stated(n), n, n) : n \in OnlyLast(Stating("lookup", One))}

SetOps ==
  CASE family = "interface"            -> _native_iface_set_ops
    [] family = "vlan"                 -> _native_vlan_ops
    [] family = "static"               -> _native_static_ops
    [] family = "toggles"              -> LoggingWinner \cup LookupRestated
    [] OTHER                           -> BlockSetOps

AttachOps ==
  /\ phase = "attach"
  /\ phase' = "replay"
  /\ ops' = SetOps \cup removals
  /\ UNCHANGED <<inputs, objects, resets, removals, replayed, config>>

-----------------------------------------------------------------------------
(* The consumer: by line, except the removals that win over any statement. *)

\* Does operation o change slot s, and to what?
Touches(o, s) ==
  IF o.verb = "SET" THEN s = <<o.kind, o.key>>
  ELSE o.kind = "block" \/ (o.kind = s[1] /\ o.key \in {All, s[2]})

Leaves(o) == IF o.verb = "SET" THEN o.val ELSE IF o.kind = "lookup" THEN Off ELSE Absent

\* "applied DELETE-WINS": whole VRFs, and the removals of a section.
Wins(o) ==
  /\ o.verb # "SET"
  /\ \/ family = "vrf" /\ o.kind = "block"
     \/ family = "section"

\* Stable: operations of one line keep the order of objects and members.
InScriptOrder(o, p) ==
  \/ o.line < p.line
  \/ o.line = p.line /\ (o.object < p.object \/ (o.object = p.object /\ o.source < p.source))

Precedes(o, p) == IF Wins(o) = Wins(p) THEN InScriptOrder(o, p) ELSE Wins(p)

ReplayOp ==
  /\ phase = "replay"
  /\ \E o \in ops \ replayed :
       /\ \A p \in ops \ replayed : p # o => Precedes(o, p)
       /\ replayed' = replayed \cup {o}
       /\ config' = [s \in SlotsOf(family) |-> IF Touches(o, s) THEN Leaves(o) ELSE config[s]]
  /\ UNCHANGED <<inputs, phase, objects, resets, removals, ops>>

-----------------------------------------------------------------------------

Init ==
  /\ \E s \in Scripts : family = s[1] /\ script = s[2]
  /\ \E present \in BOOLEAN : baseline = [s \in SlotsOf(family) |-> IF present THEN On ELSE Absent]
  /\ phase = "objects"
  /\ objects = {} /\ resets = {} /\ removals = {} /\ ops = {} /\ replayed = {}
  /\ config = baseline

Next == ReadObjects \/ ReadNegations \/ _apply_whole_list_reset_to_model \/ AttachOps \/ ReplayOp

Spec == Init /\ [][Next]_vars

-----------------------------------------------------------------------------
(* Properties *)

\* Every operation is at a line of the script, a removal at one that negates
\* what it removes.
TypeOK ==
  /\ family \in Families /\ script \in Seq(Line)
  /\ phase \in {"objects", "negations", "resets", "attach", "replay"}
  /\ baseline \in [SlotsOf(family) -> Settings] /\ config \in [SlotsOf(family) -> Settings]
  /\ \A i \in objects : i.line \in Lines
  /\ resets \subseteq Resettable
  /\ \A o \in removals \cup ops :
       /\ o.verb \in {"SET", "UNSET", "LIST_REMOVE", "OBJECT_DELETE"}
       /\ o.line \in Lines /\ o.object \in Lines /\ o.source \in Lines \cup {NoLine}
       /\ o.val \in Settings
       /\ o.verb # "SET" => script[o.line].no /\ script[o.line].kind = o.kind
  /\ replayed \subseteq ops

\* The lines about a slot, and what the last of them leaves it at.
About(s) ==
  {n \in Lines :
     IF ~script[n].no THEN s = <<script[n].kind, script[n].key>>
     ELSE script[n].kind = "block" \/ (script[n].kind = s[1] /\ script[n].key \in {All, s[2]})}

ByDefaultOn == {"cdp_enable", "lookup", "logging"}
Word(n) ==
  IF ~script[n].no THEN script[n].val
  ELSE IF script[n].kind \in ByDefaultOn \cup {"ospf_passive"} THEN Off ELSE Absent

\* The device, line by line: what is said last of a slot is what it has.
Device ==
  [s \in SlotsOf(family) |-> IF About(s) = {} THEN baseline[s] ELSE Word(LastOf(About(s)))]

Finished == phase = "replay" /\ replayed = ops

\* A removal that wins by mandate stands before a statement.
Overruled(s) ==
  \E m \in Stating(s[1], s[2]), n \in About(s) :
    /\ n < m /\ script[n].no
    /\ (family = "vrf" /\ script[n].kind = "block") \/ family = "section"

RemovedBefore(m, s) == {n \in About(s) : n < m /\ script[n].no}

\* The kinds whose lines the parser does not tell apart.
Blurred(s) ==
  LET stating == Stating(s[1], s[2])
  IN  CASE s[1] = "description" -> \E m \in stating, n \in Negations(s[1]) : m < n
        [] s[1] = "cdp_enable"  -> \E m \in stating, n \in Negations(s[1]) : n < m
        [] s[1] = "rd"          -> \E m, n \in stating : script[n].val # script[m].val
        [] s[1] = "unnumbered"  -> \E m \in stating : RemovedBefore(m, s) # {}
        [] s[1] \in Resettable  -> \E m \in stating : RemovedBefore(m, s) # {} /\ ~script[m].as
        [] OTHER                -> FALSE

(***************************************************************************)
(* The operations of a script are its edits: their replay leaves every     *)
(* slot of the object as the device has it, whatever the baseline, the     *)
(* number of blocks and the place of whole deletions between them.  Not    *)
(* held to it are the removals that win by mandate, and the kinds whose    *)
(* walk loses the order of its lines in the way Blurred names.             *)
(***************************************************************************)
EditsAreDevice == Finished =>
  \A s \in SlotsOf(family) : Overruled(s) \/ Blurred(s) \/ config[s] = Device[s]

(***************************************************************************)
(* "No SET/UNSET contradiction on the same field": a member SET of a list  *)
(* that a bare negation resets stands after the UNSET.                     *)
(***************************************************************************)
ResetsComeFirst ==
  \A o, u \in ops :
    o.verb = "SET" /\ u.verb = "UNSET" /\ u.kind = o.kind /\ u.key = All => u.line < o.line

(***************************************************************************)
(* "A reset-then-readd repopulates": a member of a list stated after the   *)
(* last reset of the list is a member of the parsed interface.             *)
(***************************************************************************)
ReaddRepopulates == phase = "replay" =>
  \A i \in objects, kind \in resets, n \in Lines :
    script[n].kind = kind /\ ~script[n].no /\ n > LastOf(Reset(kind)) =>
      \E m \in i.members : m.kind = kind /\ m.key = script[n].key
=============================================================================
