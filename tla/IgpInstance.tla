----------------------------- MODULE IgpInstance -----------------------------
(***************************************************************************)
(* The process blocks of an IGP in a change script, as parse_ospf,         *)
(* parse_eigrp and parse_isis read them, the native operations made of     *)
(* them, and their replay in line order over a baseline.                   *)
(*                                                                         *)
(* The positive lines of a block become lists and fields of an instance,   *)
(* and each a SET that carries the line of the block's header; a negation  *)
(* becomes a removal at its own line, unless the same member is stated     *)
(* again later in the block, and `log-adjacency-changes` is read line by   *)
(* line in both senses.  A script may have several blocks of the process.  *)
(*                                                                         *)
(* A line states or withdraws one member of one kind.  For the kinds of an *)
(* area `key` is the area and `as` how its id is spelled ("1", "0.0.0.1"); *)
(* the network, router id or protocol of the member is one per key.        *)
(***************************************************************************)
EXTENDS Naturals, Sequences

CONSTANTS
  Keys,        \* members of a kind; areas, for the kinds of an area
  Spellings,   \* of an area id
  Values,      \* attributes of a member or list names
  Scripts      \* pairs of a protocol and a sequence of lines

Absent == "absent"
On == "on"
Off == "off"

AreaKinds == {"range", "virtual_link", "filter_list"}
Kinds == AreaKinds \cup {"network", "redistribute", "default_information", "log_adjacency"}
Valued == {"redistribute", "virtual_link", "filter_list"}
Settings == Values \cup {Absent, On, Off}

Line == [kind : Kinds \cup {"header"}, no : BOOLEAN, key : Keys, as : Spellings, val : Settings]

Protocols == {"ospf", "eigrp", "isis"}

\* The kinds a process of the protocol has.
KindsOf(p) ==
  CASE p = "ospf"  -> Kinds
    [] p = "eigrp" -> {"network", "redistribute"}
    [] p = "isis"  -> {"network", "redistribute", "default_information"}

\* What some walk of the protocol matches when negated.
Withdrawable(p) ==
  CASE p = "ospf"  -> Kinds \ {"log_adjacency"}
    [] p = "eigrp" -> {"network", "redistribute"}
    [] p = "isis"  -> {"network"}

\* A script opens with a header; a positive line has a value of its kind, and
\* `default-information` is one thing per process.
ASSUME ScriptsAssumption ==
  \A s \in Scripts :
    /\ s \in Protocols \X Seq(Line)
    /\ Len(s[2]) >= 1 /\ s[2][1].kind = "header"
    /\ \A n \in 1..Len(s[2]) :
         /\ s[2][n].kind \in KindsOf(s[1]) \cup {"header"}
         /\ ~s[2][n].no /\ s[2][n].kind \notin Valued \cup {"header"} => s[2][n].val = On
         /\ \A m \in 1..Len(s[2]) :
              s[2][n].kind = "default_information" /\ s[2][m].kind = "default_information"
                => s[2][n].key = s[2][m].key

\* A valued member of the baseline has some value.
ASSUME ValuesAssumption == Values # {}

VARIABLES
  protocol,    \* "ospf", "eigrp" or "isis"
  script,      \* the lines; the first is a header
  baseline,    \* the configuration before the change
  read,        \* headers of the blocks read so far
  instances,   \* the parsed instances: header line and members
  pending,     \* _pending_native_<protocol>_ops
  ledger,      \* lines given to _claim_negation
  ops,         \* the native operations, once attached
  replayed,    \* the operations replayed
  config       \* the baseline under the operations replayed so far

vars == <<protocol, script, baseline, read, instances, pending, ledger, ops, replayed, config>>

Slots == Kinds \X Keys

-----------------------------------------------------------------------------
(* Blocks and their lines *)

Lines == 1..Len(script)
Headers == {n \in Lines : script[n].kind = "header"}

\* The line numbers of the children of the block at header h.
Children(h) == {n \in Lines : h < n /\ \A m \in Headers : ~(h < m /\ m <= n)}

Stating(h, kind) == {n \in Children(h) : script[n].kind = kind /\ ~script[n].no}
Negating(h, kind) == {n \in Children(h) : script[n].kind = kind /\ script[n].no}

\* The keys under which the walks keep the last positive line of a member.
RawKey(n) == <<script[n].key, script[n].as>>
CanonicalKey(n) == script[n].key
TheOnlyOne(n) == script[n].kind
KeyOf(n) ==
  CASE script[n].kind \in {"virtual_link", "filter_list"} -> RawKey(n)
    [] script[n].kind = "default_information"            -> TheOnlyOne(n)
    [] OTHER                                             -> CanonicalKey(n)

-----------------------------------------------------------------------------
(* The positive walks.  Every member comes from one line, and the lists of *)
(* an instance are in the order of these lines; only areas are grouped     *)
(* under the first line that spells their id.  The order of two members of *)
(* different kinds is left out: they have no slot in common.               *)

Member(n, group) ==
  [kind |-> script[n].kind, key |-> script[n].key, val |-> script[n].val, group |-> group, source |-> n]

Members(h, kind) == {Member(n, 0) : n \in Stating(h, kind)}

\* Scalars are read off the first matching line.
DefaultInformation(h) ==
  {Member(n, 0) : n \in {n \in Stating(h, "default_information") :
                          \A m \in Stating(h, "default_information") : n <= m}}

_parse_ospf_redistribute(h) == Members(h, "redistribute")

\* Grouped by the area id as it is spelled, an area at the first line that
\* names it; per area the last filter list, all ranges and all virtual links.
_parse_ospf_areas(h) ==
  LET lines == {n \in Children(h) : script[n].kind \in AreaKinds /\ ~script[n].no}
      Opens(f, n) == RawKey(f) = RawKey(n) /\ \A m \in lines : RawKey(m) = RawKey(n) => f <= m
      Replaced(n) == /\ script[n].kind = "filter_list"
                     /\ \E m \in Stating(h, "filter_list") : m > n /\ RawKey(m) = RawKey(n)
  IN  {Member(p[1], p[2]) : p \in {p \in lines \X lines : Opens(p[2], p[1]) /\ ~Replaced(p[1])}}

OspfMembers(h) ==
  DefaultInformation(h) \cup Members(h, "network") \cup _parse_ospf_redistribute(h) \cup _parse_ospf_areas(h)

EigrpMembers(h) == Members(h, "network") \cup Members(h, "redistribute")

IsisMembers(h) == DefaultInformation(h) \cup Members(h, "network") \cup Members(h, "redistribute")

-----------------------------------------------------------------------------
(* The walks over the negations *)

Op(verb, m, line) ==
  [verb |-> verb, kind |-> m.kind, key |-> m.key, val |-> m.val, line |-> line, group |-> m.group, source |-> m.source]
Removal(verb, n) == Op(verb, [Member(n, 0) EXCEPT !.val = Absent], n)

\* `_readded_later`: the last positive line of the member is after line n.
StatedLater(h, n) == \E m \in Stating(h, script[n].kind) : KeyOf(m) = KeyOf(n) /\ m > n

Removals(h, kind, verb) == {Removal(verb, n) : n \in {n \in Negating(h, kind) : ~StatedLater(h, n)}}

Suppressed(h, kind) == {n \in Negating(h, kind) : StatedLater(h, n)}

\* One SET per line, True or False, at the line.
LogAdjacencyOps(h) ==
  {Op("SET", [Member(n, 0) EXCEPT !.val = IF script[n].no THEN Off ELSE On], n) :
     n \in {n \in Children(h) : script[n].kind = "log_adjacency"}}

_queue_ospf_network_removal_ops(h) == Removals(h, "network", "LIST_REMOVE")

RangesNotStated(h) ==        \* (mutant) suppressed by any positive line of the block
  {Removal("LIST_REMOVE", n) : n \in {n \in Negating(h, "range") :
                                       ~\E m \in Stating(h, "range") : KeyOf(m) = KeyOf(n)}}

RangeRemovals(h) == Removals(h, "range", "LIST_REMOVE")

RedistributeRemovals(h) == Removals(h, "redistribute", "LIST_REMOVE")

DefaultInformationRemovals(h) == Removals(h, "default_information", "UNSET")

VirtualLinkRemovals(h) == Removals(h, "virtual_link", "LIST_REMOVE")

FilterListRemovals(h) == Removals(h, "filter_list", "UNSET")

OspfOps(h) ==
  LogAdjacencyOps(h) \cup _queue_ospf_network_removal_ops(h) \cup RangeRemovals(h)
    \cup RedistributeRemovals(h) \cup DefaultInformationRemovals(h)
    \cup VirtualLinkRemovals(h) \cup FilterListRemovals(h)

OspfClaims(h) ==
  Suppressed(h, "network") \cup Suppressed(h, "range")
    \cup Suppressed(h, "redistribute") \cup Suppressed(h, "virtual_link")

EigrpOps(h) == Removals(h, "network", "LIST_REMOVE") \cup Removals(h, "redistribute", "LIST_REMOVE")

EigrpClaims(h) == Suppressed(h, "network") \cup Suppressed(h, "redistribute")

IsisOps(h) == Removals(h, "network", "LIST_REMOVE")

IsisClaims(h) == Suppressed(h, "network")

-----------------------------------------------------------------------------
Init ==
  /\ \E s \in Scripts : protocol = s[1] /\ script = s[2]
  /\ \E present \in BOOLEAN :
       baseline = [s \in Slots |-> IF ~present THEN Absent
                                   ELSE IF s[1] \in Valued THEN CHOOSE v \in Values : TRUE ELSE On]
  /\ read = {} /\ instances = {} /\ pending = {} /\ ledger = {}
  /\ ops = {} /\ replayed = {} /\ config = baseline

\* One turn of the loop over the process blocks of the script.
NextBlock(h) == h \in Headers \ read /\ \A m \in Headers \ read : h <= m

ReadBlock(h, members, removals, claims) ==
  /\ read' = read \cup {h}
  /\ instances' = instances \cup {[line |-> h, members |-> members]}
  /\ pending' = pending \cup removals
  /\ ledger' = ledger \cup claims
  /\ UNCHANGED <<protocol, script, baseline, ops, replayed, config>>

parse_ospf ==
  protocol = "ospf" /\ \E h \in Lines : NextBlock(h) /\ ReadBlock(h, OspfMembers(h), OspfOps(h), OspfClaims(h))

parse_eigrp ==
  protocol = "eigrp" /\ \E h \in Lines : NextBlock(h) /\ ReadBlock(h, EigrpMembers(h), EigrpOps(h), EigrpClaims(h))

parse_isis ==
  protocol = "isis" /\ \E h \in Lines : NextBlock(h) /\ ReadBlock(h, IsisMembers(h), IsisOps(h), IsisClaims(h))

\* Provenance of the positive side is coarse: the line of the header.
InstanceOps == UNION {{Op("SET", m, i.line) : m \in i.members} : i \in instances}

_native_ops ==
  /\ read = Headers /\ ops = {} /\ instances # {}
  /\ ops' = InstanceOps \cup pending
  /\ ops' # {}
  /\ UNCHANGED <<protocol, script, baseline, read, instances, pending, ledger, replayed, config>>

Lexicographic(i, j, k, l) == i < j \/ (i = j /\ k < l)

QueueOrder(o, p) ==          \* (mutant) the pending operations after the SETs, unsorted
  LET queue(x) == IF x.line = x.source THEN 1 ELSE 0
  IN  Lexicographic(queue(o), queue(p), o.source, p.source)

\* Sorted by line, and stable: the members of an instance keep their order.
InScriptOrder(o, p) ==
  \/ o.line < p.line
  \/ o.line = p.line /\ Lexicographic(o.group, p.group, o.source, p.source)

ReplayOp ==
  \E o \in ops \ replayed :
    /\ \A p \in ops \ replayed : p # o => InScriptOrder(o, p)
    /\ replayed' = replayed \cup {o}
    /\ config' = [config EXCEPT ![<<o.kind, o.key>>] = IF o.verb = "SET" THEN o.val ELSE Absent]
    /\ UNCHANGED <<protocol, script, baseline, read, instances, pending, ledger, ops>>

Next == parse_ospf \/ parse_eigrp \/ parse_isis \/ _native_ops \/ ReplayOp
Spec == Init /\ [][Next]_vars

-----------------------------------------------------------------------------
(* Properties *)

TypeOK ==
  /\ protocol \in Protocols /\ script \in Seq(Line)
  /\ baseline \in [Slots -> Settings] /\ config \in [Slots -> Settings]
  /\ read \subseteq Headers /\ ledger \subseteq Lines
  /\ \A o \in pending \cup ops :
       /\ o.verb \in {"SET", "LIST_REMOVE", "UNSET"} /\ o.line \in Lines
       /\ o.source \in Lines /\ o.group \in Nat
       /\ <<o.kind, o.key>> \in Slots /\ o.val \in Settings
  /\ replayed \subseteq ops

About(s) == {n \in Lines : <<script[n].kind, script[n].key>> = s}

\* What line n leaves its slot at.
Word(n) ==
  IF ~script[n].no THEN script[n].val ELSE IF script[n].kind = "log_adjacency" THEN Off ELSE Absent

\* The router, line by line: what is said last of a slot is what it has.
Device ==
  [s \in Slots |->
     IF About(s) = {} THEN baseline[s]
     ELSE Word(CHOOSE n \in About(s) : \A m \in About(s) : m <= n)]

Finished == read = Headers /\ replayed = ops /\ (ops = {} => InstanceOps \cup pending = {})

\* Every line that names an area of kind k spells it alike.
SpelledAlike(k, key) ==
  \A n, m \in About(<<k, key>>) : script[n].as = script[m].as

Withdrawn(k) == k \in Withdrawable(protocol) \cup {"log_adjacency"}
                  \/ ~\E n \in Lines : script[n].kind = k /\ script[n].no

(***************************************************************************)
(* Line-ordered replay is the router, whatever the baseline: the coarse    *)
(* provenance of the SETs and the suppression of refreshed removals        *)
(* together give every member its last word, over several blocks of one    *)
(* process too, and the tri-state both textual orders.  Kinds that keep    *)
(* their lines by the raw spelling of an area are held to it only where    *)
(* the script spells the area one way.                                     *)
(***************************************************************************)
ReplayIsDevice == Finished =>
  \A k \in Kinds, key \in Keys :
    Withdrawn(k) /\ (k \in {"virtual_link", "filter_list"} => SpelledAlike(k, key)) =>
      config[<<k, key>>] = Device[<<k, key>>]

(***************************************************************************)
(* No withdrawal is lost and none is counted twice: a negation some walk   *)
(* of the protocol matches is an operation at its own line, or the same    *)
(* member is stated again after it in its block; a line that is claimed    *)
(* without an operation has none.                                          *)
(***************************************************************************)
NoWithdrawalLost == read = Headers =>
  \A n \in Lines : script[n].no /\ script[n].kind \in Withdrawable(protocol) =>
    LET queued == \E o \in pending : o.line = n
        restated == \E h \in Headers : \E m \in Stating(h, script[n].kind) :
                       n \in Children(h) /\ m > n /\ script[m].key = script[n].key
    IN  (queued \/ restated) /\ ~(queued /\ n \in ledger)

(***************************************************************************)
(* "The suppression map and the removal must agree on the spelling or a    *)
(* refresh stops suppressing its own removal": for every kind of area      *)
(* member, a member stated last is there after the replay.                 *)
(***************************************************************************)
RefreshSuppressesRemoval == Finished =>
  \A k \in AreaKinds, key \in Keys : Device[<<k, key>>] # Absent => config[<<k, key>>] # Absent
=============================================================================
