------------------------- MODULE BgpInstanceProofs -------------------------
(***************************************************************************)
(* Proofs about module BgpInstance, for every stanza a router accepts,     *)
(* every baseline and dialect: what is replayed over the baseline          *)
(* is what the router has, slot by slot.                                   *)
(*                                                                         *)
(* The router's value of a slot is what the last line about it left there; *)
(* the replay's is what the last operation about it left there.  Inv gives *)
(* both histories: the router line by line, the objects and operations of  *)
(* the blocks read, and a replay that takes the operations in the order of *)
(* their lines.  The rest finds, for the last line about a slot, the       *)
(* operation that says the same, and shows that none about the slot comes  *)
(* later.  Where one SET folds several lines it stands at the last of      *)
(* them, so a removal before it is undone: the exceptions of the property  *)
(* are the slots where that matters.                                       *)
(*                                                                         *)
(* The deletion of a peer-group touches the members it finds.  That they   *)
(* are the router's is shown for the operations one by one in their order  *)
(* (an induction over the replay), since each membership is itself what    *)
(* the operations before left.                                             *)
(***************************************************************************)
EXTENDS BgpInstance, SequenceTheorems, WellFoundedInduction, TLAPS

(* Every non-empty set of natural numbers has a least element.             *)
LEMMA LeastElement ==
  ASSUME NEW S \in SUBSET Nat, S # {}
  PROVE  \E n \in S : \A m \in S : n <= m
<1> DEFINE Less == {ss \in Nat \X Nat : ss[1] < ss[2]}
<1>1. IsWellFoundedOn(Less, Nat)
  BY NatLessThanWellFounded DEF OpToRel
<1> HIDE DEF Less
<1>2. PICK n \in S : \A m \in S : ~(<<m, n>> \in Less)
  BY <1>1, WFMin
<1>3. \A m \in S : ~(m < n)
  BY <1>2 DEF Less
<1> QED BY <1>3

(* Every non-empty set of numbers up to N has a greatest element.          *)
LEMMA GreatestElement ==
  ASSUME NEW N \in Nat, NEW S \in SUBSET (0..N), S # {}
  PROVE  \E n \in S : \A m \in S : m <= n
<1> DEFINE T == {N - n : n \in S}
<1>1. T \in SUBSET Nat /\ T # {}
  <2>1. \A n \in S : n \in 0..N /\ N - n \in Nat
    OBVIOUS
  <2>2. PICK n \in S : TRUE
    OBVIOUS
  <2>3. N - n \in T
    OBVIOUS
  <2> QED BY <2>1, <2>3
<1>2. PICK t \in T : \A u \in T : t <= u
  <2> HIDE DEF T
  <2> QED BY <1>1, LeastElement
<1>3. PICK n \in S : t = N - n
  OBVIOUS
<1>4. \A m \in S : N - n <= N - m
  BY <1>2, <1>3
<1>5. \A m \in S : m <= n
  BY <1>4
<1> QED BY <1>5

(* What nothing changes on the way from a to b is at b what it is at a.    *)
LEMMA Constancy ==
  ASSUME NEW f, NEW a \in Nat, NEW b \in Nat, a <= b,
         \A k \in Nat : a < k /\ k <= b => f[k] = f[k - 1]
  PROVE  f[b] = f[a]
<1> DEFINE S == {k \in Nat : a <= k /\ k <= b /\ f[k] # f[a]}
<1> SUFFICES ASSUME S # {} PROVE FALSE
  OBVIOUS
<1>1. PICK k \in S : \A m \in S : k <= m
  <2>1. S \in SUBSET Nat
    OBVIOUS
  <2> HIDE DEF S
  <2> QED BY <2>1, LeastElement
<1>2. k # a /\ a < k /\ k <= b
  OBVIOUS
<1>3. k - 1 \in Nat /\ a <= k - 1 /\ k - 1 <= b /\ k - 1 \notin S
  BY <1>1, <1>2
<1>4. f[k - 1] = f[a] /\ f[k] = f[k - 1]
  BY <1>2, <1>3
<1> QED BY <1>4

(* First and last lines.                                                   *)
LEMMA FirstLineIs ==
  ASSUME NEW N \in Nat, NEW S \in SUBSET (1..N)
  PROVE  /\ FirstLine(S) \in 0..N
         /\ S = {} => FirstLine(S) = 0
         /\ S # {} => FirstLine(S) \in S /\ FirstLine(S) # 0 /\ \A m \in S : FirstLine(S) <= m
<1>1. CASE S = {}
  BY <1>1 DEF FirstLine
<1>2. CASE S # {}
  <2>1. PICK n \in S : \A m \in S : n <= m
    BY <1>2, LeastElement
  <2>2. Min(S) \in S /\ \A m \in S : Min(S) <= m
    BY <2>1 DEF Min
  <2>3. FirstLine(S) = Min(S)
    BY <1>2 DEF FirstLine
  <2>4. \A m \in S : m \in 0..N /\ m # 0
    OBVIOUS
  <2>5. FirstLine(S) \in S /\ \A m \in S : FirstLine(S) <= m
    <3> HIDE DEF Min
    <3> QED BY <2>2, <2>3
  <2>6. FirstLine(S) \in 0..N /\ FirstLine(S) # 0
    BY <2>4, <2>5
  <2> QED BY <1>2, <2>5, <2>6
<1> QED BY <1>1, <1>2

LEMMA LastLineIs ==
  ASSUME NEW N \in Nat, NEW S \in SUBSET (1..N)
  PROVE  /\ LastLine(S) \in 0..N
         /\ S = {} => LastLine(S) = 0
         /\ S # {} => LastLine(S) \in S /\ LastLine(S) # 0 /\ \A m \in S : m <= LastLine(S)
<1>1. CASE S = {}
  BY <1>1 DEF LastLine
<1>2. CASE S # {}
  <2>1. PICK n \in S : \A m \in S : m <= n
    <3>1. S \in SUBSET (0..N)
      OBVIOUS
    <3> QED BY <1>2, <3>1, GreatestElement
  <2>2. Max(S) \in S /\ \A m \in S : m <= Max(S)
    BY <2>1 DEF Max
  <2>3. LastLine(S) = Max(S)
    BY <1>2 DEF LastLine
  <2>4. \A m \in S : m \in 0..N /\ m # 0
    OBVIOUS
  <2>5. LastLine(S) \in S /\ \A m \in S : m <= LastLine(S)
    <3> HIDE DEF Max
    <3> QED BY <2>2, <2>3
  <2>6. LastLine(S) \in 0..N /\ LastLine(S) # 0
    BY <2>4, <2>5
  <2> QED BY <1>2, <2>5, <2>6
<1> QED BY <1>1, <1>2

-----------------------------------------------------------------------------
(* Configurations.                                                         *)

LEMMA GetOver ==
  ASSUME NEW v, NEW u, NEW s
  PROVE  /\ DOMAIN Over(v, u) = DOMAIN v \cup DOMAIN u
         /\ s \in DOMAIN v => Over(v, u)[s] = v[s]
         /\ s \in DOMAIN u /\ s \notin DOMAIN v => Over(v, u)[s] = u[s]
BY DEF Over

LEMMA GetOnly ==
  ASSUME NEW s, NEW v
  PROVE  DOMAIN Only(s, v) = {s} /\ Only(s, v)[s] = v
BY DEF Only

LEMMA GetMerged ==
  ASSUME NEW cfg, NEW v, NEW s
  PROVE  Get(Merged(cfg, v), s) = IF s \in DOMAIN v THEN v[s] ELSE Get(cfg, s)
<1> DEFINE both == Over(v, cfg)
<1>1. /\ DOMAIN both = DOMAIN v \cup DOMAIN cfg
      /\ s \in DOMAIN v => both[s] = v[s]
      /\ s \in DOMAIN cfg /\ s \notin DOMAIN v => both[s] = cfg[s]
  BY DEF Over
<1> DEFINE present == {r \in DOMAIN both : both[r] # Absent}
<1>2. Merged(cfg, v) = [r \in present |-> both[r]]
  BY DEF Merged
<1> HIDE DEF both
<1>3. Get(Merged(cfg, v), s) = IF s \in present THEN both[s] ELSE Absent
  BY <1>2 DEF Get
<1>4. Get(cfg, s) = IF s \in DOMAIN cfg THEN cfg[s] ELSE Absent
  BY DEF Get
<1> QED BY <1>1, <1>3, <1>4

LEMMA GetMergedOnly ==
  ASSUME NEW cfg, NEW r, NEW v, NEW s
  PROVE  Get(Merged(cfg, Only(r, v)), s) = IF s = r THEN v ELSE Get(cfg, s)
<1> DEFINE o == Only(r, v)
<1>1. DOMAIN o = {r} /\ o[r] = v
  BY DEF Only
<1> HIDE DEF o
<1>2. Get(Merged(cfg, o), s) = IF s \in DOMAIN o THEN o[s] ELSE Get(cfg, s)
  BY GetMerged
<1> QED BY <1>1, <1>2 DEF o

LEMMA GetWithout ==
  ASSUME NEW cfg, NEW S, NEW s
  PROVE  Get(Without(cfg, S), s) = IF s \in S THEN Absent ELSE Get(cfg, s)
BY DEF Get, Without

-----------------------------------------------------------------------------
(* The histories: what the router did line by line, the operations of the  *)
(* parsed instances, and a replay that respects their order.               *)

IsSeq(r) == r \in Seq({r[i] : i \in DOMAIN r})

LEMMA SeqIs ==
  ASSUME NEW r, IsSeq(r)
  PROVE  Len(r) \in Nat /\ DOMAIN r = 1..Len(r) /\ ToSet(r) = {r[i] : i \in 1..Len(r)}
<1> DEFINE S == {r[i] : i \in DOMAIN r}
<1>1. r \in Seq(S)
  BY DEF IsSeq
<1>2. Len(r) \in Nat /\ DOMAIN r = 1..Len(r)
  <2> HIDE DEF S
  <2> QED BY <1>1, LenProperties
<1> QED BY <1>2 DEF ToSet

LEMMA Appended ==
  ASSUME NEW r, IsSeq(r), NEW e
  PROVE  /\ IsSeq(Append(r, e)) /\ Len(Append(r, e)) = Len(r) + 1 /\ Append(r, e)[Len(r) + 1] = e
         /\ \A i \in 1..Len(r) : Append(r, e)[i] = r[i]
         /\ Last(Append(r, e)) = e /\ ToSet(Append(r, e)) = ToSet(r) \cup {e}
<1> DEFINE S == {r[i] : i \in DOMAIN r} \cup {e}
           a == Append(r, e)
<1>1. Len(r) \in Nat /\ DOMAIN r = 1..Len(r) /\ ToSet(r) = {r[i] : i \in 1..Len(r)}
  BY SeqIs
<1>2. r \in Seq(S)
  <2>1. r \in [1..Len(r) -> {r[i] : i \in DOMAIN r}]
    <3> DEFINE R == {r[i] : i \in DOMAIN r}
    <3>1. r \in Seq(R)
      BY DEF IsSeq
    <3> HIDE DEF R
    <3> QED BY <3>1, LenProperties
  <2>2. r \in [1..Len(r) -> S]
    BY <2>1
  <2> HIDE DEF S
  <2> QED BY <1>1, <2>2, SeqDef
<1>3. e \in S
  OBVIOUS
<1>4. /\ a \in Seq(S) /\ Len(a) = Len(r) + 1 /\ \A i \in 1..Len(r) : a[i] = r[i]
      /\ a[Len(r) + 1] = e
  <2> HIDE DEF S
  <2> QED BY <1>2, <1>3, AppendProperties
<1>5. DOMAIN a = 1..Len(a) /\ Len(a) \in Nat
  <2> HIDE DEF S, a
  <2> QED BY <1>4, LenProperties
<1> HIDE DEF a
<1>6. S = {a[i] : i \in DOMAIN a}
  <2>1. {a[i] : i \in DOMAIN a} = {a[i] : i \in 1..Len(r)} \cup {e}
    BY <1>1, <1>4, <1>5
  <2>2. {a[i] : i \in 1..Len(r)} = {r[i] : i \in 1..Len(r)}
    BY <1>4
  <2> QED BY <1>1, <2>1, <2>2
<1>7. IsSeq(a)
  BY <1>4, <1>6 DEF IsSeq
<1>8. Last(a) = e
  BY <1>4 DEF Last
<1>9. ToSet(a) = ToSet(r) \cup {e}
  BY <1>1, <1>5, <1>6 DEF ToSet
<1> QED BY <1>4, <1>7, <1>8, <1>9 DEF a

LEMMA Singleton ==
  ASSUME NEW e
  PROVE  IsSeq(<<e>>) /\ Len(<<e>>) = 1 /\ <<e>>[1] = e
BY DEF IsSeq

RouterInv ==
  /\ script \in Scripts /\ dialect \in Dialects
  /\ IsSeq(router) /\ Len(router) \in 1..(Len(script) + 1) /\ router[1] \in Baselines
  /\ \A n \in 1..(Len(router) - 1) :
       Accepts(router[n], script[n]) /\ router[n + 1] = DeviceLine(router[n], script[n])

GlobalInstance ==
  Instance(1, _apply_bgp_af_neighbor_policies(_parse_bgp_neighbors(1)),
           _parse_bgp_peer_groups(1), _parse_bgp_address_families(1))
VrfInstance(h) == Instance(h, _parse_bgp_neighbors(h), [g \in {} |-> Nothing], {})

VrfOps(vrfs) == UNION {InstanceOps(VrfInstance(h)) : h \in vrfs}
VrfRemovals(vrfs) == UNION {_parse_bgp_neighbor_tombstones(h) : h \in vrfs}
OpsOf(vrfs) ==
  InstanceOps(GlobalInstance) \cup VrfOps(vrfs) \cup _parse_bgp_neighbor_tombstones(1) \cup VrfRemovals(vrfs)
    \cup _collect_nested_rule_tombstones

ParseInv ==
  /\ phase \in {"execute", "parse", "replay"}
  /\ phase = "execute" => vrfsRead = {}
  /\ phase # "execute" =>
       /\ Len(router) = Len(script) + 1
       /\ instances = {GlobalInstance} \cup {VrfInstance(h) : h \in vrfsRead}
       /\ pending = _parse_bgp_neighbor_tombstones(1) \cup UNION {_parse_bgp_neighbor_tombstones(h) : h \in vrfsRead}
  /\ phase = "replay" => vrfsRead = Headers("vrf") /\ ops = OpsOf(Headers("vrf"))

ReplayInv ==
  /\ IsSeq(replayed) /\ IsSeq(configs) /\ Len(configs) = Len(replayed) + 1 /\ configs[1] = router[1]
  /\ ToSet(replayed) \subseteq ops
  /\ \A i \in 1..Len(replayed) :
       /\ configs[i + 1] = Applied(configs[i], replayed[i])
       /\ \A o \in ops \ ToSet(replayed) : ~InScriptOrder(o, replayed[i])
       /\ \A j \in 1..Len(replayed) : i < j => ~InScriptOrder(replayed[j], replayed[i]) /\ replayed[j] # replayed[i]
  /\ phase # "replay" => replayed = <<>>

Inv == RouterInv /\ ParseInv /\ ReplayInv

LEMMA InitInv == Init => Inv
<1> SUFFICES ASSUME Init PROVE Inv
  OBVIOUS
<1>1. PICK cfg \in Baselines : router = <<cfg>> /\ configs = <<cfg>>
  BY DEF Init
<1>2. script \in Scripts /\ script \in Seq(Line) /\ Len(script) \in Nat
  <2>1. script \in Scripts /\ script \in Seq(Line)
    BY ScriptsAssumption DEF Init
  <2> QED BY <2>1, LenProperties
<1>3. RouterInv
  BY <1>1, <1>2, Singleton DEF RouterInv, Init
<1>4. ParseInv
  BY DEF ParseInv, Init
<1>5. ReplayInv
  <2>1. IsSeq(replayed) /\ Len(replayed) = 0 /\ ToSet(replayed) = {}
    BY DEF Init, IsSeq, ToSet
  <2> QED BY <1>1, <2>1, Singleton DEF ReplayInv, Init
<1> QED BY <1>3, <1>4, <1>5 DEF Inv

(* What a step of the parser or of the replay does not read stays.         *)
LEMMA SameRouter ==
  ASSUME RouterInv, script' = script, dialect' = dialect, router' = router
  PROVE  RouterInv'
<1>1. /\ script' \in Scripts /\ dialect' \in Dialects
      /\ IsSeq(router') /\ Len(router') \in 1..(Len(script') + 1) /\ router'[1] \in Baselines
      /\ \A n \in 1..(Len(router') - 1) :
           Accepts(router'[n], script'[n]) /\ router'[n + 1] = DeviceLine(router'[n], script'[n])
  BY DEF RouterInv
<1> QED BY <1>1 DEF RouterInv, IsSeq, Accepts, DeviceLine, Merged, Without, WithoutGroup, MembersIn, Get, Over, Only, Exists

(* The walks depend on the script and on the dialect only.                 *)
LEMMA SameFamily ==
  ASSUME script' = script, dialect' = dialect
  PROVE  \A nb : _apply_bgp_af_neighbor_policies(nb)' = _apply_bgp_af_neighbor_policies(nb)
<1>1. \A h, x : AfPolicy(h, x)' = AfPolicy(h, x)
  BY DEF AfPolicy, _bgp_neighbor_commands, Children, Headers, Lines, Folded, Slot, LastLine, Only, Over, Nothing, Negating
<1>2. Headers("af")' = Headers("af")
  BY DEF Headers
<1>3. \A x : AfEntries(x)' = AfEntries(x)
  <2> SUFFICES ASSUME NEW x PROVE AfEntries(x)' = AfEntries(x)
    OBVIOUS
  <2> DEFINE Saying(s) == {h \in Headers("af") : s \in DOMAIN AfPolicy(h, x)}
  <2>1. (UNION {DOMAIN AfPolicy(h, x) : h \in Headers("af")})' = UNION {DOMAIN AfPolicy(h, x) : h \in Headers("af")}
     BY <1>1, <1>2
  <2>2. \A s : Saying(s)' = Saying(s)
     BY <1>1, <1>2
  <2>3. \A s : (AfPolicy(LastLine(Saying(s)), x)[s])' = AfPolicy(LastLine(Saying(s)), x)[s]
     BY <1>1, <2>2
  <2> QED BY <2>1, <2>3 DEF AfEntries
<1>4. \A nb : (DOMAIN nb \cup {x \in Peers : DOMAIN AfEntries(x) # {}})' = DOMAIN nb \cup {x \in Peers : DOMAIN AfEntries(x) # {}}
  BY <1>3
<1> QED BY <1>3, <1>4 DEF _apply_bgp_af_neighbor_policies

LEMMA SameStanza ==
  ASSUME script' = script, dialect' = dialect
  PROVE  /\ GlobalInstance' = GlobalInstance
         /\ \A h : VrfInstance(h)' = VrfInstance(h)
         /\ \A h : _parse_bgp_neighbor_tombstones(h)' = _parse_bgp_neighbor_tombstones(h)
         /\ \A inst : InstanceOps(inst)' = InstanceOps(inst)
         /\ Headers("vrf")' = Headers("vrf")
         /\ _collect_nested_rule_tombstones' = _collect_nested_rule_tombstones
<1>1. GlobalInstance' = GlobalInstance
  <2>1. _parse_bgp_neighbors(1)' = _parse_bgp_neighbors(1)
    BY DEF _parse_bgp_neighbors, Session, IsKept, _bgp_neighbor_commands, ReadKinds, Children, Headers, Lines,
           Folded, Slot, LastLine, Exists, Only, Over
  <2>2. _apply_bgp_af_neighbor_policies(_parse_bgp_neighbors(1))' = _apply_bgp_af_neighbor_policies(_parse_bgp_neighbors(1))
    BY <2>1, SameFamily
  <2>3. _parse_bgp_peer_groups(1)' = _parse_bgp_peer_groups(1)
    BY DEF _parse_bgp_peer_groups, _bgp_peer_group_names, apply_peer_group_command, _bgp_neighbor_commands,
           Children, Headers, Lines, Folded, Slot, LastLine, Stating
  <2>4. \A h, afs : _merge_bgp_process_level_af_settings(h, afs)' = _merge_bgp_process_level_af_settings(h, afs)
    BY DEF _merge_bgp_process_level_af_settings, MembersOf, Member, Stating, Children, Headers, Lines, HasAggregates
  <2>5. {_build_bgp_af(b) : b \in Headers("af")}' = {_build_bgp_af(b) : b \in Headers("af")}
    BY DEF _build_bgp_af, MembersOf, Member, Stating, Children, Headers, Lines, FirstLine
  <2>6. _parse_bgp_address_families(1)' = _parse_bgp_address_families(1)
    BY <2>4, <2>5 DEF _parse_bgp_address_families
  <2>7. \A n, g, a : Instance(1, n, g, a)' = Instance(1, n, g, a)
    BY DEF Instance, MembersOf, Member, Stating, Negating, Children, Headers, Lines, _parse_bgp_bestpath_options
  <2> QED BY <2>2, <2>3, <2>6, <2>7 DEF GlobalInstance
<1>2. \A h : VrfInstance(h)' = VrfInstance(h)
  BY DEF VrfInstance, Instance, _parse_bgp_neighbors, Session, IsKept, _bgp_neighbor_commands, ReadKinds, Children, Headers,
         Lines, Folded, Slot, MembersOf, Member, _parse_bgp_bestpath_options, Stating, Negating, FirstLine, LastLine,
         Exists, Only, Over, Nothing
<1>3. Headers("vrf")' = Headers("vrf") /\ \A h : _parse_bgp_neighbor_tombstones(h)' = _parse_bgp_neighbor_tombstones(h)
  BY DEF _parse_bgp_neighbor_tombstones, _emit_bgp_neighbor_no_op, RemovalOf, Op, Children, Negating, Headers, Lines,
         _is_bgp_peer_group_ref, Nothing, IsRead, Hyphenated
<1>4. \A inst : InstanceOps(inst)' = InstanceOps(inst)
  <2>1. \A scope : Candidates(scope)' = Candidates(scope)
    BY DEF Candidates, Children, Headers, Lines, FirstLine
  <2>2. /\ \A scope, kinds, at : Positives(scope, kinds, at)' = Positives(scope, kinds, at)
        /\ \A lines : FirstLine(lines)' = FirstLine(lines) /\ LastLine(lines)' = LastLine(lines)
    BY <2>1 DEF Positives, FirstLine, LastLine
  <2>3. /\ \A inst : NeighborOps(inst)' = NeighborOps(inst)
        /\ \A inst : PeerGroupOps(inst)' = PeerGroupOps(inst)
        /\ \A inst : BestpathOps(inst)' = BestpathOps(inst)
    BY <2>2 DEF NeighborOps, PeerGroupOps, BestpathOps, NeighborLine, PeerGroupLine, Hyphenated, SetOp, Op, Only
  <2>4. \A scope, object, members : MemberOps(scope, object, members)' = MemberOps(scope, object, members)
    BY <2>2 DEF MemberOps, MemberLine, FirstOfMember, SetOp, Op, Only
  <2>5. \A scope : _bgp_instance_scalar22_updates(scope)' = _bgp_instance_scalar22_updates(scope)
    BY <2>1 DEF _bgp_instance_scalar22_updates, SetOp, Op, Only, Slot
  <2>6. AfRemovals' = AfRemovals
    BY <2>1 DEF AfRemovals, RemovalOf, Op, Nothing
  <2>7. \A af : AddressFamilyOps(af)' = AddressFamilyOps(af)
    BY <2>2, <2>4, <2>6 DEF AddressFamilyOps, SetOp, Op, Only
  <2> QED BY <2>3, <2>4, <2>5, <2>7 DEF InstanceOps
<1>5. _collect_nested_rule_tombstones' = _collect_nested_rule_tombstones
  BY DEF _collect_nested_rule_tombstones, Op, Lines, Nothing
<1> QED BY <1>1, <1>2, <1>3, <1>4, <1>5

LEMMA SameParse ==
  ASSUME script' = script, dialect' = dialect, ParseInv,
         UNCHANGED <<router, phase, vrfsRead, instances, pending, ops>>
  PROVE  ParseInv'
<1> USE SameStanza
<1>1. \A S : OpsOf(S)' = OpsOf(S)
  BY DEF OpsOf, VrfOps, VrfRemovals
<1>2. ({GlobalInstance} \cup {VrfInstance(h) : h \in vrfsRead})' = {GlobalInstance} \cup {VrfInstance(h) : h \in vrfsRead}
  OBVIOUS
<1>3. (UNION {_parse_bgp_neighbor_tombstones(h) : h \in vrfsRead})' = UNION {_parse_bgp_neighbor_tombstones(h) : h \in vrfsRead}
  OBVIOUS
<1>4. _parse_bgp_neighbor_tombstones(1)' = _parse_bgp_neighbor_tombstones(1) /\ Headers("vrf")' = Headers("vrf")
  OBVIOUS
<1> QED BY <1>1, <1>2, <1>3, <1>4 DEF ParseInv

LEMMA NextInv == Inv /\ [Next]_vars => Inv'
<1> SUFFICES ASSUME Inv, [Next]_vars PROVE Inv'
  OBVIOUS
<1>0. RouterInv /\ ParseInv /\ ReplayInv
  BY DEF Inv
<1>s. script \in Seq(Line) /\ Len(script) \in Nat
  <2>1. script \in Seq(Line)
    BY <1>0, ScriptsAssumption DEF RouterInv
  <2> QED BY <2>1, LenProperties
<1>1. CASE ExecuteLine
  <2> DEFINE n == Len(router)
             next == DeviceLine(Last(router), script[n])
  <2>1. /\ phase = "execute" /\ n <= Len(script) /\ Accepts(Last(router), script[n])
        /\ router' = Append(router, next) /\ script' = script /\ dialect' = dialect
        /\ UNCHANGED <<phase, vrfsRead, instances, pending, ops, replayed, configs>>
    BY <1>1 DEF ExecuteLine, inputs
  <2>2. IsSeq(router) /\ n \in 1..(Len(script) + 1) /\ router[1] \in Baselines
    BY <1>0 DEF RouterInv
  <2>3. Last(router) = router[n]
    BY DEF Last
  <2>4. /\ IsSeq(router') /\ Len(router') = n + 1 /\ router'[n + 1] = next
        /\ \A i \in 1..n : router'[i] = router[i]
    <3> HIDE DEF next
    <3> QED BY <2>1, <2>2, Appended
  <2>5. RouterInv'
    <3>1. ASSUME NEW k \in 1..n
          PROVE  Accepts(router'[k], script[k]) /\ router'[k + 1] = DeviceLine(router'[k], script[k])
      <4>1. CASE k = n
        BY <4>1, <2>1, <2>2, <2>3, <2>4
      <4>2. CASE k # n
        <5>1. k \in 1..(n - 1) /\ k + 1 \in 1..n
          BY <4>2, <2>2
        <5>2. Accepts(router[k], script[k]) /\ router[k + 1] = DeviceLine(router[k], script[k])
          BY <5>1, <1>0 DEF RouterInv
        <5> QED BY <5>1, <5>2, <2>4
      <4> QED BY <4>1, <4>2
    <3>2. /\ IsSeq(router') /\ Len(router') \in 1..(Len(script') + 1) /\ router'[1] \in Baselines
          /\ script' \in Scripts /\ dialect' \in Dialects /\ Len(router') - 1 = n
      BY <2>1, <2>2, <2>4, <1>0, <1>s DEF RouterInv
    <3>3. \A k \in 1..(Len(router') - 1) :
            Accepts(router'[k], script'[k]) /\ router'[k + 1] = DeviceLine(router'[k], script'[k])
      BY <3>1, <3>2, <2>1
    <3> QED BY <3>2, <3>3 DEF RouterInv, IsSeq, Accepts, DeviceLine, Merged, Without, WithoutGroup, MembersIn, Get, Over, Only, Exists
  <2>6. ParseInv'
    BY <2>1, <1>0 DEF ParseInv
  <2>7. ReplayInv'
    <3>1. router'[1] = router[1]
      BY <2>2, <2>4
    <3> QED BY <2>1, <3>1, <1>0 DEF ReplayInv, IsSeq, ToSet
  <2> QED BY <2>5, <2>6, <2>7 DEF Inv
<1>2. CASE parse_bgp
  <2>1. /\ phase = "execute" /\ Len(router) > Len(script) /\ phase' = "parse" /\ script' = script /\ dialect' = dialect
        /\ instances' = {GlobalInstance} /\ pending' = _parse_bgp_neighbor_tombstones(1)
        /\ UNCHANGED <<router, vrfsRead, ops, replayed, configs>>
    BY <1>2 DEF parse_bgp, inputs, GlobalInstance
  <2>2. RouterInv'
    BY <2>1, <1>0, SameRouter
  <2>3. ParseInv'
    <3>1. vrfsRead' = {} /\ Len(router') = Len(script') + 1
      BY <2>1, <1>0, <1>s DEF ParseInv, RouterInv
    <3>2. /\ instances' = {GlobalInstance}' \cup {VrfInstance(h) : h \in vrfsRead}'
          /\ pending' = _parse_bgp_neighbor_tombstones(1)' \cup UNION {_parse_bgp_neighbor_tombstones(h) : h \in vrfsRead}'
      BY <2>1, <3>1, SameStanza
    <3> QED BY <2>1, <3>1, <3>2 DEF ParseInv
  <2>4. ReplayInv'
    BY <2>1, <1>0 DEF ReplayInv, IsSeq, ToSet
  <2> QED BY <2>2, <2>3, <2>4 DEF Inv
<1>3. CASE ParseVrf
  <2>1. /\ phase = "parse" /\ phase' = phase /\ script' = script /\ dialect' = dialect
        /\ UNCHANGED <<router, ops, replayed, configs>>
    BY <1>3 DEF ParseVrf, inputs
  <2>2. PICK h \in Headers("vrf") \ vrfsRead :
          /\ vrfsRead' = vrfsRead \cup {h} /\ instances' = instances \cup {VrfInstance(h)}
          /\ pending' = pending \cup _parse_bgp_neighbor_tombstones(h)
    BY <1>3 DEF ParseVrf, VrfInstance
  <2>3. RouterInv'
    BY <2>1, <1>0, SameRouter
  <2>4. ParseInv'
    <3>1. /\ Len(router) = Len(script) + 1
          /\ instances = {GlobalInstance} \cup {VrfInstance(g) : g \in vrfsRead}
          /\ pending = _parse_bgp_neighbor_tombstones(1) \cup UNION {_parse_bgp_neighbor_tombstones(g) : g \in vrfsRead}
      BY <2>1, <1>0 DEF ParseInv
    <3>2. instances' = {GlobalInstance} \cup {VrfInstance(g) : g \in vrfsRead'}
      BY <2>2, <3>1
    <3>3. pending' = _parse_bgp_neighbor_tombstones(1) \cup UNION {_parse_bgp_neighbor_tombstones(g) : g \in vrfsRead'}
      BY <2>2, <3>1
    <3>4. /\ instances' = {GlobalInstance}' \cup {VrfInstance(g) : g \in vrfsRead}'
          /\ pending' = _parse_bgp_neighbor_tombstones(1)' \cup UNION {_parse_bgp_neighbor_tombstones(g) : g \in vrfsRead}'
      BY <2>1, <3>2, <3>3, SameStanza
    <3> QED BY <2>1, <3>1, <3>4 DEF ParseInv
  <2>5. ReplayInv'
    BY <2>1, <1>0 DEF ReplayInv, IsSeq, ToSet
  <2> QED BY <2>3, <2>4, <2>5 DEF Inv
<1>4. CASE _native_bgp_ops
  <2>1. /\ phase = "parse" /\ vrfsRead = Headers("vrf") /\ phase' = "replay" /\ script' = script /\ dialect' = dialect
        /\ ops' = pending \cup (UNION {InstanceOps(inst) : inst \in instances}) \cup _collect_nested_rule_tombstones
        /\ UNCHANGED <<router, vrfsRead, instances, pending, replayed, configs>>
    BY <1>4 DEF _native_bgp_ops, inputs
  <2>2. RouterInv'
    BY <2>1, <1>0, SameRouter
  <2>3. ParseInv'
    <3>1. /\ Len(router) = Len(script) + 1
          /\ instances = {GlobalInstance} \cup {VrfInstance(g) : g \in vrfsRead}
          /\ pending = _parse_bgp_neighbor_tombstones(1) \cup UNION {_parse_bgp_neighbor_tombstones(g) : g \in vrfsRead}
      BY <2>1, <1>0 DEF ParseInv
    <3>2. ops' = OpsOf(Headers("vrf"))
      <4>1. UNION {InstanceOps(inst) : inst \in instances} = InstanceOps(GlobalInstance) \cup VrfOps(vrfsRead)
        BY <3>1 DEF VrfOps
      <4>2. pending = _parse_bgp_neighbor_tombstones(1) \cup VrfRemovals(vrfsRead)
        BY <3>1 DEF VrfRemovals
      <4>3. ops' = pending \cup (InstanceOps(GlobalInstance) \cup VrfOps(vrfsRead)) \cup _collect_nested_rule_tombstones
        BY <2>1, <4>1, Zenon
      <4>4. ops' = OpsOf(vrfsRead)
        BY <4>2, <4>3 DEF OpsOf
      <4> QED BY <2>1, <4>4
    <3>3. ops' = OpsOf(Headers("vrf"))'
      BY <2>1, <3>2, SameStanza DEF OpsOf, VrfOps, VrfRemovals
    <3>4. vrfsRead' = Headers("vrf")'
      BY <2>1, SameStanza
    <3>5. /\ instances' = {GlobalInstance}' \cup {VrfInstance(g) : g \in vrfsRead}'
          /\ pending' = _parse_bgp_neighbor_tombstones(1)' \cup UNION {_parse_bgp_neighbor_tombstones(g) : g \in vrfsRead}'
      BY <2>1, <3>1, SameStanza
    <3> QED BY <2>1, <3>1, <3>3, <3>4, <3>5 DEF ParseInv
  <2>4. ReplayInv'
    <3>1. replayed = <<>> /\ Len(replayed) = 0 /\ ToSet(replayed) = {}
      BY <2>1, <1>0 DEF ReplayInv, ToSet
    <3> QED BY <2>1, <3>1, <1>0 DEF ReplayInv, IsSeq, ToSet
  <2> QED BY <2>2, <2>3, <2>4 DEF Inv
<1>5. CASE ReplayOp
  <2>1. /\ phase = "replay" /\ script' = script /\ dialect' = dialect
        /\ UNCHANGED <<router, phase, vrfsRead, instances, pending, ops>>
    BY <1>5 DEF ReplayOp, inputs
  <2>2. PICK o \in ops \ ToSet(replayed) :
          /\ \A p \in ops \ ToSet(replayed) : ~InScriptOrder(p, o)
          /\ replayed' = Append(replayed, o) /\ configs' = Append(configs, Applied(Last(configs), o))
    BY <1>5 DEF ReplayOp
  <2>3. RouterInv'
    BY <2>1, <1>0, SameRouter
  <2>4. ParseInv'
    BY <2>1, <1>0, SameParse
  <2>5. ReplayInv'
    <3> DEFINE K == Len(replayed)
               next == Applied(Last(configs), o)
    <3>1. /\ IsSeq(replayed) /\ IsSeq(configs) /\ Len(configs) = K + 1 /\ configs[1] = router[1]
          /\ ToSet(replayed) \subseteq ops
      BY <1>0 DEF ReplayInv
    <3>2. \A i \in 1..K :
            /\ configs[i + 1] = Applied(configs[i], replayed[i])
            /\ \A p \in ops \ ToSet(replayed) : ~InScriptOrder(p, replayed[i])
            /\ \A j \in 1..K : i < j => ~InScriptOrder(replayed[j], replayed[i]) /\ replayed[j] # replayed[i]
      BY <1>0 DEF ReplayInv
    <3>3. K \in Nat
      BY <3>1, SeqIs
    <3>4. /\ IsSeq(replayed') /\ Len(replayed') = K + 1 /\ replayed'[K + 1] = o
          /\ (\A i \in 1..K : replayed'[i] = replayed[i]) /\ ToSet(replayed') = ToSet(replayed) \cup {o}
      BY <2>2, <3>1, Appended
    <3>5. /\ IsSeq(configs') /\ Len(configs') = K + 2 /\ configs'[K + 2] = next
          /\ \A i \in 1..(K + 1) : configs'[i] = configs[i]
      <4>1. configs' = Append(configs, next)
        BY <2>2
      <4> HIDE DEF next
      <4> QED BY <4>1, <3>1, <3>3, Appended
    <3>6. next = Applied(configs[K + 1], o)
      BY <3>1 DEF Last
    <3>7. ASSUME NEW i \in 1..(K + 1)
          PROVE  /\ configs'[i + 1] = Applied(configs'[i], replayed'[i])
                 /\ \A p \in ops \ ToSet(replayed') : ~InScriptOrder(p, replayed'[i])
                 /\ \A j \in 1..(K + 1) : i < j => ~InScriptOrder(replayed'[j], replayed'[i]) /\ replayed'[j] # replayed'[i]
      <4>1. CASE i = K + 1
        <5>1. configs'[i + 1] = next /\ configs'[i] = configs[K + 1] /\ replayed'[i] = o
          BY <4>1, <3>3, <3>4, <3>5
        <5>2. \A j \in 1..(K + 1) : ~(i < j)
          BY <4>1, <3>3
        <5> HIDE DEF next
        <5> QED BY <5>1, <5>2, <3>4, <3>6, <2>2
      <4>2. CASE i # K + 1
        <5>1. i \in 1..K /\ i + 1 \in 1..(K + 1)
          BY <4>2, <3>3
        <5>2. configs'[i + 1] = configs[i + 1] /\ configs'[i] = configs[i] /\ replayed'[i] = replayed[i]
          BY <5>1, <3>3, <3>4, <3>5
        <5>3. \A j \in 1..(K + 1) : j \in 1..K \/ j = K + 1
          BY <3>3
        <5>4. \A j \in 1..(K + 1) : i < j => ~InScriptOrder(replayed'[j], replayed[i]) /\ replayed'[j] # replayed[i]
          <6>1. replayed[i] \in ToSet(replayed) /\ o \notin ToSet(replayed)
            BY <5>1, <3>1, <2>2, SeqIs
          <6> QED BY <5>1, <5>3, <3>2, <3>4, <2>2, <6>1
        <5> QED BY <5>1, <5>2, <5>4, <3>2, <3>4
      <4> QED BY <4>1, <4>2
    <3>8. \A p, q : InScriptOrder(p, q)' = InScriptOrder(p, q)
      OBVIOUS
    <3>9. /\ IsSeq(replayed)' /\ IsSeq(configs)' /\ Len(configs') = Len(replayed') + 1 /\ configs'[1] = router'[1]
          /\ ToSet(replayed') \subseteq ops' /\ phase' = "replay" /\ Len(replayed') = K + 1
      <4>1. IsSeq(replayed)' /\ IsSeq(configs)'
        BY <3>4, <3>5 DEF IsSeq
      <4>2. Len(configs') = Len(replayed') + 1 /\ configs'[1] = router'[1]
        BY <2>1, <3>1, <3>3, <3>4, <3>5
      <4>3. ToSet(replayed') \subseteq ops'
        <5>1. o \in ops
          BY <2>2
        <5> HIDE DEF next
        <5> QED BY <2>1, <3>1, <3>4, <5>1
      <4> QED BY <2>1, <3>4, <4>1, <4>2, <4>3
    <3>10. \A i \in 1..Len(replayed') :
            /\ configs'[i + 1] = Applied(configs'[i], replayed'[i])
            /\ \A p \in ops' \ ToSet(replayed') : ~InScriptOrder(p, replayed'[i])
            /\ \A j \in 1..Len(replayed') : i < j => ~InScriptOrder(replayed'[j], replayed'[i]) /\ replayed'[j] # replayed'[i]
      BY <3>7, <3>9, <2>1
    <3> QED BY <3>9, <3>10 DEF ReplayInv
  <2> QED BY <2>3, <2>4, <2>5 DEF Inv
<1>6. CASE UNCHANGED vars
  <2>1. script' = script /\ dialect' = dialect /\ UNCHANGED <<router, phase, vrfsRead, instances, pending, ops, replayed, configs>>
    BY <1>6 DEF vars
  <2>2. RouterInv'
    BY <2>1, <1>0, SameRouter
  <2>3. ParseInv'
    BY <2>1, <1>0, SameParse
  <2>4. ReplayInv'
    BY <2>1, <1>0 DEF ReplayInv, IsSeq, ToSet
  <2> QED BY <2>2, <2>3, <2>4 DEF Inv
<1> QED BY <1>1, <1>2, <1>3, <1>4, <1>5, <1>6 DEF Next

(* The inductive invariant: the router has executed the lines it has       *)
(* passed, the objects and operations are those of the blocks read, and    *)
(* the replay follows the lines.                                           *)
THEOREM InvHolds == Spec => []Inv
<1> QED BY InitInv, NextInv, PTL DEF Spec

-----------------------------------------------------------------------------
(* What one line does on the router.                                       *)

\* A slot of sessions and peer-groups, and of members and settings.
IsSessionSlot(s) ==
  /\ s = <<s[1], s[2], s[3]>> /\ s[2] \in SessionKinds \cup {"neighbor", "group", "activate"}
  /\ s[2] = "neighbor" => s[3] \in Peers /\ s[1] # "af"
  /\ s[2] = "group" => s[3] \in Groups
IsMemberSlot(s) ==
  /\ s = <<s[1], s[2], s[3]>> /\ s[2] \in MemberKinds \cup ScalarKinds /\ s[3] \in Routes \cup {Process}
  /\ s[2] = "aggregate" => s[1] = "af"

SlotOf(l) == <<l.scope, l.kind, l.at>>

StatedBy(l, s) ==
  \/ SlotOf(l) = s /\ (l.no => s[2] = "activate")
  \/ s[2] = "neighbor" /\ ~l.no /\ l.kind \in SessionKinds /\ l.scope = s[1] /\ l.at = s[3]
ValueOf(l, s) == IF s[2] = "neighbor" THEN On ELSE IF l.no THEN Off ELSE l.val

TakenWith(cfg, scope, g) == TargetSlots(scope, g) \cup UNION {TargetSlots(scope, x) : x \in MembersIn(cfg, scope, g)}

TakenBy(cfg, l, s) ==
  /\ l.no /\ l.kind # "activate"
  /\ \/ SlotOf(l) = s
     \/ l.kind \in {"neighbor", "remote_as"} /\ s \in TargetSlots(l.scope, l.at)
     \/ l.kind = "group" /\ l.at \in Groups /\ s \in TakenWith(cfg, l.scope, l.at)
     \/ l.kind = "group" /\ l.at \in Peers /\ s = <<l.scope, "member", l.at>>

LEMMA DeviceSession ==
  ASSUME NEW l \in Line, Belongs(l), NEW cfg, NEW s, IsSessionSlot(s)
  PROVE  Get(DeviceLine(cfg, l), s) =
           IF StatedBy(l, s) THEN ValueOf(l, s) ELSE IF TakenBy(cfg, l, s) THEN Absent ELSE Get(cfg, s)
<1> USE DEF SlotOf
<1>0. /\ s = <<s[1], s[2], s[3]>> /\ s[2] \in SessionKinds \cup {"neighbor", "group", "activate"}
      /\ s[2] = "neighbor" => s[3] \in Peers /\ s[1] # "af"
      /\ s[2] = "group" => s[3] \in Groups
  BY DEF IsSessionSlot
<1>l. l.scope \in {"global", "af", "vrf"} /\ l.kind \in Kinds \cup {"header"} /\ l.no \in BOOLEAN /\ l.at \in Targets
  BY DEF Line
<1> DEFINE slot == SlotOf(l)
           session == IF l.kind \in SessionKinds /\ l.at \in Peers /\ l.scope # "af" THEN Exists(l.scope, l.at) ELSE Nothing
<1>1. CASE l.kind = "header"
  <2>1. DeviceLine(cfg, l) = cfg
    BY <1>1 DEF DeviceLine
  <2>2. ~StatedBy(l, s) /\ ~l.no
    BY <1>0, <1>1 DEF StatedBy, SessionKinds, Belongs
  <2> QED BY <2>1, <2>2 DEF TakenBy
<1>2. CASE l.kind = "aggregate"
  <2>1. \/ DeviceLine(cfg, l) = Merged(cfg, Only(<<"af", "aggregate", l.at>>, l.val))
        \/ DeviceLine(cfg, l) = Without(cfg, {<<"af", "aggregate", l.at>>})
    BY <1>2, <1>l DEF DeviceLine
  <2>2. s # <<"af", "aggregate", l.at>>
    BY <1>0 DEF SessionKinds
  <2>3. Get(DeviceLine(cfg, l), s) = Get(cfg, s)
    BY <2>1, <2>2, GetMerged, GetOnly, GetWithout
  <2>4. ~StatedBy(l, s) /\ ~TakenBy(cfg, l, s)
    BY <1>0, <1>2 DEF StatedBy, TakenBy, SessionKinds
  <2> QED BY <2>3, <2>4
<1>3. CASE l.kind = "activate"
  <2>1. DeviceLine(cfg, l) = Merged(cfg, Only(slot, IF l.no THEN Off ELSE l.val))
    BY <1>3 DEF DeviceLine
  <2>2. Get(DeviceLine(cfg, l), s) = IF s = slot THEN (IF l.no THEN Off ELSE l.val) ELSE Get(cfg, s)
    <3> HIDE DEF slot
    <3> QED BY <2>1, GetMergedOnly
  <2>3. StatedBy(l, s) <=> s = slot
    BY <1>0, <1>3 DEF StatedBy, SessionKinds
  <2>4. ~TakenBy(cfg, l, s)
    BY <1>3 DEF TakenBy
  <2>5. s = slot => s[2] # "neighbor"
    BY <1>3
  <2> QED BY <2>2, <2>3, <2>4, <2>5 DEF ValueOf
<1>4. CASE l.kind \notin {"header", "aggregate", "activate"} /\ ~l.no
  <2> DEFINE v == Over(Only(slot, l.val), session)
  <2>1. DeviceLine(cfg, l) = Merged(cfg, v)
    BY <1>4 DEF DeviceLine
  <2>2. Get(DeviceLine(cfg, l), s) = IF s \in DOMAIN v THEN v[s] ELSE Get(cfg, s)
    <3> HIDE DEF v
    <3> QED BY <2>1, GetMerged
  <2>3. DOMAIN v = {slot} \cup DOMAIN session /\ v[slot] = l.val
        /\ (s \in DOMAIN session /\ s # slot => v[s] = session[s])
    <3> HIDE DEF session, slot
    <3> DEFINE o == Only(slot, l.val)
    <3>1. DOMAIN o = {slot} /\ o[slot] = l.val
      BY GetOnly
    <3> HIDE DEF o
    <3>2. DOMAIN Over(o, session) = {slot} \cup DOMAIN session /\ Over(o, session)[slot] = l.val
      BY <3>1 DEF Over
    <3>3. s \in DOMAIN session /\ s # slot => Over(o, session)[s] = session[s]
      BY <3>1 DEF Over
    <3> QED BY <3>2, <3>3 DEF o
  <2>4. s \in DOMAIN session <=> l.kind \in SessionKinds /\ l.at \in Peers /\ l.scope # "af" /\ s = <<l.scope, "neighbor", l.at>>
    <3>1. DOMAIN Exists(l.scope, l.at) = {<<l.scope, "neighbor", l.at>>} /\ DOMAIN Nothing = {}
      BY GetOnly DEF Exists, Nothing
    <3> QED BY <3>1
  <2>5. s \in DOMAIN session => session[s] = On
    BY <2>4, GetOnly DEF Exists
  <2>6. StatedBy(l, s) <=> s \in DOMAIN v
    <3>1. s \in DOMAIN v <=> s = slot \/ s \in DOMAIN session
      BY <2>3
    <3>2. s = slot => StatedBy(l, s)
      BY <1>4 DEF StatedBy
    <3>3. s \in DOMAIN session => StatedBy(l, s)
      BY <2>4, <1>4 DEF StatedBy
    <3>4. StatedBy(l, s) /\ s # slot => s \in DOMAIN session
      BY <2>4, <1>0, <1>4 DEF StatedBy
    <3> HIDE DEF v, session, slot
    <3> QED BY <3>1, <3>2, <3>3, <3>4
  <2>7. s \in DOMAIN v => v[s] = ValueOf(l, s)
    <3>1. s = slot => s[2] # "neighbor"
      <4>1. l.kind = "neighbor" => l.no
        BY DEF Belongs
      <4> QED BY <4>1, <1>4
    <3>2. s # slot /\ s \in DOMAIN session => s[2] = "neighbor"
      BY <2>4
    <3> HIDE DEF v, session, slot
    <3> QED BY <2>3, <2>5, <3>1, <3>2, <1>4 DEF ValueOf
  <2>8. ~TakenBy(cfg, l, s)
    BY <1>4 DEF TakenBy
  <2> HIDE DEF v
  <2> QED BY <2>2, <2>6, <2>7, <2>8
<1>5. CASE l.kind \notin {"header", "aggregate", "activate"} /\ l.no
  <2>0. ~StatedBy(l, s)
    BY <1>5 DEF StatedBy
  <2>1. CASE l.kind \in {"neighbor", "remote_as"}
    <3>1. DeviceLine(cfg, l) = Without(cfg, TargetSlots(l.scope, l.at))
      BY <1>5, <2>1 DEF DeviceLine
    <3>2. Get(DeviceLine(cfg, l), s) = IF s \in TargetSlots(l.scope, l.at) THEN Absent ELSE Get(cfg, s)
      BY <3>1, GetWithout
    <3>3. slot \in TargetSlots(l.scope, l.at)
      BY <2>1, <1>l DEF TargetSlots, SessionScopes, Kinds, SessionKinds
    <3>4. TakenBy(cfg, l, s) <=> s \in TargetSlots(l.scope, l.at)
      BY <3>3, <1>5, <2>1 DEF TakenBy
    <3> QED BY <2>0, <3>2, <3>4
  <2>2. CASE l.kind = "group" /\ l.at \in Groups
    <3>5. l.at \notin Peers
      BY <2>2, TargetsAssumption
    <3>1. DeviceLine(cfg, l) = WithoutGroup(cfg, l.scope, l.at)
      BY <1>5, <2>2, <3>5 DEF DeviceLine
    <3>0. WithoutGroup(cfg, l.scope, l.at) = Without(cfg, TakenWith(cfg, l.scope, l.at))
      BY DEF WithoutGroup, TakenWith
    <3>2. Get(DeviceLine(cfg, l), s) = IF s \in TakenWith(cfg, l.scope, l.at) THEN Absent ELSE Get(cfg, s)
      BY <3>0, <3>1, GetWithout
    <3>3. slot \in TargetSlots(l.scope, l.at)
      BY <2>2, <1>l DEF TargetSlots, SessionScopes, Kinds, SessionKinds
    <3>4. slot \in TakenWith(cfg, l.scope, l.at)
      BY <3>3 DEF TakenWith
    <3>6. TakenBy(cfg, l, s) <=> s \in TakenWith(cfg, l.scope, l.at)
      BY <3>4, <3>5, <1>5, <2>2 DEF TakenBy
    <3> QED BY <2>0, <3>2, <3>6
  <2>3. CASE l.kind = "group" /\ l.at \in Peers
    <3>5. l.at \notin Groups
      BY <2>3, TargetsAssumption
    <3>1. DeviceLine(cfg, l) = Without(cfg, {<<l.scope, "member", l.at>>})
      BY <1>5, <2>3, <3>5 DEF DeviceLine
    <3>2. Get(DeviceLine(cfg, l), s) = IF s = <<l.scope, "member", l.at>> THEN Absent ELSE Get(cfg, s)
      BY <3>1, GetWithout
    <3>3. slot # s
      BY <2>3, <3>5, <1>0
    <3>6. TakenBy(cfg, l, s) <=> s = <<l.scope, "member", l.at>>
      BY <3>3, <3>5, <1>5, <2>3 DEF TakenBy
    <3> QED BY <2>0, <3>2, <3>6
  <2>4. CASE l.kind \notin {"neighbor", "remote_as", "group"}
    <3>1. DeviceLine(cfg, l) = Without(cfg, {slot})
      BY <1>5, <2>4 DEF DeviceLine
    <3>2. Get(DeviceLine(cfg, l), s) = IF s = slot THEN Absent ELSE Get(cfg, s)
      BY <3>1, GetWithout
    <3>6. TakenBy(cfg, l, s) <=> s = slot
      BY <1>5, <2>4 DEF TakenBy
    <3> QED BY <2>0, <3>2, <3>6
  <2> QED BY <2>1, <2>2, <2>3, <2>4, <1>5, <1>l DEF Belongs
<1> QED BY <1>1, <1>2, <1>3, <1>4, <1>5, <1>l

About(l, s) == l.kind = s[2] /\ l.at = s[3] /\ (l.scope = s[1] \/ s[2] = "aggregate")

LEMMA DeviceMember ==
  ASSUME NEW l \in Line, Belongs(l), NEW cfg, NEW s, IsMemberSlot(s)
  PROVE  Get(DeviceLine(cfg, l), s) =
           IF About(l, s) THEN IF l.no THEN Absent ELSE l.val ELSE Get(cfg, s)
<1> USE DEF SlotOf
<1>0. /\ s = <<s[1], s[2], s[3]>> /\ s[2] \in MemberKinds \cup ScalarKinds /\ s[3] \in Routes \cup {Process}
      /\ s[2] = "aggregate" => s[1] = "af"
  BY DEF IsMemberSlot
<1>l. l.scope \in {"global", "af", "vrf"} /\ l.kind \in Kinds \cup {"header"} /\ l.no \in BOOLEAN /\ l.at \in Targets
  BY DEF Line
<1>k. s[2] \notin SessionKinds \cup {"neighbor", "group", "activate", "header"}
  BY <1>0 DEF MemberKinds, ScalarKinds, SessionKinds
<1>t. \A sc, x : x \in Peers \cup Groups => s \notin TargetSlots(sc, x)
  BY <1>0, TargetsAssumption DEF TargetSlots
<1> DEFINE slot == SlotOf(l)
           session == IF l.kind \in SessionKinds /\ l.at \in Peers /\ l.scope # "af" THEN Exists(l.scope, l.at) ELSE Nothing
<1>a. l.kind # "aggregate" => (About(l, s) <=> s = slot)
  BY <1>0 DEF About
<1>1. CASE l.kind = "header"
  <2>1. DeviceLine(cfg, l) = cfg
    BY <1>1 DEF DeviceLine
  <2> QED BY <2>1, <1>1, <1>k DEF About
<1>2. CASE l.kind = "aggregate"
  <2>1. IF l.no THEN DeviceLine(cfg, l) = Without(cfg, {<<"af", "aggregate", l.at>>})
                ELSE DeviceLine(cfg, l) = Merged(cfg, Only(<<"af", "aggregate", l.at>>, l.val))
    BY <1>2, <1>l DEF DeviceLine
  <2>2. About(l, s) <=> s = <<"af", "aggregate", l.at>>
    BY <1>0, <1>2 DEF About
  <2> QED BY <2>1, <2>2, GetMergedOnly, GetWithout
<1>3. CASE l.kind = "activate"
  <2>1. DeviceLine(cfg, l) = Merged(cfg, Only(slot, IF l.no THEN Off ELSE l.val))
    BY <1>3 DEF DeviceLine
  <2>2. s # slot
    BY <1>k, <1>3
  <2> HIDE DEF slot
  <2> QED BY <2>1, <2>2, <1>a, <1>3, GetMergedOnly
<1>4. CASE l.kind \notin {"header", "aggregate", "activate"} /\ ~l.no
  <2> DEFINE o == Only(slot, l.val)
             v == Over(o, session)
  <2>1. DeviceLine(cfg, l) = Merged(cfg, v)
    BY <1>4 DEF DeviceLine
  <2>2. Get(DeviceLine(cfg, l), s) = IF s \in DOMAIN v THEN v[s] ELSE Get(cfg, s)
    <3> HIDE DEF v
    <3> QED BY <2>1, GetMerged
  <2>3. DOMAIN o = {slot} /\ o[slot] = l.val
    <3> HIDE DEF slot
    <3> QED BY GetOnly
  <2>4. s \notin DOMAIN session
    <3>1. DOMAIN Exists(l.scope, l.at) = {<<l.scope, "neighbor", l.at>>} /\ DOMAIN Nothing = {}
      BY GetOnly DEF Exists, Nothing
    <3>2. s # <<l.scope, "neighbor", l.at>>
      BY <1>k
    <3> QED BY <3>1, <3>2
  <2>5. (s \in DOMAIN v <=> s = slot) /\ v[slot] = l.val
    <3> HIDE DEF session, slot, o
    <3> QED BY <2>3, <2>4 DEF Over
  <2> HIDE DEF v, slot
  <2> QED BY <2>2, <2>5, <1>a, <1>4
<1>5. CASE l.kind \notin {"header", "aggregate", "activate"} /\ l.no
  <2>1. CASE l.kind \in {"neighbor", "remote_as"}
    <3>0. l.at \in Peers \cup Groups
      BY <2>1 DEF Belongs
    <3>1. DeviceLine(cfg, l) = Without(cfg, TargetSlots(l.scope, l.at))
      BY <1>5, <2>1 DEF DeviceLine
    <3>2. s # slot
      BY <1>k, <2>1 DEF SessionKinds
    <3> QED BY <3>0, <3>1, <3>2, <1>t, <1>a, <1>5, GetWithout
  <2>2. CASE l.kind = "group" /\ l.at \in Groups
    <3>5. l.at \notin Peers
      BY <2>2, TargetsAssumption
    <3>1. DeviceLine(cfg, l) = WithoutGroup(cfg, l.scope, l.at)
      BY <1>5, <2>2, <3>5 DEF DeviceLine
    <3>0. WithoutGroup(cfg, l.scope, l.at) = Without(cfg, TakenWith(cfg, l.scope, l.at))
      BY DEF WithoutGroup, TakenWith
    <3>2. s \notin TakenWith(cfg, l.scope, l.at)
      BY <1>t, <2>2 DEF TakenWith, MembersIn
    <3>3. s # slot
      BY <1>k, <2>2
    <3> QED BY <3>0, <3>1, <3>2, <3>3, <1>a, <1>5, GetWithout
  <2>3. CASE l.kind = "group" /\ l.at \in Peers
    <3>5. l.at \notin Groups
      BY <2>3, TargetsAssumption
    <3>1. DeviceLine(cfg, l) = Without(cfg, {<<l.scope, "member", l.at>>})
      BY <1>5, <2>3, <3>5 DEF DeviceLine
    <3>2. s # slot /\ s # <<l.scope, "member", l.at>>
      BY <1>k, <2>3 DEF SessionKinds
    <3> QED BY <3>1, <3>2, <1>a, <1>5, GetWithout
  <2>4. CASE l.kind \notin {"neighbor", "remote_as", "group"}
    <3>1. DeviceLine(cfg, l) = Without(cfg, {slot})
      BY <1>5, <2>4 DEF DeviceLine
    <3> HIDE DEF slot
    <3> QED BY <3>1, <1>a, <1>5, GetWithout
  <2> QED BY <2>1, <2>2, <2>3, <2>4, <1>5, <1>l DEF Belongs
<1> QED BY <1>1, <1>2, <1>3, <1>4, <1>5, <1>l

-----------------------------------------------------------------------------
(* The stanza and its blocks.                                              *)

LEMMA StanzaIs ==
  ASSUME Inv
  PROVE  /\ Len(script) \in Nat /\ Lines = 1..Len(script)
         /\ Headers("global") = {1}
         /\ \A n \in Lines : /\ script[n] \in Line /\ Belongs(script[n])
                             /\ ~script[n].no /\ script[n].kind # "header" => script[n].val # Absent
                             /\ \E h \in Headers(script[n].scope) : h <= n
         /\ \A scope : Headers(scope) \subseteq Lines
         /\ \A scope : \A h \in Headers(scope) : script[h].kind = "header" /\ script[h].scope = scope
<1>1. script \in Scripts
  BY DEF Inv, RouterInv
<1>2. /\ script \in Seq(Line) /\ HeadersIn(script, "global") = {1}
      /\ \A n \in 1..Len(script) :
           /\ Belongs(script[n]) /\ (~script[n].no /\ script[n].kind # "header" => script[n].val # Absent)
           /\ \E h \in HeadersIn(script, script[n].scope) : h <= n
  BY <1>1, ScriptsAssumption
<1>3. Len(script) \in Nat /\ \A n \in 1..Len(script) : script[n] \in Line
  BY <1>2, LenProperties, ElementOfSeq
<1>4. \A scope : Headers(scope) = HeadersIn(script, scope)
  BY DEF Headers
<1> QED BY <1>2, <1>3, <1>4 DEF Lines, HeadersIn

LEMMA ChildrenAre ==
  ASSUME Inv
  PROVE  /\ \A scope : \A h \in Headers(scope) : \A n \in Children(h) :
              n \in Lines /\ h < n /\ script[n].scope = scope /\ script[n].kind # "header"
         /\ \A n \in Lines : script[n].kind # "header" => \E h \in Headers(script[n].scope) : n \in Children(h)
         /\ \A scope : \A h, g \in Headers(scope) : \A n \in Children(h), m \in Children(g) : m <= n => g <= h
         /\ \A n : n \in Children(1) <=> n \in Lines /\ script[n].scope = "global" /\ script[n].kind # "header"
<1>0. /\ Len(script) \in Nat /\ Lines = 1..Len(script) /\ Headers("global") = {1}
      /\ \A n \in Lines : \E h \in Headers(script[n].scope) : h <= n
      /\ \A scope : Headers(scope) \subseteq Lines
      /\ \A scope : \A h \in Headers(scope) : script[h].kind = "header" /\ script[h].scope = scope
  BY StanzaIs
<1>h. \A scope, n : n \in Headers(scope) <=> n \in Lines /\ script[n].kind = "header" /\ script[n].scope = scope
  BY DEF Headers, HeadersIn, Lines
<1>1. ASSUME NEW scope, NEW h \in Headers(scope), NEW n \in Children(h)
      PROVE  n \in Lines /\ h < n /\ script[n].scope = scope /\ script[n].kind # "header"
  <2>1. n \in Lines /\ h < n /\ script[n].scope = scope /\ \A g \in Headers(scope) : g <= h \/ n < g
    BY <1>0 DEF Children
  <2>2. n \notin Headers(scope)
    BY <1>0, <2>1
  <2> QED BY <2>1, <2>2, <1>h
<1>2. ASSUME NEW n \in Lines, script[n].kind # "header"
      PROVE  \E h \in Headers(script[n].scope) : n \in Children(h)
  <2> DEFINE S == {h \in Headers(script[n].scope) : h <= n}
  <2>1. S # {} /\ S \subseteq 0..Len(script)
    BY <1>0
  <2>2. PICK h \in S : \A g \in S : g <= h
    <3> HIDE DEF S
    <3> QED BY <2>1, <1>0, GreatestElement
  <2>3. h \in Headers(script[n].scope) /\ h <= n /\ h # n /\ script[h].scope = script[n].scope
    BY <2>2, <1>0, <1>2
  <2>4. ASSUME NEW g \in Headers(script[n].scope)
        PROVE  g <= h \/ n < g
    <3>1. g \in 1..Len(script) /\ n \in 1..Len(script)
      BY <1>0
    <3>2. g <= n => g \in S
      BY <2>4
    <3> HIDE DEF S
    <3> QED BY <2>2, <3>1, <3>2
  <2>5. n \in Children(h)
    BY <2>3, <2>4, <1>0 DEF Children
  <2> QED BY <2>3, <2>5
<1>3. ASSUME NEW scope, NEW h \in Headers(scope), NEW g \in Headers(scope), NEW n \in Children(h), NEW m \in Children(g), m <= n
      PROVE  g <= h
  <2>1. n \in Lines /\ m \in Lines /\ g < m /\ script[h].scope = scope
    BY <1>0, <1>1
  <2>2. g <= h \/ n < g
    BY <2>1 DEF Children
  <2> QED BY <2>1, <2>2, <1>0, <1>3
<1>4. ASSUME NEW n \in Lines, script[n].scope = "global", script[n].kind # "header"
      PROVE  n \in Children(1)
  <2>1. \E h \in Headers("global") : n \in Children(h)
    BY <1>2, <1>4
  <2> QED BY <2>1, <1>0
<1> QED BY <1>0, <1>1, <1>2, <1>3, <1>4

-----------------------------------------------------------------------------
(* What a line, or an operation, is the last one to say.                   *)

LEMMA RouterIs ==
  ASSUME Inv, Finished
  PROVE  /\ Len(router) = Len(script) + 1 /\ Device = router[Len(script) + 1] /\ router[1] \in Baselines
         /\ \A n \in Lines : Accepts(router[n], script[n]) /\ router[n + 1] = DeviceLine(router[n], script[n])
         /\ configs[1] = router[1] /\ config = configs[Len(replayed) + 1]
         /\ ops = OpsOf(Headers("vrf"))
<1>1. Len(router) = Len(script) + 1 /\ ops = OpsOf(Headers("vrf"))
  BY DEF Inv, ParseInv, Finished
<1>2. Device = router[Len(script) + 1]
  BY <1>1 DEF Device, Last
<1>3. /\ Len(configs) = Len(replayed) + 1 /\ configs[1] = router[1]
  BY DEF Inv, ReplayInv
<1>4. config = configs[Len(replayed) + 1]
  BY <1>3 DEF config, Last
<1>5. Len(router) - 1 = Len(script) /\ Lines = 1..Len(script)
  BY <1>1, StanzaIs
<1> QED BY <1>1, <1>2, <1>3, <1>4, <1>5 DEF Inv, RouterInv

LEMMA DeviceMemberLast ==
  ASSUME Inv, Finished, NEW s, IsMemberSlot(s)
  PROVE  /\ (\A n \in Lines : ~About(script[n], s)) => Get(Device, s) = Get(router[1], s)
         /\ \A n \in Lines :
              About(script[n], s) /\ (\A m \in Lines : About(script[m], s) => m <= n)
                => Get(Device, s) = IF script[n].no THEN Absent ELSE script[n].val
<1> DEFINE f == [n \in 0..Len(script) |-> Get(router[n + 1], s)]
<1>0. Len(script) \in Nat /\ Lines = 1..Len(script)
  BY StanzaIs
<1>1. ASSUME NEW n \in Lines
      PROVE  f[n] = IF About(script[n], s) THEN IF script[n].no THEN Absent ELSE script[n].val ELSE f[n - 1]
  <2>1. router[n + 1] = DeviceLine(router[n], script[n]) /\ script[n] \in Line /\ Belongs(script[n])
    BY RouterIs, StanzaIs
  <2>2. f[n] = Get(router[n + 1], s) /\ f[n - 1] = Get(router[n], s)
    BY <1>0
  <2> HIDE DEF f
  <2> QED BY <2>1, <2>2, DeviceMember
<1>2. Get(Device, s) = f[Len(script)] /\ Get(router[1], s) = f[0]
  BY <1>0, RouterIs
<1> HIDE DEF f
<1>3. ASSUME \A n \in Lines : ~About(script[n], s)
      PROVE  f[Len(script)] = f[0]
  <2>1. \A k \in Nat : 0 < k /\ k <= Len(script) => f[k] = f[k - 1]
    BY <1>0, <1>1, <1>3
  <2> QED BY <2>1, <1>0, Constancy
<1>4. ASSUME NEW n \in Lines, About(script[n], s), \A m \in Lines : About(script[m], s) => m <= n
      PROVE  f[Len(script)] = IF script[n].no THEN Absent ELSE script[n].val
  <2>1. \A k \in Nat : n < k /\ k <= Len(script) => f[k] = f[k - 1]
    BY <1>0, <1>1, <1>4
  <2>2. f[Len(script)] = f[n]
    BY <2>1, <1>0, Constancy
  <2> QED BY <2>2, <1>1, <1>4
<1> QED BY <1>2, <1>3, <1>4

\* What an operation does to a slot, whatever the configuration, and with the
\* members of a group.
Reaches(o, s) ==
  \/ o.verb = "SET" /\ s \in DOMAIN o.value
  \/ o.verb = "DELETE" /\ o.at \in Peers /\ s \in TargetSlots(o.scope, o.at)
  \/ o.verb = "UNSET" /\ o.at \in Peers /\ s = <<o.scope, o.kind, o.at>>
  \/ o.verb = "LIST_REMOVE" /\ s = <<o.scope, o.kind, o.at>>
Takes(cfg, o, s) == o.verb = "DELETE_GROUP" /\ s \in TakenWith(cfg, o.scope, o.at)
Touches(cfg, o, s) == Reaches(o, s) \/ Takes(cfg, o, s)
LeftBy(o, s) == IF o.verb = "SET" THEN o.value[s] ELSE Absent

Verbs == {"SET", "DELETE", "DELETE_GROUP", "UNSET", "LIST_REMOVE"}

LEMMA AppliedIs ==
  ASSUME NEW o, o.verb \in Verbs, NEW cfg, NEW s
  PROVE  Get(Applied(cfg, o), s) = IF Touches(cfg, o, s) THEN LeftBy(o, s) ELSE Get(cfg, s)
<1>1. CASE o.verb = "SET"
  <2>1. Applied(cfg, o) = Merged(cfg, o.value)
    BY <1>1 DEF Applied
  <2>2. Touches(cfg, o, s) <=> s \in DOMAIN o.value
    BY <1>1 DEF Touches, Reaches, Takes
  <2> QED BY <1>1, <2>1, <2>2, GetMerged DEF LeftBy
<1>2. CASE o.verb = "DELETE"
  <2>1. Applied(cfg, o) = IF o.at \in Peers THEN Without(cfg, TargetSlots(o.scope, o.at)) ELSE cfg
    BY <1>2 DEF Applied
  <2>2. Touches(cfg, o, s) <=> o.at \in Peers /\ s \in TargetSlots(o.scope, o.at)
    BY <1>2 DEF Touches, Reaches, Takes
  <2> QED BY <1>2, <2>1, <2>2, GetWithout DEF LeftBy
<1>3. CASE o.verb = "DELETE_GROUP"
  <2>1. Applied(cfg, o) = WithoutGroup(cfg, o.scope, o.at)
    BY <1>3 DEF Applied
  <2>0. WithoutGroup(cfg, o.scope, o.at) = Without(cfg, TakenWith(cfg, o.scope, o.at))
    BY DEF WithoutGroup, TakenWith
  <2>2. Touches(cfg, o, s) <=> s \in TakenWith(cfg, o.scope, o.at)
    BY <1>3 DEF Touches, Reaches, Takes
  <2> QED BY <1>3, <2>0, <2>1, <2>2, GetWithout DEF LeftBy
<1>4. CASE o.verb = "UNSET"
  <2>1. Applied(cfg, o) = IF o.at \in Peers THEN Without(cfg, {<<o.scope, o.kind, o.at>>}) ELSE cfg
    BY <1>4 DEF Applied
  <2>2. Touches(cfg, o, s) <=> o.at \in Peers /\ s = <<o.scope, o.kind, o.at>>
    BY <1>4 DEF Touches, Reaches, Takes
  <2> QED BY <1>4, <2>1, <2>2, GetWithout DEF LeftBy
<1>5. CASE o.verb = "LIST_REMOVE"
  <2>1. Applied(cfg, o) = Without(cfg, {<<o.scope, o.kind, o.at>>})
    BY <1>5 DEF Applied
  <2>2. Touches(cfg, o, s) <=> s = <<o.scope, o.kind, o.at>>
    BY <1>5 DEF Touches, Reaches, Takes
  <2> QED BY <1>5, <2>1, <2>2, GetWithout DEF LeftBy
<1> QED BY <1>1, <1>2, <1>3, <1>4, <1>5 DEF Verbs

\* The i-th operation of the replay, and whether it changes the slot.
Touched(i, s) == Touches(configs[i], replayed[i], s)

\* The last word of the first b operations is that of the i-th.
LastWord(b, i, s) ==
  /\ i \in 1..b /\ Touched(i, s)
  /\ \A j \in 1..b : Touched(j, s) => \/ LeftBy(replayed[j], s) = LeftBy(replayed[i], s)
                                      \/ InScriptOrder(replayed[j], replayed[i])

LEMMA ReplayLast ==
  ASSUME Inv, \A o \in ops : o.verb \in Verbs, NEW b \in 0..Len(replayed), NEW s
  PROVE  /\ (\A i \in 1..b : ~Touched(i, s)) => Get(configs[b + 1], s) = Get(configs[1], s)
         /\ \A i : LastWord(b, i, s) => Get(configs[b + 1], s) = LeftBy(replayed[i], s)
<1> DEFINE K == Len(replayed)
           f == [i \in 0..K |-> Get(configs[i + 1], s)]
<1>0. /\ IsSeq(replayed) /\ ToSet(replayed) \subseteq ops
      /\ \A i \in 1..K : /\ configs[i + 1] = Applied(configs[i], replayed[i])
                         /\ \A j \in 1..K : i < j => ~InScriptOrder(replayed[j], replayed[i])
  BY DEF Inv, ReplayInv
<1>1. K \in Nat /\ ToSet(replayed) = {replayed[i] : i \in 1..K}
  BY <1>0, SeqIs
<1>2. ASSUME NEW i \in 1..K
      PROVE  f[i] = IF Touched(i, s) THEN LeftBy(replayed[i], s) ELSE f[i - 1]
  <2>1. replayed[i].verb \in Verbs
    BY <1>0, <1>1
  <2>2. f[i] = Get(Applied(configs[i], replayed[i]), s) /\ f[i - 1] = Get(configs[i], s)
    BY <1>0, <1>1
  <2> HIDE DEF f
  <2> QED BY <2>1, <2>2, AppliedIs DEF Touched
<1>3. f[b] = Get(configs[b + 1], s) /\ f[0] = Get(configs[1], s)
  BY <1>1
<1> HIDE DEF f
<1>4. ASSUME \A i \in 1..b : ~Touched(i, s)
      PROVE  f[b] = f[0]
  <2>1. \A k \in Nat : 0 < k /\ k <= b => f[k] = f[k - 1]
    BY <1>1, <1>2, <1>4
  <2> QED BY <2>1, <1>1, Constancy
<1>5. ASSUME NEW i, LastWord(b, i, s)
      PROVE  f[b] = LeftBy(replayed[i], s)
  <2> DEFINE S == {j \in 1..b : Touched(j, s)}
  <2>1. i \in S /\ S \in SUBSET (0..K) /\ S # {}
    BY <1>1, <1>5 DEF LastWord
  <2>2. PICK l \in S : \A j \in S : j <= l
    <3> HIDE DEF S
    <3> QED BY <2>1, <1>1, GreatestElement
  <2>3. l \in 1..b /\ Touched(l, s) /\ i <= l /\ l \in 1..K /\ i \in 1..K
    BY <1>1, <2>1, <2>2
  <2>4. \A k \in Nat : l < k /\ k <= b => f[k] = f[k - 1]
    BY <1>1, <1>2, <2>2
  <2>5. f[b] = f[l]
    BY <2>3, <2>4, <1>1, Constancy
  <2>6. f[l] = LeftBy(replayed[l], s)
    BY <2>3, <1>2
  <2>7. \/ LeftBy(replayed[l], s) = LeftBy(replayed[i], s)
        \/ InScriptOrder(replayed[l], replayed[i])
    BY <2>3, <1>5 DEF LastWord
  <2>8. i < l => ~InScriptOrder(replayed[l], replayed[i])
    BY <2>3, <1>0
  <2>9. CASE i = l
    BY <2>5, <2>6, <2>9
  <2>10. CASE i < l
    BY <2>5, <2>6, <2>7, <2>8, <2>10
  <2> QED BY <2>3, <2>9, <2>10
<1> QED BY <1>3, <1>4, <1>5

-----------------------------------------------------------------------------
(* The operations of the stanza.                                           *)

Blocks == {1} \cup Headers("vrf")
ScopeOf(h) == script[h].scope
Sessions(h) == IF h = 1 THEN _apply_bgp_af_neighbor_policies(_parse_bgp_neighbors(1)) ELSE _parse_bgp_neighbors(h)
Families == _parse_bgp_address_families(1)

SessionSet(h, x) == SetOp(ScopeOf(h), "neighbor", x, Sessions(h)[x], NeighborLine(ScopeOf(h), x), <<h, 0>>)
GroupSet(g) == SetOp("global", "group", g, _parse_bgp_peer_groups(1)[g], PeerGroupLine("global", g), <<1, 0>>)
MemberSet(scope, object, m) ==
  SetOp(scope, m.kind, m.at, Only(<<scope, m.kind, m.at>>, m.val), MemberLine(scope, m), <<object, m.source>>)
MetricSet(n) == SetOp("global", "default_metric", Process, Only(Slot(n), IF script[n].no THEN Absent ELSE script[n].val), n, <<0, n>>)
BestpathSet ==
  SetOp("global", "bestpath", Process, Only(<<"global", "bestpath", Process>>, On),
        FirstLine(Positives("global", {"bestpath"}, Process)), <<1, 0>>)
PathsSet(af) ==
  SetOp("af", "maximum_paths", Process, Only(<<"af", "maximum_paths", Process>>, af.maximum_paths),
        FirstLine(Positives("af", {"maximum_paths"}, Process)), <<af.object, 0>>)

Metrics == {n \in Candidates("global") : script[n].kind = "default_metric"}
AfNegations == {n \in Candidates("af") : script[n].no /\ script[n].kind \in {"aggregate", "network"}}
SessionNegations(h) == {n \in Children(h) : IsRead(n)}
Redistributions == {n \in Lines : script[n].kind = "redistribute" /\ script[n].no}
DerivedRemoval(n) == Op("LIST_REMOVE", "af", "redistribute", script[n].at, Nothing, 0, <<Len(script) + 1, n>>)

IsSessionSet(o) == \E h \in Blocks : \E x \in DOMAIN Sessions(h) : o = SessionSet(h, x)
IsGroupSet(o) == \E g \in DOMAIN _parse_bgp_peer_groups(1) : o = GroupSet(g)
IsMemberSet(o) == \E h \in Blocks : \E m \in MembersOf(h, {"network", "redistribute"}) : o = MemberSet(ScopeOf(h), h, m)
IsMetricSet(o) == \E n \in Metrics : o = MetricSet(n)
IsBestpathSet(o) == _parse_bgp_bestpath_options(1) /\ o = BestpathSet
IsFamilyMemberSet(o) == \E af \in Families : \E m \in af.members : o = MemberSet("af", af.object, m)
IsPathsSet(o) == \E af \in Families : af.maximum_paths # Absent /\ o = PathsSet(af)
IsFamilyRemoval(o) == Families # {} /\ \E n \in AfNegations : o = RemovalOf("LIST_REMOVE", n)
IsSessionRemoval(o) == \E h \in Blocks : \E n \in SessionNegations(h) : o = _emit_bgp_neighbor_no_op(n)
IsNetworkRemoval(o) == \E h \in Blocks : \E n \in Negating(h, "network") : o = RemovalOf("LIST_REMOVE", n)
IsDerivedRemoval(o) == \E n \in Redistributions : o = DerivedRemoval(n)

IsOp(o) ==
  \/ IsSessionSet(o) \/ IsGroupSet(o) \/ IsMemberSet(o) \/ IsMetricSet(o) \/ IsBestpathSet(o)
  \/ IsFamilyMemberSet(o) \/ IsPathsSet(o) \/ IsFamilyRemoval(o) \/ IsSessionRemoval(o) \/ IsNetworkRemoval(o)
  \/ IsDerivedRemoval(o)

LEMMA OpsAre ==
  ASSUME Inv, Finished
  PROVE  \A o : o \in ops <=> IsOp(o)
<1>0. /\ Headers("global") = {1} /\ script[1].scope = "global"
      /\ \A h \in Headers("vrf") : script[h].scope = "vrf" /\ h # 1
  <2>1. 1 \in Headers("global")
    BY StanzaIs
  <2>2. script[1].scope = "global" /\ \A h \in Headers("vrf") : script[h].scope = "vrf"
    BY <2>1, StanzaIs
  <2> QED BY <2>2, StanzaIs
<1> DEFINE G == GlobalInstance
           V(h) == VrfInstance(h)
<1>1. /\ G.scope = "global" /\ G.object = 1 /\ G.neighbors = Sessions(1) /\ G.peer_groups = _parse_bgp_peer_groups(1)
      /\ G.address_families = Families /\ G.members = MembersOf(1, {"network", "redistribute"})
      /\ G.bestpath = _parse_bgp_bestpath_options(1)
  BY <1>0 DEF GlobalInstance, Instance, Sessions, Families, _parse_bgp_bestpath_options
<1>2. ASSUME NEW h \in Headers("vrf")
      PROVE  /\ V(h).scope = "vrf" /\ V(h).object = h /\ V(h).neighbors = Sessions(h) /\ V(h).peer_groups = [g \in {} |-> Nothing]
             /\ V(h).address_families = {} /\ V(h).members = MembersOf(h, {"network", "redistribute"})
             /\ ~V(h).bestpath
  BY <1>0 DEF VrfInstance, Instance, Sessions
<1>3. \A o : o \in InstanceOps(G) <=>
        \/ \E x \in DOMAIN Sessions(1) : o = SessionSet(1, x)
        \/ IsGroupSet(o)
        \/ \E m \in MembersOf(1, {"network", "redistribute"}) : o = MemberSet(ScopeOf(1), 1, m)
        \/ IsMetricSet(o) \/ IsBestpathSet(o) \/ IsFamilyMemberSet(o) \/ IsPathsSet(o) \/ IsFamilyRemoval(o)
  <2> HIDE DEF G
  <2>1. \A o : o \in NeighborOps(G) <=> \E x \in DOMAIN Sessions(1) : o = SessionSet(1, x)
    BY <1>0, <1>1 DEF NeighborOps, SessionSet, ScopeOf
  <2>2. \A o : o \in PeerGroupOps(G) <=> IsGroupSet(o)
    BY <1>1 DEF PeerGroupOps, IsGroupSet, GroupSet
  <2>3. \A o : o \in MemberOps(G.scope, G.object, G.members) <=>
          \E m \in MembersOf(1, {"network", "redistribute"}) : o = MemberSet(ScopeOf(1), 1, m)
    BY <1>0, <1>1 DEF MemberOps, MemberSet, ScopeOf
  <2>4. \A o : o \in (IF G.scope = "global" THEN _bgp_instance_scalar22_updates("global") ELSE {}) <=> IsMetricSet(o)
    BY <1>1 DEF _bgp_instance_scalar22_updates, IsMetricSet, Metrics, MetricSet
  <2>5. \A o : o \in BestpathOps(G) <=> IsBestpathSet(o)
    BY <1>1 DEF BestpathOps, IsBestpathSet, BestpathSet
  <2>6. \A o : o \in UNION {AddressFamilyOps(af) : af \in G.address_families} <=>
          IsFamilyMemberSet(o) \/ IsPathsSet(o) \/ IsFamilyRemoval(o)
    <3>1. ASSUME NEW af, NEW o
          PROVE  o \in AddressFamilyOps(af) <=>
                   \/ \E m \in af.members : o = MemberSet("af", af.object, m)
                   \/ af.maximum_paths # Absent /\ o = PathsSet(af)
                   \/ \E n \in AfNegations : o = RemovalOf("LIST_REMOVE", n)
      <4>1. o \in MemberOps("af", af.object, af.members) <=> \E m \in af.members : o = MemberSet("af", af.object, m)
        BY DEF MemberOps, MemberSet
      <4>2. o \in AfRemovals <=> \E n \in AfNegations : o = RemovalOf("LIST_REMOVE", n)
        BY DEF AfRemovals, AfNegations
      <4> QED BY <4>1, <4>2 DEF AddressFamilyOps, PathsSet
    <3> QED BY <1>1, <3>1 DEF IsFamilyMemberSet, IsPathsSet, IsFamilyRemoval
  <2> QED BY <2>1, <2>2, <2>3, <2>4, <2>5, <2>6 DEF InstanceOps
<1>4. ASSUME NEW h \in Headers("vrf")
      PROVE  \A o : o \in InstanceOps(V(h)) <=>
               \/ \E x \in DOMAIN Sessions(h) : o = SessionSet(h, x)
               \/ \E m \in MembersOf(h, {"network", "redistribute"}) : o = MemberSet(ScopeOf(h), h, m)
  <2> DEFINE I == V(h)
  <2>0. /\ I.scope = "vrf" /\ I.object = h /\ I.neighbors = Sessions(h) /\ I.peer_groups = [g \in {} |-> Nothing]
        /\ I.address_families = {} /\ I.members = MembersOf(h, {"network", "redistribute"}) /\ ~I.bestpath
        /\ ScopeOf(h) = "vrf"
    BY <1>0, <1>2 DEF ScopeOf
  <2> HIDE DEF I
  <2>1. \A o : o \in NeighborOps(I) <=> \E x \in DOMAIN Sessions(h) : o = SessionSet(h, x)
    BY <2>0 DEF NeighborOps, SessionSet
  <2>2. PeerGroupOps(I) = {}
    BY <2>0 DEF PeerGroupOps
  <2>3. \A o : o \in MemberOps(I.scope, I.object, I.members) <=>
          \E m \in MembersOf(h, {"network", "redistribute"}) : o = MemberSet(ScopeOf(h), h, m)
    BY <2>0 DEF MemberOps, MemberSet
  <2>4. I.scope # "global" /\ BestpathOps(I) = {} /\ UNION {AddressFamilyOps(af) : af \in I.address_families} = {}
    BY <2>0 DEF BestpathOps
  <2>5. \A o : o \in InstanceOps(I) <=>
               \/ \E x \in DOMAIN Sessions(h) : o = SessionSet(h, x)
               \/ \E m \in MembersOf(h, {"network", "redistribute"}) : o = MemberSet(ScopeOf(h), h, m)
    BY <2>1, <2>2, <2>3, <2>4 DEF InstanceOps
  <2> QED BY <2>5 DEF I
<1>5. \A h : \A o : o \in _parse_bgp_neighbor_tombstones(h) <=>
               \/ \E n \in SessionNegations(h) : o = _emit_bgp_neighbor_no_op(n)
               \/ \E n \in Negating(h, "network") : o = RemovalOf("LIST_REMOVE", n)
  BY DEF _parse_bgp_neighbor_tombstones, SessionNegations
<1>6. ops = InstanceOps(G) \cup VrfOps(Headers("vrf")) \cup _parse_bgp_neighbor_tombstones(1) \cup VrfRemovals(Headers("vrf"))
              \cup _collect_nested_rule_tombstones
  BY RouterIs DEF OpsOf
<1>7. ASSUME NEW o
      PROVE  o \in ops <=>
               \/ o \in InstanceOps(G) \/ \E h \in Headers("vrf") : o \in InstanceOps(V(h))
               \/ o \in _parse_bgp_neighbor_tombstones(1) \/ \E h \in Headers("vrf") : o \in _parse_bgp_neighbor_tombstones(h)
               \/ IsDerivedRemoval(o)
  <2>0. o \in _collect_nested_rule_tombstones <=> IsDerivedRemoval(o)
    BY DEF _collect_nested_rule_tombstones, IsDerivedRemoval, DerivedRemoval, Redistributions
  <2>1. o \in VrfOps(Headers("vrf")) <=> \E h \in Headers("vrf") : o \in InstanceOps(V(h))
    BY DEF VrfOps
  <2>2. o \in VrfRemovals(Headers("vrf")) <=> \E h \in Headers("vrf") : o \in _parse_bgp_neighbor_tombstones(h)
    BY DEF VrfRemovals
  <2> QED BY <1>6, <2>0, <2>1, <2>2
<1> HIDE DEF G, V
<1>8. ASSUME NEW o PROVE o \in ops <=> IsOp(o)
  <2>1. \A h : h \in Blocks <=> h = 1 \/ h \in Headers("vrf")
    BY DEF Blocks
  <2>2. IsSessionSet(o) <=>
          (\E x \in DOMAIN Sessions(1) : o = SessionSet(1, x)) \/ \E h \in Headers("vrf") : \E x \in DOMAIN Sessions(h) : o = SessionSet(h, x)
    BY <2>1 DEF IsSessionSet
  <2>3. IsMemberSet(o) <=>
          \/ \E m \in MembersOf(1, {"network", "redistribute"}) : o = MemberSet(ScopeOf(1), 1, m)
          \/ \E h \in Headers("vrf") : \E m \in MembersOf(h, {"network", "redistribute"}) : o = MemberSet(ScopeOf(h), h, m)
    BY <2>1 DEF IsMemberSet
  <2>4. IsSessionRemoval(o) \/ IsNetworkRemoval(o) <=>
          o \in _parse_bgp_neighbor_tombstones(1) \/ \E h \in Headers("vrf") : o \in _parse_bgp_neighbor_tombstones(h)
    BY <2>1, <1>5 DEF IsSessionRemoval, IsNetworkRemoval
  <2>5. (\E h \in Headers("vrf") : o \in InstanceOps(V(h))) <=>
          \/ \E h \in Headers("vrf") : \E x \in DOMAIN Sessions(h) : o = SessionSet(h, x)
          \/ \E h \in Headers("vrf") : \E m \in MembersOf(h, {"network", "redistribute"}) : o = MemberSet(ScopeOf(h), h, m)
    BY <1>4
  <2> QED BY <1>3, <1>7, <2>2, <2>3, <2>4, <2>5 DEF IsOp
<1> QED BY <1>8

\* The removals of sessions and peer-groups, by what the line negates.
LEMMA RemovalIs ==
  ASSUME Inv, NEW h \in Blocks, NEW n \in SessionNegations(h), NEW o, o = _emit_bgp_neighbor_no_op(n)
  PROVE  /\ n \in Lines /\ script[n].no /\ script[n].scope = ScopeOf(h) /\ script[n].scope # "af" /\ n \in Children(h)
         /\ script[n].kind \in SessionKinds \cup {"neighbor", "group"} /\ script[n].at \in Peers \cup Groups
         /\ o.scope = script[n].scope /\ o.at = script[n].at /\ o.line = n /\ o.place = <<0, n>>
         /\ script[n].kind \in {"neighbor", "remote_as"} => o.verb = "DELETE"
         /\ script[n].kind = "group" /\ script[n].at \in Groups => o.verb = "DELETE_GROUP" /\ o.scope = "global"
         /\ script[n].kind = "group" /\ script[n].at \in Peers => o.verb = "UNSET" /\ o.kind = "member"
         /\ script[n].kind \notin {"neighbor", "remote_as", "group"} => o.verb = "UNSET" /\ o.kind = script[n].kind
<1>1. n \in Children(h) /\ script[n].no /\ script[n].kind \in SessionKinds \cup {"neighbor", "group"}
  BY DEF SessionNegations, IsRead
<1>2. \E sc \in {"global", "vrf"} : h \in Headers(sc) /\ ScopeOf(h) = sc
  <2>1. h \in Headers("global") \/ h \in Headers("vrf")
    BY StanzaIs DEF Blocks
  <2> QED BY <2>1, StanzaIs DEF ScopeOf
<1>3. n \in Lines /\ script[n].scope = ScopeOf(h) /\ script[n].scope # "af"
  BY <1>1, <1>2, ChildrenAre
<1>4. Belongs(script[n]) /\ Peers \intersect Groups = {}
  BY <1>3, StanzaIs, TargetsAssumption
<1>5. script[n].at \in Peers \cup Groups /\ (script[n].kind = "group" /\ script[n].at \in Groups => script[n].scope = "global")
  BY <1>1, <1>4 DEF Belongs, SessionKinds
<1>6. \A verb : /\ RemovalOf(verb, n).scope = script[n].scope /\ RemovalOf(verb, n).at = script[n].at /\ RemovalOf(verb, n).line = n
                /\ RemovalOf(verb, n).place = <<0, n>> /\ RemovalOf(verb, n).kind = script[n].kind /\ RemovalOf(verb, n).verb = verb
  BY DEF RemovalOf, Op
<1>7. LET r == [RemovalOf("UNSET", n) EXCEPT !.kind = "member"]
      IN  r.scope = script[n].scope /\ r.at = script[n].at /\ r.line = n /\ r.place = <<0, n>> /\ r.kind = "member" /\ r.verb = "UNSET"
  BY DEF RemovalOf, Op
<1>8. CASE script[n].kind \in {"neighbor", "remote_as"}
  <2>1. o = RemovalOf("DELETE", n)
    BY <1>8 DEF _emit_bgp_neighbor_no_op
  <2> QED BY <2>1, <1>1, <1>3, <1>5, <1>6, <1>8
<1>9. CASE script[n].kind = "group" /\ script[n].at \in Groups
  <2>1. o = RemovalOf("DELETE_GROUP", n)
    BY <1>4, <1>9 DEF _emit_bgp_neighbor_no_op, _is_bgp_peer_group_ref
  <2> QED BY <2>1, <1>1, <1>3, <1>4, <1>5, <1>6, <1>9
<1>10. CASE script[n].kind = "group" /\ script[n].at \in Peers
  <2>1. o = [RemovalOf("UNSET", n) EXCEPT !.kind = "member"]
    BY <1>10 DEF _emit_bgp_neighbor_no_op, _is_bgp_peer_group_ref
  <2> QED BY <2>1, <1>1, <1>3, <1>4, <1>5, <1>7, <1>10
<1>11. CASE script[n].kind \notin {"neighbor", "remote_as", "group"}
  <2>1. o = RemovalOf("UNSET", n)
    BY <1>11 DEF _emit_bgp_neighbor_no_op
  <2> QED BY <2>1, <1>1, <1>3, <1>5, <1>6, <1>11
<1> QED BY <1>5, <1>8, <1>9, <1>10, <1>11

LEMMA VerbsAre ==
  ASSUME NEW o
  PROVE  /\ IsSessionSet(o) \/ IsGroupSet(o) \/ IsMemberSet(o) \/ IsFamilyMemberSet(o) => o.verb = "SET"
         /\ IsMetricSet(o) \/ IsBestpathSet(o) \/ IsPathsSet(o) => o.verb = "SET"
         /\ IsFamilyRemoval(o) \/ IsNetworkRemoval(o) \/ IsDerivedRemoval(o) => o.verb = "LIST_REMOVE"
<1>1. \A scope, kind, at, value, line, place : SetOp(scope, kind, at, value, line, place).verb = "SET"
  BY DEF SetOp, Op
<1>2. \A n : RemovalOf("LIST_REMOVE", n).verb = "LIST_REMOVE"
  BY DEF RemovalOf, Op
<1>3. IsSessionSet(o) => o.verb = "SET"
  BY <1>1 DEF IsSessionSet, SessionSet
<1>4. IsGroupSet(o) => o.verb = "SET"
  BY <1>1 DEF IsGroupSet, GroupSet
<1>5. IsMemberSet(o) \/ IsFamilyMemberSet(o) => o.verb = "SET"
  <2>1. \A scope, object, m : MemberSet(scope, object, m).verb = "SET"
    BY <1>1 DEF MemberSet
  <2> QED BY <2>1 DEF IsMemberSet, IsFamilyMemberSet
<1>6. IsMetricSet(o) \/ IsBestpathSet(o) \/ IsPathsSet(o) => o.verb = "SET"
  BY <1>1 DEF IsMetricSet, IsBestpathSet, IsPathsSet, MetricSet, BestpathSet, PathsSet
<1>7. IsFamilyRemoval(o) \/ IsNetworkRemoval(o) => o.verb = "LIST_REMOVE"
  BY <1>2 DEF IsFamilyRemoval, IsNetworkRemoval
<1>8. IsDerivedRemoval(o) => o.verb = "LIST_REMOVE"
  BY DEF IsDerivedRemoval, DerivedRemoval, Op
<1> QED BY <1>3, <1>4, <1>5, <1>6, <1>7, <1>8

LEMMA OpsHaveVerbs ==
  ASSUME Inv, Finished
  PROVE  \A o \in ops : o.verb \in Verbs
<1> SUFFICES ASSUME NEW o \in ops PROVE o.verb \in Verbs
  OBVIOUS
<1>1. IsOp(o)
  BY OpsAre
<1>2. IsSessionRemoval(o) => o.verb \in Verbs
  <2> SUFFICES ASSUME NEW h \in Blocks, NEW n \in SessionNegations(h), o = _emit_bgp_neighbor_no_op(n) PROVE o.verb \in Verbs
    BY DEF IsSessionRemoval
  <2> QED BY RemovalIs DEF Verbs
<1>3. ~IsSessionRemoval(o) => o.verb \in {"SET", "LIST_REMOVE"}
  BY <1>1, VerbsAre DEF IsOp
<1> QED BY <1>2, <1>3 DEF Verbs

\* The last word of the whole replay, on a slot that no group's deletion takes.
LEMMA ReplayIs ==
  ASSUME Inv, Finished, NEW s, \A o \in ops : \A cfg : ~Takes(cfg, o, s)
  PROVE  /\ (\A o \in ops : ~Reaches(o, s)) => Get(config, s) = Get(router[1], s)
         /\ \A o \in ops :
              Reaches(o, s) /\ (\A p \in ops : Reaches(p, s) => LeftBy(p, s) = LeftBy(o, s) \/ InScriptOrder(p, o))
                => Get(config, s) = LeftBy(o, s)
<1> DEFINE K == Len(replayed)
<1>1. ToSet(replayed) = ops /\ IsSeq(replayed)
  BY DEF Inv, ReplayInv, Finished
<1>2. K \in Nat /\ ops = {replayed[i] : i \in 1..K}
  BY <1>1, SeqIs
<1>3. \A i \in 1..K : replayed[i] \in ops /\ (Touched(i, s) <=> Reaches(replayed[i], s))
  BY <1>2 DEF Touched, Touches
<1>4. K \in 0..Len(replayed)
  BY <1>2
<1>5. /\ (\A i \in 1..K : ~Touched(i, s)) => Get(configs[K + 1], s) = Get(configs[1], s)
      /\ \A i : LastWord(K, i, s) => Get(configs[K + 1], s) = LeftBy(replayed[i], s)
  BY <1>4, OpsHaveVerbs, ReplayLast
<1>6. config = configs[K + 1] /\ configs[1] = router[1]
  BY RouterIs
<1>7. ASSUME NEW o \in ops, Reaches(o, s), \A p \in ops : Reaches(p, s) => LeftBy(p, s) = LeftBy(o, s) \/ InScriptOrder(p, o)
      PROVE  Get(config, s) = LeftBy(o, s)
  <2>1. PICK i \in 1..K : o = replayed[i]
    BY <1>2
  <2>2. LastWord(K, i, s)
    BY <1>3, <1>7, <2>1 DEF LastWord
  <2> QED BY <1>5, <1>6, <2>1, <2>2
<1> QED BY <1>3, <1>5, <1>6, <1>7

-----------------------------------------------------------------------------
(* What the parsed objects state of a slot.                                *)

LEMMA FoldedIs ==
  ASSUME Inv, NEW S \in SUBSET Lines
  PROVE  /\ DOMAIN Folded(S) = {Slot(n) : n \in S}
         /\ \A n \in S : (\A m \in S : Slot(m) = Slot(n) => m <= n) => Folded(S)[Slot(n)] = script[n].val
<1>1. DOMAIN Folded(S) = {Slot(n) : n \in S}
  BY DEF Folded
<1>2. ASSUME NEW n \in S, \A m \in S : Slot(m) = Slot(n) => m <= n
      PROVE  Folded(S)[Slot(n)] = script[n].val
  <2> DEFINE T == {m \in S : Slot(m) = Slot(n)}
  <2>1. Folded(S)[Slot(n)] = script[LastLine(T)].val
    BY <1>2 DEF Folded
  <2>2. n \in T /\ T \in SUBSET (1..Len(script)) /\ Len(script) \in Nat
    BY StanzaIs
  <2>3. LastLine(T) \in T /\ n <= LastLine(T)
    <3> HIDE DEF T
    <3> QED BY <2>2, LastLineIs
  <2>4. LastLine(T) <= n /\ LastLine(T) \in Nat /\ n \in Nat
    BY <2>2, <2>3, <1>2
  <2>5. LastLine(T) = n
    <3> HIDE DEF T
    <3> QED BY <2>3, <2>4
  <2> QED BY <2>1, <2>5
<1> QED BY <1>1, <1>2

LEMMA BlocksAre ==
  ASSUME Inv
  PROVE  \A h \in Blocks : /\ h \in Lines /\ h \in Nat /\ h \in Headers(ScopeOf(h)) /\ ScopeOf(h) \in {"global", "vrf"}
                           /\ (h = 1 <=> ScopeOf(h) = "global")
<1>1. Headers("global") = {1}
  BY StanzaIs
<1>2. ASSUME NEW h \in Blocks
      PROVE  /\ h \in Lines /\ h \in Headers(ScopeOf(h)) /\ ScopeOf(h) \in {"global", "vrf"} /\ (h = 1 <=> ScopeOf(h) = "global")
  <2>1. CASE h = 1
    <3>1. 1 \in Headers("global")
      BY <1>1
    <3> QED BY <3>1, <2>1, StanzaIs DEF ScopeOf
  <2>2. CASE h \in Headers("vrf")
    <3>1. script[h].scope = "vrf" /\ h \in Lines
      BY <2>2, StanzaIs
    <3>2. h # 1
      <4>1. 1 \in Headers("global") /\ script[1].scope = "global"
        BY <1>1, StanzaIs
      <4> QED BY <3>1, <4>1
    <3> QED BY <2>2, <3>1, <3>2 DEF ScopeOf
  <2> QED BY <2>1, <2>2 DEF Blocks
<1>3. \A h \in Lines : h \in Nat
  BY StanzaIs
<1> QED BY <1>2, <1>3

\* The lines a walk reads of a target.
LEMMA CommandsAre ==
  ASSUME Inv, NEW scope, NEW h \in Headers(scope), NEW x, NEW kinds
  PROVE  \A n : n \in _bgp_neighbor_commands(h, x, kinds) <=>
                  n \in Children(h) /\ n \in Lines /\ script[n].at = x /\ script[n].kind \in kinds /\ ~script[n].no
<1>1. Children(h) \subseteq Lines
  BY ChildrenAre
<1> QED BY <1>1 DEF _bgp_neighbor_commands

\* A session states slots of its own peer.
LEMMA SessionsAre ==
  ASSUME Inv, NEW h \in Blocks, NEW x \in DOMAIN Sessions(h)
  PROVE  x \in Peers /\ \A s \in DOMAIN Sessions(h)[x] : s[3] = x
<1>0. h \in Headers(ScopeOf(h))
  BY BlocksAre
<1>1. ASSUME NEW scope, NEW g \in Headers(scope), NEW kinds
      PROVE  \A s \in DOMAIN Folded(_bgp_neighbor_commands(g, x, kinds)) : s[3] = x
  <2> DEFINE S == _bgp_neighbor_commands(g, x, kinds)
  <2>1. S \in SUBSET Lines /\ \A n \in S : script[n].at = x
    BY CommandsAre
  <2>2. DOMAIN Folded(S) = {Slot(n) : n \in S}
    <3> HIDE DEF S
    <3> QED BY <2>1, FoldedIs
  <2> HIDE DEF S
  <2>3. \A n \in S : Slot(n)[3] = x
    BY <2>1 DEF Slot
  <2> QED BY <2>2, <2>3 DEF S
<1>2. \A g : \A scope : g \in Headers(scope) => \A s \in DOMAIN Over(Exists(script[g].scope, x), Session(g, x)) : s[3] = x
  <2> SUFFICES ASSUME NEW g, NEW scope, g \in Headers(scope)
               PROVE  \A s \in DOMAIN Over(Exists(script[g].scope, x), Session(g, x)) : s[3] = x
    OBVIOUS
  <2>1. \A s \in DOMAIN Session(g, x) : s[3] = x
    BY <1>1 DEF Session
  <2>2. DOMAIN Exists(script[g].scope, x) = {<<script[g].scope, "neighbor", x>>}
    BY GetOnly DEF Exists
  <2>3. DOMAIN Over(Exists(script[g].scope, x), Session(g, x)) = DOMAIN Exists(script[g].scope, x) \cup DOMAIN Session(g, x)
    BY GetOver
  <2> QED BY <2>1, <2>2, <2>3
<1>3. \A g : DOMAIN _parse_bgp_neighbors(g) = {y \in Peers : IsKept(g, y)}
             /\ (x \in Peers /\ IsKept(g, x) => _parse_bgp_neighbors(g)[x] = Over(Exists(script[g].scope, x), Session(g, x)))
  BY DEF _parse_bgp_neighbors
<1>4. CASE h # 1
  <2>1. Sessions(h) = _parse_bgp_neighbors(h)
    BY <1>4 DEF Sessions
  <2> QED BY <2>1, <1>0, <1>2, <1>3
<1>5. CASE h = 1
  <2> DEFINE nb == _parse_bgp_neighbors(1)
             all == _apply_bgp_af_neighbor_policies(nb)
  <2>1. Sessions(h) = all
    BY <1>5 DEF Sessions
  <2>2. /\ DOMAIN all = DOMAIN nb \cup {y \in Peers : DOMAIN AfEntries(y) # {}}
        /\ x \in DOMAIN all => all[x] = Over(AfEntries(x), IF x \in DOMAIN nb THEN nb[x] ELSE Exists("global", x))
    <3> HIDE DEF nb
    <3> QED BY DEF _apply_bgp_af_neighbor_policies
  <2>3. x \in Peers
    BY <1>3, <2>1, <2>2
  <2>4. \A s \in DOMAIN AfEntries(x) : s[3] = x
    <3> SUFFICES ASSUME NEW s \in DOMAIN AfEntries(x) PROVE s[3] = x
      OBVIOUS
    <3>1. PICK g \in Headers("af") : s \in DOMAIN AfPolicy(g, x)
      BY DEF AfEntries
    <3> DEFINE F == Folded(_bgp_neighbor_commands(g, x, {"activate", "route_map"}))
               E == IF \E n \in Negating(g, "activate") : script[n].at = x THEN Only(<<"af", "activate", x>>, Off) ELSE Nothing
    <3>2. s \in DOMAIN Over(F, E)
      BY <3>1 DEF AfPolicy
    <3>3. DOMAIN Over(F, E) = DOMAIN F \cup DOMAIN E
      <4> HIDE DEF F, E
      <4> QED BY GetOver
    <3>4. DOMAIN E \subseteq {<<"af", "activate", x>>}
      <4>1. DOMAIN Only(<<"af", "activate", x>>, Off) = {<<"af", "activate", x>>} /\ DOMAIN Nothing = {}
        BY GetOnly DEF Nothing
      <4> QED BY <4>1
    <3>5. \A r \in DOMAIN F : r[3] = x
      BY <3>1, <1>1
    <3> HIDE DEF E, F
    <3> QED BY <3>2, <3>3, <3>4, <3>5
  <2>5. \A s \in DOMAIN (IF x \in DOMAIN nb THEN nb[x] ELSE Exists("global", x)) : s[3] = x
    <3>1. DOMAIN Exists("global", x) = {<<"global", "neighbor", x>>}
      BY GetOnly DEF Exists
    <3>2. 1 \in Headers("global")
      BY StanzaIs
    <3>3. x \in DOMAIN nb => \A s \in DOMAIN nb[x] : s[3] = x
      BY <1>2, <1>3, <3>2
    <3> QED BY <3>1, <3>3
  <2>6. \A s \in DOMAIN all[x] : s[3] = x
    <3> DEFINE u == IF x \in DOMAIN nb THEN nb[x] ELSE Exists("global", x)
    <3>1. all[x] = Over(AfEntries(x), u)
      BY <2>1, <2>2
    <3> HIDE DEF u
    <3>2. DOMAIN Over(AfEntries(x), u) = DOMAIN AfEntries(x) \cup DOMAIN u
      BY GetOver
    <3>3. \A s \in DOMAIN u : s[3] = x
      BY <2>5 DEF u
    <3> HIDE DEF all
    <3> QED BY <2>4, <3>1, <3>2, <3>3
  <2> QED BY <2>1, <2>3, <2>6
<1> QED BY <1>4, <1>5

GroupLines(g) == _bgp_neighbor_commands(1, g, {"group", "remote_as", "route_map"})

LEMMA GroupsAre ==
  ASSUME Inv
  PROVE  /\ \A g : g \in DOMAIN _parse_bgp_peer_groups(1) <=> \E n \in Lines : ~script[n].no /\ Slot(n) = <<"global", "group", g>>
         /\ \A g \in DOMAIN _parse_bgp_peer_groups(1) :
              g \in Groups /\ _parse_bgp_peer_groups(1)[g] = Folded(GroupLines(g))
         /\ \A g, n : n \in GroupLines(g) <=>
              n \in Lines /\ ~script[n].no /\ \E kind \in {"group", "remote_as", "route_map"} : Slot(n) = <<"global", kind, g>>
<1>0. 1 \in Headers("global")
  BY StanzaIs
<1>1. ASSUME NEW g, NEW n
      PROVE  n \in GroupLines(g) <=>
              n \in Lines /\ ~script[n].no /\ \E kind \in {"group", "remote_as", "route_map"} : Slot(n) = <<"global", kind, g>>
  <2>1. n \in GroupLines(g) <=> n \in Children(1) /\ script[n].at = g /\ script[n].kind \in {"group", "remote_as", "route_map"} /\ ~script[n].no
    BY DEF GroupLines, _bgp_neighbor_commands
  <2>2. n \in Children(1) <=> n \in Lines /\ script[n].scope = "global" /\ script[n].kind # "header"
    BY ChildrenAre
  <2> QED BY <2>1, <2>2 DEF Slot
<1>2. ASSUME NEW g
      PROVE  g \in DOMAIN _parse_bgp_peer_groups(1) <=> \E n \in Lines : ~script[n].no /\ Slot(n) = <<"global", "group", g>>
  <2>1. g \in DOMAIN _parse_bgp_peer_groups(1) <=> \E n \in Children(1) : script[n].kind = "group" /\ ~script[n].no /\ script[n].at = g
    BY DEF _parse_bgp_peer_groups, _bgp_peer_group_names, Stating
  <2>2. \A n : n \in Children(1) <=> n \in Lines /\ script[n].scope = "global" /\ script[n].kind # "header"
    BY ChildrenAre
  <2> QED BY <2>1, <2>2 DEF Slot
<1>3. ASSUME NEW g \in DOMAIN _parse_bgp_peer_groups(1)
      PROVE  g \in Groups /\ _parse_bgp_peer_groups(1)[g] = Folded(GroupLines(g))
  <2>1. PICK n \in Lines : ~script[n].no /\ Slot(n) = <<"global", "group", g>>
    BY <1>2
  <2>2. Belongs(script[n]) /\ script[n].kind = "group" /\ script[n].at = g
    BY <2>1, StanzaIs DEF Slot
  <2>3. g \in Groups
    BY <2>1, <2>2 DEF Belongs
  <2>4. _parse_bgp_peer_groups(1)[g] = Folded(GroupLines(g))
    BY DEF _parse_bgp_peer_groups, apply_peer_group_command, GroupLines
  <2> QED BY <2>3, <2>4
<1> QED BY <1>1, <1>2, <1>3

\* A group's deletion takes slots of groups and of peers.
LEMMA MembersStay ==
  ASSUME Inv, Finished, NEW s, IsMemberSlot(s), NEW o \in ops, NEW cfg
  PROVE  ~Takes(cfg, o, s)
<1> SUFFICES ASSUME o.verb = "DELETE_GROUP", s \in TakenWith(cfg, o.scope, o.at) PROVE FALSE
  BY DEF Takes
<1>1. IsOp(o)
  BY OpsAre
<1>2. IsSessionRemoval(o)
  BY <1>1, VerbsAre DEF IsOp
<1>3. PICK h \in Blocks : \E n \in SessionNegations(h) : o = _emit_bgp_neighbor_no_op(n)
  BY <1>2 DEF IsSessionRemoval
<1>4. PICK n \in SessionNegations(h) : o = _emit_bgp_neighbor_no_op(n)
  BY <1>3
<1>5. o.at \in Peers \cup Groups
  BY <1>4, RemovalIs
<1>6. s[3] \in Peers \cup Groups
  <2>1. \A x : s \in TargetSlots(o.scope, x) => s[3] = x
    BY DEF TargetSlots
  <2>2. s \in TargetSlots(o.scope, o.at) \/ \E x \in Peers : s \in TargetSlots(o.scope, x)
    BY DEF TakenWith, MembersIn
  <2> QED BY <1>5, <2>1, <2>2
<1> QED BY <1>6, TargetsAssumption DEF IsMemberSlot

\* The operations that reach a slot of members and settings.
ReachedBy(o, s) ==
  \/ \E h \in Blocks : \E m \in MembersOf(h, {"network", "redistribute"}) :
       o = MemberSet(ScopeOf(h), h, m) /\ s = <<ScopeOf(h), m.kind, m.at>>
  \/ \E n \in Metrics : o = MetricSet(n) /\ s = Slot(n)
  \/ _parse_bgp_bestpath_options(1) /\ o = BestpathSet /\ s = <<"global", "bestpath", Process>>
  \/ \E af \in Families : \E m \in af.members : o = MemberSet("af", af.object, m) /\ s = <<"af", m.kind, m.at>>
  \/ s = <<"af", "maximum_paths", Process>> /\ \E af \in Families : af.maximum_paths # Absent /\ o = PathsSet(af)
  \/ Families # {} /\ \E n \in AfNegations : o = RemovalOf("LIST_REMOVE", n) /\ s = Slot(n)
  \/ \E h \in Blocks : \E n \in Negating(h, "network") : o = RemovalOf("LIST_REMOVE", n) /\ s = Slot(n)
  \/ \E n \in Redistributions : o = DerivedRemoval(n) /\ s = <<"af", "redistribute", script[n].at>>

LEMMA SetsAre ==
  ASSUME NEW s
  PROVE  /\ \A scope, object, m :
              LET o == MemberSet(scope, object, m)
              IN  /\ Reaches(o, s) <=> s = <<scope, m.kind, m.at>>
                  /\ Reaches(o, s) => LeftBy(o, s) = m.val
                  /\ o.line = MemberLine(scope, m) /\ o.place = <<object, m.source>>
         /\ \A n : LET o == MetricSet(n)
                   IN  /\ Reaches(o, s) <=> s = Slot(n)
                       /\ Reaches(o, s) => LeftBy(o, s) = IF script[n].no THEN Absent ELSE script[n].val
                       /\ o.line = n /\ o.place = <<0, n>>
         /\ Reaches(BestpathSet, s) <=> s = <<"global", "bestpath", Process>>
         /\ Reaches(BestpathSet, s) => LeftBy(BestpathSet, s) = On
         /\ \A af : LET o == PathsSet(af)
                    IN  /\ Reaches(o, s) <=> s = <<"af", "maximum_paths", Process>>
                        /\ Reaches(o, s) => LeftBy(o, s) = af.maximum_paths
         /\ \A n : LET o == RemovalOf("LIST_REMOVE", n)
                   IN  (Reaches(o, s) <=> s = Slot(n)) /\ LeftBy(o, s) = Absent /\ o.line = n /\ o.place = <<0, n>>
         /\ \A n : LET o == DerivedRemoval(n)
                   IN  /\ Reaches(o, s) <=> s = <<"af", "redistribute", script[n].at>>
                       /\ LeftBy(o, s) = Absent /\ o.line = 0 /\ o.place = <<Len(script) + 1, n>>
<1>1. ASSUME NEW scope, NEW kind, NEW at, NEW r, NEW v, NEW line, NEW place
      PROVE  LET o == SetOp(scope, kind, at, Only(r, v), line, place)
             IN  /\ Reaches(o, s) <=> s = r
                 /\ Reaches(o, s) => LeftBy(o, s) = v
                 /\ o.line = line /\ o.place = place
  <2> DEFINE w == Only(r, v)
             o == SetOp(scope, kind, at, w, line, place)
  <2>1. DOMAIN w = {r} /\ w[r] = v
    BY GetOnly
  <2> HIDE DEF w
  <2>2. o.verb = "SET" /\ o.value = w /\ o.line = line /\ o.place = place
    BY DEF SetOp, Op
  <2> HIDE DEF o
  <2>3. (Reaches(o, s) <=> s = r) /\ (Reaches(o, s) => LeftBy(o, s) = v) /\ o.line = line /\ o.place = place
    BY <2>1, <2>2 DEF Reaches, LeftBy
  <2> QED BY <2>3 DEF o, w
<1>2. ASSUME NEW n
      PROVE  LET o == RemovalOf("LIST_REMOVE", n)
             IN  (Reaches(o, s) <=> s = Slot(n)) /\ LeftBy(o, s) = Absent /\ o.line = n /\ o.place = <<0, n>>
  <2> DEFINE o == RemovalOf("LIST_REMOVE", n)
  <2>1. o.verb = "LIST_REMOVE" /\ <<o.scope, o.kind, o.at>> = Slot(n) /\ o.line = n /\ o.place = <<0, n>>
    BY DEF RemovalOf, Op, Slot
  <2> HIDE DEF o
  <2>2. (Reaches(o, s) <=> s = Slot(n)) /\ LeftBy(o, s) = Absent /\ o.line = n /\ o.place = <<0, n>>
    BY <2>1 DEF Reaches, LeftBy
  <2> QED BY <2>2 DEF o
<1>3. ASSUME NEW scope, NEW object, NEW m
      PROVE  LET o == MemberSet(scope, object, m)
             IN  /\ Reaches(o, s) <=> s = <<scope, m.kind, m.at>>
                 /\ Reaches(o, s) => LeftBy(o, s) = m.val
                 /\ o.line = MemberLine(scope, m) /\ o.place = <<object, m.source>>
  BY <1>1 DEF MemberSet
<1>4. ASSUME NEW n
      PROVE  LET o == MetricSet(n)
             IN  /\ Reaches(o, s) <=> s = Slot(n)
                 /\ Reaches(o, s) => LeftBy(o, s) = IF script[n].no THEN Absent ELSE script[n].val
                 /\ o.line = n /\ o.place = <<0, n>>
  BY <1>1 DEF MetricSet
<1>5. /\ Reaches(BestpathSet, s) <=> s = <<"global", "bestpath", Process>>
      /\ Reaches(BestpathSet, s) => LeftBy(BestpathSet, s) = On
  BY <1>1 DEF BestpathSet
<1>6. ASSUME NEW af
      PROVE  LET o == PathsSet(af)
             IN  /\ Reaches(o, s) <=> s = <<"af", "maximum_paths", Process>>
                 /\ Reaches(o, s) => LeftBy(o, s) = af.maximum_paths
  BY <1>1 DEF PathsSet
<1>7. ASSUME NEW n
      PROVE  LET o == DerivedRemoval(n)
             IN  /\ Reaches(o, s) <=> s = <<"af", "redistribute", script[n].at>>
                 /\ LeftBy(o, s) = Absent /\ o.line = 0 /\ o.place = <<Len(script) + 1, n>>
  <2> DEFINE o == DerivedRemoval(n)
  <2>1. /\ o.verb = "LIST_REMOVE" /\ <<o.scope, o.kind, o.at>> = <<"af", "redistribute", script[n].at>>
        /\ o.line = 0 /\ o.place = <<Len(script) + 1, n>>
    BY DEF DerivedRemoval, Op
  <2> HIDE DEF o
  <2>2. /\ Reaches(o, s) <=> s = <<"af", "redistribute", script[n].at>>
        /\ LeftBy(o, s) = Absent /\ o.line = 0 /\ o.place = <<Len(script) + 1, n>>
    BY <2>1 DEF Reaches, LeftBy
  <2> QED BY <2>2 DEF o
<1> QED BY <1>2, <1>3, <1>4, <1>5, <1>6, <1>7

LEMMA ReachedIs ==
  ASSUME Inv, Finished, NEW s, IsMemberSlot(s), NEW o
  PROVE  o \in ops /\ Reaches(o, s) <=> ReachedBy(o, s)
<1>0. s[3] \notin Peers \cup Groups
  BY TargetsAssumption DEF IsMemberSlot
<1>1. o \in ops <=> IsOp(o)
  BY OpsAre
<1>2. IsSessionSet(o) => ~Reaches(o, s)
  <2> SUFFICES ASSUME NEW h \in Blocks, NEW x \in DOMAIN Sessions(h), o = SessionSet(h, x) PROVE ~Reaches(o, s)
    BY DEF IsSessionSet
  <2>1. o.verb = "SET" /\ o.value = Sessions(h)[x]
    BY DEF SessionSet, SetOp, Op
  <2>2. s \notin DOMAIN Sessions(h)[x]
    BY <1>0, SessionsAre
  <2> QED BY <2>1, <2>2 DEF Reaches
<1>3. IsGroupSet(o) => ~Reaches(o, s)
  <2> SUFFICES ASSUME NEW g \in DOMAIN _parse_bgp_peer_groups(1), o = GroupSet(g) PROVE ~Reaches(o, s)
    BY DEF IsGroupSet
  <2>1. o.verb = "SET" /\ o.value = Folded(GroupLines(g)) /\ g \in Groups
    BY GroupsAre DEF GroupSet, SetOp, Op
  <2>2. GroupLines(g) \in SUBSET Lines /\ \A n \in GroupLines(g) : Slot(n)[3] = g
    BY GroupsAre
  <2>3. s \notin DOMAIN Folded(GroupLines(g))
    <3>1. DOMAIN Folded(GroupLines(g)) = {Slot(n) : n \in GroupLines(g)}
      BY <2>2, FoldedIs
    <3> QED BY <1>0, <2>1, <2>2, <3>1
  <2> QED BY <2>1, <2>3 DEF Reaches
<1>4. IsSessionRemoval(o) => ~Reaches(o, s)
  <2> SUFFICES ASSUME NEW h \in Blocks, NEW n \in SessionNegations(h), o = _emit_bgp_neighbor_no_op(n), Reaches(o, s) PROVE FALSE
    BY DEF IsSessionRemoval
  <2>1. o.at \in Peers \cup Groups /\ o.verb \in {"DELETE", "DELETE_GROUP", "UNSET"}
    BY RemovalIs
  <2>2. s[3] = o.at
    BY <2>1 DEF Reaches, TargetSlots
  <2> QED BY <1>0, <2>1, <2>2
<1>5. IsMemberSet(o) /\ Reaches(o, s) <=>
        \E h \in Blocks : \E m \in MembersOf(h, {"network", "redistribute"}) :
          o = MemberSet(ScopeOf(h), h, m) /\ s = <<ScopeOf(h), m.kind, m.at>>
  <2>1. \A scope, object, m : Reaches(MemberSet(scope, object, m), s) <=> s = <<scope, m.kind, m.at>>
    BY SetsAre
  <2> QED BY <2>1 DEF IsMemberSet
<1>6. IsMetricSet(o) /\ Reaches(o, s) <=> \E n \in Metrics : o = MetricSet(n) /\ s = Slot(n)
  <2>1. \A n : Reaches(MetricSet(n), s) <=> s = Slot(n)
    BY SetsAre
  <2> QED BY <2>1 DEF IsMetricSet
<1>7. IsBestpathSet(o) /\ Reaches(o, s) <=>
        _parse_bgp_bestpath_options(1) /\ o = BestpathSet /\ s = <<"global", "bestpath", Process>>
  BY SetsAre DEF IsBestpathSet
<1>8. IsFamilyMemberSet(o) /\ Reaches(o, s) <=>
        \E af \in Families : \E m \in af.members : o = MemberSet("af", af.object, m) /\ s = <<"af", m.kind, m.at>>
  <2>1. \A scope, object, m : Reaches(MemberSet(scope, object, m), s) <=> s = <<scope, m.kind, m.at>>
    BY SetsAre
  <2> QED BY <2>1 DEF IsFamilyMemberSet
<1>9. IsPathsSet(o) /\ Reaches(o, s) <=>
        s = <<"af", "maximum_paths", Process>> /\ \E af \in Families : af.maximum_paths # Absent /\ o = PathsSet(af)
  <2>1. \A af : Reaches(PathsSet(af), s) <=> s = <<"af", "maximum_paths", Process>>
    BY SetsAre
  <2> QED BY <2>1 DEF IsPathsSet
<1>10. IsFamilyRemoval(o) /\ Reaches(o, s) <=> Families # {} /\ \E n \in AfNegations : o = RemovalOf("LIST_REMOVE", n) /\ s = Slot(n)
  <2>1. \A n : Reaches(RemovalOf("LIST_REMOVE", n), s) <=> s = Slot(n)
    BY SetsAre
  <2> QED BY <2>1 DEF IsFamilyRemoval
<1>11. IsNetworkRemoval(o) /\ Reaches(o, s) <=>
         \E h \in Blocks : \E n \in Negating(h, "network") : o = RemovalOf("LIST_REMOVE", n) /\ s = Slot(n)
  <2>1. \A n : Reaches(RemovalOf("LIST_REMOVE", n), s) <=> s = Slot(n)
    BY SetsAre
  <2> QED BY <2>1 DEF IsNetworkRemoval
<1>13. IsDerivedRemoval(o) /\ Reaches(o, s) <=>
         \E n \in Redistributions : o = DerivedRemoval(n) /\ s = <<"af", "redistribute", script[n].at>>
  <2>1. \A n : Reaches(DerivedRemoval(n), s) <=> s = <<"af", "redistribute", script[n].at>>
    BY SetsAre
  <2> QED BY <2>1 DEF IsDerivedRemoval
<1> DEFINE R == Reaches(o, s)
<1>12. o \in ops /\ R <=> \/ IsMemberSet(o) /\ R
                          \/ IsMetricSet(o) /\ R
                          \/ IsBestpathSet(o) /\ R
                          \/ IsFamilyMemberSet(o) /\ R
                          \/ IsPathsSet(o) /\ R
                          \/ IsFamilyRemoval(o) /\ R
                          \/ IsNetworkRemoval(o) /\ R
                          \/ IsDerivedRemoval(o) /\ R
  BY <1>1, <1>2, <1>3, <1>4 DEF IsOp
<1> HIDE DEF R
<1> QED BY <1>5, <1>6, <1>7, <1>8, <1>9, <1>10, <1>11, <1>12, <1>13 DEF ReachedBy, R

\* One operation for each line about the slot, the last line's the last word.
LineOps(F, s) ==
  LET about == {n \in Lines : About(script[n], s)}
  IN  /\ \A n \in about :
           F[n] \in ops /\ Reaches(F[n], s) /\ LeftBy(F[n], s) = IF script[n].no THEN Absent ELSE script[n].val
      /\ \A o \in ops : Reaches(o, s) => \E n \in about : o = F[n]
      /\ \A n \in about : (\A m \in about : m <= n) =>
           \A m \in about : m < n => LeftBy(F[m], s) = LeftBy(F[n], s) \/ InScriptOrder(F[m], F[n])

LEMMA MemberIsDevice ==
  ASSUME Inv, Finished, NEW s, IsMemberSlot(s), NEW F, LineOps(F, s)
  PROVE  Get(config, s) = Get(Device, s)
<1> DEFINE about == {n \in Lines : About(script[n], s)}
<1>1. /\ (\A o \in ops : ~Reaches(o, s)) => Get(config, s) = Get(router[1], s)
      /\ \A o \in ops :
           Reaches(o, s) /\ (\A p \in ops : Reaches(p, s) => LeftBy(p, s) = LeftBy(o, s) \/ InScriptOrder(p, o))
             => Get(config, s) = LeftBy(o, s)
  BY MembersStay, ReplayIs
<1>2. /\ (\A n \in Lines : ~About(script[n], s)) => Get(Device, s) = Get(router[1], s)
      /\ \A n \in Lines :
           About(script[n], s) /\ (\A m \in Lines : About(script[m], s) => m <= n)
             => Get(Device, s) = IF script[n].no THEN Absent ELSE script[n].val
  BY DeviceMemberLast
<1>3. /\ \A n \in about :
           F[n] \in ops /\ Reaches(F[n], s) /\ LeftBy(F[n], s) = IF script[n].no THEN Absent ELSE script[n].val
      /\ \A o \in ops : Reaches(o, s) => \E n \in about : o = F[n]
      /\ \A n \in about : (\A m \in about : m <= n) =>
           \A m \in about : m < n => LeftBy(F[m], s) = LeftBy(F[n], s) \/ InScriptOrder(F[m], F[n])
  BY DEF LineOps
<1>4. CASE about = {}
  <2>1. \A o \in ops : ~Reaches(o, s)
    BY <1>3, <1>4
  <2>2. \A n \in Lines : ~About(script[n], s)
    BY <1>4
  <2> QED BY <1>1, <1>2, <2>1, <2>2
<1>5. CASE about # {}
  <2>1. PICK n \in about : \A m \in about : m <= n
    <3>1. about \in SUBSET (0..Len(script)) /\ Len(script) \in Nat
      BY StanzaIs
    <3> HIDE DEF about
    <3> QED BY <1>5, <3>1, GreatestElement
  <2>2. \A p \in ops : Reaches(p, s) => LeftBy(p, s) = LeftBy(F[n], s) \/ InScriptOrder(p, F[n])
    <3> SUFFICES ASSUME NEW p \in ops, Reaches(p, s)
                 PROVE  LeftBy(p, s) = LeftBy(F[n], s) \/ InScriptOrder(p, F[n])
      OBVIOUS
    <3>1. PICK m \in about : p = F[m]
      BY <1>3
    <3>2. m \in Nat /\ n \in Nat /\ m <= n
      BY <2>1, StanzaIs
    <3> HIDE DEF about
    <3> QED BY <1>3, <2>1, <3>1, <3>2
  <2>3. Get(config, s) = LeftBy(F[n], s)
    BY <1>1, <1>3, <2>2
  <2>4. Get(Device, s) = IF script[n].no THEN Absent ELSE script[n].val
    <3>1. n \in Lines /\ About(script[n], s) /\ \A m \in Lines : About(script[m], s) => m <= n
      BY <2>1
    <3> QED BY <1>2, <3>1
  <2>5. LeftBy(F[n], s) = IF script[n].no THEN Absent ELSE script[n].val
    BY <1>3
  <2> QED BY <2>3, <2>4, <2>5
<1> QED BY <1>4, <1>5

-----------------------------------------------------------------------------
(* Members and settings.                                                   *)

LEMMA MembersAre ==
  ASSUME Inv, NEW scope, NEW h \in Headers(scope), NEW kinds
  PROVE  \A m : m \in MembersOf(h, kinds) <=>
                  \E n \in Children(h) : m = Member(n) /\ script[n].kind \in kinds /\ ~script[n].no
BY DEF MembersOf, Stating

LEMMA BlockIs ==
  ASSUME Inv, NEW n \in Lines, script[n].kind # "header"
  PROVE  /\ Block(n) \in Headers(script[n].scope) /\ n \in Children(Block(n)) /\ Block(n) \in Lines
         /\ \A h \in Headers(script[n].scope) : n \in Children(h) => h = Block(n)
<1>1. \E h \in Headers(script[n].scope) : n \in Children(h)
  BY ChildrenAre
<1>2. Block(n) \in Headers(script[n].scope) /\ n \in Children(Block(n))
  BY <1>1 DEF Block
<1>3. \A scope : Headers(scope) \subseteq Lines
  BY StanzaIs
<1>4. ASSUME NEW h \in Headers(script[n].scope), n \in Children(h)
      PROVE  h = Block(n)
  <2>1. h <= Block(n) /\ Block(n) <= h
    <3>1. n <= n
      BY StanzaIs
    <3> QED BY <1>2, <1>4, <3>1, ChildrenAre
  <2>2. h \in Nat /\ Block(n) \in Nat
    BY <1>2, <1>3, StanzaIs
  <2> QED BY <2>1, <2>2
<1> QED BY <1>2, <1>3, <1>4

\* The families: the members of their blocks, and the aggregates of the process
\* in one of them unless the first has its own.
FamilyHolds(object, m) == \E af \in Families : af.object = object /\ m \in af.members

FamilyMembers(carries, carrier) ==
  \A object, m : FamilyHolds(object, m) <=>
    \/ object \in Headers("af") /\ m \in MembersOf(object, MemberKinds)
    \/ carries /\ object = carrier /\ m \in MembersOf(1, {"aggregate"})

LEMMA FamiliesAre ==
  ASSUME Inv
  PROVE  /\ Families = {} <=> Headers("af") = {} /\ MembersOf(1, {"aggregate"}) = {}
         /\ \A af \in Families : af.maximum_paths # Absent =>
              \E h \in Headers("af") : af.object = h /\ af.maximum_paths = _build_bgp_af(h).maximum_paths
         /\ \A h \in Headers("af") : \E af \in Families :
              af.object = h /\ af.maximum_paths = _build_bgp_af(h).maximum_paths
         /\ \E carries \in BOOLEAN : \E carrier \in Nat :
              /\ FamilyMembers(carries, carrier)
              /\ (\A h \in Headers("af") : Stating(h, "aggregate") = {}) => carries
              /\ carries => \A h \in Headers("af") : Stating(h, "aggregate") # {} => carrier < h
<1> DEFINE afs == {_build_bgp_af(b) : b \in Headers("af")}
           settings == MembersOf(1, {"aggregate"})
           dummy == [object |-> 0, members |-> {}, maximum_paths |-> Absent]
           base == IF afs = {} THEN {dummy} ELSE afs
           first == CHOOSE af \in base : \A other \in base : af.object <= other.object
           held == [first EXCEPT !.members = @ \cup settings]
           merged == (base \ {first}) \cup {held}
<1>1. Families = IF settings = {} THEN afs ELSE IF HasAggregates(first) THEN base ELSE merged
  BY DEF Families, _parse_bgp_address_families, _merge_bgp_process_level_af_settings
<1>2. \A h : /\ _build_bgp_af(h).object = h /\ _build_bgp_af(h).members = MembersOf(h, MemberKinds)
             /\ DOMAIN _build_bgp_af(h) = {"object", "members", "maximum_paths"}
  BY DEF _build_bgp_af
<1>3. \A h \in Headers("af") : h \in Nat
  BY StanzaIs
<1>4. ASSUME NEW af \in base
      PROVE  /\ af.object \in Nat /\ DOMAIN af = {"object", "members", "maximum_paths"}
             /\ afs = {} => af = dummy
             /\ afs # {} => af.object \in Headers("af") /\ af = _build_bgp_af(af.object)
  <2>1. CASE afs = {}
    <3>1. af = dummy
      BY <2>1
    <3> QED BY <2>1, <3>1
  <2>2. CASE afs # {}
    <3>1. PICK h \in Headers("af") : af = _build_bgp_af(h)
      BY <2>2
    <3> QED BY <1>2, <1>3, <2>2, <3>1
  <2> QED BY <2>1, <2>2
<1>5. first \in base /\ \A other \in base : first.object <= other.object
  <2> DEFINE S == {af.object : af \in base}
  <2>1. S \in SUBSET Nat /\ S # {}
    <3>1. base # {}
      OBVIOUS
    <3> HIDE DEF base
    <3> QED BY <1>4, <3>1
  <2>2. PICK n \in S : \A m \in S : n <= m
    <3> HIDE DEF S
    <3> QED BY <2>1, LeastElement
  <2>3. PICK af \in base : af.object = n
    <3> HIDE DEF base
    <3> QED OBVIOUS
  <2>4. \A other \in base : af.object <= other.object
    <3> HIDE DEF base
    <3> QED BY <2>2, <2>3
  <2> HIDE DEF base
  <2> QED BY <2>3, <2>4
<1>6. held.object = first.object /\ held.members = first.members \cup settings /\ held.maximum_paths = first.maximum_paths
  <2>1. DOMAIN first = {"object", "members", "maximum_paths"}
    <3> HIDE DEF first, base
    <3> QED BY <1>4, <1>5
  <2> HIDE DEF first, settings
  <2> QED BY <2>1
<1>7. \A h \in Headers("af") : _build_bgp_af(h) \in afs
  OBVIOUS
<1> HIDE DEF afs, settings, base, first, held, dummy
<1>8. dummy.members = {} /\ dummy.maximum_paths = Absent /\ dummy.object = 0
  BY DEF dummy
<1>9. afs = {} <=> Headers("af") = {}
  BY DEF afs
<1>10. \A af : af \in afs <=> \E h \in Headers("af") : af = _build_bgp_af(h)
  BY DEF afs
<1>11. base = IF afs = {} THEN {dummy} ELSE afs
  BY DEF base
<1>12. ASSUME NEW object, NEW m
       PROVE  /\ (\E af \in afs : af.object = object /\ m \in af.members) <=> object \in Headers("af") /\ m \in MembersOf(object, MemberKinds)
              /\ (\E af \in base : af.object = object /\ m \in af.members) <=> object \in Headers("af") /\ m \in MembersOf(object, MemberKinds)
  BY <1>2, <1>8, <1>9, <1>10, <1>11
<1>13. CASE settings = {}
  <2>1. Families = afs
    BY <1>1, <1>13
  <2>2. FamilyMembers(TRUE, 0)
    BY <1>12, <1>13, <2>1 DEF FamilyMembers, FamilyHolds, settings
  <2>3. MembersOf(1, {"aggregate"}) = {}
    BY <1>13 DEF settings
  <2>4. \A h \in Headers("af") : 0 < h
    BY StanzaIs
  <2> QED BY <1>2, <1>9, <1>10, <2>1, <2>2, <2>3, <2>4, ZenonT(60)
<1>14. CASE settings # {} /\ HasAggregates(first)
  <2>1. Families = base
    BY <1>1, <1>14
  <2>2. afs # {}
    BY <1>4, <1>5, <1>8, <1>14 DEF HasAggregates
  <2>3. FamilyMembers(FALSE, 0)
    BY <1>12, <2>1 DEF FamilyMembers, FamilyHolds
  <2>4. ~(\A h \in Headers("af") : Stating(h, "aggregate") = {})
    <3>1. first.object \in Headers("af") /\ first = _build_bgp_af(first.object)
      BY <1>4, <1>5, <2>2
    <3>2. PICK m \in first.members : m.kind = "aggregate"
      BY <1>14 DEF HasAggregates
    <3>3. m \in MembersOf(first.object, MemberKinds)
      BY <1>2, <3>1, <3>2
    <3>4. PICK n \in Children(first.object) : m = Member(n) /\ script[n].kind \in MemberKinds /\ ~script[n].no
      BY <3>1, <3>3, MembersAre
    <3>5. n \in Stating(first.object, "aggregate")
      BY <3>2, <3>4 DEF Stating, Member
    <3> QED BY <3>1, <3>5
  <2> QED BY <1>2, <1>9, <1>10, <1>11, <2>1, <2>2, <2>3, <2>4, ZenonT(60)
<1>15. CASE settings # {} /\ ~HasAggregates(first)
  <2>1. Families = (base \ {first}) \cup {held}
    BY <1>1, <1>15
  <2>2. FamilyMembers(TRUE, first.object)
    <3> SUFFICES ASSUME NEW object, NEW m
                 PROVE  FamilyHolds(object, m) <=>
                          \/ object \in Headers("af") /\ m \in MembersOf(object, MemberKinds)
                          \/ object = first.object /\ m \in settings
      BY DEF FamilyMembers, settings
    <3>1. FamilyHolds(object, m) <=>
            (\E af \in base : af.object = object /\ m \in af.members) \/ (object = first.object /\ m \in settings)
      BY <1>5, <1>6, <2>1 DEF FamilyHolds
    <3> QED BY <1>12, <3>1
  <2>3. first.object \in Nat
    BY <1>4, <1>5
  <2>7. ASSUME NEW h \in Headers("af"), Stating(h, "aggregate") # {}
        PROVE  first.object < h
    <3>1. _build_bgp_af(h) \in base /\ _build_bgp_af(h).object = h /\ h \in Nat
      BY <1>2, <1>3, <1>7, <1>9, <1>11
    <3>2. first.object <= h
      BY <1>5, <3>1
    <3>3. PICK n \in Children(h) : script[n].kind = "aggregate" /\ ~script[n].no
      BY <2>7 DEF Stating
    <3>4. Member(n) \in _build_bgp_af(h).members /\ Member(n).kind = "aggregate"
      <4>1. Member(n) \in MembersOf(h, MemberKinds)
        BY <3>3, MembersAre DEF MemberKinds
      <4> QED BY <1>2, <3>3, <4>1 DEF Member
    <3>5. HasAggregates(_build_bgp_af(h))
      BY <3>4 DEF HasAggregates
    <3>6. first # _build_bgp_af(h)
      BY <1>15, <3>5
    <3>7. first.object # h
      <4>1. first = _build_bgp_af(first.object)
        BY <1>4, <1>5, <1>9
      <4> QED BY <3>6, <4>1
    <3> QED BY <2>3, <3>1, <3>2, <3>7
  <2>4. Families # {} /\ MembersOf(1, {"aggregate"}) # {}
    BY <1>15, <2>1 DEF settings
  <2>5. \A af \in Families : af.maximum_paths # Absent =>
              \E h \in Headers("af") : af.object = h /\ af.maximum_paths = _build_bgp_af(h).maximum_paths
    <3>1. \A af \in base : af.maximum_paths # Absent =>
              \E h \in Headers("af") : af.object = h /\ af.maximum_paths = _build_bgp_af(h).maximum_paths
      BY <1>4, <1>8
    <3> QED BY <1>5, <1>6, <2>1, <3>1
  <2>6. \A h \in Headers("af") : \E af \in Families :
              af.object = h /\ af.maximum_paths = _build_bgp_af(h).maximum_paths
    <3> SUFFICES ASSUME NEW h \in Headers("af")
                 PROVE  \E af \in Families : af.object = h /\ af.maximum_paths = _build_bgp_af(h).maximum_paths
      OBVIOUS
    <3>1. _build_bgp_af(h) \in base
      BY <1>7, <1>9, <1>11
    <3>2. CASE _build_bgp_af(h) = first
      BY <1>2, <1>6, <2>1, <3>2
    <3>3. CASE _build_bgp_af(h) # first
      BY <1>2, <2>1, <3>1, <3>3
    <3> QED BY <3>2, <3>3
  <2> QED BY <2>2, <2>3, <2>4, <2>5, <2>6, <2>7
<1> QED BY <1>13, <1>14, <1>15

LEMMA CandidatesAre ==
  ASSUME Inv, NEW scope
  PROVE  /\ \A n \in Candidates(scope) : n \in Lines /\ script[n].scope = scope /\ script[n].kind # "header"
                                         /\ \E h \in Headers(scope) : n \in Children(h)
         /\ \A n : n \in Candidates("global") <=> n \in Lines /\ script[n].scope = "global" /\ script[n].kind # "header"
<1>1. ASSUME NEW sc
      PROVE  \A n \in Candidates(sc) : n \in Lines /\ script[n].scope = sc /\ script[n].kind # "header"
                                         /\ \E h \in Headers(sc) : n \in Children(h)
  <2>1. Len(script) \in Nat /\ Headers(sc) \in SUBSET (1..Len(script))
    BY StanzaIs
  <2>2. CASE Headers(sc) = {}
    BY <2>2 DEF Candidates
  <2>3. CASE Headers(sc) # {}
    <3>1. FirstLine(Headers(sc)) \in Headers(sc)
      BY <2>1, <2>3, FirstLineIs
    <3>2. Candidates(sc) = Children(FirstLine(Headers(sc)))
      BY <2>3 DEF Candidates
    <3> QED BY <3>1, <3>2, ChildrenAre
  <2> QED BY <2>2, <2>3
<1>2. Candidates("global") = Children(1)
  <2>1. Headers("global") = {1}
    BY StanzaIs
  <2>2. FirstLine({1}) = 1
    <3>1. {1} \in SUBSET (1..1)
      OBVIOUS
    <3>2. FirstLine({1}) \in {1}
      BY <3>1, FirstLineIs
    <3> QED BY <3>2
  <2> QED BY <2>1, <2>2 DEF Candidates
<1>3. \A n : n \in Children(1) <=> n \in Lines /\ script[n].scope = "global" /\ script[n].kind # "header"
  BY ChildrenAre
<1> QED BY <1>1, <1>2, <1>3

LEMMA PositivesAre ==
  ASSUME Inv, NEW scope, NEW kinds, NEW at
  PROVE  /\ Positives(scope, kinds, at) \in SUBSET (1..Len(script))
         /\ \A n : n \in Positives(scope, kinds, at) <=>
              n \in Candidates(scope) /\ ~script[n].no /\ script[n].kind \in kinds /\ script[n].at = at
<1>1. \A n \in Candidates(scope) : n \in 1..Len(script)
  BY CandidatesAre, StanzaIs
<1> QED BY <1>1 DEF Positives

\* The operation of each line about a member.
MemberOp(n, scope, object) ==
  IF script[n].no THEN RemovalOf("LIST_REMOVE", n) ELSE MemberSet(scope, object, Member(n))

LEMMA MemberOpIs ==
  ASSUME NEW s, NEW n, NEW object, SlotOf(script[n]) = s
  PROVE  LET o == MemberOp(n, s[1], object)
         IN  /\ Reaches(o, s) /\ LeftBy(o, s) = IF script[n].no THEN Absent ELSE script[n].val
             /\ o.line = IF script[n].no THEN n ELSE MemberLine(s[1], Member(n))
             /\ o.place = IF script[n].no THEN <<0, n>> ELSE <<object, n>>
<1> DEFINE m == Member(n)
<1>1. m.kind = script[n].kind /\ m.at = script[n].at /\ m.val = script[n].val /\ m.source = n
  BY DEF Member
<1>2. s = <<s[1], m.kind, m.at>> /\ s = Slot(n)
  BY <1>1 DEF SlotOf, Slot
<1> HIDE DEF m
<1>3. CASE script[n].no
  <2>1. MemberOp(n, s[1], object) = RemovalOf("LIST_REMOVE", n)
    BY <1>3 DEF MemberOp
  <2> QED BY <1>2, <1>3, <2>1, SetsAre
<1>4. CASE ~script[n].no
  <2>1. MemberOp(n, s[1], object) = MemberSet(s[1], object, m)
    BY <1>4 DEF MemberOp, m
  <2>2. LET o == MemberSet(s[1], object, m)
        IN  /\ Reaches(o, s) <=> s = <<s[1], m.kind, m.at>>
            /\ Reaches(o, s) => LeftBy(o, s) = m.val
            /\ o.line = MemberLine(s[1], m) /\ o.place = <<object, m.source>>
    BY SetsAre
  <2> QED BY <1>1, <1>2, <1>4, <2>1, <2>2 DEF m
<1> QED BY <1>3, <1>4

\* In a scope whose lines are its own.
LEMMA LinesInOrder ==
  ASSUME Inv, NEW s, s[2] \in MemberKinds, s = <<s[1], s[2], s[3]>>,
         NEW about, about = {n \in Lines : About(script[n], s)}, NEW F, F = [n \in Lines |-> MemberOp(n, s[1], Block(n))],
         \A n \in about : script[n].scope = s[1],
         \A n \in about : script[n].no => s[2] # "redistribute" /\ about \subseteq Candidates(s[1]),
         NEW n \in about, \A m \in about : m <= n, NEW m \in about, m < n
  PROVE  LeftBy(F[m], s) = LeftBy(F[n], s) \/ InScriptOrder(F[m], F[n])
<1> DEFINE P == Positives(s[1], {s[2]}, s[3])
<1>0. \A k \in about : /\ k \in Lines /\ SlotOf(script[k]) = s /\ F[k] = MemberOp(k, s[1], Block(k)) /\ k \in Nat /\ k # 0
                       /\ script[k].kind = s[2] /\ script[k].at = s[3]
  BY StanzaIs DEF About, SlotOf
<1>1. \A k \in about :
        /\ LeftBy(F[k], s) = IF script[k].no THEN Absent ELSE script[k].val
        /\ F[k].line = IF script[k].no THEN k ELSE MemberLine(s[1], Member(k))
        /\ F[k].place = IF script[k].no THEN <<0, k>> ELSE <<Block(k), k>>
  BY <1>0, MemberOpIs
<1>2. \A k \in about : MemberLine(s[1], Member(k)) = IF s[2] = "redistribute" THEN FirstLine(P) ELSE LastLine(P)
  BY <1>0 DEF MemberLine, FirstOfMember, Member
<1>3. Len(script) \in Nat /\ P \in SUBSET (1..Len(script))
  BY StanzaIs, PositivesAre
<1>4. \A k \in P : k \in about /\ ~script[k].no
  <2>1. \A k \in P : k \in Candidates(s[1]) /\ ~script[k].no /\ script[k].kind = s[2] /\ script[k].at = s[3]
    BY PositivesAre
  <2>2. \A k \in P : k \in Lines /\ script[k].scope = s[1]
    BY <2>1, CandidatesAre
  <2> QED BY <2>1, <2>2 DEF About
<1>5. \A k \in about : ~script[k].no /\ k \in Candidates(s[1]) => k \in P
  BY <1>0, PositivesAre
<1> HIDE DEF P
<1>6. CASE script[m].no /\ script[n].no
  BY <1>1, <1>6
<1>7. CASE ~script[m].no /\ ~script[n].no
  <2>1. F[m].line = F[n].line /\ F[m].place = <<Block(m), m>> /\ F[n].place = <<Block(n), n>>
    BY <1>1, <1>2, <1>7
  <2>2. script[m].kind # "header" /\ script[n].kind # "header"
    BY <1>0 DEF MemberKinds
  <2>3. /\ Block(m) \in Headers(s[1]) /\ Block(n) \in Headers(s[1]) /\ m \in Children(Block(m)) /\ n \in Children(Block(n))
        /\ Block(m) \in Nat /\ Block(n) \in Nat
    <3>1. m \in about /\ n \in about /\ script[m].scope = s[1] /\ script[n].scope = s[1] /\ m \in Lines /\ n \in Lines
      BY <1>0
    <3>2. Block(m) \in Headers(s[1]) /\ m \in Children(Block(m)) /\ Block(m) \in Lines
      BY <2>2, <3>1, BlockIs
    <3>3. Block(n) \in Headers(s[1]) /\ n \in Children(Block(n)) /\ Block(n) \in Lines
      BY <2>2, <3>1, BlockIs
    <3>4. \A k \in Lines : k \in Nat
      BY StanzaIs
    <3> QED BY <3>2, <3>3, <3>4
  <2>4. Block(m) <= Block(n)
    BY <1>0, <2>3, ChildrenAre
  <2> QED BY <1>0, <2>1, <2>3, <2>4 DEF InScriptOrder
<1>8. CASE script[m].no /\ ~script[n].no
  <2>1. n \in P /\ s[2] # "redistribute"
    BY <1>5, <1>8
  <2>2. n <= LastLine(P) /\ LastLine(P) \in Nat
    BY <1>3, <2>1, LastLineIs
  <2>3. F[m].line = m /\ F[n].line = LastLine(P)
    BY <1>1, <1>2, <1>8, <2>1
  <2> QED BY <1>0, <2>2, <2>3 DEF InScriptOrder
<1>9. CASE ~script[m].no /\ script[n].no
  <2>1. m \in P /\ s[2] # "redistribute"
    BY <1>5, <1>9
  <2>2. LastLine(P) \in P /\ LastLine(P) # 0
    BY <1>3, <2>1, LastLineIs
  <2>3. LastLine(P) <= n /\ LastLine(P) # n /\ LastLine(P) \in Nat
    BY <1>0, <1>4, <1>9, <2>2
  <2>4. F[n].line = n /\ F[m].line = LastLine(P)
    BY <1>1, <1>2, <1>9, <2>1
  <2> QED BY <1>0, <2>2, <2>3, <2>4 DEF InScriptOrder
<1> QED BY <1>6, <1>7, <1>8, <1>9

\* The lines about a slot, and the last of them.
LEMMA LinesOfIs ==
  ASSUME Inv, NEW s
  PROVE  /\ LinesOf(s) \in SUBSET Lines
         /\ \A n : n \in LinesOf(s) <=> n \in Lines /\ About(script[n], s)
         /\ LinesOf(s) # {} => /\ LastLine(LinesOf(s)) \in LinesOf(s)
                               /\ \A m \in LinesOf(s) : m <= LastLine(LinesOf(s))
<1>1. \A n : n \in LinesOf(s) <=> n \in Lines /\ About(script[n], s)
  BY DEF LinesOf, About
<1>2. Len(script) \in Nat /\ LinesOf(s) \in SUBSET (1..Len(script))
  BY StanzaIs DEF LinesOf
<1> QED BY <1>1, <1>2, LastLineIs

\* One operation says what the last line about the slot says, the last of all.
LEMMA LastOpIsDevice ==
  ASSUME Inv, Finished, NEW s, IsMemberSlot(s),
         LinesOf(s) = {} => \A o \in ops : ~Reaches(o, s),
         NEW last, last = LastLine(LinesOf(s)),
         LinesOf(s) # {} =>
           \E o \in ops : /\ Reaches(o, s) /\ LeftBy(o, s) = IF script[last].no THEN Absent ELSE script[last].val
                          /\ \A p \in ops : Reaches(p, s) => LeftBy(p, s) = LeftBy(o, s) \/ InScriptOrder(p, o)
  PROVE  Get(config, s) = Get(Device, s)
<1>1. /\ (\A o \in ops : ~Reaches(o, s)) => Get(config, s) = Get(router[1], s)
      /\ \A o \in ops :
           Reaches(o, s) /\ (\A p \in ops : Reaches(p, s) => LeftBy(p, s) = LeftBy(o, s) \/ InScriptOrder(p, o))
             => Get(config, s) = LeftBy(o, s)
  BY MembersStay, ReplayIs
<1>2. /\ (\A n \in Lines : ~About(script[n], s)) => Get(Device, s) = Get(router[1], s)
      /\ \A n \in Lines :
           About(script[n], s) /\ (\A m \in Lines : About(script[m], s) => m <= n)
             => Get(Device, s) = IF script[n].no THEN Absent ELSE script[n].val
  BY DeviceMemberLast
<1>3. CASE LinesOf(s) = {}
  <2>1. \A n \in Lines : ~About(script[n], s)
    BY <1>3, LinesOfIs
  <2> QED BY <1>1, <1>2, <1>3, <2>1
<1>4. CASE LinesOf(s) # {}
  <2>1. last \in Lines /\ About(script[last], s) /\ \A m \in Lines : About(script[m], s) => m <= last
    BY <1>4, LinesOfIs
  <2>2. Get(Device, s) = IF script[last].no THEN Absent ELSE script[last].val
    BY <1>2, <2>1
  <2> QED BY <1>1, <1>4, <2>2
<1> QED BY <1>3, <1>4

\* The SETs of two lines of one member stand at one line, in the lines' order.
LEMMA SetsInOrder ==
  ASSUME Inv, NEW n \in Lines, NEW m \in Lines, m < n, script[n].kind \in MemberKinds, Slot(m) = Slot(n), NEW scope
  PROVE  InScriptOrder(MemberSet(scope, Block(m), Member(m)), MemberSet(scope, Block(n), Member(n)))
<1> DEFINE o == MemberSet(scope, Block(m), Member(m))
           p == MemberSet(scope, Block(n), Member(n))
<1>1. script[m].kind = script[n].kind /\ script[m].at = script[n].at /\ script[m].scope = script[n].scope
  BY DEF Slot
<1>2. MemberLine(scope, Member(m)) = MemberLine(scope, Member(n))
  BY <1>1 DEF MemberLine, FirstOfMember, Member
<1>3. \A k : Member(k).source = k
  BY DEF Member
<1>4. o.line = p.line /\ o.place = <<Block(m), m>> /\ p.place = <<Block(n), n>>
  BY <1>2, <1>3, SetsAre
<1>5. /\ Block(m) \in Headers(script[n].scope) /\ m \in Children(Block(m)) /\ Block(m) \in Nat
      /\ Block(n) \in Headers(script[n].scope) /\ n \in Children(Block(n)) /\ Block(n) \in Nat /\ m \in Nat /\ n \in Nat
  <2>1. script[m].kind # "header" /\ script[n].kind # "header"
    BY <1>1 DEF MemberKinds
  <2>2. \A k \in Lines : k \in Nat
    BY StanzaIs
  <2> QED BY <1>1, <2>1, <2>2, BlockIs
<1>6. Block(m) <= Block(n)
  BY <1>5, ChildrenAre
<1> HIDE DEF o, p
<1>7. InScriptOrder(o, p)
  BY <1>4, <1>5, <1>6 DEF InScriptOrder
<1> QED BY <1>7 DEF o, p

\* Members are of the kinds they are looked for.
LEMMA MemberKindsAre ==
  ASSUME Inv, NEW scope, NEW h \in Headers(scope), NEW kinds, NEW m \in MembersOf(h, kinds)
  PROVE  m.kind \in kinds
BY MembersAre DEF Member

\* Networks of the process and of a VRF.
LEMMA InstanceMembers ==
  ASSUME Inv, Finished, NEW s \in {"global", "vrf"} \X {"network"} \X Routes, InScriptMember(s)
  PROVE  Get(config, s) = Get(Device, s)
<1> DEFINE about == {n \in Lines : About(script[n], s)}
           F == [n \in Lines |-> MemberOp(n, s[1], Block(n))]
<1>0. /\ s = <<s[1], s[2], s[3]>> /\ s[1] \in {"global", "vrf"} /\ s[2] = "network" /\ s[3] \in Routes
      /\ IsMemberSlot(s) /\ s[2] \in MemberKinds
  BY DEF IsMemberSlot, MemberKinds
<1>1. \A n \in about : /\ n \in Lines /\ SlotOf(script[n]) = s /\ Slot(n) = s /\ script[n].kind = s[2] /\ script[n].at = s[3]
                       /\ script[n].scope = s[1] /\ script[n].kind # "header"
  BY <1>0 DEF About, SlotOf, Slot
<1>2. \A n \in Lines : Slot(n) = s => n \in about
  BY <1>0 DEF About, Slot
<1>3. \A n \in about : script[n].no => about \subseteq Candidates(s[1])
  <2> SUFFICES ASSUME NEW n \in about, script[n].no
               PROVE  about \subseteq Candidates(s[1])
    OBVIOUS
  <2>1. s[1] = "vrf" => about \subseteq Candidates(s[1])
    BY <1>0, <1>1 DEF InScriptMember, InFirstBlock
  <2>2. s[1] = "global" => about \subseteq Candidates(s[1])
    BY <1>1, CandidatesAre
  <2> QED BY <1>0, <2>1, <2>2
<1>4. \A n \in about : Block(n) \in Headers(s[1]) /\ n \in Children(Block(n)) /\ Block(n) \in Blocks /\ ScopeOf(Block(n)) = s[1]
  <2> SUFFICES ASSUME NEW n \in about
               PROVE  Block(n) \in Headers(s[1]) /\ n \in Children(Block(n)) /\ Block(n) \in Blocks /\ ScopeOf(Block(n)) = s[1]
    OBVIOUS
  <2>1. Block(n) \in Headers(s[1]) /\ n \in Children(Block(n))
    BY <1>1, BlockIs
  <2>2. ScopeOf(Block(n)) = s[1]
    BY <2>1, StanzaIs DEF ScopeOf
  <2>3. Headers("global") = {1}
    BY StanzaIs
  <2> QED BY <1>0, <2>1, <2>2, <2>3 DEF Blocks
<1>5. ASSUME NEW n \in about
      PROVE  F[n] \in ops /\ Reaches(F[n], s) /\ LeftBy(F[n], s) = IF script[n].no THEN Absent ELSE script[n].val
  <2>1. F[n] = MemberOp(n, s[1], Block(n))
    BY <1>1
  <2>2. Reaches(F[n], s) /\ LeftBy(F[n], s) = IF script[n].no THEN Absent ELSE script[n].val
    <3>1. SlotOf(script[n]) = s
      BY <1>1
    <3> DEFINE o == MemberOp(n, s[1], Block(n))
    <3>2. Reaches(o, s) /\ LeftBy(o, s) = IF script[n].no THEN Absent ELSE script[n].val
      BY <3>1, MemberOpIs
    <3> HIDE DEF F, o
    <3> QED BY <2>1, <3>2 DEF o
  <2>3. CASE script[n].no
    <3>1. F[n] = RemovalOf("LIST_REMOVE", n) /\ n \in Negating(Block(n), "network")
      BY <1>0, <1>1, <1>3, <1>4, <2>1, <2>3 DEF MemberOp, Negating
    <3>2. ReachedBy(F[n], s)
      BY <1>1, <1>4, <3>1 DEF ReachedBy
    <3> QED BY <1>0, <2>2, <3>2, ReachedIs
  <2>4. CASE ~script[n].no
    <3>1. F[n] = MemberSet(ScopeOf(Block(n)), Block(n), Member(n))
      BY <1>4, <2>1, <2>4 DEF MemberOp
    <3>2. Member(n) \in MembersOf(Block(n), {"network", "redistribute"})
      BY <1>0, <1>1, <1>4, <2>4, MembersAre
    <3>3. s = <<ScopeOf(Block(n)), Member(n).kind, Member(n).at>>
      BY <1>0, <1>1, <1>4 DEF Member
    <3>4. ReachedBy(F[n], s)
      BY <1>4, <3>1, <3>2, <3>3 DEF ReachedBy
    <3> QED BY <1>0, <2>2, <3>4, ReachedIs
  <2> QED BY <2>2, <2>3, <2>4
<1>6. ASSUME NEW o \in ops, Reaches(o, s)
      PROVE  \E n \in about : o = F[n]
  <2>1. ReachedBy(o, s)
    BY <1>0, <1>6, ReachedIs
  <2>2. CASE \E h \in Blocks : \E m \in MembersOf(h, {"network", "redistribute"}) :
               o = MemberSet(ScopeOf(h), h, m) /\ s = <<ScopeOf(h), m.kind, m.at>>
    <3>1. PICK h \in Blocks : \E m \in MembersOf(h, {"network", "redistribute"}) :
               o = MemberSet(ScopeOf(h), h, m) /\ s = <<ScopeOf(h), m.kind, m.at>>
      BY <2>2
    <3>2. PICK m \in MembersOf(h, {"network", "redistribute"}) :
               o = MemberSet(ScopeOf(h), h, m) /\ s = <<ScopeOf(h), m.kind, m.at>>
      BY <3>1
    <3>3. h \in Headers(ScopeOf(h))
      BY BlocksAre
    <3>4. PICK n \in Children(h) : m = Member(n) /\ ~script[n].no
      BY <3>2, <3>3, MembersAre
    <3>5. n \in Lines /\ script[n].scope = ScopeOf(h) /\ script[n].kind # "header"
      BY <3>3, ChildrenAre
    <3>6. Slot(n) = s /\ ScopeOf(h) = s[1]
      BY <3>2, <3>4, <3>5 DEF Member, Slot
    <3>7. Block(n) = h
      BY <3>3, <3>5, BlockIs
    <3>8. n \in about
      BY <1>2, <3>5, <3>6
    <3>9. F[n] = o
      BY <3>2, <3>4, <3>5, <3>6, <3>7 DEF MemberOp
    <3> QED BY <3>8, <3>9
  <2>3. CASE \E h \in Blocks : \E n \in Negating(h, "network") : o = RemovalOf("LIST_REMOVE", n) /\ s = Slot(n)
    <3>1. PICK h \in Blocks : \E n \in Negating(h, "network") : o = RemovalOf("LIST_REMOVE", n) /\ s = Slot(n)
      BY <2>3
    <3>2. PICK n \in Negating(h, "network") : o = RemovalOf("LIST_REMOVE", n) /\ s = Slot(n)
      BY <3>1
    <3>3. n \in Children(h) /\ script[n].no
      BY DEF Negating
    <3>4. n \in Lines
      BY <3>3, BlocksAre, ChildrenAre
    <3>5. F[n] = o /\ n \in about
      BY <1>2, <3>2, <3>3, <3>4 DEF MemberOp
    <3> QED BY <3>5
  <2>4. ~(\E n \in Metrics : o = MetricSet(n) /\ s = Slot(n))
    BY <1>0 DEF Metrics, Slot
  <2>5. s # <<"global", "bestpath", Process>> /\ s # <<"af", "maximum_paths", Process>>
    BY <1>0
  <2>6. \A kind, at : s # <<"af", kind, at>>
    BY <1>0
  <2>7. \A n \in AfNegations : s # Slot(n)
    BY <1>0, CandidatesAre DEF AfNegations, Slot
  <2> QED BY <2>1, <2>2, <2>3, <2>4, <2>5, <2>6, <2>7 DEF ReachedBy
<1>7. LineOps(F, s)
  <2>1. ASSUME NEW n \in about, \A m \in about : m <= n, NEW m \in about, m < n
        PROVE  LeftBy(F[m], s) = LeftBy(F[n], s) \/ InScriptOrder(F[m], F[n])
    BY <1>0, <1>1, <1>3, <2>1, LinesInOrder
  <2> QED BY <1>5, <1>6, <2>1 DEF LineOps
<1> HIDE DEF F
<1> QED BY <1>0, <1>7, MemberIsDevice

\* What reaches a member of the family.
LEMMA FamilyReached ==
  ASSUME Inv, Finished, NEW s \in {"af"} \X MemberKinds \X Routes, NEW o
  PROVE  o \in ops /\ Reaches(o, s) <=>
           \/ \E object, m : FamilyHolds(object, m) /\ o = MemberSet("af", object, m) /\ s = <<"af", m.kind, m.at>>
           \/ Families # {} /\ \E n \in AfNegations : o = RemovalOf("LIST_REMOVE", n) /\ s = Slot(n)
           \/ \E n \in Redistributions : o = DerivedRemoval(n) /\ s = <<"af", "redistribute", script[n].at>>
<1>0. /\ s = <<s[1], s[2], s[3]>> /\ s[1] = "af" /\ s[2] \in MemberKinds /\ s[3] \in Routes /\ IsMemberSlot(s)
  BY DEF IsMemberSlot, MemberKinds
<1>1. o \in ops /\ Reaches(o, s) <=> ReachedBy(o, s)
  BY <1>0, ReachedIs
<1>2. \A h \in Blocks : \A kind, at : s # <<ScopeOf(h), kind, at>>
  BY <1>0, BlocksAre
<1>3. \A n \in Metrics : s # Slot(n)
  BY <1>0 DEF Metrics, Slot, MemberKinds
<1>4. s # <<"global", "bestpath", Process>> /\ s # <<"af", "maximum_paths", Process>>
  BY <1>0 DEF MemberKinds
<1>5. \A h \in Blocks : \A n \in Negating(h, "network") : s # Slot(n)
  <2> SUFFICES ASSUME NEW h \in Blocks, NEW n \in Negating(h, "network") PROVE s # Slot(n)
    OBVIOUS
  <2>1. n \in Children(h) /\ h \in Headers(ScopeOf(h)) /\ ScopeOf(h) # "af"
    BY BlocksAre DEF Negating
  <2>2. script[n].scope # "af"
    BY <2>1, ChildrenAre
  <2> QED BY <1>0, <2>2 DEF Slot
<1>6. (\E af \in Families : \E m \in af.members : o = MemberSet("af", af.object, m) /\ s = <<"af", m.kind, m.at>>) <=>
        \E object, m : FamilyHolds(object, m) /\ o = MemberSet("af", object, m) /\ s = <<"af", m.kind, m.at>>
  BY DEF FamilyHolds
<1> QED BY <1>1, <1>2, <1>3, <1>4, <1>5, <1>6 DEF ReachedBy

\* Networks of the family.
LEMMA FamilyNetworks ==
  ASSUME Inv, Finished, NEW s \in {"af"} \X {"network"} \X Routes, InScriptMember(s)
  PROVE  Get(config, s) = Get(Device, s)
<1> DEFINE about == {n \in Lines : About(script[n], s)}
           F == [n \in Lines |-> MemberOp(n, s[1], Block(n))]
<1>0. /\ s = <<s[1], s[2], s[3]>> /\ s[1] = "af" /\ s[2] = "network" /\ s[3] \in Routes /\ IsMemberSlot(s)
      /\ s[2] \in MemberKinds /\ s \in {"af"} \X MemberKinds \X Routes
  BY DEF IsMemberSlot, MemberKinds
<1>1. \A n \in about : /\ n \in Lines /\ script[n].kind = s[2] /\ script[n].at = s[3]
                       /\ script[n].scope = "af" /\ script[n].kind # "header"
  BY <1>0 DEF About, MemberKinds
<1>s. \A n \in about : SlotOf(script[n]) = s /\ Slot(n) = s
  BY <1>0, <1>1 DEF SlotOf, Slot
<1>2. \A n \in Lines : Slot(n) = s => n \in about
  BY <1>0 DEF About, Slot
<1>3. \A n \in about : script[n].no => about \subseteq Candidates(s[1])
  BY <1>0, <1>1 DEF InScriptMember, InFirstBlock
<1>4. \A n \in about : Block(n) \in Headers("af") /\ n \in Children(Block(n))
  BY <1>1, BlockIs
<1>5. PICK carries \in BOOLEAN : \E carrier \in Nat : FamilyMembers(carries, carrier)
  BY FamiliesAre
<1>6. PICK carrier \in Nat : FamilyMembers(carries, carrier)
  BY <1>5
<1>7. \A object, m : FamilyHolds(object, m) /\ m.kind = s[2] <=>
        object \in Headers("af") /\ m \in MembersOf(object, MemberKinds) /\ m.kind = s[2]
  <2>1. ASSUME NEW m \in MembersOf(1, {"aggregate"}), m.kind = s[2] PROVE FALSE
    <3>1. 1 \in Headers("global")
      BY StanzaIs
    <3>2. m.kind \in {"aggregate"}
      BY <3>1, MemberKindsAre
    <3> QED BY <1>0, <2>1, <3>2
  <2> QED BY <1>6, <2>1 DEF FamilyMembers
<1>8. ASSUME NEW n \in about
      PROVE  F[n] \in ops /\ Reaches(F[n], s) /\ LeftBy(F[n], s) = IF script[n].no THEN Absent ELSE script[n].val
  <2>1. F[n] = MemberOp(n, s[1], Block(n))
    BY <1>1
  <2>2. Reaches(F[n], s) /\ LeftBy(F[n], s) = IF script[n].no THEN Absent ELSE script[n].val
    <3>1. SlotOf(script[n]) = s
      BY <1>s
    <3> DEFINE o == MemberOp(n, s[1], Block(n))
    <3>2. Reaches(o, s) /\ LeftBy(o, s) = IF script[n].no THEN Absent ELSE script[n].val
      BY <3>1, MemberOpIs
    <3> HIDE DEF F, o
    <3> QED BY <2>1, <3>2 DEF o
  <2>3. CASE script[n].no
    <3>1. F[n] = RemovalOf("LIST_REMOVE", n)
      BY <2>1, <2>3 DEF MemberOp
    <3>2. n \in AfNegations
      BY <1>0, <1>1, <1>3, <2>3 DEF AfNegations, MemberKinds
    <3>3. Families # {}
      BY <1>4, FamiliesAre
    <3> QED BY <1>0, <1>s, <2>2, <3>1, <3>2, <3>3, FamilyReached
  <2>4. CASE ~script[n].no
    <3>1. F[n] = MemberSet("af", Block(n), Member(n))
      BY <1>0, <2>1, <2>4 DEF MemberOp
    <3>2. Member(n) \in MembersOf(Block(n), MemberKinds)
      BY <1>0, <1>1, <1>4, <2>4, MembersAre
    <3>3. s = <<"af", Member(n).kind, Member(n).at>> /\ Member(n).kind = s[2]
      BY <1>0, <1>1 DEF Member
    <3>4. FamilyHolds(Block(n), Member(n))
      BY <1>4, <1>7, <3>2, <3>3
    <3> QED BY <1>0, <2>2, <3>1, <3>3, <3>4, FamilyReached
  <2> QED BY <2>2, <2>3, <2>4
<1>9. ASSUME NEW o \in ops, Reaches(o, s)
      PROVE  \E n \in about : o = F[n]
  <2>1. \/ \E object, m : FamilyHolds(object, m) /\ o = MemberSet("af", object, m) /\ s = <<"af", m.kind, m.at>>
        \/ Families # {} /\ \E n \in AfNegations : o = RemovalOf("LIST_REMOVE", n) /\ s = Slot(n)
    BY <1>0, <1>9, FamilyReached
  <2>2. CASE \E object, m : FamilyHolds(object, m) /\ o = MemberSet("af", object, m) /\ s = <<"af", m.kind, m.at>>
    <3>1. PICK h, m : FamilyHolds(h, m) /\ o = MemberSet("af", h, m) /\ s = <<"af", m.kind, m.at>>
      BY <2>2
    <3>2. h \in Headers("af") /\ m \in MembersOf(h, MemberKinds)
      BY <1>7, <3>1
    <3>3. PICK n \in Children(h) : m = Member(n) /\ ~script[n].no
      BY <3>2, MembersAre
    <3>4. n \in Lines /\ script[n].scope = "af" /\ script[n].kind # "header"
      BY <3>2, ChildrenAre
    <3>5. Slot(n) = s
      BY <3>1, <3>3, <3>4 DEF Member, Slot
    <3>6. Block(n) = h
      BY <3>2, <3>4, BlockIs
    <3>7. n \in about
      BY <1>2, <3>4, <3>5
    <3>8. F[n] = o
      BY <1>0, <3>1, <3>3, <3>4, <3>6 DEF MemberOp
    <3> QED BY <3>7, <3>8
  <2>3. CASE \E n \in AfNegations : o = RemovalOf("LIST_REMOVE", n) /\ s = Slot(n)
    <3>1. PICK n \in AfNegations : o = RemovalOf("LIST_REMOVE", n) /\ s = Slot(n)
      BY <2>3
    <3>2. n \in Lines /\ script[n].no
      BY CandidatesAre DEF AfNegations
    <3>3. F[n] = o /\ n \in about
      BY <1>2, <3>1, <3>2 DEF MemberOp
    <3> QED BY <3>3
  <2> QED BY <2>1, <2>2, <2>3
<1>10. LineOps(F, s)
  <2>1. ASSUME NEW n \in about, \A m \in about : m <= n, NEW m \in about, m < n
        PROVE  LeftBy(F[m], s) = LeftBy(F[n], s) \/ InScriptOrder(F[m], F[n])
    BY <1>0, <1>1, <1>3, <2>1, LinesInOrder
  <2> QED BY <1>8, <1>9, <2>1 DEF LineOps
<1> HIDE DEF F
<1> QED BY <1>0, <1>10, MemberIsDevice

\* The operations on a redistribution: in its scope one SET of each line that
\* states it, and in the family what any negation of it derives.
LEMMA RedistributionReached ==
  ASSUME Inv, Finished, NEW s \in {"global", "af", "vrf"} \X {"redistribute"} \X Routes, NEW o
  PROVE  o \in ops /\ Reaches(o, s) <=>
           \/ \E n \in LinesOf(s) : ~script[n].no /\ o = MemberSet(s[1], Block(n), Member(n))
           \/ s[1] = "af" /\ \E n \in Redistributions : o = DerivedRemoval(n) /\ script[n].at = s[3]
<1>0. /\ s = <<s[1], s[2], s[3]>> /\ s[1] \in {"global", "af", "vrf"} /\ s[2] = "redistribute" /\ s[3] \in Routes
      /\ IsMemberSlot(s)
  BY DEF IsMemberSlot, MemberKinds
<1>1. o \in ops /\ Reaches(o, s) <=> ReachedBy(o, s)
  BY <1>0, ReachedIs
<1>2. \A n : n \in LinesOf(s) <=> n \in Lines /\ Slot(n) = s
  BY <1>0 DEF LinesOf, Slot
<1>3. /\ \A n : Member(n).kind = script[n].kind /\ Member(n).at = script[n].at
      /\ \A n : Slot(n) = <<script[n].scope, script[n].kind, script[n].at>>
  BY DEF Member, Slot
<1>4. ASSUME NEW scope, NEW h \in Headers(scope), NEW kinds, "redistribute" \in kinds
      PROVE  \A m : m \in MembersOf(h, kinds) /\ s = <<scope, m.kind, m.at>> <=>
                      \E n \in LinesOf(s) : ~script[n].no /\ m = Member(n) /\ h = Block(n) /\ scope = s[1]
  <2>1. ASSUME NEW m \in MembersOf(h, kinds), s = <<scope, m.kind, m.at>>
        PROVE  \E n \in LinesOf(s) : ~script[n].no /\ m = Member(n) /\ h = Block(n) /\ scope = s[1]
    <3>1. PICK n \in Children(h) : m = Member(n) /\ ~script[n].no
      BY MembersAre
    <3>2. n \in Lines /\ script[n].scope = scope /\ script[n].kind # "header"
      BY ChildrenAre
    <3>3. h = Block(n)
      BY <3>2, BlockIs
    <3> QED BY <1>2, <1>3, <2>1, <3>1, <3>2, <3>3
  <2>2. ASSUME NEW n \in LinesOf(s), ~script[n].no, h = Block(n), scope = s[1]
        PROVE  Member(n) \in MembersOf(h, kinds) /\ s = <<scope, Member(n).kind, Member(n).at>>
    <3>1. n \in Lines /\ Slot(n) = s /\ script[n].kind = "redistribute"
      BY <1>0, <1>2, <1>3
    <3>2. n \in Children(h)
      BY <2>2, <3>1, BlockIs
    <3> QED BY <1>3, <1>4, <2>2, <3>1, <3>2, MembersAre
  <2> QED BY <2>1, <2>2
<1>5. ASSUME NEW n \in LinesOf(s)
      PROVE  Block(n) \in Headers(s[1])
  <2>1. n \in Lines /\ script[n].scope = s[1] /\ script[n].kind # "header"
    BY <1>0, <1>2, <1>3
  <2> QED BY <2>1, BlockIs
<1>6. CASE s[1] \in {"global", "vrf"}
  <2>1. (\E h \in Blocks : \E m \in MembersOf(h, {"network", "redistribute"}) :
           o = MemberSet(ScopeOf(h), h, m) /\ s = <<ScopeOf(h), m.kind, m.at>>)
          <=> \E n \in LinesOf(s) : ~script[n].no /\ o = MemberSet(s[1], Block(n), Member(n))
    <3>1. \A h \in Blocks : h \in Headers(ScopeOf(h))
      BY BlocksAre
    <3>2. ASSUME NEW h \in Blocks
          PROVE  \A m : m \in MembersOf(h, {"network", "redistribute"}) /\ s = <<ScopeOf(h), m.kind, m.at>> <=>
                      \E n \in LinesOf(s) : ~script[n].no /\ m = Member(n) /\ h = Block(n) /\ ScopeOf(h) = s[1]
      BY <1>4, <3>1
    <3>3. \A n \in LinesOf(s) : Block(n) \in Blocks /\ ScopeOf(Block(n)) = s[1]
      <4> SUFFICES ASSUME NEW n \in LinesOf(s) PROVE Block(n) \in Blocks /\ ScopeOf(Block(n)) = s[1]
        OBVIOUS
      <4>1. ScopeOf(Block(n)) = s[1]
        BY <1>5, StanzaIs DEF ScopeOf
      <4>2. Headers("global") = {1}
        BY StanzaIs
      <4> QED BY <1>5, <1>6, <4>1, <4>2 DEF Blocks
    <3>4. ASSUME NEW h \in Blocks, NEW m \in MembersOf(h, {"network", "redistribute"}),
                 o = MemberSet(ScopeOf(h), h, m), s = <<ScopeOf(h), m.kind, m.at>>
          PROVE  \E n \in LinesOf(s) : ~script[n].no /\ o = MemberSet(s[1], Block(n), Member(n))
      BY <3>2, <3>4
    <3>5. ASSUME NEW n \in LinesOf(s), ~script[n].no, o = MemberSet(s[1], Block(n), Member(n))
          PROVE  \E h \in Blocks : \E m \in MembersOf(h, {"network", "redistribute"}) :
                   o = MemberSet(ScopeOf(h), h, m) /\ s = <<ScopeOf(h), m.kind, m.at>>
      BY <3>2, <3>3, <3>5
    <3> QED BY <3>4, <3>5
  <2>2. \A kind, at : s # <<"af", kind, at>>
    BY <1>0, <1>6
  <2>3. s # <<"global", "bestpath", Process>> /\ \A n \in Metrics : s # Slot(n)
    BY <1>0 DEF Metrics, Slot
  <2>4. /\ \A n \in AfNegations : s # Slot(n)
        /\ \A h \in Blocks : \A n \in Negating(h, "network") : s # Slot(n)
    BY <1>0 DEF AfNegations, Negating, Slot
  <2>5. ReachedBy(o, s) <=>
          \E h \in Blocks : \E m \in MembersOf(h, {"network", "redistribute"}) :
             o = MemberSet(ScopeOf(h), h, m) /\ s = <<ScopeOf(h), m.kind, m.at>>
    BY <2>2, <2>3, <2>4 DEF ReachedBy
  <2> QED BY <1>1, <1>6, <2>1, <2>5
<1>7. CASE s[1] = "af"
  <2>0. s \in {"af"} \X MemberKinds \X Routes
    BY <1>0, <1>7 DEF MemberKinds
  <2>1. PICK carries, carrier : FamilyMembers(carries, carrier)
    BY FamiliesAre
  <2>2. ASSUME NEW h, NEW m, m.kind = "redistribute"
        PROVE  FamilyHolds(h, m) <=> h \in Headers("af") /\ m \in MembersOf(h, MemberKinds)
    <3>1. m \notin MembersOf(1, {"aggregate"})
      <4>1. 1 \in Headers("global")
        BY StanzaIs
      <4> QED BY <2>2, <4>1, MemberKindsAre
    <3> QED BY <2>1, <3>1 DEF FamilyMembers
  <2>3. ASSUME NEW h \in Headers("af")
        PROVE  \A m : m \in MembersOf(h, MemberKinds) /\ s = <<"af", m.kind, m.at>> <=>
                        \E n \in LinesOf(s) : ~script[n].no /\ m = Member(n) /\ h = Block(n) /\ "af" = s[1]
    BY <1>4 DEF MemberKinds
  <2>4. (\E h, m : FamilyHolds(h, m) /\ o = MemberSet("af", h, m) /\ s = <<"af", m.kind, m.at>>)
          <=> \E n \in LinesOf(s) : ~script[n].no /\ o = MemberSet(s[1], Block(n), Member(n))
    <3>1. ASSUME NEW h, NEW m, FamilyHolds(h, m), o = MemberSet("af", h, m), s = <<"af", m.kind, m.at>>
          PROVE  \E n \in LinesOf(s) : ~script[n].no /\ o = MemberSet(s[1], Block(n), Member(n))
      <4>1. m.kind = "redistribute"
        BY <1>0, <3>1
      <4>2. h \in Headers("af") /\ m \in MembersOf(h, MemberKinds)
        BY <2>2, <3>1, <4>1
      <4> QED BY <2>3, <3>1, <4>2
    <3>2. ASSUME NEW n \in LinesOf(s), ~script[n].no, o = MemberSet(s[1], Block(n), Member(n))
          PROVE  \E h, m : FamilyHolds(h, m) /\ o = MemberSet("af", h, m) /\ s = <<"af", m.kind, m.at>>
      <4>1. Member(n) \in MembersOf(Block(n), MemberKinds) /\ s = <<"af", Member(n).kind, Member(n).at>>
        BY <1>5, <1>7, <2>3, <3>2
      <4>2. Member(n).kind = "redistribute"
        BY <1>0, <4>1
      <4>3. FamilyHolds(Block(n), Member(n))
        BY <1>5, <1>7, <2>2, <4>1, <4>2
      <4> QED BY <1>7, <3>2, <4>1, <4>3
    <3> QED BY <3>1, <3>2
  <2>5. \A n \in AfNegations : s # Slot(n)
    BY <1>0 DEF AfNegations, Slot
  <2>6. \A n : s = <<"af", "redistribute", script[n].at>> <=> script[n].at = s[3]
    BY <1>0, <1>7
  <2> QED BY <2>0, <1>7, <2>4, <2>5, <2>6, FamilyReached
<1> QED BY <1>0, <1>6, <1>7

\* Redistribution: withdrawn last in the family, or never and stated last.
LEMMA Redistributed ==
  ASSUME Inv, Finished, NEW s \in {"global", "af", "vrf"} \X {"redistribute"} \X Routes, InScriptMember(s)
  PROVE  Get(config, s) = Get(Device, s)
<1> DEFINE L == LinesOf(s)
           last == LastLine(L)
<1>0. /\ s = <<s[1], s[2], s[3]>> /\ s[2] = "redistribute" /\ s[3] \in Routes /\ IsMemberSlot(s)
  BY DEF IsMemberSlot, MemberKinds
<1>1. L \in SUBSET Lines /\ (L # {} => last \in L /\ \A m \in L : m <= last) /\ \A n \in L : Slot(n) = s /\ script[n].kind = s[2]
  <2>1. \A n \in L : Slot(n) = s /\ script[n].kind = s[2]
    BY <1>0 DEF LinesOf, Slot
  <2> QED BY <2>1, LinesOfIs
<1>2. EndsWithdrawn(s) <=> L # {} /\ script[last].no
  BY DEF EndsWithdrawn
<1>3. IF s[1] = "af"
      THEN EndsWithdrawn(s) \/ \A n \in Redistributions : script[n].at # s[3]
      ELSE ~EndsWithdrawn(s)
  BY <1>0 DEF InScriptMember, RemovedElsewhere, Redistributions
<1>4. \A n \in Lines : n \in Nat /\ n # 0 /\ n <= Len(script)
  BY StanzaIs
<1>5. \A n \in Redistributions : n \in Lines
  BY DEF Redistributions
<1>n. \A n \in L : script[n].no => n \in Redistributions /\ script[n].at = s[3]
  BY <1>0, <1>1 DEF Redistributions, Slot
<1> HIDE DEF L, last
<1>6. ASSUME L = {}, NEW o \in ops
      PROVE  ~Reaches(o, s)
  <2>1. ~EndsWithdrawn(s)
    BY <1>2, <1>6
  <2>2. s[1] = "af" => \A n \in Redistributions : script[n].at # s[3]
    BY <1>3, <2>1
  <2> QED BY <1>6, <2>2, RedistributionReached DEF L
<1>7. ASSUME L # {}
      PROVE  \E o \in ops : /\ Reaches(o, s) /\ LeftBy(o, s) = IF script[last].no THEN Absent ELSE script[last].val
                            /\ \A p \in ops : Reaches(p, s) => LeftBy(p, s) = LeftBy(o, s) \/ InScriptOrder(p, o)
  <2>1. CASE script[last].no
    <3> DEFINE o == DerivedRemoval(last)
    <3>1. s[1] = "af" /\ last \in Redistributions /\ script[last].at = s[3]
      BY <1>1, <1>2, <1>3, <1>7, <1>n, <2>1
    <3>2. o \in ops /\ Reaches(o, s)
      BY <3>1, RedistributionReached
    <3>3. \A n : LeftBy(DerivedRemoval(n), s) = Absent /\ DerivedRemoval(n).line = 0 /\ DerivedRemoval(n).place = <<Len(script) + 1, n>>
      BY SetsAre
    <3>4. ASSUME NEW p \in ops, Reaches(p, s)
          PROVE  LeftBy(p, s) = LeftBy(o, s) \/ InScriptOrder(p, o)
      <4>1. CASE \E n \in Redistributions : p = DerivedRemoval(n)
        BY <3>3, <4>1
      <4>2. CASE \E n \in L : ~script[n].no /\ p = MemberSet(s[1], Block(n), Member(n))
        <5>1. PICK n \in L : ~script[n].no /\ p = MemberSet(s[1], Block(n), Member(n))
          BY <4>2
        <5>2. p.line = MemberLine(s[1], Member(n)) /\ p.place = <<Block(n), n>>
          BY <5>1, SetsAre DEF Member
        <5>3. MemberLine(s[1], Member(n)) \in Nat
          <6>1. Len(script) \in Nat /\ Positives(s[1], {"redistribute"}, s[3]) \in SUBSET (1..Len(script))
            BY StanzaIs, PositivesAre
          <6>2. FirstLine(Positives(s[1], {"redistribute"}, s[3])) \in Nat
            BY <6>1, FirstLineIs
          <6>3. MemberLine(s[1], Member(n)) = FirstLine(Positives(s[1], {"redistribute"}, s[3]))
            BY <1>0, <1>1 DEF MemberLine, FirstOfMember, Member, Slot
          <6> QED BY <6>2, <6>3
        <5>4. Block(n) \in Lines
          <6>1. n \in Lines /\ script[n].kind # "header"
            BY <1>0, <1>1
          <6> QED BY <6>1, BlockIs
        <5>5. Block(n) \in Nat /\ Block(n) < Len(script) + 1 /\ Len(script) \in Nat
          BY <1>4, <5>4, StanzaIs
        <5> DEFINE q == DerivedRemoval(last)
        <5>6. q.line = 0 /\ q.place[1] = Len(script) + 1
          BY <3>3
        <5>7. p.place[1] = Block(n)
          BY <5>2
        <5> HIDE DEF q, o
        <5>8. InScriptOrder(p, q)
          BY <5>2, <5>3, <5>5, <5>6, <5>7 DEF InScriptOrder
        <5> QED BY <5>8 DEF q, o
      <4> QED BY <3>4, <4>1, <4>2, RedistributionReached DEF L
    <3>5. LeftBy(o, s) = IF script[last].no THEN Absent ELSE script[last].val
      BY <2>1, <3>3
    <3> HIDE DEF o
    <3> QED BY <3>2, <3>4, <3>5
  <2>2. CASE ~script[last].no
    <3> DEFINE o == MemberSet(s[1], Block(last), Member(last))
    <3>1. \A p \in ops : Reaches(p, s) => \E n \in L : ~script[n].no /\ p = MemberSet(s[1], Block(n), Member(n))
      <4>1. s[1] = "af" => \A n \in Redistributions : script[n].at # s[3]
        BY <1>2, <1>3, <2>2
      <4> QED BY <4>1, RedistributionReached DEF L
    <3>2. o \in ops /\ Reaches(o, s)
      BY <1>1, <1>7, <2>2, RedistributionReached DEF L
    <3>3. LeftBy(o, s) = script[last].val
      BY <3>2, SetsAre DEF Member
    <3>4. ASSUME NEW p \in ops, Reaches(p, s)
          PROVE  LeftBy(p, s) = LeftBy(o, s) \/ InScriptOrder(p, o)
      <4>1. PICK n \in L : ~script[n].no /\ p = MemberSet(s[1], Block(n), Member(n))
        BY <3>1, <3>4
      <4>2. CASE n = last
        BY <4>1, <4>2
      <4>3. CASE n < last
        <5>1. last \in Lines /\ n \in Lines /\ Slot(n) = Slot(last) /\ script[last].kind \in MemberKinds
          BY <1>0, <1>1, <1>7 DEF MemberKinds
        <5>2. InScriptOrder(p, o)
          BY <4>1, <4>3, <5>1, SetsInOrder
        <5> QED BY <5>2
      <4>4. n <= last /\ n \in Nat /\ last \in Nat
        BY <1>1, <1>4, <1>7
      <4> QED BY <4>2, <4>3, <4>4
    <3> HIDE DEF o
    <3> QED BY <2>2, <3>2, <3>3, <3>4
  <2> QED BY <2>1, <2>2
<1>8. LinesOf(s) = {} => \A o \in ops : ~Reaches(o, s)
  BY <1>6 DEF L
<1>9. LinesOf(s) # {} =>
        \E o \in ops : /\ Reaches(o, s) /\ LeftBy(o, s) = IF script[last].no THEN Absent ELSE script[last].val
                       /\ \A p \in ops : Reaches(p, s) => LeftBy(p, s) = LeftBy(o, s) \/ InScriptOrder(p, o)
  BY <1>7 DEF L
<1>10. last = LastLine(LinesOf(s))
  BY DEF last, L
<1> HIDE DEF last
<1> QED BY <1>0, <1>8, <1>9, <1>10, LastOpIsDevice

\* The operations on an aggregate: the SETs of the lines in the family, those
\* of the process where a family carries them, and the removals of the first
\* block of the family.
AggregateBlock(n, carrier) == IF script[n].scope = "af" THEN Block(n) ELSE carrier
AggregateSet(n, carrier) == MemberSet("af", AggregateBlock(n, carrier), Member(n))

LEMMA AggregateReached ==
  ASSUME Inv, Finished, NEW s \in {"af"} \X {"aggregate"} \X Routes, NEW carries, NEW carrier, FamilyMembers(carries, carrier),
         NEW o
  PROVE  o \in ops /\ Reaches(o, s) <=>
           \/ \E n \in LinesOf(s) : /\ ~script[n].no /\ (script[n].scope = "af" \/ carries)
                                    /\ o = AggregateSet(n, carrier)
           \/ \E n \in LinesOf(s) : script[n].no /\ n \in Candidates("af") /\ o = RemovalOf("LIST_REMOVE", n)
<1>0. /\ s = <<s[1], s[2], s[3]>> /\ s[1] = "af" /\ s[2] = "aggregate" /\ s[3] \in Routes
      /\ s \in {"af"} \X MemberKinds \X Routes
  BY DEF MemberKinds
<1>1. \A n : n \in LinesOf(s) <=> n \in Lines /\ script[n].kind = "aggregate" /\ script[n].at = s[3]
  BY <1>0 DEF LinesOf
<1>2. /\ \A n : Member(n).kind = script[n].kind /\ Member(n).at = script[n].at
      /\ \A n : Slot(n) = <<script[n].scope, script[n].kind, script[n].at>>
  BY DEF Member, Slot
<1>3. \A n \in LinesOf(s) : script[n].scope \in {"af", "global"} /\ script[n].kind # "header"
  <2> SUFFICES ASSUME NEW n \in LinesOf(s) PROVE script[n].scope \in {"af", "global"} /\ script[n].kind # "header"
    OBVIOUS
  <2>1. script[n] \in Line /\ Belongs(script[n]) /\ script[n].kind = "aggregate"
    BY <1>1, StanzaIs
  <2>2. script[n].scope # "vrf"
    BY <2>1 DEF Belongs
  <2> QED BY <2>1, <2>2 DEF Line
<1>h. 1 \in Headers("global")
  BY StanzaIs
<1>4. ASSUME NEW object, NEW m, FamilyHolds(object, m), s = <<"af", m.kind, m.at>>, o = MemberSet("af", object, m)
      PROVE  \E n \in LinesOf(s) : ~script[n].no /\ (script[n].scope = "af" \/ carries) /\ o = AggregateSet(n, carrier)
  <2>1. m.kind = "aggregate" /\ m.at = s[3]
    BY <1>0, <1>4
  <2>2. CASE object \in Headers("af") /\ m \in MembersOf(object, MemberKinds)
    <3>1. PICK n \in Children(object) : m = Member(n) /\ ~script[n].no
      BY <2>2, MembersAre
    <3>2. n \in Lines /\ script[n].scope = "af" /\ script[n].kind # "header"
      BY <2>2, <3>1, ChildrenAre
    <3>3. Block(n) = object
      BY <2>2, <3>2, BlockIs
    <3>4. n \in LinesOf(s)
      BY <1>1, <1>2, <2>1, <3>1, <3>2
    <3> QED BY <1>4, <3>1, <3>2, <3>3, <3>4 DEF AggregateSet, AggregateBlock
  <2>3. CASE carries /\ object = carrier /\ m \in MembersOf(1, {"aggregate"})
    <3>1. PICK n \in Children(1) : m = Member(n) /\ ~script[n].no
      BY <1>h, <2>3, MembersAre
    <3>2. n \in Lines /\ script[n].scope = "global"
      BY <1>h, <3>1, ChildrenAre
    <3>3. n \in LinesOf(s)
      BY <1>1, <1>2, <2>1, <3>1, <3>2
    <3> QED BY <1>4, <2>3, <3>1, <3>2, <3>3 DEF AggregateSet, AggregateBlock
  <2> QED BY <1>4, <2>2, <2>3 DEF FamilyMembers
<1>5. ASSUME NEW n \in LinesOf(s), ~script[n].no, script[n].scope = "af" \/ carries, o = AggregateSet(n, carrier)
      PROVE  \E object, m : FamilyHolds(object, m) /\ o = MemberSet("af", object, m) /\ s = <<"af", m.kind, m.at>>
  <2>1. s = <<"af", Member(n).kind, Member(n).at>>
    BY <1>0, <1>1, <1>2
  <2>2. CASE script[n].scope = "af"
    <3>1. Block(n) \in Headers("af") /\ n \in Children(Block(n))
      BY <1>1, <1>3, <2>2, BlockIs
    <3>2. Member(n) \in MembersOf(Block(n), MemberKinds)
      BY <1>1, <1>5, <3>1, MembersAre DEF MemberKinds
    <3>3. FamilyHolds(Block(n), Member(n))
      BY <3>1, <3>2 DEF FamilyMembers
    <3> QED BY <1>5, <2>1, <2>2, <3>3 DEF AggregateSet, AggregateBlock
  <2>3. CASE script[n].scope # "af"
    <3>1. script[n].scope = "global" /\ n \in Children(1) /\ carries
      BY <1>1, <1>3, <1>5, <2>3, ChildrenAre
    <3>2. Member(n) \in MembersOf(1, {"aggregate"})
      BY <1>1, <1>5, <1>h, <3>1, MembersAre
    <3>3. FamilyHolds(carrier, Member(n))
      BY <3>1, <3>2 DEF FamilyMembers
    <3> QED BY <1>5, <2>1, <2>3, <3>3 DEF AggregateSet, AggregateBlock
  <2> QED BY <2>2, <2>3
<1>6. (Families # {} /\ \E n \in AfNegations : o = RemovalOf("LIST_REMOVE", n) /\ s = Slot(n))
        <=> \E n \in LinesOf(s) : script[n].no /\ n \in Candidates("af") /\ o = RemovalOf("LIST_REMOVE", n)
  <2>1. \A n : n \in AfNegations /\ s = Slot(n) <=> n \in LinesOf(s) /\ script[n].no /\ n \in Candidates("af")
    <3>1. \A n \in Candidates("af") : n \in Lines /\ script[n].scope = "af"
      BY CandidatesAre
    <3> QED BY <1>0, <1>1, <1>2, <3>1 DEF AfNegations
  <2>2. Candidates("af") # {} => Families # {}
    <3>1. Candidates("af") # {} => Headers("af") # {}
      BY DEF Candidates
    <3> QED BY <3>1, FamiliesAre
  <2> QED BY <2>1, <2>2
<1>7. \A at : s # <<"af", "redistribute", at>>
  BY <1>0
<1> QED BY <1>0, <1>4, <1>5, <1>6, <1>7, FamilyReached

\* Aggregates, of the process or of the family.
LEMMA Aggregated ==
  ASSUME Inv, Finished, NEW s \in {"af"} \X {"aggregate"} \X Routes, InScriptMember(s)
  PROVE  Get(config, s) = Get(Device, s)
<1> DEFINE L == LinesOf(s)
           last == LastLine(L)
           P == Positives("af", {"aggregate"}, s[3])
<1>0. s = <<s[1], s[2], s[3]>> /\ s[1] = "af" /\ s[2] = "aggregate" /\ s[3] \in Routes /\ IsMemberSlot(s)
  BY DEF IsMemberSlot, MemberKinds
<1>1. /\ L \in SUBSET Lines /\ (L # {} => last \in L /\ \A m \in L : m <= last)
      /\ \A n : n \in L <=> n \in Lines /\ script[n].kind = "aggregate" /\ script[n].at = s[3]
  <2>1. \A n : n \in L <=> n \in Lines /\ script[n].kind = "aggregate" /\ script[n].at = s[3]
    BY <1>0 DEF LinesOf
  <2> QED BY <2>1, LinesOfIs
<1>2. \A n \in Lines : n \in Nat /\ n # 0
  BY StanzaIs
<1>3. L # {} =>
        IF script[last].scope = "global"
        THEN ~script[last].no /\ \A n \in Lines : script[n].kind = "aggregate" /\ script[n].scope = "af" => script[n].no
        ELSE script[last].no => \A n \in L : script[n].scope = "global" => script[n].no
  BY <1>0 DEF InScriptMember, AggregateMisplaced
<1>4. (\E n \in L : script[n].scope = "af" /\ script[n].no) => \A n \in L : script[n].scope = "af" => n \in Candidates("af")
  <2>1. InFirstBlock(s)
    BY <1>0 DEF InScriptMember
  <2> DEFINE about == {n \in Lines : script[n].kind # "header" /\ script[n].scope = s[1] /\ script[n].at = s[3]}
  <2>2. (\E n \in about : script[n].no) => about \subseteq Candidates("af")
    BY <1>0, <2>1 DEF InFirstBlock
  <2>3. \A n \in L : script[n].scope = "af" => n \in about
    BY <1>0, <1>1
  <2> HIDE DEF about
  <2> QED BY <2>2, <2>3
<1>5. PICK carries \in BOOLEAN : \E carrier \in Nat :
              /\ FamilyMembers(carries, carrier)
              /\ (\A h \in Headers("af") : Stating(h, "aggregate") = {}) => carries
              /\ carries => \A h \in Headers("af") : Stating(h, "aggregate") # {} => carrier < h
  BY FamiliesAre
<1>6. PICK carrier \in Nat :
              /\ FamilyMembers(carries, carrier)
              /\ (\A h \in Headers("af") : Stating(h, "aggregate") = {}) => carries
              /\ carries => \A h \in Headers("af") : Stating(h, "aggregate") # {} => carrier < h
  BY <1>5
<1>7. Len(script) \in Nat /\ P \in SUBSET (1..Len(script)) /\ LastLine(P) \in Nat /\ FirstLine(P) \in Nat
  <2>1. Len(script) \in Nat /\ P \in SUBSET (1..Len(script))
    BY StanzaIs, PositivesAre
  <2> QED BY <2>1, LastLineIs, FirstLineIs
<1>8. \A n : n \in P <=> n \in L /\ n \in Candidates("af") /\ ~script[n].no
  <2>1. \A n \in Candidates("af") : n \in Lines
    BY CandidatesAre
  <2> QED BY <1>1, <2>1, PositivesAre
<1>9. \A n \in L : script[n].scope \in {"af", "global"} /\ (script[n].scope = "af" => Block(n) \in Headers("af") /\ n \in Children(Block(n)))
  <2> SUFFICES ASSUME NEW n \in L
               PROVE  script[n].scope \in {"af", "global"} /\ (script[n].scope = "af" => Block(n) \in Headers("af") /\ n \in Children(Block(n)))
    OBVIOUS
  <2>1. n \in Lines /\ script[n] \in Line /\ Belongs(script[n]) /\ script[n].kind = "aggregate"
    BY <1>1, StanzaIs
  <2>2. script[n].scope # "vrf"
    BY <2>1 DEF Belongs
  <2> QED BY <2>1, <2>2, BlockIs DEF Line
<1>10. ASSUME NEW n \in L, ~script[n].no
       PROVE  LET o == AggregateSet(n, carrier)
              IN  /\ LeftBy(o, s) = script[n].val /\ o.line = LastLine(P)
                  /\ o.place = <<AggregateBlock(n, carrier), n>>
  <2> DEFINE m == Member(n)
             o == MemberSet("af", AggregateBlock(n, carrier), m)
  <2>1. m.kind = "aggregate" /\ m.at = s[3] /\ m.val = script[n].val /\ m.source = n
    BY <1>1 DEF Member
  <2> HIDE DEF m
  <2>2. s = <<"af", m.kind, m.at>>
    BY <1>0, <2>1
  <2>3. LeftBy(o, s) = m.val /\ o.line = MemberLine("af", m) /\ o.place = <<AggregateBlock(n, carrier), m.source>>
    BY <2>2, SetsAre
  <2>4. MemberLine("af", m) = LastLine(P)
    BY <2>1 DEF MemberLine
  <2> HIDE DEF o, P
  <2> QED BY <2>1, <2>3, <2>4 DEF AggregateSet, o, m
<1>11. \A n : LeftBy(RemovalOf("LIST_REMOVE", n), s) = Absent /\ RemovalOf("LIST_REMOVE", n).line = n
  BY SetsAre
<1>12. ASSUME NEW o
       PROVE  o \in ops /\ Reaches(o, s) <=>
           \/ \E n \in L : ~script[n].no /\ (script[n].scope = "af" \/ carries) /\ o = AggregateSet(n, carrier)
           \/ \E n \in L : script[n].no /\ n \in Candidates("af") /\ o = RemovalOf("LIST_REMOVE", n)
  BY <1>6, AggregateReached
<1>13. \A n \in Candidates("af") : script[n].scope = "af"
  BY CandidatesAre
<1>x. last = LastLine(LinesOf(s))
  OBVIOUS
<1>y. L = LinesOf(s)
  OBVIOUS
<1> HIDE DEF L, last, P
<1>14. ASSUME L # {}
       PROVE  \E o \in ops : /\ Reaches(o, s) /\ LeftBy(o, s) = IF script[last].no THEN Absent ELSE script[last].val
                             /\ \A p \in ops : Reaches(p, s) => LeftBy(p, s) = LeftBy(o, s) \/ InScriptOrder(p, o)
  <2>0. last \in L /\ last \in Nat /\ last # 0 /\ \A m \in L : m <= last /\ m \in Nat /\ m # 0
    BY <1>1, <1>2, <1>14
  <2>1. CASE script[last].scope = "global"
    <3> DEFINE o == AggregateSet(last, carrier)
    <3>1. ~script[last].no /\ \A n \in Lines : script[n].kind = "aggregate" /\ script[n].scope = "af" => script[n].no
      BY <1>3, <1>14, <2>1
    <3>2. carries
      <4>1. \A h \in Headers("af") : Stating(h, "aggregate") = {}
        BY <3>1, ChildrenAre DEF Stating
      <4> QED BY <1>6, <4>1
    <3>3. o \in ops /\ Reaches(o, s)
      BY <1>12, <2>0, <3>1, <3>2
    <3>4. LastLine(P) = 0
      <4>1. P = {}
        BY <1>1, <1>8, <1>13, <3>1
      <4> QED BY <4>1 DEF LastLine
    <3>5. LeftBy(o, s) = script[last].val /\ o.line = 0 /\ o.place = <<carrier, last>>
      <4>1. AggregateBlock(last, carrier) = carrier
        BY <2>1 DEF AggregateBlock
      <4> QED BY <1>10, <2>0, <3>1, <3>4, <4>1
    <3>6. ASSUME NEW p \in ops, Reaches(p, s)
          PROVE  LeftBy(p, s) = LeftBy(o, s) \/ InScriptOrder(p, o)
      <4> HIDE DEF o
      <4>1. ASSUME NEW n \in L, ~script[n].no, p = AggregateSet(n, carrier)
            PROVE  LeftBy(p, s) = LeftBy(o, s) \/ InScriptOrder(p, o)
        <5>1. script[n].scope = "global"
          BY <1>1, <1>9, <3>1, <4>1
        <5>2. p.line = 0 /\ p.place = <<carrier, n>> /\ LeftBy(p, s) = script[n].val
          <6>1. AggregateBlock(n, carrier) = carrier
            BY <5>1 DEF AggregateBlock
          <6> QED BY <1>10, <3>4, <4>1, <6>1
        <5>3. CASE n = last
          BY <3>5, <5>2, <5>3
        <5>4. CASE n < last
          BY <3>5, <5>2, <5>4 DEF InScriptOrder
        <5> QED BY <2>0, <5>3, <5>4
      <4>2. ASSUME NEW n \in L, p = RemovalOf("LIST_REMOVE", n)
            PROVE  InScriptOrder(p, o)
        <5>1. p.line = n /\ n # 0
          BY <1>11, <2>0, <4>2
        <5> QED BY <3>5, <5>1 DEF InScriptOrder
      <4> QED BY <1>12, <3>6, <4>1, <4>2
    <3> HIDE DEF o
    <3> QED BY <3>1, <3>3, <3>5, <3>6
  <2>2. CASE script[last].scope = "af" /\ ~script[last].no
    <3> DEFINE o == AggregateSet(last, carrier)
    <3>1. o \in ops /\ Reaches(o, s)
      BY <1>12, <2>0, <2>2
    <3>2. LeftBy(o, s) = script[last].val /\ o.line = LastLine(P) /\ o.place = <<Block(last), last>>
      <4>1. AggregateBlock(last, carrier) = Block(last)
        BY <2>2 DEF AggregateBlock
      <4> QED BY <1>10, <2>0, <2>2, <4>1
    <3>3. Block(last) \in Headers("af") /\ last \in Children(Block(last)) /\ last \in Stating(Block(last), "aggregate")
      BY <1>1, <1>9, <2>0, <2>2 DEF Stating
    <3>4. ASSUME NEW p \in ops, Reaches(p, s)
          PROVE  LeftBy(p, s) = LeftBy(o, s) \/ InScriptOrder(p, o)
      <4>1. ASSUME NEW n \in L, ~script[n].no, script[n].scope = "af", p = AggregateSet(n, carrier)
            PROVE  LeftBy(p, s) = LeftBy(o, s) \/ InScriptOrder(p, o)
        <5>1. CASE n = last
          BY <4>1, <5>1
        <5>2. CASE n < last
          <6>1. AggregateBlock(n, carrier) = Block(n) /\ AggregateBlock(last, carrier) = Block(last)
            BY <2>2, <4>1 DEF AggregateBlock
          <6>2. p = MemberSet("af", Block(n), Member(n)) /\ o = MemberSet("af", Block(last), Member(last))
            BY <4>1, <6>1 DEF AggregateSet
          <6>3. n \in Lines /\ last \in Lines /\ Slot(n) = Slot(last) /\ script[last].kind \in MemberKinds
            BY <1>1, <2>0, <2>2, <4>1 DEF Slot, MemberKinds
          <6>4. InScriptOrder(p, o)
            BY <5>2, <6>2, <6>3, SetsInOrder
          <6> QED BY <6>4
        <5> QED BY <2>0, <5>1, <5>2
      <4>2. ASSUME NEW n \in L, ~script[n].no, script[n].scope # "af", carries, p = AggregateSet(n, carrier)
            PROVE  InScriptOrder(p, o)
        <5>1. carrier < Block(last)
          BY <1>6, <3>3, <4>2
        <5>2. p.line = LastLine(P) /\ p.place = <<carrier, n>>
          <6>1. AggregateBlock(n, carrier) = carrier
            BY <4>2 DEF AggregateBlock
          <6> QED BY <1>10, <4>2, <6>1
        <5>3. Block(last) \in Nat
          BY <3>3, StanzaIs
        <5> HIDE DEF o
        <5> QED BY <3>2, <5>1, <5>2, <5>3 DEF InScriptOrder
      <4>3. ASSUME NEW n \in L, script[n].no, n \in Candidates("af"), p = RemovalOf("LIST_REMOVE", n)
            PROVE  InScriptOrder(p, o)
        <5>1. last \in P
          BY <1>4, <1>8, <1>13, <2>0, <2>2, <4>3
        <5>2. last <= LastLine(P) /\ LastLine(P) # 0
          BY <1>7, <5>1, LastLineIs
        <5>3. n < last
          BY <2>0, <2>2, <4>3
        <5>4. p.line = n /\ n # 0
          BY <1>11, <2>0, <4>3
        <5> HIDE DEF o
        <5>5. p.line < o.line
          BY <1>7, <2>0, <3>2, <5>2, <5>3, <5>4
        <5> QED BY <5>4, <5>5 DEF InScriptOrder
      <4> HIDE DEF o
      <4> QED BY <1>12, <3>4, <4>1, <4>2, <4>3
    <3> HIDE DEF o
    <3> QED BY <2>2, <3>1, <3>2, <3>4
  <2>3. CASE script[last].scope = "af" /\ script[last].no
    <3> DEFINE o == RemovalOf("LIST_REMOVE", last)
    <3>1. \A n \in L : ~script[n].no => n \in P
      <4>1. \A n \in L : script[n].scope = "global" => script[n].no
        BY <1>3, <1>14, <2>3
      <4> QED BY <1>4, <1>8, <1>9, <2>0, <2>3, <4>1
    <3>2. last \in Candidates("af")
      BY <1>4, <2>0, <2>3
    <3>3. o \in ops /\ Reaches(o, s)
      BY <1>12, <2>0, <2>3, <3>2
    <3>4. LeftBy(o, s) = Absent /\ o.line = last
      BY <1>11
    <3>5. ASSUME NEW p \in ops, Reaches(p, s)
          PROVE  LeftBy(p, s) = LeftBy(o, s) \/ InScriptOrder(p, o)
      <4> HIDE DEF o
      <4>1. ASSUME NEW n \in L, ~script[n].no, p = AggregateSet(n, carrier)
            PROVE  InScriptOrder(p, o)
        <5>1. LastLine(P) \in P /\ LastLine(P) # 0
          BY <1>7, <3>1, <4>1, LastLineIs
        <5>2. LastLine(P) <= last /\ LastLine(P) # last
          BY <1>8, <2>0, <2>3, <5>1
        <5>3. p.line = LastLine(P)
          BY <1>10, <4>1
        <5>4. p.line < o.line
          BY <1>7, <2>0, <3>4, <5>2, <5>3
        <5> QED BY <5>1, <5>3, <5>4 DEF InScriptOrder
      <4>2. ASSUME NEW n \in L, p = RemovalOf("LIST_REMOVE", n)
            PROVE  LeftBy(p, s) = LeftBy(o, s)
        BY <1>11, <3>4, <4>2
      <4> QED BY <1>12, <3>5, <4>1, <4>2
    <3> HIDE DEF o
    <3> QED BY <2>3, <3>3, <3>4, <3>5
  <2> QED BY <1>9, <2>0, <2>1, <2>2, <2>3
<1>15. LinesOf(s) = {} => \A o \in ops : ~Reaches(o, s)
  BY <1>12, <1>y
<1>16. LinesOf(s) # {} =>
         \E o \in ops : /\ Reaches(o, s) /\ LeftBy(o, s) = IF script[last].no THEN Absent ELSE script[last].val
                        /\ \A p \in ops : Reaches(p, s) => LeftBy(p, s) = LeftBy(o, s) \/ InScriptOrder(p, o)
  BY <1>14, <1>y
<1> QED BY <1>0, <1>15, <1>16, <1>x, LastOpIsDevice

\* The default metric of the process.
LEMMA DefaultMetric ==
  ASSUME Inv, Finished, NEW s, s = <<"global", "default_metric", Process>>
  PROVE  Get(config, s) = Get(Device, s)
<1> DEFINE about == {n \in Lines : About(script[n], s)}
           F == [n \in Lines |-> MetricSet(n)]
<1>0. IsMemberSlot(s) /\ s[1] = "global" /\ s[2] = "default_metric" /\ s[3] = Process
  BY DEF IsMemberSlot, ScalarKinds
<1>1. \A n \in about : n \in Lines /\ n \in Metrics /\ Slot(n) = s /\ n \in Nat /\ n # 0
  BY <1>0, CandidatesAre, StanzaIs DEF About, Metrics, Slot
<1>2. \A n \in Metrics : n \in about
  <2> SUFFICES ASSUME NEW n \in Metrics PROVE n \in about
    OBVIOUS
  <2>1. n \in Lines /\ script[n].scope = "global" /\ script[n].kind = "default_metric"
    BY CandidatesAre DEF Metrics
  <2>2. script[n].at = Process
    BY <2>1, StanzaIs DEF Belongs
  <2> QED BY <1>0, <2>1, <2>2 DEF About
<1>3. ASSUME NEW n \in about
      PROVE  /\ F[n] \in ops /\ Reaches(F[n], s) /\ LeftBy(F[n], s) = IF script[n].no THEN Absent ELSE script[n].val
             /\ F[n].line = n
  <2>1. F[n] = MetricSet(n)
    BY <1>1
  <2> HIDE DEF F, about
  <2> DEFINE o == MetricSet(n)
  <2>2. Reaches(o, s) /\ LeftBy(o, s) = (IF script[n].no THEN Absent ELSE script[n].val) /\ o.line = n
    BY <1>1, <1>3, SetsAre
  <2>3. ReachedBy(o, s)
    BY <1>1, <1>3 DEF ReachedBy
  <2>4. o \in ops
    BY <1>0, <2>3, ReachedIs
  <2> HIDE DEF o
  <2> QED BY <2>1, <2>2, <2>4 DEF o
<1>4. ASSUME NEW o \in ops, Reaches(o, s)
      PROVE  \E n \in about : o = F[n]
  <2>1. ReachedBy(o, s)
    BY <1>0, <1>4, ReachedIs
  <2>2. \A scope, m : s = <<scope, m.kind, m.at>> => m.kind = "default_metric"
    BY <1>0
  <2>3. ~(\E h \in Blocks : \E m \in MembersOf(h, {"network", "redistribute"}) :
            o = MemberSet(ScopeOf(h), h, m) /\ s = <<ScopeOf(h), m.kind, m.at>>)
    <3>1. \A h \in Blocks : \A m \in MembersOf(h, {"network", "redistribute"}) : m.kind \in {"network", "redistribute"}
      <4> SUFFICES ASSUME NEW h \in Blocks, NEW m \in MembersOf(h, {"network", "redistribute"})
                   PROVE  m.kind \in {"network", "redistribute"}
        OBVIOUS
      <4>1. h \in Headers(ScopeOf(h))
        BY BlocksAre
      <4> QED BY <4>1, MembersAre DEF Member
    <3> QED BY <2>2, <3>1
  <2>4. \A kind, at : s # <<"af", kind, at>> /\ s # <<"global", "bestpath", at>>
    BY <1>0
  <2>5. \A n \in AfNegations : s # Slot(n)
    BY <1>0, CandidatesAre DEF AfNegations, Slot
  <2>6. \A h \in Blocks : \A n \in Negating(h, "network") : s # Slot(n)
    BY <1>0 DEF Negating, Slot
  <2>7. PICK n \in Metrics : o = MetricSet(n)
    BY <2>1, <2>3, <2>4, <2>5, <2>6 DEF ReachedBy
  <2> QED BY <1>1, <1>2, <2>7
<1>5. LineOps(F, s)
  <2>1. ASSUME NEW n \in about, NEW m \in about, m < n
        PROVE  InScriptOrder(F[m], F[n])
    <3> HIDE DEF F
    <3>1. F[m].line = m /\ F[n].line = n /\ m # 0
      BY <1>1, <1>3
    <3> QED BY <2>1, <3>1 DEF InScriptOrder
  <2> HIDE DEF F
  <2> QED BY <1>3, <1>4, <2>1 DEF LineOps
<1> HIDE DEF F
<1> QED BY <1>0, <1>5, MemberIsDevice

\* The best-path option of the process, where nothing negates it.
LEMMA BestpathOption ==
  ASSUME Inv, Finished, NEW s, s = <<"global", "bestpath", Process>>, InScriptMember(s)
  PROVE  Get(config, s) = Get(Device, s)
<1> DEFINE about == {n \in Lines : About(script[n], s)}
           F == [n \in Lines |-> BestpathSet]
<1>0. IsMemberSlot(s) /\ s[1] = "global" /\ s[2] = "bestpath" /\ s[3] = Process /\ 1 \in Headers("global")
  BY StanzaIs DEF IsMemberSlot, ScalarKinds
<1>1. \A n \in about : n \in Lines /\ script[n].kind = "bestpath" /\ script[n].at = Process /\ script[n].scope = "global"
  BY <1>0 DEF About
<1>2. \A n \in about : ~script[n].no /\ script[n].val = On
  <2>1. \A n \in about : ~script[n].no
    BY <1>0 DEF InScriptMember, NeverReset, LinesOf, About
  <2>2. \A n \in about : Belongs(script[n])
    BY <1>1, StanzaIs
  <2> QED BY <1>1, <2>1, <2>2 DEF Belongs
<1>3. \A n \in Children(1) : script[n].kind = "bestpath" => n \in about
  <2> SUFFICES ASSUME NEW n \in Children(1), script[n].kind = "bestpath" PROVE n \in about
    OBVIOUS
  <2>1. n \in Lines /\ script[n].scope = "global"
    BY ChildrenAre
  <2>2. script[n].at = Process
    <3>1. Belongs(script[n])
      BY <2>1, StanzaIs
    <3> QED BY <2>1, <3>1 DEF Belongs
  <2> QED BY <1>0, <2>1, <2>2 DEF About
<1>4. _parse_bgp_bestpath_options(1) <=> about # {}
  <2>1. \A n \in about : n \in Children(1)
    BY <1>1, ChildrenAre
  <2>2. \A n \in about : n \in Stating(1, "bestpath")
    BY <1>1, <1>2, <2>1 DEF Stating
  <2>3. Negating(1, "bestpath") = {} /\ \A n \in Stating(1, "bestpath") : n \in about
    BY <1>2, <1>3 DEF Negating, Stating
  <2> HIDE DEF about
  <2> QED BY <2>2, <2>3 DEF _parse_bgp_bestpath_options
<1>5. ASSUME NEW n \in about
      PROVE  F[n] \in ops /\ Reaches(F[n], s) /\ LeftBy(F[n], s) = script[n].val
  <2>1. F[n] = BestpathSet
    BY <1>1
  <2> HIDE DEF F, about
  <2>2. Reaches(BestpathSet, s) /\ LeftBy(BestpathSet, s) = On
    BY SetsAre
  <2>3. ReachedBy(BestpathSet, s)
    BY <1>4, <1>5 DEF ReachedBy
  <2>4. BestpathSet \in ops
    BY <1>0, <2>3, ReachedIs
  <2> QED BY <1>2, <1>5, <2>1, <2>2, <2>4
<1>6. ASSUME NEW o \in ops, Reaches(o, s)
      PROVE  \E n \in about : o = F[n]
  <2>1. ReachedBy(o, s)
    BY <1>0, <1>6, ReachedIs
  <2>2. ASSUME NEW h \in Blocks, NEW m \in MembersOf(h, {"network", "redistribute"}), s = <<ScopeOf(h), m.kind, m.at>>
        PROVE  FALSE
    <3>1. h \in Headers(ScopeOf(h))
      BY BlocksAre
    <3>2. m.kind \in {"network", "redistribute"}
      BY <3>1, MemberKindsAre
    <3> QED BY <1>0, <2>2, <3>2
  <2>3. \A n \in Metrics : s # Slot(n)
    BY <1>0 DEF Metrics, Slot
  <2>4. \A kind, at : s # <<"af", kind, at>>
    BY <1>0
  <2>5. \A n \in AfNegations : s # Slot(n)
    BY <1>0, CandidatesAre DEF AfNegations, Slot
  <2>6. \A h \in Blocks : \A n \in Negating(h, "network") : s # Slot(n)
    BY <1>0 DEF Negating, Slot
  <2>7. _parse_bgp_bestpath_options(1) /\ o = BestpathSet
    BY <2>1, <2>2, <2>3, <2>4, <2>5, <2>6 DEF ReachedBy
  <2>8. PICK n \in about : n \in Lines
    BY <1>1, <1>4, <2>7
  <2> QED BY <2>7, <2>8
<1>7. LineOps(F, s)
  <2>1. \A n, m \in about : F[m] = F[n]
    BY <1>1
  <2> HIDE DEF F
  <2> QED BY <1>2, <1>5, <1>6, <2>1 DEF LineOps
<1> HIDE DEF F
<1> QED BY <1>0, <1>7, MemberIsDevice

\* The limit of paths of the family, where the one read in a block is its last.
LEMMA MaximumPaths ==
  ASSUME Inv, Finished, NEW s, s = <<"af", "maximum_paths", Process>>, InScriptMember(s)
  PROVE  Get(config, s) = Get(Device, s)
<1> DEFINE L == LinesOf(s)
           last == LastLine(L)
           Read(h) == script[FirstLine(Stating(h, "maximum_paths"))].val
<1>0. IsMemberSlot(s) /\ s[1] = "af" /\ s[2] = "maximum_paths" /\ s[3] = Process
  BY DEF IsMemberSlot, ScalarKinds
<1>1. /\ \A n : n \in L <=> n \in Lines /\ script[n].kind = "maximum_paths" /\ script[n].at = Process /\ script[n].scope = "af"
      /\ L # {} => last \in L /\ \A m \in L : m <= last
  <2>1. \A n : n \in L <=> n \in Lines /\ script[n].kind = "maximum_paths" /\ script[n].at = Process /\ script[n].scope = "af"
    BY <1>0 DEF LinesOf
  <2> QED BY <2>1, LinesOfIs
<1>2. L # {} => ~script[last].no /\ Read(Block(last)) = script[last].val
  BY <1>0 DEF InScriptMember, FirstLimitRead, EndsStated, EndsWithdrawn
<1>x. LinesOf(s) = L /\ last = LastLine(LinesOf(s))
  OBVIOUS
<1> HIDE DEF L, last
<1>3. ASSUME NEW h \in Headers("af")
      PROVE  /\ _build_bgp_af(h).object = h
             /\ _build_bgp_af(h).maximum_paths = IF Stating(h, "maximum_paths") = {} THEN Absent ELSE Read(h)
             /\ Stating(h, "maximum_paths") = {n \in L : ~script[n].no /\ Block(n) = h}
             /\ Stating(h, "maximum_paths") # {} => Read(h) # Absent
  <2>1. \A n \in Stating(h, "maximum_paths") : n \in L /\ ~script[n].no /\ Block(n) = h
    <3> SUFFICES ASSUME NEW n \in Stating(h, "maximum_paths") PROVE n \in L /\ ~script[n].no /\ Block(n) = h
      OBVIOUS
    <3>1. n \in Children(h) /\ script[n].kind = "maximum_paths" /\ ~script[n].no
      BY DEF Stating
    <3>2. n \in Lines /\ script[n].scope = "af" /\ script[n].kind # "header"
      BY <3>1, ChildrenAre
    <3>3. Belongs(script[n])
      BY <3>2, StanzaIs
    <3>4. script[n].at = Process
      BY <3>1, <3>3 DEF Belongs
    <3> QED BY <1>1, <3>1, <3>2, <3>4, BlockIs
  <2>2. \A n \in L : ~script[n].no /\ Block(n) = h => n \in Stating(h, "maximum_paths")
    <3> SUFFICES ASSUME NEW n \in L, ~script[n].no, Block(n) = h PROVE n \in Stating(h, "maximum_paths")
      OBVIOUS
    <3>1. n \in Lines /\ script[n].kind = "maximum_paths"
      BY <1>1
    <3>2. n \in Children(h)
      BY <3>1, BlockIs
    <3> QED BY <3>1, <3>2 DEF Stating
  <2>3. Stating(h, "maximum_paths") = {n \in L : ~script[n].no /\ Block(n) = h}
    BY <2>1, <2>2
  <2>4. ASSUME Stating(h, "maximum_paths") # {}
        PROVE  Read(h) # Absent
    <3>1. Len(script) \in Nat /\ Stating(h, "maximum_paths") \in SUBSET (1..Len(script))
      BY <1>1, <2>1, StanzaIs
    <3>2. FirstLine(Stating(h, "maximum_paths")) \in Stating(h, "maximum_paths")
      BY <2>4, <3>1, FirstLineIs
    <3> QED BY <1>1, <2>1, <3>2, StanzaIs
  <2> QED BY <2>3, <2>4 DEF _build_bgp_af
<1>7. \A a, b : a.object = b.object /\ a.maximum_paths = b.maximum_paths => PathsSet(a) = PathsSet(b)
  BY DEF PathsSet
<1>6. \A a : PathsSet(a).line = FirstLine(Positives("af", {"maximum_paths"}, Process)) /\ PathsSet(a).place = <<a.object, 0>>
  BY DEF PathsSet, SetOp, Op
<1> HIDE DEF Read
<1>8. ASSUME NEW o
      PROVE  o \in ops /\ Reaches(o, s) <=>
               \E h \in Headers("af") : Stating(h, "maximum_paths") # {} /\ o = PathsSet(_build_bgp_af(h))
  <2>1. o \in ops /\ Reaches(o, s) <=> ReachedBy(o, s)
    BY <1>0, ReachedIs
  <2>2. ASSUME NEW h \in Blocks, NEW m, s = <<ScopeOf(h), m.kind, m.at>> PROVE FALSE
    BY <1>0, <2>2, BlocksAre
  <2>3. (\A n \in Metrics : s # Slot(n)) /\ s # <<"global", "bestpath", Process>> /\ \A at : s # <<"af", "redistribute", at>>
    BY <1>0 DEF Metrics, Slot
  <2>5. \A n \in AfNegations : s # Slot(n)
    BY <1>0, CandidatesAre DEF AfNegations, Slot
  <2>6. \A h \in Blocks : \A n \in Negating(h, "network") : s # Slot(n)
    BY <1>0 DEF Negating, Slot
  <2>7. ASSUME NEW af \in Families, NEW m \in af.members, s = <<"af", m.kind, m.at>> PROVE FALSE
    <3>1. FamilyHolds(af.object, m)
      BY DEF FamilyHolds
    <3>2. PICK carries, carrier : FamilyMembers(carries, carrier)
      BY FamiliesAre
    <3>3. \/ af.object \in Headers("af") /\ m \in MembersOf(af.object, MemberKinds)
          \/ m \in MembersOf(1, {"aggregate"})
      BY <3>1, <3>2 DEF FamilyMembers
    <3>4. 1 \in Headers("global")
      BY StanzaIs
    <3>5. m.kind \in MemberKinds \cup {"aggregate"}
      BY <3>3, <3>4, MemberKindsAre
    <3> QED BY <1>0, <2>7, <3>5 DEF MemberKinds
  <2>8. ReachedBy(o, s) <=> \E af \in Families : af.maximum_paths # Absent /\ o = PathsSet(af)
    BY <1>0, <2>2, <2>3, <2>5, <2>6, <2>7 DEF ReachedBy
  <2>9. ASSUME NEW af \in Families, af.maximum_paths # Absent, o = PathsSet(af)
        PROVE  \E h \in Headers("af") : Stating(h, "maximum_paths") # {} /\ o = PathsSet(_build_bgp_af(h))
    <3>1. PICK h \in Headers("af") : af.object = h /\ af.maximum_paths = _build_bgp_af(h).maximum_paths
      BY <2>9, FamiliesAre
    <3>2. Stating(h, "maximum_paths") # {}
      BY <1>3, <2>9, <3>1
    <3> QED BY <1>3, <1>7, <2>9, <3>1, <3>2
  <2>10. ASSUME NEW h \in Headers("af"), Stating(h, "maximum_paths") # {}, o = PathsSet(_build_bgp_af(h))
         PROVE  \E af \in Families : af.maximum_paths # Absent /\ o = PathsSet(af)
    <3>1. PICK af \in Families : af.object = h /\ af.maximum_paths = _build_bgp_af(h).maximum_paths
      BY FamiliesAre
    <3> QED BY <1>3, <1>7, <2>10, <3>1
  <2> QED BY <2>1, <2>8, <2>9, <2>10
<1>9. LinesOf(s) = {} => \A o \in ops : ~Reaches(o, s)
  BY <1>3, <1>8, <1>x
<1>10. ASSUME L # {}
       PROVE  \E o \in ops : /\ Reaches(o, s) /\ LeftBy(o, s) = IF script[last].no THEN Absent ELSE script[last].val
                             /\ \A p \in ops : Reaches(p, s) => LeftBy(p, s) = LeftBy(o, s) \/ InScriptOrder(p, o)
  <2> DEFINE b == Block(last)
             o == PathsSet(_build_bgp_af(b))
  <2>1. last \in Lines /\ script[last].scope = "af" /\ script[last].kind # "header" /\ ~script[last].no
    BY <1>1, <1>2, <1>10
  <2>2. b \in Headers("af") /\ b \in Nat /\ last \in Children(b) /\ last \in Nat
    BY <2>1, BlockIs, StanzaIs
  <2>3. Stating(b, "maximum_paths") # {}
    BY <1>1, <1>3, <1>10, <2>1, <2>2
  <2>4. o \in ops /\ Reaches(o, s)
    BY <1>8, <2>2, <2>3
  <2>5. LeftBy(o, s) = script[last].val
    <3>1. _build_bgp_af(b).maximum_paths = script[last].val
      BY <1>2, <1>3, <1>10, <2>2, <2>3
    <3> QED BY <2>4, <3>1, SetsAre
  <2>6. ASSUME NEW p \in ops, Reaches(p, s)
        PROVE  LeftBy(p, s) = LeftBy(o, s) \/ InScriptOrder(p, o)
    <3>1. PICK h \in Headers("af") : Stating(h, "maximum_paths") # {} /\ p = PathsSet(_build_bgp_af(h))
      BY <1>8, <2>6
    <3>2. PICK n \in Stating(h, "maximum_paths") : n \in L /\ Block(n) = h
      BY <1>3, <3>1
    <3>3. n <= last /\ n \in Children(h) /\ h \in Nat
      BY <1>1, <1>10, <3>2, StanzaIs DEF Stating
    <3>4. h <= b
      BY <2>2, <3>3, ChildrenAre
    <3>5. p.line = o.line /\ p.place = <<h, 0>> /\ o.place = <<b, 0>>
      BY <1>3, <1>6, <2>2, <3>1
    <3>6. CASE h = b
      BY <3>1, <3>6
    <3>7. CASE h < b
      <4> HIDE DEF o, b
      <4> QED BY <3>5, <3>7 DEF InScriptOrder
    <3> HIDE DEF b, o
    <3> QED BY <2>2, <3>3, <3>4, <3>6, <3>7
  <2> HIDE DEF o
  <2> QED BY <2>1, <2>4, <2>5, <2>6
<1>11. LinesOf(s) # {} =>
         \E o \in ops : /\ Reaches(o, s) /\ LeftBy(o, s) = IF script[last].no THEN Absent ELSE script[last].val
                        /\ \A p \in ops : Reaches(p, s) => LeftBy(p, s) = LeftBy(o, s) \/ InScriptOrder(p, o)
  BY <1>10, <1>x
<1> QED BY <1>0, <1>9, <1>11, <1>x, LastOpIsDevice

(* Members, families and settings after the replay are the router's in     *)
(* each scope.                                                             *)
LEMMA InvMembers == Inv => MembersAreDevice
<1> SUFFICES ASSUME Inv, Finished, NEW s \in MemberSlots, InScriptMember(s)
             PROVE  Get(config, s) = Get(Device, s)
  BY DEF MembersAreDevice
<1>1. CASE s \in {"global", "vrf"} \X {"network"} \X Routes
  BY <1>1, InstanceMembers
<1>2. CASE s \in {"af"} \X {"network"} \X Routes
  BY <1>2, FamilyNetworks
<1>6. CASE s \in {"global", "af", "vrf"} \X {"redistribute"} \X Routes
  BY <1>6, Redistributed
<1>7. CASE s \in {"af"} \X {"aggregate"} \X Routes
  BY <1>7, Aggregated
<1>3. CASE s = <<"global", "default_metric", Process>>
  BY <1>3, DefaultMetric
<1>4. CASE s = <<"global", "bestpath", Process>>
  BY <1>4, BestpathOption
<1>5. CASE s = <<"af", "maximum_paths", Process>>
  BY <1>5, MaximumPaths
<1> QED BY <1>1, <1>2, <1>3, <1>4, <1>5, <1>6, <1>7 DEF MemberSlots, MemberKinds

(* Networks, aggregates, redistribution and settings after the replay are  *)
(* the router's in each scope, for every stanza and baseline.              *)
THEOREM MembersHold == Spec => []MembersAreDevice
<1> QED BY InvHolds, InvMembers, PTL

-----------------------------------------------------------------------------
(* Sessions and peer-groups: what the lines before one leave on the        *)
(* router.                                                                 *)

LEMMA LastWins ==
  ASSUME NEW f, NEW a \in Nat, NEW b \in Nat, NEW E, NEW v,
         \A k \in Nat : a < k /\ k <= b => f[k] = v \/ (k \notin E /\ f[k] = f[k - 1]),
         NEW c \in Nat, a < c, c <= b, c \in E
  PROVE  f[b] = v
<1> DEFINE S == {k \in 0..b : a < k /\ f[k] = v}
<1>1. c \in S
  OBVIOUS
<1>2. PICK k \in S : \A m \in S : m <= k
  <2>1. S \in SUBSET (0..b) /\ S # {}
    BY <1>1
  <2> HIDE DEF S
  <2> QED BY <2>1, GreatestElement
<1>3. k \in Nat /\ a < k /\ k <= b /\ f[k] = v
  BY <1>2
<1>4. \A l \in Nat : k < l /\ l <= b => f[l] = f[l - 1]
  <2> SUFFICES ASSUME NEW l \in Nat, k < l, l <= b PROVE f[l] = f[l - 1]
    OBVIOUS
  <2>1. l \notin S
    BY <1>2, <1>3
  <2> QED BY <1>3, <2>1
<1>5. f[b] = f[k]
  BY <1>3, <1>4, Constancy
<1> QED BY <1>3, <1>5

Taken(n, s) == TakenBy(router[n], script[n], s)
TakenBefore(m, s) == {r \in Lines : r < m /\ Taken(r, s)}

\* The last of the lines before m that states the slot.
LastToState(n, m, s) ==
  n \in Lines /\ n < m /\ States(n, s) /\ \A j \in Lines : j < m /\ States(j, s) => j <= n

LEMMA StatesIs ==
  ASSUME NEW n, NEW s
  PROVE  States(n, s) <=> StatedBy(script[n], s)
BY DEF States, StatedBy, SlotOf, Slot

LEMMA RouterLast ==
  ASSUME Inv, Finished, NEW s, IsSessionSlot(s), NEW m \in 1..(Len(script) + 1)
  PROVE  /\ (\A n \in Lines : n < m => ~States(n, s)) =>
              Get(router[m], s) = IF TakenBefore(m, s) = {} THEN Get(router[1], s) ELSE Absent
         /\ \A n : LastToState(n, m, s) =>
              Get(router[m], s) = IF \E r \in TakenBefore(m, s) : n < r THEN Absent ELSE ValueOf(script[n], s)
<1> DEFINE f == [n \in 0..Len(script) |-> Get(router[n + 1], s)]
           E == {n \in Lines : Taken(n, s)}
<1>0. Len(script) \in Nat /\ Lines = 1..Len(script)
  BY StanzaIs
<1>1. ASSUME NEW n \in Lines
      PROVE  f[n] = IF States(n, s) THEN ValueOf(script[n], s) ELSE IF n \in E THEN Absent ELSE f[n - 1]
  <2>1. router[n + 1] = DeviceLine(router[n], script[n]) /\ script[n] \in Line /\ Belongs(script[n])
    BY RouterIs, StanzaIs
  <2>2. f[n] = Get(router[n + 1], s) /\ f[n - 1] = Get(router[n], s)
    BY <1>0
  <2>3. n \in E <=> TakenBy(router[n], script[n], s)
    BY DEF Taken
  <2>4. Get(DeviceLine(router[n], script[n]), s) =
           IF StatedBy(script[n], s) THEN ValueOf(script[n], s)
           ELSE IF TakenBy(router[n], script[n], s) THEN Absent ELSE Get(router[n], s)
    BY <2>1, DeviceSession
  <2> HIDE DEF f, E
  <2> QED BY <2>1, <2>2, <2>3, <2>4, StatesIs
<1> DEFINE b == m - 1
<1>2. Get(router[m], s) = f[b] /\ Get(router[1], s) = f[0] /\ b \in Nat /\ m = b + 1 /\ b <= Len(script)
  BY <1>0
<1>3. \A k : k \in E <=> k \in Lines /\ Taken(k, s)
  OBVIOUS
<1> HIDE DEF f, E, b
<1>4. ASSUME \A n \in Lines : n < m => ~States(n, s)
      PROVE  f[b] = IF TakenBefore(m, s) = {} THEN f[0] ELSE Absent
  <2>1. \A k \in Nat : 0 < k /\ k <= b => /\ k \in E => f[k] = Absent
                                          /\ k \notin E => f[k] = f[k - 1]
    BY <1>0, <1>1, <1>2, <1>4
  <2>2. (\A k \in Nat : 0 < k /\ k <= b => k \notin E) => f[b] = f[0]
    <3> SUFFICES ASSUME \A k \in Nat : 0 < k /\ k <= b => k \notin E PROVE f[b] = f[0]
      OBVIOUS
    <3>1. \A k \in Nat : 0 < k /\ k <= b => f[k] = f[k - 1]
      BY <2>1
    <3> QED BY <1>2, <3>1, Constancy
  <2>4. \A k \in Nat : 0 < k /\ k <= b /\ k \in E => f[b] = Absent
    <3> SUFFICES ASSUME NEW k \in Nat, 0 < k, k <= b, k \in E PROVE f[b] = Absent
      OBVIOUS
    <3>1. \A l \in Nat : 0 < l /\ l <= b => f[l] = Absent \/ (l \notin E /\ f[l] = f[l - 1])
      BY <2>1
    <3> QED BY <1>2, <3>1, LastWins
  <2>3. \A k : k \in TakenBefore(m, s) <=> k \in Nat /\ 0 < k /\ k <= b /\ k \in E
    BY <1>0, <1>2, <1>3 DEF TakenBefore
  <2> QED BY <2>2, <2>3, <2>4
<1>5. ASSUME NEW n, LastToState(n, m, s)
      PROVE  f[b] = IF \E r \in TakenBefore(m, s) : n < r THEN Absent ELSE ValueOf(script[n], s)
  <2>0. n \in Lines /\ n \in Nat /\ n <= b /\ States(n, s) /\ \A j \in Lines : j < m /\ States(j, s) => j <= n
    BY <1>0, <1>2, <1>5 DEF LastToState
  <2>1. \A k \in Nat : n < k /\ k <= b => /\ k \in E => f[k] = Absent
                                          /\ k \notin E => f[k] = f[k - 1]
    BY <1>0, <1>1, <1>2, <2>0
  <2>2. (\A k \in Nat : n < k /\ k <= b => k \notin E) => f[b] = f[n]
    <3> SUFFICES ASSUME \A k \in Nat : n < k /\ k <= b => k \notin E PROVE f[b] = f[n]
      OBVIOUS
    <3>1. \A k \in Nat : n < k /\ k <= b => f[k] = f[k - 1]
      BY <2>1
    <3> QED BY <1>2, <2>0, <3>1, Constancy
  <2>7. \A k \in Nat : n < k /\ k <= b /\ k \in E => f[b] = Absent
    <3> SUFFICES ASSUME NEW k \in Nat, n < k, k <= b, k \in E PROVE f[b] = Absent
      OBVIOUS
    <3>1. \A l \in Nat : n < l /\ l <= b => f[l] = Absent \/ (l \notin E /\ f[l] = f[l - 1])
      BY <2>1
    <3>2. n \in Nat /\ b \in Nat
      BY <1>2, <2>0
    <3> QED BY <3>1, <3>2, LastWins
  <2>3. \A k : k \in TakenBefore(m, s) /\ n < k <=> k \in Nat /\ n < k /\ k <= b /\ k \in E
    BY <1>0, <1>2, <1>3 DEF TakenBefore
  <2>4. f[n] = ValueOf(script[n], s)
    BY <1>1, <2>0
  <2>5. CASE \E r \in TakenBefore(m, s) : n < r
    BY <2>3, <2>5, <2>7
  <2>6. CASE ~ \E r \in TakenBefore(m, s) : n < r
    BY <2>2, <2>3, <2>4, <2>6
  <2> QED BY <2>5, <2>6
<1> QED BY <1>2, <1>4, <1>5

LEMMA SomeLast ==
  ASSUME Inv, NEW m, NEW s
  PROVE  (\A n \in Lines : n < m => ~States(n, s)) \/ \E n : LastToState(n, m, s)
<1> DEFINE S == {n \in Lines : n < m /\ States(n, s)}
<1>1. Len(script) \in Nat /\ S \in SUBSET (0..Len(script))
  BY StanzaIs
<1>2. CASE S = {}
  BY <1>2
<1>3. CASE S # {}
  <2>1. PICK n \in S : \A j \in S : j <= n
    <3> HIDE DEF S
    <3> QED BY <1>1, <1>3, GreatestElement
  <2> QED BY <2>1 DEF LastToState
<1> QED BY <1>2, <1>3

\* What takes a slot is a removal of it; only a group's deletion looks at what
\* the configuration has.
LEMMA TakenWithdraws ==
  ASSUME Inv, NEW n \in Lines, NEW s, IsSessionSlot(s), NEW cfg, TakenBy(cfg, script[n], s)
  PROVE  Withdraws(n, s)
<1> DEFINE l == script[n]
<1>1. l.no /\ l.kind # "activate"
  BY DEF TakenBy
<1>2. \A sc, x : s \in TargetSlots(sc, x) => s[1] \in SessionScopes(sc) /\ s[3] = x
  BY DEF TargetSlots
<1>3. \A g \in Groups : s \in TakenWith(cfg, l.scope, g) => s[1] \in SessionScopes(l.scope) /\ (s[3] \in Groups => g = s[3])
  <2> SUFFICES ASSUME NEW g \in Groups, s \in TakenWith(cfg, l.scope, g)
               PROVE  s[1] \in SessionScopes(l.scope) /\ (s[3] \in Groups => g = s[3])
    OBVIOUS
  <2>1. s \in TargetSlots(l.scope, g) \/ \E x \in Peers : s \in TargetSlots(l.scope, x)
    BY DEF TakenWith, MembersIn
  <2> QED BY <1>2, <2>1, TargetsAssumption
<1>4. \/ Slot(n) = s
      \/ l.kind \in {"neighbor", "remote_as"} /\ s \in TargetSlots(l.scope, l.at)
      \/ l.kind = "group" /\ l.at \in Groups /\ s \in TakenWith(cfg, l.scope, l.at)
      \/ l.kind = "group" /\ l.at \in Peers /\ s = <<l.scope, "member", l.at>>
  BY DEF TakenBy, SlotOf, Slot
<1>5. s = <<l.scope, "member", l.at>> => s[1] \in SessionScopes(l.scope) /\ s[2] = "member" /\ s[3] = l.at
  <2>1. l.scope \in SessionScopes(l.scope)
    BY DEF SessionScopes
  <2> QED BY <2>1
<1> QED BY <1>1, <1>2, <1>3, <1>4, <1>5 DEF Withdraws

LEMMA TakenSame ==
  ASSUME NEW cfg, NEW other, NEW l \in Line, Belongs(l), NEW s, IsSessionSlot(s),
         l.no /\ l.kind = "group" /\ l.at \in Groups /\ s[3] \in Peers /\ s[1] \in {"global", "af"} =>
           Get(cfg, <<"global", "member", s[3]>>) = Get(other, <<"global", "member", s[3]>>)
  PROVE  TakenBy(cfg, l, s) <=> TakenBy(other, l, s)
<1>1. CASE l.no /\ l.kind = "group" /\ l.at \in Groups
  <2>1. l.scope = "global"
    BY <1>1, TargetsAssumption DEF Belongs
  <2>2. \A c : s \in TakenWith(c, l.scope, l.at) <=>
          s \in TargetSlots(l.scope, l.at) \/ \E x \in MembersIn(c, "global", l.at) : s \in TargetSlots(l.scope, x)
    BY <2>1 DEF TakenWith
  <2>3. \A x : s \in TargetSlots(l.scope, x) => s[3] = x /\ s[1] \in {"global", "af"}
    BY <2>1 DEF TargetSlots, SessionScopes
  <2>4. \A x : s \in TargetSlots(l.scope, x) => (x \in MembersIn(cfg, "global", l.at) <=> x \in MembersIn(other, "global", l.at))
    BY <1>1, <2>3 DEF MembersIn
  <2>5. s \in TakenWith(cfg, l.scope, l.at) <=> s \in TakenWith(other, l.scope, l.at)
    BY <2>2, <2>4
  <2> QED BY <2>5 DEF TakenBy
<1>2. CASE ~(l.no /\ l.kind = "group" /\ l.at \in Groups)
  BY <1>2 DEF TakenBy
<1> QED BY <1>1, <1>2

\* No configuration of the router holds a slot that is absent.
LEMMA RouterHolds ==
  ASSUME Inv, Finished, NEW m \in 1..(Len(script) + 1), NEW s
  PROVE  s \in DOMAIN router[m] <=> Get(router[m], s) # Absent
<1> DEFINE holds(cfg) == \A r \in DOMAIN cfg : cfg[r] # Absent
           bad == {n \in 1..(Len(script) + 1) : ~holds(router[n])}
<1>0. Len(script) \in Nat /\ Lines = 1..Len(script)
  BY StanzaIs
<1>1. holds(router[1])
  BY RouterIs, BaselinesAssumption
<1>2. \A cfg, v : holds(Merged(cfg, v))
  <2> SUFFICES ASSUME NEW cfg, NEW v PROVE holds(Merged(cfg, v))
    OBVIOUS
  <2> DEFINE both == Over(v, cfg)
  <2>1. Merged(cfg, v) = [r \in {q \in DOMAIN both : both[q] # Absent} |-> both[r]]
    BY DEF Merged
  <2> HIDE DEF both
  <2> QED BY <2>1
<1>3. \A cfg, S : holds(cfg) => holds(Without(cfg, S))
  BY DEF Without
<1>4. ASSUME NEW n \in Lines, holds(router[n])
      PROVE  holds(router[n + 1])
  <2> DEFINE l == script[n]
             cfg == router[n]
             session == IF l.kind \in SessionKinds /\ l.at \in Peers /\ l.scope # "af" THEN Exists(l.scope, l.at) ELSE Nothing
             slot == <<l.scope, l.kind, l.at>>
             next == DeviceLine(cfg, l)
  <2>1. l \in Line /\ Belongs(l) /\ router[n + 1] = next
    BY RouterIs, StanzaIs
  <2>2. l.kind \in Kinds \cup {"header"} /\ l.no \in BOOLEAN
    BY <2>1 DEF Line
  <2>3. WithoutGroup(cfg, l.scope, l.at) = Without(cfg, TakenWith(cfg, l.scope, l.at))
    BY DEF WithoutGroup, TakenWith
  <2>4. \/ next = cfg
        \/ next = Merged(cfg, Only(<<"af", "aggregate", l.at>>, l.val))
        \/ next = Without(cfg, {<<"af", "aggregate", l.at>>})
        \/ next = Merged(cfg, Only(slot, IF l.no THEN Off ELSE l.val))
        \/ next = Merged(cfg, Over(Only(slot, l.val), session))
        \/ next = Without(cfg, TargetSlots(l.scope, l.at))
        \/ next = WithoutGroup(cfg, l.scope, l.at)
        \/ next = Without(cfg, {<<l.scope, "member", l.at>>})
        \/ next = Without(cfg, {slot})
    <3> HIDE DEF l, cfg
    <3>1. CASE l.kind = "header"
      BY <3>1 DEF DeviceLine
    <3>2. CASE l.kind = "aggregate"
      BY <2>2, <3>2 DEF DeviceLine
    <3>3. CASE l.kind = "activate"
      BY <3>3 DEF DeviceLine
    <3>4. CASE l.kind \notin {"header", "aggregate", "activate"} /\ ~l.no
      BY <3>4 DEF DeviceLine
    <3>5. CASE l.kind \in {"neighbor", "remote_as"} /\ l.no
      BY <3>5 DEF DeviceLine
    <3>6. CASE l.kind = "group" /\ l.no
      <4>1. l.at \in Groups \/ l.at \in Peers
        BY <2>1, <3>6 DEF Belongs
      <4>2. CASE l.at \in Groups
        BY <3>6, <4>2, TargetsAssumption DEF DeviceLine
      <4>3. CASE l.at \in Peers
        BY <3>6, <4>3, TargetsAssumption DEF DeviceLine
      <4> QED BY <4>1, <4>2, <4>3
    <3>7. CASE l.kind \notin {"header", "aggregate", "activate", "neighbor", "remote_as", "group"} /\ l.no
      BY <3>7 DEF DeviceLine
    <3> QED BY <2>2, <3>1, <3>2, <3>3, <3>4, <3>5, <3>6, <3>7
  <2> HIDE DEF next, slot, session, holds
  <2> QED BY <1>2, <1>3, <1>4, <2>1, <2>3, <2>4
<1>5. bad = {}
  <2> SUFFICES ASSUME bad # {} PROVE FALSE
    OBVIOUS
  <2>1. bad \in SUBSET Nat
    OBVIOUS
  <2>2. PICK n \in bad : \A k \in bad : n <= k
    <3> HIDE DEF bad
    <3> QED BY <2>1, LeastElement
  <2>3. n # 1 /\ n - 1 \in Lines /\ n - 1 \notin bad
    <3> HIDE DEF holds
    <3> QED BY <1>0, <1>1, <2>2
  <2>4. holds(router[n - 1])
    <3> HIDE DEF holds
    <3> QED BY <1>0, <2>3
  <2>5. holds(router[(n - 1) + 1])
    BY <1>4, <2>3, <2>4
  <2>6. (n - 1) + 1 = n
    BY <1>0, <2>3
  <2> HIDE DEF holds
  <2> QED BY <2>2, <2>5, <2>6
<1>6. holds(router[m])
  BY <1>5
<1> QED BY <1>6 DEF Get

-----------------------------------------------------------------------------
(* The operations that touch a slot of sessions and peer-groups.           *)

Negations == {n \in Lines : IsRead(n) /\ script[n].scope # "af"}
Removal(n) == _emit_bgp_neighbor_no_op(n)

LEMMA NegationsAre ==
  ASSUME Inv
  PROVE  /\ \A n \in Negations : \E h \in Blocks : n \in SessionNegations(h)
         /\ \A o : IsSessionRemoval(o) <=> \E n \in Negations : o = Removal(n)
<1>1. ASSUME NEW n \in Negations
      PROVE  \E h \in Blocks : n \in SessionNegations(h)
  <2>1. n \in Lines /\ IsRead(n) /\ script[n].kind \in SessionKinds \cup {"neighbor", "group"} /\ script[n].scope # "af"
    BY DEF Negations, IsRead
  <2>2. script[n].kind # "header" /\ script[n] \in Line
    BY <2>1, StanzaIs DEF SessionKinds
  <2>3. Block(n) \in Headers(script[n].scope) /\ n \in Children(Block(n))
    BY <2>1, <2>2, BlockIs
  <2>4. script[n].scope = "global" \/ script[n].scope = "vrf"
    BY <2>1, <2>2 DEF Line
  <2>5. Block(n) \in Blocks
    BY <2>3, <2>4, StanzaIs DEF Blocks
  <2> QED BY <2>1, <2>3, <2>5 DEF SessionNegations
<1>2. ASSUME NEW h \in Blocks, NEW n \in SessionNegations(h)
      PROVE  n \in Negations
  BY RemovalIs DEF Negations, SessionNegations
<1> QED BY <1>1, <1>2 DEF IsSessionRemoval, Removal

LEMMA NegationIs ==
  ASSUME Inv, NEW n \in Negations
  PROVE  LET o == Removal(n)
         IN  /\ n \in Lines /\ n \in Nat /\ n # 0 /\ script[n].no /\ script[n].kind \in SessionKinds \cup {"neighbor", "group"}
             /\ script[n].at \in Peers \cup Groups
             /\ o.scope = script[n].scope /\ o.at = script[n].at /\ o.line = n /\ o.place = <<0, n>>
             /\ script[n].kind \in {"neighbor", "remote_as"} => o.verb = "DELETE"
             /\ script[n].kind = "group" /\ script[n].at \in Groups => o.verb = "DELETE_GROUP" /\ o.scope = "global"
             /\ script[n].kind = "group" /\ script[n].at \in Peers => o.verb = "UNSET" /\ o.kind = "member"
             /\ script[n].kind \notin {"neighbor", "remote_as", "group"} => o.verb = "UNSET" /\ o.kind = script[n].kind
<1>1. PICK h \in Blocks : n \in SessionNegations(h)
  BY NegationsAre
<1>2. n \in Lines => n \in Nat /\ n # 0
  BY StanzaIs
<1> QED BY <1>1, <1>2, RemovalIs DEF Removal

\* A removal touches what its line takes from the router.
LEMMA NegationTouches ==
  ASSUME Inv, NEW n \in Negations, NEW s, IsSessionSlot(s), NEW cfg, s[3] \in Peers \/ script[n].kind = "group"
  PROVE  /\ Touches(cfg, Removal(n), s) <=> TakenBy(cfg, script[n], s)
         /\ LeftBy(Removal(n), s) = Absent
<1> DEFINE o == Removal(n)
           l == script[n]
<1>0. /\ n \in Lines /\ l.no /\ l.kind \in SessionKinds \cup {"neighbor", "group"} /\ l.at \in Peers \cup Groups
      /\ o.scope = l.scope /\ o.at = l.at
      /\ l.kind \in {"neighbor", "remote_as"} => o.verb = "DELETE"
      /\ l.kind = "group" /\ l.at \in Groups => o.verb = "DELETE_GROUP" /\ o.scope = "global"
      /\ l.kind = "group" /\ l.at \in Peers => o.verb = "UNSET" /\ o.kind = "member"
      /\ l.kind \notin {"neighbor", "remote_as", "group"} => o.verb = "UNSET" /\ o.kind = l.kind
  BY NegationIs
<1>1. l \in Line /\ l.kind # "activate"
  BY <1>0, StanzaIs DEF SessionKinds
<1>2. \A sc, x : s \in TargetSlots(sc, x) => s[3] = x
  BY DEF TargetSlots
<1>3. l.kind \in Kinds
  BY <1>0 DEF Kinds
<1>4. SlotOf(l) \in TargetSlots(l.scope, l.at)
  BY <1>3 DEF SlotOf, TargetSlots, SessionScopes
<1> HIDE DEF o, l
<1>5. CASE l.kind \in {"neighbor", "remote_as"}
  <2>1. Touches(cfg, o, s) <=> l.at \in Peers /\ s \in TargetSlots(l.scope, l.at)
    BY <1>0, <1>5 DEF Touches, Reaches, Takes
  <2>2. TakenBy(cfg, l, s) <=> s \in TargetSlots(l.scope, l.at)
    BY <1>0, <1>1, <1>4, <1>5 DEF TakenBy
  <2>3. s[3] \in Peers
    BY <1>5 DEF l
  <2>4. o.verb # "SET"
    BY <1>0, <1>5
  <2> QED BY <1>2, <2>1, <2>2, <2>3, <2>4 DEF LeftBy, o, l
<1>6. CASE l.kind = "group" /\ l.at \in Groups
  <2>1. Touches(cfg, o, s) <=> s \in TakenWith(cfg, l.scope, l.at)
    BY <1>0, <1>6 DEF Touches, Reaches, Takes
  <2>2. SlotOf(l) \in TakenWith(cfg, l.scope, l.at)
    BY <1>4 DEF TakenWith
  <2>3. TakenBy(cfg, l, s) <=> s \in TakenWith(cfg, l.scope, l.at)
    BY <1>0, <1>1, <1>6, <2>2, TargetsAssumption DEF TakenBy
  <2>4. o.verb # "SET"
    BY <1>0, <1>6
  <2> QED BY <2>1, <2>3, <2>4 DEF LeftBy, o, l
<1>7. CASE l.kind = "group" /\ l.at \in Peers
  <2>1. Touches(cfg, o, s) <=> s = <<l.scope, "member", l.at>>
    BY <1>0, <1>7 DEF Touches, Reaches, Takes
  <2>2. SlotOf(l) # s
    BY <1>7, TargetsAssumption DEF SlotOf, IsSessionSlot
  <2>3. TakenBy(cfg, l, s) <=> s = <<l.scope, "member", l.at>>
    BY <1>0, <1>1, <1>7, <2>2, TargetsAssumption DEF TakenBy
  <2>4. o.verb # "SET"
    BY <1>0, <1>7
  <2> QED BY <2>1, <2>3, <2>4 DEF LeftBy, o, l
<1>8. CASE l.kind \notin {"neighbor", "remote_as", "group"}
  <2>1. Touches(cfg, o, s) <=> l.at \in Peers /\ s = SlotOf(l)
    BY <1>0, <1>8 DEF Touches, Reaches, Takes, SlotOf
  <2>2. TakenBy(cfg, l, s) <=> s = SlotOf(l)
    BY <1>0, <1>1, <1>8 DEF TakenBy
  <2>3. s[3] \in Peers
    BY <1>8 DEF l
  <2>4. o.verb # "SET"
    BY <1>0, <1>8
  <2> QED BY <2>1, <2>2, <2>3, <2>4 DEF LeftBy, SlotOf, o, l
<1> QED BY <1>0, <1>5, <1>6, <1>7, <1>8

\* Operations on members and settings touch no session.
LEMMA OthersStay ==
  ASSUME Inv, Finished, NEW s, s[2] \notin MemberKinds \cup ScalarKinds, NEW cfg, NEW o \in ops, Touches(cfg, o, s)
  PROVE  IsSessionSet(o) \/ IsGroupSet(o) \/ IsSessionRemoval(o)
<1> SUFFICES ASSUME ~IsSessionSet(o), ~IsGroupSet(o), ~IsSessionRemoval(o) PROVE FALSE
  OBVIOUS
<1>0. 1 \in Headers("global")
  BY StanzaIs
<1>1. IsOp(o)
  BY OpsAre
<1>2. o.verb \in {"SET", "LIST_REMOVE"}
  BY <1>1, VerbsAre DEF IsOp
<1>3. Reaches(o, s)
  BY <1>2 DEF Touches, Takes
<1>4. ~IsMemberSet(o)
  <2> SUFFICES ASSUME NEW h \in Blocks, NEW m \in MembersOf(h, {"network", "redistribute"}), o = MemberSet(ScopeOf(h), h, m)
               PROVE  FALSE
    BY DEF IsMemberSet
  <2>1. m.kind \in {"network", "redistribute"}
    BY BlocksAre, MemberKindsAre
  <2>2. s = <<ScopeOf(h), m.kind, m.at>>
    BY <1>3, SetsAre
  <2> QED BY <2>1, <2>2 DEF MemberKinds
<1>5. ~IsFamilyMemberSet(o)
  <2> SUFFICES ASSUME NEW af \in Families, NEW m \in af.members, o = MemberSet("af", af.object, m)
               PROVE  FALSE
    BY DEF IsFamilyMemberSet
  <2>1. FamilyHolds(af.object, m)
    BY DEF FamilyHolds
  <2>2. PICK carries, carrier : FamilyMembers(carries, carrier)
    BY FamiliesAre
  <2>3. \/ af.object \in Headers("af") /\ m \in MembersOf(af.object, MemberKinds)
        \/ m \in MembersOf(1, {"aggregate"})
    BY <2>1, <2>2 DEF FamilyMembers
  <2>4. m.kind \in MemberKinds \cup {"aggregate"}
    BY <1>0, <2>3, MemberKindsAre
  <2>5. s = <<"af", m.kind, m.at>>
    BY <1>3, SetsAre
  <2> QED BY <2>4, <2>5 DEF MemberKinds
<1>6. ~IsMetricSet(o)
  <2> SUFFICES ASSUME NEW n \in Metrics, o = MetricSet(n) PROVE FALSE
    BY DEF IsMetricSet
  <2>1. s = Slot(n)
    BY <1>3, SetsAre
  <2> QED BY <2>1 DEF Slot, Metrics, ScalarKinds
<1>7. ~IsBestpathSet(o)
  BY <1>3, SetsAre DEF IsBestpathSet, ScalarKinds
<1>8. ~IsPathsSet(o)
  BY <1>3, SetsAre DEF IsPathsSet, ScalarKinds
<1>9. ~IsFamilyRemoval(o)
  <2> SUFFICES ASSUME NEW n \in AfNegations, o = RemovalOf("LIST_REMOVE", n) PROVE FALSE
    BY DEF IsFamilyRemoval
  <2>1. s = Slot(n)
    BY <1>3, SetsAre
  <2> QED BY <2>1 DEF Slot, AfNegations, MemberKinds
<1>10. ~IsNetworkRemoval(o)
  <2> SUFFICES ASSUME NEW h \in Blocks, NEW n \in Negating(h, "network"), o = RemovalOf("LIST_REMOVE", n) PROVE FALSE
    BY DEF IsNetworkRemoval
  <2>1. s = Slot(n)
    BY <1>3, SetsAre
  <2> QED BY <2>1 DEF Slot, Negating, MemberKinds
<1>11. ~IsDerivedRemoval(o)
  BY <1>3, SetsAre DEF IsDerivedRemoval, MemberKinds
<1> QED BY <1>1, <1>4, <1>5, <1>6, <1>7, <1>8, <1>9, <1>10, <1>11 DEF IsOp

\* A SET touches what its value states.
LEMMA SetTouches ==
  ASSUME NEW s, NEW cfg
  PROVE  /\ \A h, x : LET o == SessionSet(h, x)
                      IN  /\ Touches(cfg, o, s) <=> s \in DOMAIN Sessions(h)[x]
                          /\ LeftBy(o, s) = Sessions(h)[x][s]
                          /\ o.line = NeighborLine(ScopeOf(h), x) /\ o.place = <<h, 0>>
         /\ \A g : LET o == GroupSet(g)
                   IN  /\ Touches(cfg, o, s) <=> s \in DOMAIN _parse_bgp_peer_groups(1)[g]
                       /\ LeftBy(o, s) = _parse_bgp_peer_groups(1)[g][s]
                       /\ o.line = PeerGroupLine("global", g)
<1>1. ASSUME NEW scope, NEW kind, NEW at, NEW v, NEW line, NEW place
      PROVE  LET o == SetOp(scope, kind, at, v, line, place)
             IN  /\ Touches(cfg, o, s) <=> s \in DOMAIN v
                 /\ LeftBy(o, s) = v[s] /\ o.line = line /\ o.place = place
  <2> DEFINE o == SetOp(scope, kind, at, v, line, place)
  <2>1. o.verb = "SET" /\ o.value = v /\ o.line = line /\ o.place = place
    BY DEF SetOp, Op
  <2> HIDE DEF o
  <2>2. (Touches(cfg, o, s) <=> s \in DOMAIN v) /\ LeftBy(o, s) = v[s] /\ o.line = line /\ o.place = place
    BY <2>1 DEF Touches, Reaches, Takes, LeftBy
  <2> QED BY <2>2 DEF o
<1>2. ASSUME NEW h, NEW x
      PROVE  LET o == SessionSet(h, x)
             IN  /\ Touches(cfg, o, s) <=> s \in DOMAIN Sessions(h)[x]
                 /\ LeftBy(o, s) = Sessions(h)[x][s]
                 /\ o.line = NeighborLine(ScopeOf(h), x) /\ o.place = <<h, 0>>
  BY <1>1 DEF SessionSet
<1>3. ASSUME NEW g
      PROVE  LET o == GroupSet(g)
             IN  /\ Touches(cfg, o, s) <=> s \in DOMAIN _parse_bgp_peer_groups(1)[g]
                 /\ LeftBy(o, s) = _parse_bgp_peer_groups(1)[g][s]
                 /\ o.line = PeerGroupLine("global", g)
  BY <1>1 DEF GroupSet
<1> QED BY <1>2, <1>3

SessionSays(h, s) == s[3] \in DOMAIN Sessions(h) /\ s \in DOMAIN Sessions(h)[s[3]]

LEMMA SessionTouched ==
  ASSUME Inv, Finished, NEW s, IsSessionSlot(s), s[3] \in Peers, NEW o, NEW cfg
  PROVE  o \in ops /\ Touches(cfg, o, s) <=>
           \/ \E h \in Blocks : SessionSays(h, s) /\ o = SessionSet(h, s[3])
           \/ \E n \in Negations : TakenBy(cfg, script[n], s) /\ o = Removal(n)
<1>0. s[2] \notin MemberKinds \cup ScalarKinds
  BY DEF IsSessionSlot, SessionKinds, MemberKinds, ScalarKinds
<1>1. o \in ops <=> IsOp(o)
  BY OpsAre
<1>2. ASSUME o \in ops, Touches(cfg, o, s)
      PROVE  \/ \E h \in Blocks : SessionSays(h, s) /\ o = SessionSet(h, s[3])
             \/ \E n \in Negations : TakenBy(cfg, script[n], s) /\ o = Removal(n)
  <2>1. CASE IsSessionSet(o)
    <3>1. PICK h \in Blocks : \E x \in DOMAIN Sessions(h) : o = SessionSet(h, x)
      BY <2>1 DEF IsSessionSet
    <3>2. PICK x \in DOMAIN Sessions(h) : o = SessionSet(h, x)
      BY <3>1
    <3>3. s \in DOMAIN Sessions(h)[x]
      BY <1>2, <3>2, SetTouches
    <3>4. s[3] = x
      BY <3>3, SessionsAre
    <3> QED BY <3>2, <3>3, <3>4 DEF SessionSays
  <2>2. CASE IsGroupSet(o)
    <3>1. PICK g \in DOMAIN _parse_bgp_peer_groups(1) : o = GroupSet(g)
      BY <2>2 DEF IsGroupSet
    <3>2. g \in Groups /\ _parse_bgp_peer_groups(1)[g] = Folded(GroupLines(g))
      BY GroupsAre
    <3>3. GroupLines(g) \in SUBSET Lines /\ \A n \in GroupLines(g) : Slot(n)[3] = g
      BY GroupsAre
    <3>4. DOMAIN Folded(GroupLines(g)) = {Slot(n) : n \in GroupLines(g)}
      BY <3>3, FoldedIs
    <3>5. s \in DOMAIN _parse_bgp_peer_groups(1)[g]
      BY <1>2, <3>1, SetTouches
    <3>6. s[3] = g
      BY <3>2, <3>3, <3>4, <3>5
    <3> QED BY <3>2, <3>6, TargetsAssumption
  <2>3. CASE IsSessionRemoval(o)
    <3>1. PICK n \in Negations : o = Removal(n)
      BY <2>3, NegationsAre
    <3>2. TakenBy(cfg, script[n], s)
      BY <1>2, <3>1, NegationTouches
    <3> QED BY <3>1, <3>2
  <2> QED BY <1>0, <1>2, <2>1, <2>2, <2>3, OthersStay
<1>3. ASSUME NEW h \in Blocks, SessionSays(h, s), o = SessionSet(h, s[3])
      PROVE  o \in ops /\ Touches(cfg, o, s)
  <2>1. IsSessionSet(o)
    BY <1>3 DEF IsSessionSet, SessionSays
  <2>2. Touches(cfg, o, s)
    BY <1>3, SetTouches DEF SessionSays
  <2> QED BY <1>1, <2>1, <2>2 DEF IsOp
<1>4. ASSUME NEW n \in Negations, TakenBy(cfg, script[n], s), o = Removal(n)
      PROVE  o \in ops /\ Touches(cfg, o, s)
  <2>1. IsSessionRemoval(o)
    BY <1>4, NegationsAre
  <2>2. Touches(cfg, o, s)
    BY <1>4, NegationTouches
  <2> QED BY <1>1, <2>1, <2>2 DEF IsOp
<1> QED BY <1>2, <1>3, <1>4

LEMMA GroupTouched ==
  ASSUME Inv, Finished, NEW s, IsSessionSlot(s), s[3] \in Groups, NEW o, NEW cfg
  PROVE  o \in ops /\ Touches(cfg, o, s) <=>
           \/ /\ s[3] \in DOMAIN _parse_bgp_peer_groups(1) /\ s \in DOMAIN _parse_bgp_peer_groups(1)[s[3]]
              /\ o = GroupSet(s[3])
           \/ \E n \in Negations : script[n].kind = "group" /\ TakenBy(cfg, script[n], s) /\ o = Removal(n)
<1>0. s[2] \notin MemberKinds \cup ScalarKinds /\ s[3] \notin Peers
  BY TargetsAssumption DEF IsSessionSlot, SessionKinds, MemberKinds, ScalarKinds
<1>1. o \in ops <=> IsOp(o)
  BY OpsAre
<1>2. ASSUME o \in ops, Touches(cfg, o, s)
      PROVE  \/ /\ s[3] \in DOMAIN _parse_bgp_peer_groups(1) /\ s \in DOMAIN _parse_bgp_peer_groups(1)[s[3]]
                /\ o = GroupSet(s[3])
             \/ \E n \in Negations : script[n].kind = "group" /\ TakenBy(cfg, script[n], s) /\ o = Removal(n)
  <2>1. CASE IsSessionSet(o)
    <3>1. PICK h \in Blocks : \E x \in DOMAIN Sessions(h) : o = SessionSet(h, x)
      BY <2>1 DEF IsSessionSet
    <3>2. PICK x \in DOMAIN Sessions(h) : o = SessionSet(h, x)
      BY <3>1
    <3>3. s \in DOMAIN Sessions(h)[x]
      BY <1>2, <3>2, SetTouches
    <3>4. s[3] = x /\ x \in Peers
      BY <3>3, SessionsAre
    <3> QED BY <1>0, <3>4
  <2>2. CASE IsGroupSet(o)
    <3>1. PICK g \in DOMAIN _parse_bgp_peer_groups(1) : o = GroupSet(g)
      BY <2>2 DEF IsGroupSet
    <3>2. _parse_bgp_peer_groups(1)[g] = Folded(GroupLines(g))
      BY GroupsAre
    <3>3. GroupLines(g) \in SUBSET Lines /\ \A n \in GroupLines(g) : Slot(n)[3] = g
      BY GroupsAre
    <3>4. DOMAIN Folded(GroupLines(g)) = {Slot(n) : n \in GroupLines(g)}
      BY <3>3, FoldedIs
    <3>5. s \in DOMAIN _parse_bgp_peer_groups(1)[g]
      BY <1>2, <3>1, SetTouches
    <3>6. s[3] = g
      BY <3>2, <3>3, <3>4, <3>5
    <3> QED BY <3>1, <3>5, <3>6
  <2>3. CASE IsSessionRemoval(o)
    <3>1. PICK n \in Negations : o = Removal(n)
      BY <2>3, NegationsAre
    <3>2. script[n].kind = "group"
      <4> SUFFICES ASSUME script[n].kind # "group" PROVE FALSE
        OBVIOUS
      <4>1. o.verb \in {"DELETE", "UNSET"}
        BY <3>1, NegationIs
      <4>2. o.at \in Peers /\ s[3] = o.at
        BY <1>2, <4>1 DEF Touches, Reaches, Takes, TargetSlots
      <4> QED BY <1>0, <4>2
    <3>3. TakenBy(cfg, script[n], s)
      BY <1>2, <3>1, <3>2, NegationTouches
    <3> QED BY <3>1, <3>2, <3>3
  <2> QED BY <1>0, <1>2, <2>1, <2>2, <2>3, OthersStay
<1>3. ASSUME s[3] \in DOMAIN _parse_bgp_peer_groups(1), s \in DOMAIN _parse_bgp_peer_groups(1)[s[3]], o = GroupSet(s[3])
      PROVE  o \in ops /\ Touches(cfg, o, s)
  <2>1. IsGroupSet(o)
    BY <1>3 DEF IsGroupSet
  <2>2. Touches(cfg, o, s)
    BY <1>3, SetTouches
  <2> QED BY <1>1, <2>1, <2>2 DEF IsOp
<1>4. ASSUME NEW n \in Negations, script[n].kind = "group", TakenBy(cfg, script[n], s), o = Removal(n)
      PROVE  o \in ops /\ Touches(cfg, o, s)
  <2>1. IsSessionRemoval(o)
    BY <1>4, NegationsAre
  <2>2. Touches(cfg, o, s)
    BY <1>4, NegationTouches
  <2> QED BY <1>1, <2>1, <2>2 DEF IsOp
<1> QED BY <1>2, <1>3, <1>4

-----------------------------------------------------------------------------
(* The last word on a slot, of the lines before m and of the first b       *)
(* operations.  S are the SETs that state the slot, `word` the last one.   *)

Said(m, s, S, word) ==
  /\ (\A n \in Lines : n < m => ~States(n, s)) => S = {}
  /\ \A n : LastToState(n, m, s) =>
       /\ word \in S /\ LeftBy(word, s) = ValueOf(script[n], s)
       /\ \A o \in S : o = word \/ InScriptOrder(o, word)
       /\ \A r \in TakenBefore(m, s) : r < n => InScriptOrder(Removal(r), word)
       /\ \A r \in TakenBefore(m, s) : n < r => \A o \in S : InScriptOrder(o, Removal(r))

ReplayedUpTo(m, b, s, S) ==
  \A o : (\E j \in 1..b : replayed[j] = o /\ Touched(j, s)) <=> o \in S \/ \E r \in TakenBefore(m, s) : o = Removal(r)

LEMMA SameWord ==
  ASSUME Inv, Finished, NEW s, IsSessionSlot(s), NEW m \in 1..(Len(script) + 1), NEW b \in 0..Len(replayed),
         NEW S, NEW word, Said(m, s, S, word), ReplayedUpTo(m, b, s, S),
         \A r \in TakenBefore(m, s) : LeftBy(Removal(r), s) = Absent
  PROVE  Get(configs[b + 1], s) = Get(router[m], s)
<1> DEFINE E == TakenBefore(m, s)
<1>1. /\ (\A i \in 1..b : ~Touched(i, s)) => Get(configs[b + 1], s) = Get(configs[1], s)
      /\ \A i : LastWord(b, i, s) => Get(configs[b + 1], s) = LeftBy(replayed[i], s)
  BY OpsHaveVerbs, ReplayLast
<1>2. /\ \A j \in 1..b : Touched(j, s) => replayed[j] \in S \/ \E r \in E : replayed[j] = Removal(r)
      /\ \A o \in S : \E j \in 1..b : replayed[j] = o /\ Touched(j, s)
      /\ \A r \in E : \E j \in 1..b : replayed[j] = Removal(r) /\ Touched(j, s)
  BY DEF ReplayedUpTo
<1>3. configs[1] = router[1]
  BY RouterIs
<1>4. \A r \in E : r \in Nat /\ Taken(r, s)
  BY StanzaIs DEF TakenBefore
<1>5. CASE \A n \in Lines : n < m => ~States(n, s)
  <2>0. S = {} /\ Get(router[m], s) = IF E = {} THEN Get(router[1], s) ELSE Absent
    BY <1>5, RouterLast DEF Said
  <2> HIDE DEF E
  <2>1. CASE E = {}
    BY <1>1, <1>2, <1>3, <2>0, <2>1
  <2>2. CASE E # {}
    <3>1. PICK r \in E : TRUE
      BY <2>2
    <3>2. PICK j \in 1..b : replayed[j] = Removal(r) /\ Touched(j, s)
      BY <1>2, <3>1
    <3>3. \A i \in 1..b : Touched(i, s) => LeftBy(replayed[i], s) = Absent
      BY <1>2, <2>0 DEF E
    <3>4. LastWord(b, j, s)
      BY <3>2, <3>3 DEF LastWord
    <3> QED BY <1>1, <2>0, <2>2, <3>2, <3>3, <3>4
  <2> QED BY <2>1, <2>2
<1>6. CASE \E n : LastToState(n, m, s)
  <2>1. PICK n : LastToState(n, m, s)
    BY <1>6
  <2>2. /\ word \in S /\ LeftBy(word, s) = ValueOf(script[n], s)
        /\ \A o \in S : o = word \/ InScriptOrder(o, word)
        /\ \A r \in E : r < n => InScriptOrder(Removal(r), word)
        /\ \A r \in E : n < r => \A o \in S : InScriptOrder(o, Removal(r))
    BY <2>1 DEF Said
  <2>3. Get(router[m], s) = IF \E r \in E : n < r THEN Absent ELSE ValueOf(script[n], s)
    BY <2>1, RouterLast
  <2>4. n \in Nat /\ n \notin E
    <3>1. n \in Lines /\ States(n, s)
      BY <2>1 DEF LastToState
    <3>2. ~Taken(n, s)
      BY <3>1 DEF Taken, TakenBy, States, Slot
    <3> QED BY <1>4, <3>1, <3>2, StanzaIs
  <2>5. \A r \in E : LeftBy(Removal(r), s) = Absent
    OBVIOUS
  <2> HIDE DEF E
  <2>6. CASE \E r \in E : n < r
    <3>1. PICK r \in E : n < r
      BY <2>6
    <3>2. PICK j \in 1..b : replayed[j] = Removal(r) /\ Touched(j, s)
      BY <1>2
    <3>3. LastWord(b, j, s)
      <4> SUFFICES ASSUME NEW i \in 1..b, Touched(i, s)
                   PROVE  LeftBy(replayed[i], s) = LeftBy(replayed[j], s) \/ InScriptOrder(replayed[i], replayed[j])
        BY <3>2 DEF LastWord
      <4>1. CASE replayed[i] \in S
        BY <2>2, <3>1, <3>2, <4>1
      <4>2. CASE \E q \in E : replayed[i] = Removal(q)
        BY <2>5, <3>2, <4>2
      <4> QED BY <1>2, <4>1, <4>2
    <3> QED BY <1>1, <2>3, <2>5, <2>6, <3>2, <3>3
  <2>7. CASE ~ \E r \in E : n < r
    <3>2. PICK j \in 1..b : replayed[j] = word /\ Touched(j, s)
      BY <1>2, <2>2
    <3>3. LastWord(b, j, s)
      <4> SUFFICES ASSUME NEW i \in 1..b, Touched(i, s)
                   PROVE  LeftBy(replayed[i], s) = LeftBy(replayed[j], s) \/ InScriptOrder(replayed[i], replayed[j])
        BY <3>2 DEF LastWord
      <4>1. CASE replayed[i] \in S
        BY <2>2, <3>2, <4>1
      <4>2. CASE \E q \in E : replayed[i] = Removal(q)
        <5>1. PICK q \in E : replayed[i] = Removal(q)
          BY <4>2
        <5>2. q < n
          BY <1>4, <2>4, <2>7
        <5> QED BY <2>2, <3>2, <5>1, <5>2
      <4> QED BY <1>2, <4>1, <4>2
    <3> QED BY <1>1, <2>2, <2>3, <2>7, <3>2, <3>3
  <2> QED BY <2>6, <2>7
<1> QED BY <1>5, <1>6, SomeLast

LEMMA OrderIs ==
  ASSUME Inv, NEW r \in Negations, NEW o
  PROVE  /\ o.line # 0 /\ o.line < r => InScriptOrder(o, Removal(r))
         /\ o.line = 0 \/ r < o.line => InScriptOrder(Removal(r), o)
<1>1. Removal(r).line = r /\ r # 0
  BY NegationIs
<1> QED BY <1>1 DEF InScriptOrder

\* The operations of the whole replay.
LEMMA ReplayedAll ==
  ASSUME Inv, Finished, NEW s, NEW S,
         \A o, cfg : o \in ops /\ Touches(cfg, o, s) =>
            \/ o \in S
            \/ \E n \in Negations : TakenBy(cfg, script[n], s) /\ o = Removal(n),
         \A o \in S : o \in ops /\ \A cfg : Touches(cfg, o, s),
         \A n \in Negations : \A j \in 1..Len(replayed) :
            replayed[j] = Removal(n) => (TakenBy(configs[j], script[n], s) <=> Taken(n, s)),
         \A n \in Lines : Taken(n, s) => n \in Negations /\ Removal(n) \in ops,
         \A n \in Negations : \A cfg : TakenBy(cfg, script[n], s) => Touches(cfg, Removal(n), s)
  PROVE  ReplayedUpTo(Len(script) + 1, Len(replayed), s, S)
<1> DEFINE K == Len(replayed)
<1>1. ToSet(replayed) = ops /\ IsSeq(replayed)
  BY DEF Inv, ReplayInv, Finished
<1>2. K \in Nat /\ ops = {replayed[i] : i \in 1..K}
  BY <1>1, SeqIs
<1>3. \A r : r \in TakenBefore(Len(script) + 1, s) <=> r \in Lines /\ Taken(r, s)
  BY StanzaIs DEF TakenBefore
<1>4. \A n \in Negations : n \in Lines
  BY DEF Negations
<1>5. ASSUME NEW o, NEW j \in 1..K, replayed[j] = o, Touched(j, s)
      PROVE  o \in S \/ \E r \in TakenBefore(Len(script) + 1, s) : o = Removal(r)
  <2>1. o \in ops /\ Touches(configs[j], o, s)
    BY <1>2, <1>5 DEF Touched
  <2>2. o \in S \/ \E n \in Negations : TakenBy(configs[j], script[n], s) /\ o = Removal(n)
    BY <2>1
  <2>3. ASSUME NEW n \in Negations, TakenBy(configs[j], script[n], s), o = Removal(n)
        PROVE  n \in TakenBefore(Len(script) + 1, s)
    BY <1>3, <1>4, <1>5, <2>3
  <2> QED BY <2>2, <2>3
<1>6. ASSUME NEW o \in S
      PROVE  \E j \in 1..K : replayed[j] = o /\ Touched(j, s)
  <2>1. PICK j \in 1..K : replayed[j] = o
    BY <1>2
  <2> QED BY <2>1 DEF Touched
<1>7. ASSUME NEW r \in TakenBefore(Len(script) + 1, s)
      PROVE  \E j \in 1..K : replayed[j] = Removal(r) /\ Touched(j, s)
  <2>1. r \in Lines /\ Taken(r, s) /\ r \in Negations /\ Removal(r) \in ops
    BY <1>3
  <2>2. PICK j \in 1..K : replayed[j] = Removal(r)
    BY <1>2, <2>1
  <2>3. TakenBy(configs[j], script[r], s)
    BY <2>1, <2>2
  <2>4. Touches(configs[j], Removal(r), s)
    BY <2>1, <2>3
  <2> QED BY <2>2, <2>4 DEF Touched
<1> QED BY <1>5, <1>6, <1>7 DEF ReplayedUpTo

-----------------------------------------------------------------------------
(* Peer-groups.                                                            *)

LEMMA GroupIsDevice ==
  ASSUME Inv, Finished, NEW s \in GroupSlots, ~CarriedOver(s), ~Unread(s),
         \A n \in Lines : Withdraws(n, s) => script[n].kind = "group",
         (\E n \in Lines : States(n, s)) => \E n \in Lines : States(n, <<"global", "group", s[3]>>)
  PROVE  Get(config, s) = Get(Device, s)
<1> DEFINE g == s[3]
           d == <<"global", "group", g>>
           groups == _parse_bgp_peer_groups(1)
           stated == \E n \in Lines : States(n, s)
           S == IF stated THEN {GroupSet(g)} ELSE {}
           M == Len(script) + 1
           P == Positives("global", {"group"}, g)
           L == PeerGroupLine("global", g)
<1>0. /\ s = <<"global", s[2], g>> /\ s[1] = "global" /\ s[2] \in {"group", "remote_as", "route_map"} /\ g \in Groups /\ g \notin Peers
      /\ IsSessionSlot(s) /\ IsSessionSlot(d) /\ d[3] = g /\ d[2] = "group"
  BY TargetsAssumption DEF GroupSlots, IsSessionSlot, SessionKinds
<1>l. Len(script) \in Nat /\ Lines = 1..Len(script) /\ \A n \in Lines : n \in Nat /\ n < M
  BY StanzaIs
<1>1. /\ \A n \in Lines : States(n, s) <=> Slot(n) = s /\ ~script[n].no
      /\ \A n \in Lines : States(n, d) <=> Slot(n) = d /\ ~script[n].no
  BY <1>0 DEF States
<1>2. ASSUME NEW n \in Lines, Withdraws(n, s)
      PROVE  /\ script[n].no /\ script[n].kind = "group" /\ script[n].at = g /\ script[n].scope = "global"
             /\ n \in Negations /\ Hyphenated
  <2>1. script[n].no /\ script[n].kind = "group"
    BY <1>2 DEF Withdraws
  <2>2. script[n].at = g
    <3>1. Slot(n) = s => script[n].at = g
      BY <1>0 DEF Slot
    <3> QED BY <1>0, <1>2, <2>1, <3>1 DEF Withdraws
  <2>3. script[n].scope = "global"
    <3>1. Belongs(script[n])
      BY StanzaIs
    <3> QED BY <1>0, <2>1, <2>2, <3>1 DEF Belongs
  <2>4. Hyphenated
    BY <1>2, <2>1 DEF Unread
  <2> QED BY <2>1, <2>2, <2>3, <2>4 DEF Negations, IsRead
<1>3. \A n \in Lines : Taken(n, s) => Withdraws(n, s) /\ n \in Negations
  BY <1>0, <1>2, TakenWithdraws DEF Taken
<1>4. /\ \A n : n \in P <=> n \in Lines /\ States(n, d)
      /\ P \in SUBSET (1..Len(script))
  <2>1. \A n : n \in P <=> n \in Candidates("global") /\ ~script[n].no /\ script[n].kind \in {"group"} /\ script[n].at = g
    BY PositivesAre
  <2>2. \A n : n \in Candidates("global") <=> n \in Lines /\ script[n].scope = "global" /\ script[n].kind # "header"
    BY CandidatesAre
  <2>3. \A n \in Lines : Slot(n) = d <=> script[n].scope = "global" /\ script[n].kind = "group" /\ script[n].at = g
    BY DEF Slot
  <2>4. P \in SUBSET (1..Len(script))
    BY PositivesAre
  <2> HIDE DEF P, d
  <2> QED BY <1>1, <2>1, <2>2, <2>3, <2>4
<1>5. Hyphenated => L = LastLine(P)
  BY DEF PeerGroupLine
<1>6. stated => g \in DOMAIN groups
  <2> SUFFICES ASSUME stated PROVE g \in DOMAIN groups
    OBVIOUS
  <2>1. PICK n \in Lines : States(n, d)
    OBVIOUS
  <2> QED BY <1>1, <2>1, GroupsAre
<1>7. ASSUME g \in DOMAIN groups
      PROVE  /\ s \in DOMAIN groups[g] <=> stated
             /\ \A n : LastToState(n, M, s) => groups[g][s] = script[n].val
  <2>1. groups[g] = Folded(GroupLines(g)) /\ GroupLines(g) \in SUBSET Lines
        /\ \A n \in Lines : Slot(n) = s => (n \in GroupLines(g) <=> ~script[n].no)
    <3>1. groups[g] = Folded(GroupLines(g))
      BY <1>7, GroupsAre
    <3>2. \A n : n \in GroupLines(g) <=>
            n \in Lines /\ ~script[n].no /\ \E kind \in {"group", "remote_as", "route_map"} : Slot(n) = <<"global", kind, g>>
      BY GroupsAre
    <3> HIDE DEF g, groups
    <3> QED BY <1>0, <3>1, <3>2
  <2>2. DOMAIN Folded(GroupLines(g)) = {Slot(n) : n \in GroupLines(g)}
    BY <2>1, FoldedIs
  <2>3. s \in DOMAIN groups[g] <=> stated
    BY <1>1, <2>1, <2>2
  <2>4. ASSUME NEW n, LastToState(n, M, s)
        PROVE  groups[g][s] = script[n].val
    <3>1. n \in Lines /\ States(n, s) /\ \A j \in Lines : States(j, s) => j <= n
      BY <1>l, <2>4 DEF LastToState
    <3>2. n \in GroupLines(g) /\ Slot(n) = s /\ \A j \in GroupLines(g) : Slot(j) = Slot(n) => j <= n
      BY <1>1, <2>1, <3>1
    <3>3. Folded(GroupLines(g))[Slot(n)] = script[n].val
      BY <2>1, <3>2, FoldedIs
    <3> QED BY <2>1, <3>2, <3>3
  <2> QED BY <2>3, <2>4
<1>8. \A o, cfg : o \in ops /\ Touches(cfg, o, s) <=>
        o \in S \/ \E n \in Negations : script[n].kind = "group" /\ TakenBy(cfg, script[n], s) /\ o = Removal(n)
  <2>1. \A o, cfg : o \in ops /\ Touches(cfg, o, s) <=>
           \/ g \in DOMAIN groups /\ s \in DOMAIN groups[g] /\ o = GroupSet(g)
           \/ \E n \in Negations : script[n].kind = "group" /\ TakenBy(cfg, script[n], s) /\ o = Removal(n)
    BY <1>0, GroupTouched
  <2>2. \A o : g \in DOMAIN groups /\ s \in DOMAIN groups[g] /\ o = GroupSet(g) <=> o \in S
    BY <1>6, <1>7
  <2> QED BY <2>1, <2>2
<1>9. \A n \in Lines : \A cfg : TakenBy(cfg, script[n], s) <=> Taken(n, s)
  <2> SUFFICES ASSUME NEW n \in Lines, NEW cfg PROVE TakenBy(cfg, script[n], s) <=> Taken(n, s)
    OBVIOUS
  <2>1. script[n] \in Line /\ Belongs(script[n])
    BY StanzaIs
  <2> QED BY <1>0, <2>1, TakenSame DEF Taken
<1> HIDE DEF S, P, L, groups, M
<1>10. ReplayedUpTo(Len(script) + 1, Len(replayed), s, S)
  <2>1. \A n \in Negations : n \in Lines
    BY DEF Negations
  <2>2. \A n \in Lines : Taken(n, s) => n \in Negations /\ script[n].kind = "group" /\ Removal(n) \in ops
    BY <1>2, <1>3, <1>8, <1>9
  <2>3. \A o, cfg : o \in ops /\ Touches(cfg, o, s) =>
            \/ o \in S
            \/ \E n \in Negations : TakenBy(cfg, script[n], s) /\ o = Removal(n)
    BY <1>8
  <2>4. \A o \in S : o \in ops /\ \A cfg : Touches(cfg, o, s)
    BY <1>8
  <2>5. \A n \in Negations : \A j \in 1..Len(replayed) :
            replayed[j] = Removal(n) => (TakenBy(configs[j], script[n], s) <=> Taken(n, s))
    BY <1>9, <2>1
  <2>6. \A n \in Negations : \A cfg : TakenBy(cfg, script[n], s) => Touches(cfg, Removal(n), s)
    BY <1>8, <1>9, <2>1, <2>2
  <2> QED BY <2>2, <2>3, <2>4, <2>5, <2>6, ReplayedAll
<1>11. ASSUME NEW r \in TakenBefore(M, s)
       PROVE  /\ r \in Lines /\ Taken(r, s) /\ r \in Negations /\ Withdraws(r, s) /\ LeftBy(Removal(r), s) = Absent /\ r \in Nat
              /\ Hyphenated
  <2>1. r \in Lines /\ Taken(r, s)
    BY DEF TakenBefore
  <2>2. r \in Negations /\ Withdraws(r, s) /\ script[r].kind = "group" /\ Hyphenated
    BY <1>2, <1>3, <2>1
  <2> QED BY <1>0, <1>l, <2>1, <2>2, NegationTouches
<1>12. Said(M, s, S, GroupSet(g))
  <2>1. (\A n \in Lines : n < M => ~States(n, s)) => S = {}
    BY <1>l DEF S
  <2>2. ASSUME NEW n, LastToState(n, M, s)
        PROVE  /\ GroupSet(g) \in S /\ LeftBy(GroupSet(g), s) = ValueOf(script[n], s)
               /\ \A o \in S : o = GroupSet(g) \/ InScriptOrder(o, GroupSet(g))
               /\ \A r \in TakenBefore(M, s) : r < n => InScriptOrder(Removal(r), GroupSet(g))
               /\ \A r \in TakenBefore(M, s) : n < r => \A o \in S : InScriptOrder(o, Removal(r))
    <3>1. n \in Lines /\ States(n, s) /\ n \in Nat /\ \A j \in Lines : States(j, s) => j <= n
      BY <1>l, <2>2 DEF LastToState
    <3>2. S = {GroupSet(g)} /\ g \in DOMAIN groups
      BY <1>6, <3>1 DEF S
    <3>3. LeftBy(GroupSet(g), s) = ValueOf(script[n], s)
      <4>1. LeftBy(GroupSet(g), s) = groups[g][s]
        BY SetTouches DEF groups
      <4>2. ValueOf(script[n], s) = script[n].val
        BY <1>0, <1>1, <3>1 DEF ValueOf
      <4> QED BY <1>7, <2>2, <3>2, <4>1, <4>2
    <3>4. Hyphenated => L \in P /\ L # 0 /\ L \in Nat /\ L \in Lines /\ States(L, d) /\ \A j \in P : j <= L
      <4>1. P # {}
        BY <1>4, <3>1
      <4>2. LastLine(P) \in P /\ LastLine(P) # 0 /\ \A j \in P : j <= LastLine(P)
        BY <1>4, <1>l, <4>1, LastLineIs
      <4> QED BY <1>4, <1>5, <1>l, <4>2
    <3>5. GroupSet(g).line = L
      BY SetTouches DEF L
    <3>6. ASSUME NEW r \in TakenBefore(M, s), r < n
          PROVE  r < L
      <4> SUFFICES ASSUME ~(r < L) PROVE FALSE
        OBVIOUS
      <4>0. Hyphenated
        BY <1>11
      <4>1. r \in Lines /\ r \in Nat /\ script[r].no /\ script[r].kind = "group" /\ script[r].at = g /\ script[r].scope = "global"
        BY <1>2, <1>11
      <4>2. L # r
        BY <1>1, <3>4, <4>0, <4>1
      <4>3. L < r /\ L < n
        BY <3>1, <3>4, <4>0, <3>6, <4>1, <4>2
      <4>4. s # d
        BY <1>1, <1>4, <3>1, <3>4, <4>0, <4>3
      <4>5. d \in DOMAIN router[n]
        <5>1. Accepts(router[n], script[n])
          BY <3>1, RouterIs
        <5>2. ~script[n].no /\ script[n].kind = s[2] /\ script[n].at = g /\ script[n].scope = "global"
          BY <1>0, <1>1, <3>1 DEF Slot
        <5>3. script[n].kind \in SessionKinds
          BY <1>0, <4>4, <5>2 DEF SessionKinds
        <5> QED BY <1>0, <5>1, <5>2, <5>3 DEF Accepts
      <4>6. Get(router[n], d) # Absent
        BY <1>l, <3>1, <4>5, RouterHolds
      <4>7. LastToState(L, n, d)
        BY <1>4, <3>4, <4>0, <4>3 DEF LastToState
      <4>8. r \in TakenBefore(n, d)
        <5>1. SlotOf(script[r]) = d
          BY <4>1 DEF SlotOf
        <5>2. TakenBy(router[r], script[r], d)
          BY <4>1, <5>1 DEF TakenBy
        <5> QED BY <3>6, <4>1, <5>2 DEF TakenBefore, Taken
      <4>9. Get(router[n], d) = IF \E q \in TakenBefore(n, d) : L < q THEN Absent ELSE ValueOf(script[L], d)
        <5>1. n \in 1..(Len(script) + 1)
          BY <1>l, <3>1
        <5> QED BY <1>0, <4>7, <5>1, RouterLast
      <4> QED BY <4>3, <4>6, <4>8, <4>9
    <3>7. ASSUME NEW r \in TakenBefore(M, s), n < r
          PROVE  L < r
      <4> SUFFICES ASSUME ~(L < r) PROVE FALSE
        OBVIOUS
      <4>0. Hyphenated
        BY <1>11
      <4>1. r \in Lines /\ r \in Nat /\ script[r].no /\ Withdraws(r, s)
        BY <1>2, <1>11
      <4>2. L # r
        BY <1>1, <3>4, <4>0, <4>1
      <4>3. r < L
        BY <3>4, <4>0, <4>1, <4>2
      <4>4. \A j \in r+1..Len(script) : ~States(j, s)
        BY <1>l, <3>1, <3>7, <4>1
      <4>5. ~script[L].no /\ script[L].at = s[3] /\ script[L].kind \in Anchors(s[3]) /\ script[L].scope = Scope(n)
        <5>1. ~script[L].no /\ script[L].scope = "global" /\ script[L].kind = "group" /\ script[L].at = g
          BY <1>1, <3>4, <4>0 DEF Slot
        <5>2. Scope(n) = "global"
          BY <1>0, <1>1, <3>1 DEF Scope, Slot
        <5> QED BY <1>0, <5>1, <5>2 DEF Anchors
      <4>6. CarriedOver(s)
        BY <3>1, <3>4, <4>0, <3>7, <4>1, <4>3, <4>4, <4>5 DEF CarriedOver
      <4> QED BY <4>6
    <3>8. \A r \in TakenBefore(M, s) : r < n => InScriptOrder(Removal(r), GroupSet(g))
      BY <1>11, <3>5, <3>6, OrderIs
    <3>9. \A r \in TakenBefore(M, s) : n < r => InScriptOrder(GroupSet(g), Removal(r))
      BY <1>11, <3>4, <3>5, <3>7, OrderIs
    <3> QED BY <3>2, <3>3, <3>8, <3>9
  <2> QED BY <2>1, <2>2 DEF Said
<1>13. Get(configs[Len(replayed) + 1], s) = Get(router[Len(script) + 1], s)
  <2>1. Len(replayed) \in 0..Len(replayed) /\ Len(script) + 1 \in 1..(Len(script) + 1)
    <3>1. IsSeq(replayed)
      BY DEF Inv, ReplayInv
    <3>2. Len(replayed) \in Nat
      BY <3>1, SeqIs
    <3> QED BY <1>l, <3>2
  <2> QED BY <1>0, <1>10, <1>11, <1>12, <2>1, SameWord DEF M
<1> QED BY <1>13, RouterIs

LEMMA InvGroups == Inv => GroupsAreDevice
BY GroupIsDevice DEF GroupsAreDevice

(* A peer-group the script declares is the router's after the replay,      *)
(* unless one of its attributes is negated, for every stanza and baseline. *)
THEOREM GroupsHold == Spec => []GroupsAreDevice
<1> QED BY InvHolds, InvGroups, PTL

-----------------------------------------------------------------------------
(* What the parsed sessions say.                                           *)

LEMMA CommandsFold ==
  ASSUME Inv, NEW scope, NEW h \in Headers(scope), NEW x, NEW kinds, NEW s, s[2] \in kinds, s[3] = x
  PROVE  LET F == Folded(_bgp_neighbor_commands(h, x, kinds))
         IN  /\ s \in DOMAIN F <=> \E n \in Children(h) : Slot(n) = s /\ ~script[n].no
             /\ \A n \in Children(h) :
                  /\ Slot(n) = s /\ ~script[n].no
                  /\ \A m \in Children(h) : Slot(m) = s /\ ~script[m].no => m <= n
                  => F[s] = script[n].val
<1> DEFINE S == _bgp_neighbor_commands(h, x, kinds)
           F == Folded(S)
<1>1. \A n : n \in S <=> n \in Children(h) /\ n \in Lines /\ script[n].at = x /\ script[n].kind \in kinds /\ ~script[n].no
  BY CommandsAre
<1>2. S \in SUBSET Lines
  BY <1>1
<1>3. DOMAIN F = {Slot(n) : n \in S}
  <2> HIDE DEF S
  <2> QED BY <1>2, FoldedIs
<1>4. \A n \in Children(h) : n \in Lines
  BY ChildrenAre
<1>5. \A n : Slot(n) = s => script[n].kind \in kinds /\ script[n].at = x
  BY DEF Slot
<1>6. \A n : Slot(n) = s => (n \in S <=> n \in Children(h) /\ ~script[n].no)
  BY <1>1, <1>4, <1>5
<1> HIDE DEF S
<1>7. s \in DOMAIN F <=> \E n \in Children(h) : Slot(n) = s /\ ~script[n].no
  <2>1. s \in DOMAIN F <=> \E n \in S : Slot(n) = s
    BY <1>3
  <2>2. \A n \in S : Slot(n) = s => n \in Children(h) /\ ~script[n].no
    BY <1>6
  <2> QED BY <1>6, <2>1, <2>2
<1>8. ASSUME NEW n \in Children(h), Slot(n) = s, ~script[n].no,
             \A m \in Children(h) : Slot(m) = s /\ ~script[m].no => m <= n
      PROVE  F[s] = script[n].val
  <2>1. n \in S /\ \A m \in S : Slot(m) = Slot(n) => m <= n
    BY <1>6, <1>8
  <2>2. F[Slot(n)] = script[n].val
    BY <1>2, <2>1, FoldedIs
  <2> QED BY <1>8, <2>2
<1> QED BY <1>7, <1>8 DEF S

\* The session of a block, before a family adds to it.
Kept(h, x) ==
  \E n \in Children(h) : /\ ~script[n].no /\ script[n].at = x
                         /\ script[n].kind \in ReadKinds(ScopeOf(h)) /\ script[n].kind \in {"remote_as", "member", "shutdown"}

LEMMA KeptIs ==
  ASSUME Inv, NEW h \in Blocks, NEW x \in Peers
  PROVE  IsKept(h, x) <=> Kept(h, x)
<1> DEFINE kinds == ReadKinds(script[h].scope)
<1>0. h \in Headers(ScopeOf(h)) /\ ScopeOf(h) = script[h].scope
  BY BlocksAre DEF ScopeOf
<1>1. Session(h, x) = Folded(_bgp_neighbor_commands(h, x, kinds))
  BY DEF Session
<1> DEFINE S == _bgp_neighbor_commands(h, x, kinds)
<1>2. \A n : n \in S <=> n \in Children(h) /\ n \in Lines /\ script[n].at = x /\ script[n].kind \in kinds /\ ~script[n].no
  BY <1>0, CommandsAre
<1>3. \A n \in Children(h) : n \in Lines
  BY <1>0, ChildrenAre
<1>4. S \in SUBSET Lines
  BY <1>2
<1>5. DOMAIN Session(h, x) = {Slot(n) : n \in S}
  <2> HIDE DEF S
  <2> QED BY <1>1, <1>4, FoldedIs DEF S
<1>6. \A n : Slot(n)[2] = script[n].kind
  BY DEF Slot
<1>7. IsKept(h, x) <=> \E n \in S : script[n].kind \in {"remote_as", "member", "shutdown"}
  <2> HIDE DEF S
  <2> QED BY <1>5, <1>6 DEF IsKept
<1> HIDE DEF S
<1> QED BY <1>0, <1>2, <1>3, <1>7 DEF Kept

OwnSession(h, x) == Over(Exists(ScopeOf(h), x), Session(h, x))
NeighborSlot(h, x) == <<ScopeOf(h), "neighbor", x>>

LEMMA OwnIs ==
  ASSUME Inv, NEW h \in Blocks, NEW x \in Peers, NEW s, s[3] = x
  PROVE  /\ s = NeighborSlot(h, x) => s \in DOMAIN OwnSession(h, x) /\ OwnSession(h, x)[s] = On
         /\ s[2] \in ReadKinds(ScopeOf(h)) =>
              (s \in DOMAIN OwnSession(h, x) <=> \E n \in Children(h) : Slot(n) = s /\ ~script[n].no)
         /\ \A n \in Children(h) :
              /\ s[2] \in ReadKinds(ScopeOf(h)) /\ Slot(n) = s /\ ~script[n].no
              /\ \A m \in Children(h) : Slot(m) = s /\ ~script[m].no => m <= n
              => OwnSession(h, x)[s] = script[n].val
         /\ s \in DOMAIN OwnSession(h, x) => s = NeighborSlot(h, x) \/ (s[2] \in ReadKinds(ScopeOf(h)) /\ s[1] = ScopeOf(h))
<1> DEFINE E == Exists(ScopeOf(h), x)
           F == Session(h, x)
           kinds == ReadKinds(ScopeOf(h))
           S == _bgp_neighbor_commands(h, x, kinds)
<1>0. h \in Headers(ScopeOf(h)) /\ ScopeOf(h) = script[h].scope
  BY BlocksAre DEF ScopeOf
<1>1. DOMAIN E = {NeighborSlot(h, x)} /\ E[NeighborSlot(h, x)] = On
  BY GetOnly DEF Exists, NeighborSlot
<1>2. F = Folded(S)
  BY <1>0 DEF Session
<1>3. "neighbor" \notin kinds
  BY DEF ReadKinds, SessionKinds
<1>4. s[2] \in kinds => s # NeighborSlot(h, x)
  BY <1>3 DEF NeighborSlot
<1>5. /\ DOMAIN OwnSession(h, x) = DOMAIN E \cup DOMAIN F
      /\ s \in DOMAIN E => OwnSession(h, x)[s] = E[s]
      /\ s \in DOMAIN F /\ s \notin DOMAIN E => OwnSession(h, x)[s] = F[s]
  <2>1. OwnSession(h, x) = Over(E, F)
    BY DEF OwnSession
  <2> HIDE DEF E, F
  <2> QED BY <2>1 DEF Over
<1>6. ASSUME s[2] \in kinds
      PROVE  /\ s \in DOMAIN F <=> \E n \in Children(h) : Slot(n) = s /\ ~script[n].no
             /\ \A n \in Children(h) :
                  /\ Slot(n) = s /\ ~script[n].no
                  /\ \A m \in Children(h) : Slot(m) = s /\ ~script[m].no => m <= n
                  => F[s] = script[n].val
  <2> HIDE DEF kinds
  <2> QED BY <1>0, <1>2, <1>6, CommandsFold DEF kinds
<1>7. s \in DOMAIN F => s[2] \in kinds /\ s[1] = ScopeOf(h)
  <2>1. \A n : n \in S <=> n \in Children(h) /\ n \in Lines /\ script[n].at = x /\ script[n].kind \in kinds /\ ~script[n].no
    BY <1>0, CommandsAre
  <2>2. S \in SUBSET Lines
    BY <2>1
  <2>3. DOMAIN Folded(S) = {Slot(n) : n \in S}
    <3> HIDE DEF S
    <3> QED BY <2>2, FoldedIs
  <2>4. \A n \in S : Slot(n)[2] \in kinds /\ Slot(n)[1] = ScopeOf(h)
    <3>1. \A n \in Children(h) : script[n].scope = ScopeOf(h)
      BY <1>0, ChildrenAre
    <3> QED BY <2>1, <3>1 DEF Slot
  <2> HIDE DEF S
  <2> QED BY <1>2, <2>3, <2>4
<1>8. ASSUME NEW n \in Children(h), s[2] \in kinds, Slot(n) = s, ~script[n].no,
             \A m \in Children(h) : Slot(m) = s /\ ~script[m].no => m <= n
      PROVE  OwnSession(h, x)[s] = script[n].val
  BY <1>1, <1>4, <1>5, <1>6, <1>8
<1> HIDE DEF E, F, S
<1>9. s \in DOMAIN OwnSession(h, x) <=> s = NeighborSlot(h, x) \/ s \in DOMAIN F
  BY <1>1, <1>5
<1>10. s[2] \in kinds => (s \in DOMAIN OwnSession(h, x) <=> \E n \in Children(h) : Slot(n) = s /\ ~script[n].no)
  BY <1>4, <1>6, <1>9
<1>11. s = NeighborSlot(h, x) => s \in DOMAIN OwnSession(h, x) /\ OwnSession(h, x)[s] = On
  BY <1>1, <1>5, <1>9
<1> QED BY <1>7, <1>8, <1>9, <1>10, <1>11

-----------------------------------------------------------------------------
(* What the family says of a peer.                                         *)

IsFamilySlot(s) == s = <<"af", s[2], s[3]>> /\ s[2] \in {"activate", "route_map"} /\ s[3] \in Peers

LEMMA FamilyStates ==
  ASSUME NEW s, IsFamilySlot(s), NEW n
  PROVE  States(n, s) <=> Slot(n) = s /\ (script[n].no => s[2] = "activate")
BY DEF States, IsFamilySlot

LEMMA AfPolicyIs ==
  ASSUME Inv, NEW h \in Headers("af"), NEW s, IsFamilySlot(s)
  PROVE  /\ s \in DOMAIN AfPolicy(h, s[3]) <=> \E n \in Children(h) : States(n, s)
         /\ ~ActivatedFirst(s[3]) =>
              \A n \in Children(h) :
                States(n, s) /\ (\A m \in Children(h) : States(m, s) => m <= n)
                  => AfPolicy(h, s[3])[s] = ValueOf(script[n], s)
<1> DEFINE x == s[3]
           kinds == {"activate", "route_map"}
           d == <<"af", "activate", x>>
           F == Folded(_bgp_neighbor_commands(h, x, kinds))
           negated == \E n \in Negating(h, "activate") : script[n].at = x
           E == IF negated THEN Only(d, Off) ELSE Nothing
<1>0. s = <<"af", s[2], x>> /\ s[2] \in kinds /\ s[2] # "neighbor" /\ x \in Peers /\ (s[2] = "activate" <=> s = d)
  BY DEF IsFamilySlot
<1>1. \A n \in Children(h) : n \in Lines /\ script[n].scope = "af" /\ script[n].kind # "header" /\ n \in Nat
  BY ChildrenAre, StanzaIs
<1>2. /\ s \in DOMAIN F <=> \E n \in Children(h) : Slot(n) = s /\ ~script[n].no
      /\ \A n \in Children(h) :
           /\ Slot(n) = s /\ ~script[n].no
           /\ \A m \in Children(h) : Slot(m) = s /\ ~script[m].no => m <= n
           => F[s] = script[n].val
  <2> HIDE DEF kinds
  <2> QED BY <1>0, CommandsFold
<1>3. negated <=> \E n \in Children(h) : Slot(n) = d /\ script[n].no
  BY <1>1 DEF Negating, Slot
<1>4. /\ s \in DOMAIN E <=> negated /\ s = d
      /\ negated => E[d] = Off
  <2>1. DOMAIN Only(d, Off) = {d} /\ Only(d, Off)[d] = Off /\ DOMAIN Nothing = {}
    BY GetOnly DEF Nothing
  <2> HIDE DEF negated, d
  <2> QED BY <2>1
<1>5. AfPolicy(h, x) = Over(F, E)
  BY DEF AfPolicy
<1> HIDE DEF E, F, x
<1>6. /\ s \in DOMAIN AfPolicy(h, x) <=> s \in DOMAIN F \/ s \in DOMAIN E
      /\ s \in DOMAIN F => AfPolicy(h, x)[s] = F[s]
      /\ s \in DOMAIN E /\ s \notin DOMAIN F => AfPolicy(h, x)[s] = E[s]
  BY <1>5 DEF Over
<1>7. \A n : States(n, s) <=> Slot(n) = s /\ (script[n].no => s[2] = "activate")
  BY FamilyStates
<1>8. s \in DOMAIN AfPolicy(h, x) <=> \E n \in Children(h) : States(n, s)
  <2>1. \A n \in Children(h) : script[n].no \in BOOLEAN
    BY <1>1, StanzaIs DEF Line
  <2> HIDE DEF negated, d
  <2> QED BY <1>0, <1>2, <1>3, <1>4, <1>6, <1>7, <2>1
<1>9. ASSUME ~ActivatedFirst(x), NEW n \in Children(h), States(n, s), \A m \in Children(h) : States(m, s) => m <= n
      PROVE  AfPolicy(h, x)[s] = ValueOf(script[n], s)
  <2>0. Slot(n) = s /\ (script[n].no => s[2] = "activate")
    BY <1>7, <1>9
  <2>1. CASE ~script[n].no
    <3>1. \A m \in Children(h) : Slot(m) = s /\ ~script[m].no => m <= n
      BY <1>7, <1>9
    <3>2. s \in DOMAIN F /\ F[s] = script[n].val
      BY <1>2, <2>0, <2>1, <3>1
    <3> QED BY <1>0, <1>6, <2>1, <3>2 DEF ValueOf
  <2>2. CASE script[n].no
    <3>1. s = d
      BY <1>0, <2>0, <2>2
    <3>2. ASSUME NEW m \in Children(h), Slot(m) = s, ~script[m].no
          PROVE  FALSE
      <4>1. m <= n /\ m # n
        BY <1>7, <1>9, <2>2, <3>2
      <4>2. m < n
        BY <4>1, <1>1
      <4>3. Block(m) = h /\ Block(n) = h
        <5>1. script[n].scope = "af" /\ script[m].scope = "af" /\ n \in Lines /\ m \in Lines
              /\ script[n].kind # "header" /\ script[m].kind # "header"
          BY <1>1
        <5> QED BY <5>1, BlockIs
      <4>4. script[n].kind = "activate" /\ script[n].at = x /\ script[m].kind = "activate" /\ script[m].at = x
        BY <2>0, <3>1, <3>2 DEF Slot
      <4> QED BY <1>1, <1>9, <2>2, <3>2, <4>2, <4>3, <4>4 DEF ActivatedFirst
    <3>3. s \notin DOMAIN F
      BY <1>2, <3>2
    <3>4. negated
      BY <1>3, <2>0, <2>2, <3>1
    <3>5. AfPolicy(h, x)[s] = Off
      <4> HIDE DEF negated, d
      <4> QED BY <1>4, <1>6, <3>1, <3>3, <3>4
    <3> QED BY <1>0, <2>2, <3>5 DEF ValueOf
  <2> QED BY <2>1, <2>2
<1> QED BY <1>8, <1>9 DEF x

LEMMA AfEntriesAre ==
  ASSUME Inv, NEW s, IsFamilySlot(s)
  PROVE  /\ s \in DOMAIN AfEntries(s[3]) <=> \E n \in Lines : States(n, s)
         /\ ~ActivatedFirst(s[3]) =>
              \A n : LastToState(n, Len(script) + 1, s) => AfEntries(s[3])[s] = ValueOf(script[n], s)
<1> DEFINE x == s[3]
           domain == UNION {DOMAIN AfPolicy(h, x) : h \in Headers("af")}
           Saying(r) == {h \in Headers("af") : r \in DOMAIN AfPolicy(h, x)}
<1>0. AfEntries(x) = [r \in domain |-> AfPolicy(LastLine(Saying(r)), x)[r]]
  BY DEF AfEntries
<1>1. s \in domain <=> \E h \in Headers("af") : s \in DOMAIN AfPolicy(h, x)
  OBVIOUS
<1>2. \A n \in Lines : States(n, s) => script[n].scope = "af" /\ script[n].kind # "header"
  <2>1. \A n : States(n, s) => Slot(n) = s
    BY FamilyStates
  <2> QED BY <2>1 DEF Slot, IsFamilySlot
<1>3. \A h \in Headers("af") : s \in DOMAIN AfPolicy(h, x) <=> \E n \in Children(h) : States(n, s)
  BY AfPolicyIs
<1>4. \A h \in Headers("af") : \A n \in Children(h) : n \in Lines /\ n \in Nat
  BY ChildrenAre, StanzaIs
<1>5. \A n \in Lines : States(n, s) => Block(n) \in Headers("af") /\ n \in Children(Block(n))
  BY <1>2, BlockIs
<1>6. s \in domain <=> \E n \in Lines : States(n, s)
  <2> HIDE DEF domain, x
  <2> QED BY <1>1, <1>3, <1>4, <1>5
<1>7. ASSUME ~ActivatedFirst(x), NEW n, LastToState(n, Len(script) + 1, s)
      PROVE  AfEntries(x)[s] = ValueOf(script[n], s)
  <2>0. n \in Lines /\ States(n, s) /\ \A j \in Lines : States(j, s) => j <= n
    BY <1>7, StanzaIs DEF LastToState
  <2> DEFINE h == Block(n)
             T == Saying(s)
  <2>1. h \in Headers("af") /\ n \in Children(h) /\ h \in T
    BY <1>3, <1>5, <2>0
  <2>2. \A g \in T : g <= h
    <3> SUFFICES ASSUME NEW g \in T PROVE g <= h
      OBVIOUS
    <3>1. PICK m \in Children(g) : States(m, s)
      BY <1>3
    <3>2. m <= n
      BY <1>4, <2>0, <3>1
    <3> QED BY <2>1, <3>1, <3>2, ChildrenAre
  <2>3. T \in SUBSET (1..Len(script)) /\ Len(script) \in Nat
    BY StanzaIs
  <2>4. LastLine(T) \in T /\ h <= LastLine(T)
    <3> HIDE DEF T, h
    <3> QED BY <2>1, <2>3, LastLineIs
  <2>5. LastLine(T) = h
    <3>1. LastLine(T) \in Nat /\ h \in Nat /\ LastLine(T) <= h
      BY <2>1, <2>2, <2>3, <2>4
    <3> HIDE DEF T, h
    <3> QED BY <2>4, <3>1
  <2>6. AfEntries(x)[s] = AfPolicy(h, x)[s]
    <3> HIDE DEF h, domain
    <3> QED BY <1>0, <1>6, <2>0, <2>5
  <2>7. \A m \in Children(h) : States(m, s) => m <= n
    BY <1>4, <2>0, <2>1
  <2> HIDE DEF h
  <2> QED BY <1>7, <2>0, <2>1, <2>6, <2>7, AfPolicyIs
<1> QED BY <1>0, <1>6, <1>7

LEMMA AfEntriesSlots ==
  ASSUME Inv, NEW x \in Peers, NEW s \in DOMAIN AfEntries(x)
  PROVE  IsFamilySlot(s) /\ s[3] = x
<1>1. PICK h \in Headers("af") : s \in DOMAIN AfPolicy(h, x)
  BY DEF AfEntries
<1> DEFINE kinds == {"activate", "route_map"}
           S == _bgp_neighbor_commands(h, x, kinds)
           F == Folded(S)
           E == IF \E n \in Negating(h, "activate") : script[n].at = x THEN Only(<<"af", "activate", x>>, Off) ELSE Nothing
<1>2. s \in DOMAIN F \/ s \in DOMAIN E
  <2>1. AfPolicy(h, x) = Over(F, E)
    BY DEF AfPolicy
  <2> HIDE DEF E, F
  <2> QED BY <1>1, <2>1 DEF Over
<1>3. s \in DOMAIN E => s = <<"af", "activate", x>>
  <2>1. DOMAIN Only(<<"af", "activate", x>>, Off) = {<<"af", "activate", x>>} /\ DOMAIN Nothing = {}
    BY GetOnly DEF Nothing
  <2> QED BY <2>1
<1>4. s \in DOMAIN F => s = <<"af", s[2], x>> /\ s[2] \in kinds
  <2>1. \A n : n \in S <=> n \in Children(h) /\ n \in Lines /\ script[n].at = x /\ script[n].kind \in kinds /\ ~script[n].no
    BY CommandsAre
  <2>2. S \in SUBSET Lines
    BY <2>1
  <2>3. DOMAIN F = {Slot(n) : n \in S}
    <3> HIDE DEF S
    <3> QED BY <2>2, FoldedIs
  <2>4. \A n \in S : Slot(n) = <<"af", script[n].kind, x>> /\ script[n].kind \in kinds
    <3>1. \A n \in Children(h) : script[n].scope = "af"
      BY ChildrenAre
    <3> QED BY <2>1, <3>1 DEF Slot
  <2> HIDE DEF S
  <2> QED BY <2>3, <2>4
<1> QED BY <1>2, <1>3, <1>4 DEF IsFamilySlot

-----------------------------------------------------------------------------
(* Which SETs state a slot of a session, and what the last one states.     *)

IsOwnSlot(s) ==
  s = <<s[1], s[2], s[3]>> /\ s[1] \in {"global", "vrf"} /\ s[2] \in SessionKinds \cup {"neighbor"} /\ s[3] \in Peers

LEMMA SlotsAre ==
  ASSUME NEW s \in SessionSlots
  PROVE  /\ IsSessionSlot(s) /\ s[3] \in Peers /\ s[3] \notin Groups
         /\ s[1] # "af" => IsOwnSlot(s)
         /\ s[1] = "af" => IsFamilySlot(s)
BY TargetsAssumption DEF SessionSlots, IsSessionSlot, IsOwnSlot, IsFamilySlot, SessionKinds

LEMMA OwnStates ==
  ASSUME Inv, NEW s, IsOwnSlot(s), NEW n \in Lines
  PROVE  /\ States(n, s) <=> IF s[2] = "neighbor"
                             THEN ~script[n].no /\ script[n].kind \in SessionKinds /\ script[n].scope = s[1] /\ script[n].at = s[3]
                             ELSE Slot(n) = s /\ ~script[n].no
         /\ States(n, s) => /\ ~script[n].no /\ script[n].kind \in SessionKinds /\ script[n].kind # "header"
                            /\ script[n].scope = s[1] /\ script[n].at = s[3]
                            /\ States(n, <<s[1], "neighbor", s[3]>>)
<1>0. s = <<s[1], s[2], s[3]>> /\ s[2] # "activate" /\ s[2] \in SessionKinds \cup {"neighbor"}
  BY DEF IsOwnSlot, SessionKinds
<1>1. States(n, s) <=> IF s[2] = "neighbor"
                       THEN ~script[n].no /\ script[n].kind \in SessionKinds /\ script[n].scope = s[1] /\ script[n].at = s[3]
                       ELSE Slot(n) = s /\ ~script[n].no
  <2>1. s[2] = "neighbor" => Slot(n) # s \/ script[n].no
    <3>1. Belongs(script[n])
      BY StanzaIs
    <3>2. script[n].kind = "neighbor" => script[n].no
      BY <3>1 DEF Belongs
    <3> QED BY <1>0, <3>2 DEF Slot
  <2> QED BY <1>0, <2>1 DEF States
<1>2. Slot(n) = s => script[n].kind = s[2] /\ script[n].scope = s[1] /\ script[n].at = s[3]
  BY <1>0 DEF Slot
<1>3. States(n, s) => /\ ~script[n].no /\ script[n].kind \in SessionKinds
                      /\ script[n].scope = s[1] /\ script[n].at = s[3]
  BY <1>0, <1>1, <1>2
<1>4. script[n].kind \in SessionKinds => script[n].kind # "header"
  BY DEF SessionKinds
<1>5. States(n, s) => States(n, <<s[1], "neighbor", s[3]>>)
  BY <1>3 DEF States
<1> QED BY <1>1, <1>3, <1>4, <1>5

LEMMA OwnSays ==
  ASSUME Inv, NEW h \in Blocks, NEW s, IsOwnSlot(s), s[1] = ScopeOf(h), s[2] \in ReadKinds(s[1]) \cup {"neighbor"}, IsKept(h, s[3])
  PROVE  /\ s \in DOMAIN OwnSession(h, s[3]) <=> \E n \in Children(h) : States(n, s)
         /\ \A n \in Children(h) :
              States(n, s) /\ (\A m \in Children(h) : States(m, s) => m <= n)
                => OwnSession(h, s[3])[s] = ValueOf(script[n], s)
<1> DEFINE x == s[3]
           own == OwnSession(h, x)
<1>0. s = <<s[1], s[2], x>> /\ x \in Peers
  BY DEF IsOwnSlot
<1>1. \A n \in Children(h) : n \in Lines /\ script[n].scope = s[1]
  BY BlocksAre, ChildrenAre
<1>2. CASE s[2] = "neighbor"
  <2>1. s \in DOMAIN own /\ own[s] = On
    <3>1. s = NeighborSlot(h, x)
      BY <1>0, <1>2 DEF NeighborSlot
    <3> QED BY <1>0, <3>1, OwnIs
  <2>2. \E n \in Children(h) : States(n, s)
    <3>1. Kept(h, x)
      BY <1>0, KeptIs
    <3>2. PICK n \in Children(h) : ~script[n].no /\ script[n].at = x /\ script[n].kind \in ReadKinds(ScopeOf(h))
      BY <3>1 DEF Kept
    <3>3. script[n].kind \in SessionKinds
      BY <3>2 DEF ReadKinds, SessionKinds
    <3> QED BY <1>1, <1>2, <3>2, <3>3, OwnStates
  <2>3. \A n : ValueOf(script[n], s) = On
    BY <1>2 DEF ValueOf
  <2> QED BY <2>1, <2>2, <2>3
<1>3. CASE s[2] # "neighbor"
  <2>0. s[2] \in ReadKinds(ScopeOf(h))
    BY <1>3
  <2>1. \A n \in Children(h) : States(n, s) <=> Slot(n) = s /\ ~script[n].no
    BY <1>1, <1>3, OwnStates
  <2>2. s \in DOMAIN own <=> \E n \in Children(h) : Slot(n) = s /\ ~script[n].no
    BY <1>0, <2>0, OwnIs
  <2>3. ASSUME NEW n \in Children(h), States(n, s), \A m \in Children(h) : States(m, s) => m <= n
        PROVE  own[s] = ValueOf(script[n], s)
    <3>1. Slot(n) = s /\ ~script[n].no /\ \A m \in Children(h) : Slot(m) = s /\ ~script[m].no => m <= n
      BY <2>1, <2>3
    <3>2. own[s] = script[n].val
      BY <1>0, <2>0, <3>1, OwnIs
    <3> QED BY <1>3, <3>1, <3>2 DEF ValueOf
  <2> QED BY <2>1, <2>2, <2>3
<1> QED BY <1>2, <1>3

\* The session of a VRF block is its own; those of the stanza take what the
\* family says, and a peer of the family alone exists.
LEMMA VrfSessions ==
  ASSUME Inv, NEW h \in Headers("vrf"), NEW x
  PROVE  /\ h \in Blocks /\ ScopeOf(h) = "vrf" /\ h # 1
         /\ x \in DOMAIN Sessions(h) <=> x \in Peers /\ IsKept(h, x)
         /\ x \in DOMAIN Sessions(h) => Sessions(h)[x] = OwnSession(h, x)
<1>1. h \in Blocks /\ ScopeOf(h) = "vrf"
  BY StanzaIs DEF Blocks, ScopeOf
<1>2. h # 1
  BY <1>1, BlocksAre
<1>3. Sessions(h) = _parse_bgp_neighbors(h)
  BY <1>2 DEF Sessions
<1>4. Sessions(h) = [y \in {y \in Peers : IsKept(h, y)} |-> OwnSession(h, y)]
  BY <1>3 DEF _parse_bgp_neighbors, OwnSession, ScopeOf
<1> QED BY <1>1, <1>2, <1>4

LEMMA StanzaSessions ==
  ASSUME Inv, NEW x
  PROVE  /\ 1 \in Blocks /\ ScopeOf(1) = "global"
         /\ x \in DOMAIN Sessions(1) <=> x \in Peers /\ (IsKept(1, x) \/ DOMAIN AfEntries(x) # {})
         /\ x \in DOMAIN Sessions(1) =>
              Sessions(1)[x] = Over(AfEntries(x), IF IsKept(1, x) THEN OwnSession(1, x) ELSE Exists("global", x))
<1>1. 1 \in Blocks
  BY DEF Blocks
<1>2. ScopeOf(1) = "global"
  <2>1. 1 \in Headers("global")
    BY StanzaIs
  <2> QED BY <2>1, StanzaIs DEF ScopeOf
<1> DEFINE nb == _parse_bgp_neighbors(1)
           all == _apply_bgp_af_neighbor_policies(nb)
<1>3. nb = [y \in {y \in Peers : IsKept(1, y)} |-> OwnSession(1, y)]
  BY DEF _parse_bgp_neighbors, OwnSession, ScopeOf
<1>4. Sessions(1) = all
  BY DEF Sessions
<1>5. DOMAIN nb = {y \in Peers : IsKept(1, y)} /\ (x \in Peers /\ IsKept(1, x) => nb[x] = OwnSession(1, x))
  BY <1>3
<1>6. /\ DOMAIN all = DOMAIN nb \cup {y \in Peers : DOMAIN AfEntries(y) # {}}
      /\ x \in DOMAIN all => all[x] = Over(AfEntries(x), IF x \in DOMAIN nb THEN nb[x] ELSE Exists("global", x))
  <2> HIDE DEF nb
  <2> QED BY DEF _apply_bgp_af_neighbor_policies
<1> HIDE DEF nb, all
<1>7. x \in DOMAIN nb <=> x \in Peers /\ IsKept(1, x)
  BY <1>5
<1>8. x \in DOMAIN all <=> x \in Peers /\ (IsKept(1, x) \/ DOMAIN AfEntries(x) # {})
  BY <1>6, <1>7
<1>9. x \in DOMAIN all => all[x] = Over(AfEntries(x), IF IsKept(1, x) THEN OwnSession(1, x) ELSE Exists("global", x))
  BY <1>5, <1>6, <1>7, <1>8
<1> QED BY <1>1, <1>2, <1>4, <1>8, <1>9

\* The block whose session has what line n states.
Home(n, s) == IF s[1] = "vrf" THEN Block(n) ELSE 1

SaysLast(s) ==
  \A n : LastToState(n, Len(script) + 1, s) =>
    /\ Home(n, s) \in Blocks /\ SessionSays(Home(n, s), s)
    /\ Sessions(Home(n, s))[s[3]][s] = ValueOf(script[n], s)

LEMMA VrfSays ==
  ASSUME Inv, NEW s, IsOwnSlot(s), s[1] = "vrf", s[2] \in ReadKinds("vrf") \cup {"neighbor"},
         \A n \in Lines : States(n, s) => IsKept(Block(n), s[3])
  PROVE  /\ \A h \in Blocks : SessionSays(h, s) <=> h \in Headers("vrf") /\ \E n \in Children(h) : States(n, s)
         /\ SaysLast(s)
<1> DEFINE x == s[3]
<1>0. x \in Peers /\ s = <<"vrf", s[2], x>>
  BY DEF IsOwnSlot
<1>1. \A n \in Lines : States(n, s) => Block(n) \in Headers("vrf") /\ n \in Children(Block(n)) /\ IsKept(Block(n), x)
  <2>1. \A n \in Lines : States(n, s) => script[n].scope = "vrf" /\ script[n].kind # "header"
    BY OwnStates
  <2> QED BY <2>1, BlockIs
<1>2. \A h \in Headers("vrf") : \A n \in Children(h) :
        n \in Lines /\ n \in Nat /\ script[n].scope = "vrf" /\ script[n].kind # "header"
  BY ChildrenAre, StanzaIs
<1>3. \A h \in Headers("vrf") : \A n \in Children(h) : Block(n) = h
  BY <1>2, BlockIs
<1>4. ASSUME NEW h \in Headers("vrf"), IsKept(h, x)
      PROVE  /\ s \in DOMAIN OwnSession(h, x) <=> \E n \in Children(h) : States(n, s)
             /\ \A n \in Children(h) :
                  States(n, s) /\ (\A m \in Children(h) : States(m, s) => m <= n)
                    => OwnSession(h, x)[s] = ValueOf(script[n], s)
  <2>1. h \in Blocks /\ ScopeOf(h) = "vrf"
    BY VrfSessions
  <2> QED BY <1>4, <2>1, OwnSays
<1>5. ASSUME NEW h \in Headers("vrf")
      PROVE  SessionSays(h, s) <=> \E n \in Children(h) : States(n, s)
  <2>1. SessionSays(h, s) <=> IsKept(h, x) /\ s \in DOMAIN OwnSession(h, x)
    BY <1>0, VrfSessions DEF SessionSays
  <2>2. (\E n \in Children(h) : States(n, s)) => IsKept(h, x)
    BY <1>1, <1>2, <1>3
  <2> QED BY <1>4, <2>1, <2>2
<1>6. ~SessionSays(1, s)
  <2> SUFFICES ASSUME x \in DOMAIN Sessions(1), s \in DOMAIN Sessions(1)[x] PROVE FALSE
    BY DEF SessionSays
  <2> DEFINE E == AfEntries(x)
             own == IF IsKept(1, x) THEN OwnSession(1, x) ELSE Exists("global", x)
  <2>1. Sessions(1)[x] = Over(E, own)
    BY StanzaSessions
  <2>2. s \in DOMAIN E \/ s \in DOMAIN own
    <3> HIDE DEF E, own
    <3> QED BY <2>1 DEF Over
  <2>3. s \notin DOMAIN E
    BY <1>0, AfEntriesSlots DEF IsFamilySlot
  <2>4. s \notin DOMAIN Exists("global", x)
    BY <1>0 DEF Exists, Only
  <2>5. s \notin DOMAIN OwnSession(1, x)
    <3>1. 1 \in Blocks /\ ScopeOf(1) = "global"
      BY StanzaSessions
    <3>2. s \in DOMAIN OwnSession(1, x) => s = NeighborSlot(1, x) \/ s[1] = "global"
      BY <1>0, <3>1, OwnIs
    <3>3. NeighborSlot(1, x)[1] = "global"
      BY <3>1 DEF NeighborSlot
    <3> QED BY <1>0, <3>2, <3>3
  <2> QED BY <2>2, <2>3, <2>4, <2>5
<1>7. ASSUME NEW n, LastToState(n, Len(script) + 1, s)
      PROVE  Sessions(Block(n))[x][s] = ValueOf(script[n], s) /\ Block(n) \in Blocks /\ SessionSays(Block(n), s)
  <2>0. n \in Lines /\ States(n, s) /\ \A j \in Lines : States(j, s) => j <= n
    BY <1>7, StanzaIs DEF LastToState
  <2> DEFINE h == Block(n)
  <2>1. h \in Headers("vrf") /\ n \in Children(h) /\ IsKept(h, x)
    BY <1>1, <2>0
  <2>2. SessionSays(h, s) /\ h \in Blocks
    BY <1>5, <2>0, <2>1, VrfSessions
  <2>3. OwnSession(h, x)[s] = ValueOf(script[n], s)
    <3> HIDE DEF h
    <3>1. \A m \in Children(h) : States(m, s) => m <= n
      BY <1>2, <2>0, <2>1
    <3> QED BY <1>4, <2>0, <2>1, <3>1
  <2>4. Sessions(h)[x] = OwnSession(h, x)
    <3> HIDE DEF h
    <3> QED BY <1>0, <2>1, VrfSessions
  <2> QED BY <2>2, <2>3, <2>4
<1>8. \A h \in Blocks : h = 1 \/ h \in Headers("vrf")
  BY DEF Blocks
<1>9. 1 \notin Headers("vrf")
  BY VrfSessions
<1> QED BY <1>5, <1>6, <1>7, <1>8, <1>9 DEF SaysLast, Home

LEMMA VrfStatesVrf ==
  ASSUME Inv, NEW h \in Headers("vrf"), NEW s, s[3] \in Peers, s = <<s[1], s[2], s[3]>>, SessionSays(h, s)
  PROVE  s[1] = "vrf"
<1>1. h \in Blocks /\ ScopeOf(h) = "vrf" /\ s \in DOMAIN OwnSession(h, s[3])
  BY VrfSessions DEF SessionSays
<1>2. s = NeighborSlot(h, s[3]) \/ s[1] = "vrf"
  BY <1>1, OwnIs
<1> QED BY <1>1, <1>2 DEF NeighborSlot

LEMMA StanzaSays ==
  ASSUME Inv, NEW s, IsOwnSlot(s), s[1] = "global",
         \A n \in Lines : States(n, s) => IsKept(1, s[3])
  PROVE  /\ \A h \in Blocks : SessionSays(h, s) <=>
              /\ h = 1
              /\ \/ \E n \in Lines : States(n, s)
                 \/ s[2] = "neighbor" /\ ~IsKept(1, s[3]) /\ DOMAIN AfEntries(s[3]) # {}
         /\ SaysLast(s)
         /\ s[2] = "neighbor" => Sessions(1)[s[3]][s] = On \/ ~SessionSays(1, s)
<1> DEFINE x == s[3]
           stated == \E n \in Lines : States(n, s)
           E == AfEntries(x)
           own == IF IsKept(1, x) THEN OwnSession(1, x) ELSE Exists("global", x)
<1>0. x \in Peers /\ s = <<"global", s[2], x>> /\ s[2] \in ReadKinds("global") \cup {"neighbor"} /\ (s[2] = "neighbor" => s = <<"global", "neighbor", x>>)
  BY DEF IsOwnSlot, ReadKinds
<1>1. 1 \in Blocks /\ ScopeOf(1) = "global" /\ (x \in DOMAIN Sessions(1) <=> IsKept(1, x) \/ DOMAIN E # {})
      /\ (x \in DOMAIN Sessions(1) => Sessions(1)[x] = Over(E, own))
  BY <1>0, StanzaSessions
<1>2. \A n \in Lines : States(n, s) => n \in Children(1)
  <2>1. \A n \in Lines : States(n, s) => script[n].scope = "global" /\ script[n].kind # "header"
    BY OwnStates
  <2> QED BY <2>1, ChildrenAre
<1>3. \A n \in Children(1) : n \in Lines
  BY ChildrenAre
<1>4. IsKept(1, x) =>
        /\ s \in DOMAIN OwnSession(1, x) <=> stated
        /\ \A n \in Children(1) :
             States(n, s) /\ (\A m \in Children(1) : States(m, s) => m <= n)
               => OwnSession(1, x)[s] = ValueOf(script[n], s)
  <2> SUFFICES ASSUME IsKept(1, x)
               PROVE  /\ s \in DOMAIN OwnSession(1, x) <=> stated
                      /\ \A n \in Children(1) :
                           States(n, s) /\ (\A m \in Children(1) : States(m, s) => m <= n)
                             => OwnSession(1, x)[s] = ValueOf(script[n], s)
    OBVIOUS
  <2>1. s \in DOMAIN OwnSession(1, x) <=> \E n \in Children(1) : States(n, s)
    BY <1>0, <1>1, OwnSays
  <2>2. \A n \in Children(1) :
           States(n, s) /\ (\A m \in Children(1) : States(m, s) => m <= n)
             => OwnSession(1, x)[s] = ValueOf(script[n], s)
    BY <1>0, <1>1, OwnSays
  <2> QED BY <1>2, <1>3, <2>1, <2>2
<1>5. /\ s \in DOMAIN Exists("global", x) <=> s[2] = "neighbor"
      /\ s[2] = "neighbor" => Exists("global", x)[s] = On
  BY <1>0 DEF Exists, Only
<1>6. s \notin DOMAIN E
  BY <1>0, AfEntriesSlots DEF IsFamilySlot
<1>7. stated => IsKept(1, x)
  OBVIOUS
<1>8. x \in DOMAIN Sessions(1) => (s \in DOMAIN Sessions(1)[x] <=> s \in DOMAIN own)
                                  /\ (s \in DOMAIN own => Sessions(1)[x][s] = own[s])
  <2> HIDE DEF E, own
  <2> QED BY <1>1, <1>6 DEF Over
<1> HIDE DEF E, stated
<1>9. SessionSays(1, s) <=> stated \/ (s[2] = "neighbor" /\ ~IsKept(1, x) /\ DOMAIN E # {})
  <2>1. SessionSays(1, s) <=> x \in DOMAIN Sessions(1) /\ s \in DOMAIN own
    BY <1>8 DEF SessionSays
  <2>2. CASE IsKept(1, x)
    BY <1>1, <1>4, <2>1, <2>2
  <2>3. CASE ~IsKept(1, x)
    BY <1>1, <1>5, <1>7, <2>1, <2>3
  <2> QED BY <2>2, <2>3
<1>10. ASSUME NEW n, LastToState(n, Len(script) + 1, s)
       PROVE  Sessions(1)[x][s] = ValueOf(script[n], s) /\ SessionSays(1, s)
  <2>0. n \in Lines /\ States(n, s) /\ \A j \in Lines : States(j, s) => j <= n
    BY <1>10, StanzaIs DEF LastToState
  <2>1. IsKept(1, x) /\ n \in Children(1) /\ \A m \in Children(1) : States(m, s) => m <= n
    BY <1>2, <1>3, <2>0
  <2>2. stated
    BY <2>0 DEF stated
  <2>3. OwnSession(1, x)[s] = ValueOf(script[n], s) /\ s \in DOMAIN OwnSession(1, x)
    BY <1>4, <2>0, <2>1, <2>2
  <2> QED BY <1>1, <1>8, <1>9, <2>1, <2>2, <2>3
<1>11. ASSUME s[2] = "neighbor", SessionSays(1, s)
       PROVE  Sessions(1)[x][s] = On
  <2>1. CASE IsKept(1, x)
    <3>1. s = NeighborSlot(1, x)
      BY <1>0, <1>1, <1>11 DEF NeighborSlot
    <3>2. s \in DOMAIN OwnSession(1, x) /\ OwnSession(1, x)[s] = On
      BY <1>0, <1>1, <3>1, OwnIs
    <3> QED BY <1>8, <1>11, <2>1, <3>2 DEF SessionSays
  <2>2. CASE ~IsKept(1, x)
    BY <1>5, <1>8, <1>11, <2>2 DEF SessionSays
  <2> QED BY <2>1, <2>2
<1>12. \A h \in Headers("vrf") : ~SessionSays(h, s)
  BY <1>0, VrfStatesVrf
<1>13. \A h \in Blocks : h = 1 \/ h \in Headers("vrf")
  BY DEF Blocks
<1>14. \A n : Home(n, s) = 1
  BY <1>0 DEF Home
<1> QED BY <1>1, <1>9, <1>10, <1>11, <1>12, <1>13, <1>14 DEF SaysLast, stated, E

LEMMA FamilySays ==
  ASSUME Inv, NEW s, IsFamilySlot(s)
  PROVE  /\ \A h \in Blocks : SessionSays(h, s) <=> h = 1 /\ \E n \in Lines : States(n, s)
         /\ ~ActivatedFirst(s[3]) => SaysLast(s)
<1> DEFINE x == s[3]
           stated == \E n \in Lines : States(n, s)
           E == AfEntries(x)
           own == IF IsKept(1, x) THEN OwnSession(1, x) ELSE Exists("global", x)
<1>0. x \in Peers /\ s = <<"af", s[2], x>>
  BY DEF IsFamilySlot
<1>1. 1 \in Blocks /\ ScopeOf(1) = "global" /\ (x \in DOMAIN Sessions(1) <=> IsKept(1, x) \/ DOMAIN E # {})
      /\ (x \in DOMAIN Sessions(1) => Sessions(1)[x] = Over(E, own))
  BY <1>0, StanzaSessions
<1>2. s \notin DOMAIN own
  <2>1. s \notin DOMAIN Exists("global", x)
    BY <1>0 DEF Exists, Only
  <2>2. s \in DOMAIN OwnSession(1, x) => s = NeighborSlot(1, x) \/ s[1] = "global"
    BY <1>0, <1>1, OwnIs
  <2>3. NeighborSlot(1, x)[1] = "global"
    BY <1>1 DEF NeighborSlot
  <2> QED BY <1>0, <2>1, <2>2, <2>3
<1>3. s \in DOMAIN E <=> stated
  BY AfEntriesAre
<1>4. x \in DOMAIN Sessions(1) => (s \in DOMAIN Sessions(1)[x] <=> s \in DOMAIN E)
                                  /\ (s \in DOMAIN E => Sessions(1)[x][s] = E[s])
  <2> HIDE DEF E, own
  <2> QED BY <1>1, <1>2 DEF Over
<1> HIDE DEF E, stated
<1>5. SessionSays(1, s) <=> stated
  BY <1>1, <1>3, <1>4 DEF SessionSays
<1>6. ASSUME ~ActivatedFirst(x), NEW n, LastToState(n, Len(script) + 1, s)
      PROVE  Sessions(1)[x][s] = ValueOf(script[n], s) /\ SessionSays(1, s)
  <2>0. stated
    BY <1>6 DEF LastToState, stated
  <2>1. E[s] = ValueOf(script[n], s)
    BY <1>6, AfEntriesAre DEF E
  <2> QED BY <1>1, <1>3, <1>4, <1>5, <2>0, <2>1
<1>7. \A h \in Headers("vrf") : ~SessionSays(h, s)
  BY <1>0, VrfStatesVrf
<1>8. \A h \in Blocks : h = 1 \/ h \in Headers("vrf")
  BY DEF Blocks
<1>9. \A n : Home(n, s) = 1
  BY <1>0 DEF Home
<1> QED BY <1>1, <1>5, <1>6, <1>7, <1>8, <1>9 DEF SaysLast, stated

-----------------------------------------------------------------------------
(* The SET of a session stands at its last positive line.                  *)

LEMMA LineOfSession ==
  ASSUME Inv, NEW scope, NEW x
  PROVE  LET P == Positives(scope, SessionKinds, x)
             L == NeighborLine(scope, x)
         IN  /\ L \in Nat
             /\ P = {} => L = 0
             /\ \A n \in P : /\ L \in P /\ L # 0 /\ L \in Lines /\ n <= L
                             /\ ~script[L].no /\ script[L].kind \in SessionKinds /\ script[L].at = x /\ script[L].scope = scope
<1> DEFINE P == Positives(scope, SessionKinds, x)
           L == NeighborLine(scope, x)
<1>1. P \in SUBSET (1..Len(script)) /\ Len(script) \in Nat /\ Lines = 1..Len(script)
  BY PositivesAre, StanzaIs
<1>2. \A n : n \in P <=> n \in Candidates(scope) /\ ~script[n].no /\ script[n].kind \in SessionKinds /\ script[n].at = x
  BY PositivesAre
<1>3. \A n \in P : script[n].scope = scope
  BY <1>2, CandidatesAre
<1>4. L = LastLine(P)
  BY DEF NeighborLine
<1> HIDE DEF P
<1>5. LastLine(P) \in 0..Len(script) /\ (P = {} => LastLine(P) = 0)
      /\ (P # {} => LastLine(P) \in P /\ LastLine(P) # 0 /\ \A m \in P : m <= LastLine(P))
  BY <1>1, LastLineIs
<1> HIDE DEF L
<1>6. ASSUME NEW n \in P
      PROVE  L \in P /\ L # 0 /\ n <= L
  BY <1>4, <1>5
<1>7. L \in Nat /\ (P = {} => L = 0)
  BY <1>1, <1>4, <1>5
<1> QED BY <1>1, <1>2, <1>3, <1>6, <1>7 DEF P, L

LEMMA TakenIs ==
  ASSUME Inv, Finished, NEW s \in SessionSlots, NEW r \in Lines, NEW cfg, TakenBy(cfg, script[r], s)
  PROVE  /\ Withdraws(r, s) /\ script[r].no /\ script[r].kind # "activate" /\ r \in Nat
         /\ (s[1] # "af" \/ Slot(r) # s) /\ ~Unread(s) => r \in Negations
<1>0. IsSessionSlot(s) /\ s[3] \in Peers /\ s[3] \notin Groups
  BY SlotsAre
<1>1. Withdraws(r, s)
  BY <1>0, TakenWithdraws
<1>2. script[r].no /\ script[r].kind # "activate" /\ r \in Nat /\ Belongs(script[r])
  BY <1>1, StanzaIs DEF Withdraws
<1>3. ASSUME s[1] # "af" \/ Slot(r) # s
      PROVE  script[r].kind \in SessionKinds \cup {"neighbor", "group"} /\ script[r].scope # "af"
  <2>1. CASE Slot(r) = s
    <3>1. script[r].kind = s[2] /\ script[r].scope = s[1]
      BY <2>1 DEF Slot
    <3> QED BY <1>0, <1>2, <1>3, <2>1, <3>1, SlotsAre DEF IsOwnSlot
  <2>2. CASE script[r].kind \in {"neighbor", "remote_as"}
    <3>1. script[r].scope # "af"
      BY <1>2, <2>2 DEF Belongs
    <3> QED BY <2>2, <3>1 DEF SessionKinds
  <2>3. CASE script[r].kind = "group"
    <3>1. script[r].scope # "af"
      BY <1>2, <2>3 DEF Belongs
    <3> QED BY <2>3, <3>1
  <2> QED BY <1>1, <2>1, <2>2, <2>3 DEF Withdraws
<1>4. ASSUME s[1] # "af" \/ Slot(r) # s, ~Unread(s)
      PROVE  r \in Negations
  <2>1. script[r].kind \in {"group", "member"} => Hyphenated
    BY <1>1, <1>4 DEF Unread
  <2> QED BY <1>2, <1>3, <1>4, <2>1 DEF Negations, IsRead
<1> QED BY <1>1, <1>2, <1>4

\* A statement of a session is at or before its SET, and so are the removals
\* before it; those after it are after the SET, or it carries the slot over.
LEMMA LineAround ==
  ASSUME Inv, Finished, NEW s, IsOwnSlot(s), s \in SessionSlots, ~CarriedOver(s),
         NEW n, LastToState(n, Len(script) + 1, s), n \in Candidates(s[1])
  PROVE  LET L == NeighborLine(s[1], s[3])
         IN  /\ L \in Nat /\ L # 0 /\ n <= L
             /\ \A r \in TakenBefore(Len(script) + 1, s) : (r < n => r < L) /\ (n < r => L < r)
<1> DEFINE L == NeighborLine(s[1], s[3])
           P == Positives(s[1], SessionKinds, s[3])
<1>0. n \in Lines /\ n \in Nat /\ States(n, s) /\ \A j \in Lines : States(j, s) => j <= n
  BY StanzaIs DEF LastToState
<1>1. n \in P
  <2>1. ~script[n].no /\ script[n].kind \in SessionKinds /\ script[n].at = s[3]
    BY <1>0, OwnStates
  <2> QED BY <2>1, PositivesAre
<1>2. L \in Nat /\ L # 0 /\ L \in Lines /\ n <= L
      /\ ~script[L].no /\ script[L].kind \in SessionKinds /\ script[L].at = s[3] /\ script[L].scope = s[1]
  BY <1>1, LineOfSession
<1> HIDE DEF L, P
<1>3. ASSUME NEW r \in TakenBefore(Len(script) + 1, s), n < r
      PROVE  L < r
  <2> SUFFICES ASSUME ~(L < r) PROVE FALSE
    OBVIOUS
  <2>1. r \in Lines /\ Taken(r, s)
    BY DEF TakenBefore
  <2>2. Withdraws(r, s) /\ script[r].no /\ r \in Nat
    BY <2>1, TakenIs DEF Taken
  <2>3. r < L
    <3>1. r # L
      BY <1>2, <2>2
    <3> QED BY <1>2, <2>2, <3>1
  <2>4. \A j \in r+1..Len(script) : ~States(j, s)
    <3>1. Lines = 1..Len(script)
      BY StanzaIs
    <3> QED BY <1>0, <1>3, <2>2, <3>1
  <2>5. script[L].kind \in Anchors(s[3])
    BY <1>2, SlotsAre DEF Anchors
  <2>6. Scope(n) = s[1]
    <3>1. script[n].scope = s[1] /\ s[1] # "af"
      BY <1>0, OwnStates DEF IsOwnSlot
    <3> QED BY <3>1 DEF Scope
  <2> QED BY <1>0, <1>2, <1>3, <2>1, <2>2, <2>3, <2>4, <2>5, <2>6 DEF CarriedOver
<1>4. ASSUME NEW r \in TakenBefore(Len(script) + 1, s), r < n
      PROVE  r < L
  <2>1. r \in Lines
    BY DEF TakenBefore
  <2>2. r \in Nat
    BY <2>1, StanzaIs
  <2> QED BY <1>0, <1>2, <1>4, <2>2
<1> QED BY <1>2, <1>3, <1>4 DEF L

-----------------------------------------------------------------------------
(* The whole replay of a slot, given that every deletion of a group finds  *)
(* the membership the router had.                                          *)

IsGroupDeletion(n) == script[n].no /\ script[n].kind = "group" /\ script[n].at \in Groups
Membership(x) == <<"global", "member", x>>

SameMembership(x) ==
  \A n \in Negations, j \in 1..Len(replayed) :
    replayed[j] = Removal(n) /\ IsGroupDeletion(n) => Get(configs[j], Membership(x)) = Get(router[n], Membership(x))

StatesAll(S, s) == \A o : o \in S <=> \E h \in Blocks : SessionSays(h, s) /\ o = SessionSet(h, s[3])

LEMMA SessionReplayed ==
  ASSUME Inv, Finished, NEW s \in SessionSlots, s[1] = "af" => \A n \in Lines : Withdraws(n, s) => Slot(n) # s,
         s[1] # "vrf" => SameMembership(s[3]), ~Unread(s), NEW S, StatesAll(S, s)
  PROVE  /\ ReplayedUpTo(Len(script) + 1, Len(replayed), s, S)
         /\ \A r \in TakenBefore(Len(script) + 1, s) :
              r \in Lines /\ r \in Negations /\ Withdraws(r, s) /\ LeftBy(Removal(r), s) = Absent
<1>0. IsSessionSlot(s) /\ s[3] \in Peers
  BY SlotsAre
<1>1. \A n \in Lines : Taken(n, s) => n \in Negations /\ Withdraws(n, s)
  <2> SUFFICES ASSUME NEW n \in Lines, Taken(n, s) PROVE n \in Negations /\ Withdraws(n, s)
    OBVIOUS
  <2>1. Withdraws(n, s) /\ (s[1] # "af" \/ Slot(n) # s => n \in Negations)
    BY TakenIs DEF Taken
  <2> QED BY <2>1
<1>2. \A n \in Negations : n \in Lines /\ script[n].no
  BY DEF Negations, IsRead
<1>3. \A o, cfg : o \in ops /\ Touches(cfg, o, s) <=>
         \/ \E h \in Blocks : SessionSays(h, s) /\ o = SessionSet(h, s[3])
         \/ \E n \in Negations : TakenBy(cfg, script[n], s) /\ o = Removal(n)
  BY <1>0, SessionTouched
<1>4. \A o, cfg : o \in ops /\ Touches(cfg, o, s) <=>
         \/ o \in S
         \/ \E n \in Negations : TakenBy(cfg, script[n], s) /\ o = Removal(n)
  BY <1>3 DEF StatesAll
<1>5. \A o \in S : o \in ops /\ \A cfg : Touches(cfg, o, s)
  BY <1>4
<1>6. ASSUME NEW n \in Negations, NEW j \in 1..Len(replayed), replayed[j] = Removal(n)
      PROVE  TakenBy(configs[j], script[n], s) <=> Taken(n, s)
  <2>1. script[n] \in Line /\ Belongs(script[n])
    BY <1>2, StanzaIs
  <2>2. script[n].no /\ script[n].kind = "group" /\ script[n].at \in Groups /\ s[3] \in Peers /\ s[1] \in {"global", "af"} =>
           Get(configs[j], <<"global", "member", s[3]>>) = Get(router[n], <<"global", "member", s[3]>>)
    BY <1>6 DEF SameMembership, IsGroupDeletion, Membership
  <2> QED BY <1>0, <2>1, <2>2, TakenSame DEF Taken
<1>7. \A n \in Lines : Taken(n, s) => n \in Negations /\ Removal(n) \in ops
  BY <1>1, <1>4 DEF Taken
<1>8. \A n \in Negations : \A cfg : TakenBy(cfg, script[n], s) => Touches(cfg, Removal(n), s)
  BY <1>4
<1>9. ReplayedUpTo(Len(script) + 1, Len(replayed), s, S)
  <2>1. \A o, cfg : o \in ops /\ Touches(cfg, o, s) =>
            \/ o \in S
            \/ \E n \in Negations : TakenBy(cfg, script[n], s) /\ o = Removal(n)
    BY <1>4
  <2>2. \A n \in Negations : \A j \in 1..Len(replayed) :
            replayed[j] = Removal(n) => (TakenBy(configs[j], script[n], s) <=> Taken(n, s))
    BY <1>6
  <2> QED BY <2>1, <2>2, <1>5, <1>7, <1>8, ReplayedAll
<1>10. ASSUME NEW r \in TakenBefore(Len(script) + 1, s)
       PROVE  r \in Lines /\ r \in Negations /\ Withdraws(r, s) /\ LeftBy(Removal(r), s) = Absent
  <2>1. r \in Lines /\ Taken(r, s) /\ r \in Negations /\ Withdraws(r, s)
    BY <1>1 DEF TakenBefore
  <2> QED BY <1>0, <2>1, NegationTouches
<1> QED BY <1>9, <1>10

LEMMA SameAtEnd ==
  ASSUME Inv, Finished, NEW s, IsSessionSlot(s), NEW S, NEW word, Said(Len(script) + 1, s, S, word),
         ReplayedUpTo(Len(script) + 1, Len(replayed), s, S),
         \A r \in TakenBefore(Len(script) + 1, s) : LeftBy(Removal(r), s) = Absent
  PROVE  Get(config, s) = Get(Device, s)
<1>1. Len(replayed) \in 0..Len(replayed) /\ Len(script) + 1 \in 1..(Len(script) + 1)
  <2>1. IsSeq(replayed)
    BY DEF Inv, ReplayInv
  <2>2. Len(replayed) \in Nat /\ Len(script) \in Nat
    BY <2>1, SeqIs, StanzaIs
  <2> QED BY <2>2
<1>2. Get(configs[Len(replayed) + 1], s) = Get(router[Len(script) + 1], s)
  BY <1>1, SameWord
<1> QED BY <1>2, RouterIs

LEMMA SessionSetIs ==
  ASSUME NEW h, NEW x, NEW s
  PROVE  /\ LeftBy(SessionSet(h, x), s) = Sessions(h)[x][s]
         /\ SessionSet(h, x).line = NeighborLine(ScopeOf(h), x) /\ SessionSet(h, x).place = <<h, 0>>
<1> DEFINE v == Sessions(h)[x]
           line == NeighborLine(ScopeOf(h), x)
           o == SetOp(ScopeOf(h), "neighbor", x, v, line, <<h, 0>>)
<1>1. SessionSet(h, x) = o
  BY DEF SessionSet
<1>2. o.verb = "SET" /\ o.value = v /\ o.line = line /\ o.place = <<h, 0>>
  <2> HIDE DEF v, line
  <2> QED BY DEF SetOp, Op
<1> HIDE DEF o
<1> QED BY <1>1, <1>2 DEF LeftBy

\* What is said of a slot by SETs at one line, one of each block.
LEMMA SaidAtLine ==
  ASSUME Inv, Finished, NEW s, s[3] \in Peers, SaysLast(s), NEW S, StatesAll(S, s),
         (\E h \in Blocks : SessionSays(h, s)) => \E n \in Lines : States(n, s),
         NEW n, LastToState(n, Len(script) + 1, s), NEW L \in Nat,
         \A h \in Blocks : SessionSays(h, s) => NeighborLine(ScopeOf(h), s[3]) = L /\ h <= Home(n, s),
         \A r \in TakenBefore(Len(script) + 1, s) :
           r \in Negations /\ (r < n => L = 0 \/ r < L) /\ (n < r => L # 0 /\ L < r)
  PROVE  Said(Len(script) + 1, s, S, SessionSet(Home(n, s), s[3]))
<1> DEFINE M == Len(script) + 1
           word == SessionSet(Home(n, s), s[3])
<1>1. (\A m \in Lines : m < M => ~States(m, s)) => S = {}
  <2>1. n \in Lines /\ n < M /\ States(n, s)
    BY DEF LastToState
  <2> QED BY <2>1
<1>2. ASSUME NEW m, LastToState(m, M, s) PROVE m = n
  <2>1. m \in Lines /\ n \in Lines /\ m <= n /\ n <= m
    BY <1>2 DEF LastToState
  <2> QED BY <2>1, StanzaIs
<1>3. word \in S /\ LeftBy(word, s) = ValueOf(script[n], s)
  <2>1. /\ Home(n, s) \in Blocks /\ SessionSays(Home(n, s), s)
        /\ Sessions(Home(n, s))[s[3]][s] = ValueOf(script[n], s)
    BY DEF SaysLast
  <2>2. LeftBy(word, s) = Sessions(Home(n, s))[s[3]][s]
    BY SessionSetIs
  <2> QED BY <2>1, <2>2 DEF StatesAll
<1>4. ASSUME NEW o \in S
      PROVE  /\ o.line = L
             /\ o = word \/ InScriptOrder(o, word)
  <2>1. PICK h \in Blocks : SessionSays(h, s) /\ o = SessionSet(h, s[3])
    BY DEF StatesAll
  <2>2. o.line = L /\ o.place = <<h, 0>> /\ h <= Home(n, s)
    BY <2>1, SessionSetIs
  <2>3. Home(n, s) \in Blocks /\ SessionSays(Home(n, s), s)
    BY DEF SaysLast
  <2>4. word.line = L /\ word.place = <<Home(n, s), 0>>
    <3> DEFINE w == Home(n, s)
    <3>1. NeighborLine(ScopeOf(w), s[3]) = L
      BY <2>3
    <3> HIDE DEF w
    <3>2. SessionSet(w, s[3]).line = L /\ SessionSet(w, s[3]).place = <<w, 0>>
      BY <3>1, SessionSetIs
    <3> QED BY <3>2 DEF w
  <2>5. h \in Nat /\ Home(n, s) \in Nat
    BY <2>3, BlocksAre
  <2>6. CASE h = Home(n, s)
    BY <2>1, <2>2, <2>6
  <2>7. CASE h # Home(n, s)
    <3>1. h < Home(n, s)
      BY <2>2, <2>5, <2>7
    <3> HIDE DEF word
    <3> QED BY <2>2, <2>4, <3>1 DEF InScriptOrder
  <2> QED BY <2>2, <2>6, <2>7
<1>5. \A r \in TakenBefore(M, s) : r < n => InScriptOrder(Removal(r), word)
  <2>1. word.line = L
    BY <1>3, <1>4
  <2> HIDE DEF word
  <2> QED BY <2>1, OrderIs
<1>6. \A r \in TakenBefore(M, s) : n < r => \A o \in S : InScriptOrder(o, Removal(r))
  BY <1>4, OrderIs
<1> HIDE DEF word
<1> QED BY <1>1, <1>2, <1>3, <1>4, <1>5, <1>6 DEF Said, word

LEMMA NothingOrLast ==
  ASSUME Inv, NEW s
  PROVE  (\A n \in Lines : ~States(n, s)) \/ \E n : LastToState(n, Len(script) + 1, s)
<1>1. (\A n \in Lines : n < Len(script) + 1 => ~States(n, s)) \/ \E n : LastToState(n, Len(script) + 1, s)
  BY SomeLast
<1>2. \A n \in Lines : n < Len(script) + 1
  BY StanzaIs
<1> QED BY <1>1, <1>2

LEMMA Unsaid ==
  ASSUME NEW s, NEW S, StatesAll(S, s), \A h \in Blocks : ~SessionSays(h, s), \A n \in Lines : ~States(n, s), NEW word
  PROVE  Said(Len(script) + 1, s, S, word)
BY DEF StatesAll, Said, LastToState

-----------------------------------------------------------------------------
(* Sessions of the VRFs.                                                   *)

LEMMA VrfIsDevice ==
  ASSUME Inv, Finished, NEW s \in SessionSlots, s[1] = "vrf", InScriptSession(s)
  PROVE  Get(config, s) = Get(Device, s)
<1> DEFINE x == s[3]
           M == Len(script) + 1
           L == NeighborLine("vrf", x)
           S == {SessionSet(h, x) : h \in {h \in Blocks : SessionSays(h, s)}}
<1>0. /\ IsSessionSlot(s) /\ IsOwnSlot(s) /\ x \in Peers /\ x \notin Groups /\ s = <<"vrf", s[2], x>>
      /\ s[2] \in ReadKinds("vrf") \cup {"neighbor"} /\ ~CarriedOver(s) /\ ~Unread(s) /\ InFirstBlock(s)
      /\ \A n \in Lines : States(n, s) => IsKept(Block(n), x)
  <2>1. IsSessionSlot(s) /\ IsOwnSlot(s) /\ x \in Peers /\ x \notin Groups
    BY SlotsAre
  <2>2. s = <<"vrf", s[2], x>>
    BY <2>1 DEF IsOwnSlot
  <2> QED BY <2>1, <2>2 DEF InScriptSession
<1>1. /\ \A h \in Blocks : SessionSays(h, s) <=> h \in Headers("vrf") /\ \E n \in Children(h) : States(n, s)
      /\ SaysLast(s)
  BY <1>0, VrfSays
<1>2. StatesAll(S, s)
  BY DEF StatesAll
<1> HIDE DEF S
<1>3. /\ ReplayedUpTo(M, Len(replayed), s, S)
      /\ \A r \in TakenBefore(M, s) : r \in Lines /\ r \in Negations /\ Withdraws(r, s) /\ LeftBy(Removal(r), s) = Absent
  BY <1>0, <1>2, SessionReplayed
<1>4. \A h \in Headers("vrf") : \A n \in Children(h) : n \in Lines
  BY ChildrenAre
<1>5. CASE \A n \in Lines : ~States(n, s)
  <2>1. Said(M, s, S, On)
    BY <1>1, <1>2, <1>4, <1>5, Unsaid
  <2> QED BY <1>0, <1>3, <2>1, SameAtEnd
<1>6. CASE \E n : LastToState(n, M, s)
  <2>1. PICK n : LastToState(n, M, s)
    BY <1>6
  <2>2. n \in Lines /\ States(n, s) /\ \A j \in Lines : States(j, s) => j <= n
    BY <2>1, StanzaIs DEF LastToState
  <2>3. ~script[n].no /\ script[n].kind # "header" /\ script[n].scope = "vrf" /\ script[n].at = x
    BY <1>0, <2>2, OwnStates, ZenonT(60)
  <2>4. Block(n) \in Headers("vrf") /\ n \in Children(Block(n)) /\ Home(n, s) = Block(n)
    BY <2>2, <2>3, BlockIs DEF Home
  <2>5. ASSUME NEW h \in Blocks, SessionSays(h, s)
        PROVE  NeighborLine(ScopeOf(h), x) = L /\ h <= Home(n, s)
    <3>1. h \in Headers("vrf") /\ ScopeOf(h) = "vrf"
      BY <1>1, <2>5, VrfSessions
    <3>2. PICK m \in Children(h) : States(m, s)
      BY <1>1, <2>5
    <3>3. m <= n
      BY <1>4, <2>2, <3>1, <3>2
    <3> QED BY <2>4, <3>1, <3>3, ChildrenAre
  <2>6. ASSUME NEW r \in TakenBefore(M, s)
        PROVE  n \in Candidates("vrf")
    <3> DEFINE about == {m \in Lines : script[m].kind # "header" /\ script[m].scope = s[1] /\ script[m].at = s[3]}
    <3>1. r \in Lines /\ script[r].no /\ Withdraws(r, s)
      BY <1>3 DEF Withdraws
    <3>2. Belongs(script[r]) /\ script[r].scope \in {"global", "af", "vrf"}
      BY <3>1, StanzaIs DEF Line
    <3>3. script[r].kind # "header"
      BY <3>1, <3>2 DEF Belongs
    <3>4. script[r].scope = "vrf"
      <4>1. Slot(r) = s => script[r].scope = "vrf"
        BY <1>0 DEF Slot
      <4>2. s[1] \in SessionScopes(script[r].scope) => script[r].scope = "vrf"
        BY <3>2 DEF SessionScopes
      <4> QED BY <3>1, <4>1, <4>2 DEF Withdraws
    <3>5. ~(script[r].kind = "group" /\ script[r].at \in Groups)
      BY <3>2, <3>4, TargetsAssumption DEF Belongs
    <3>6. script[r].at = x
      <4>1. Slot(r) = s => script[r].at = x
        BY <1>0 DEF Slot
      <4> QED BY <3>1, <3>5, <4>1 DEF Withdraws
    <3>7. r \in about /\ n \in about
      BY <2>2, <2>3, <3>1, <3>3, <3>4, <3>6
    <3>8. about \subseteq Candidates(s[1])
      BY <1>0, <3>1, <3>7 DEF InFirstBlock
    <3> QED BY <3>7, <3>8
  <2>7. ASSUME NEW r \in TakenBefore(M, s)
        PROVE  r \in Negations /\ (r < n => L = 0 \/ r < L) /\ (n < r => L # 0 /\ L < r)
    <3>1. n \in Candidates(s[1])
      BY <2>6
    <3>2. L # 0 /\ (r < n => r < L) /\ (n < r => L < r)
      BY <1>0, <2>1, <3>1, LineAround
    <3> QED BY <1>3, <3>2
  <2>8. L \in Nat
    BY LineOfSession
  <2>9. (\E h \in Blocks : SessionSays(h, s)) => \E m \in Lines : States(m, s)
    BY <2>2
  <2>10. Said(M, s, S, SessionSet(Home(n, s), x))
    <3> HIDE DEF L
    <3> QED BY <1>0, <1>1, <1>2, <2>1, <2>5, <2>7, <2>8, <2>9, SaidAtLine
  <2> QED BY <1>0, <1>3, <2>10, SameAtEnd
<1>7. (\A n \in Lines : ~States(n, s)) \/ \E n : LastToState(n, M, s)
  BY NothingOrLast
<1> QED BY <1>5, <1>6, <1>7

-----------------------------------------------------------------------------
(* The deletion of a group finds the members that the router had: those    *)
(* the lines before it had named.                                          *)

FoundSame(i, n, x) == Get(configs[i], Membership(x)) = Get(router[n], Membership(x))

LEMMA MembershipSlot ==
  ASSUME Inv, NEW x \in Peers
  PROVE  LET s == Membership(x)
         IN  /\ s \in SessionSlots /\ IsSessionSlot(s) /\ IsOwnSlot(s) /\ s = <<"global", "member", x>> /\ s[3] = x /\ s[1] = "global"
             /\ \A h \in Blocks : SessionSays(h, s) <=> h = 1 /\ \E n \in Lines : States(n, s)
             /\ SaysLast(s)
             /\ \A n \in Lines : States(n, s) => /\ n \in Candidates("global") /\ Slot(n) = s /\ ~script[n].no /\ script[n].kind \in SessionKinds
                                                 /\ script[n].at = x /\ script[n].scope = "global"
<1> DEFINE s == Membership(x)
<1>0. s = <<"global", "member", x>> /\ s[3] = x /\ s[1] = "global" /\ s[2] = "member"
  BY DEF Membership
<1>1. s \in SessionSlots /\ IsOwnSlot(s)
  BY <1>0 DEF SessionSlots, SessionKinds, IsOwnSlot
<1>2. IsSessionSlot(s)
  BY <1>1, SlotsAre
<1>3. \A n \in Lines : States(n, s) => /\ Slot(n) = s /\ ~script[n].no /\ script[n].kind \in SessionKinds /\ script[n].kind # "header"
                                       /\ script[n].at = x /\ script[n].scope = "global"
  <2> HIDE DEF s
  <2> QED BY <1>0, <1>1, OwnStates, ZenonT(60)
<1>4. \A n \in Lines : States(n, s) => IsKept(1, x)
  <2> SUFFICES ASSUME NEW n \in Lines, States(n, s) PROVE IsKept(1, x)
    OBVIOUS
  <2>1. n \in Children(1)
    BY <1>3, ChildrenAre
  <2>2. 1 \in Blocks /\ ScopeOf(1) = "global"
    BY StanzaSessions
  <2>3. script[n].kind = "member"
    BY <1>0, <1>3 DEF Slot
  <2>4. Kept(1, x)
    BY <1>3, <2>1, <2>2, <2>3 DEF Kept, ReadKinds, SessionKinds
  <2> QED BY <2>2, <2>4, KeptIs
<1> HIDE DEF s
<1>5. /\ \A h \in Blocks : SessionSays(h, s) <=>
              /\ h = 1
              /\ \/ \E n \in Lines : States(n, s)
                 \/ s[2] = "neighbor" /\ ~IsKept(1, s[3]) /\ DOMAIN AfEntries(s[3]) # {}
      /\ SaysLast(s)
  BY <1>0, <1>1, <1>4, StanzaSays
<1>6. \A n \in Lines : States(n, s) => n \in Candidates("global")
  BY <1>3, CandidatesAre
<1> QED BY <1>0, <1>1, <1>2, <1>3, <1>5, <1>6 DEF s

LEMMA MembershipStep ==
  ASSUME Inv, Finished, NEW x \in Peers, ~FoundOtherwise(x), NEW m \in Negations, IsGroupDeletion(m),
         NEW i \in 1..Len(replayed), replayed[i] = Removal(m),
         \A n \in Negations, j \in 1..Len(replayed) : j < i /\ replayed[j] = Removal(n) /\ IsGroupDeletion(n) => FoundSame(j, n, x)
  PROVE  FoundSame(i, m, x)
<1> DEFINE s == Membership(x)
           W == SessionSet(1, x)
           L == NeighborLine("global", x)
           K == Len(replayed)
           b == i - 1
           stated == \E n \in Lines : States(n, s)
           S == IF stated /\ \E j \in 1..b : replayed[j] = W THEN {W} ELSE {}
<1>0. /\ s \in SessionSlots /\ IsSessionSlot(s) /\ IsOwnSlot(s) /\ s = <<"global", "member", x>> /\ s[3] = x /\ s[1] = "global"
      /\ \A h \in Blocks : SessionSays(h, s) <=> h = 1 /\ stated
      /\ SaysLast(s)
      /\ \A n \in Lines : States(n, s) => /\ n \in Candidates("global") /\ Slot(n) = s /\ ~script[n].no /\ script[n].kind \in SessionKinds
                                          /\ script[n].at = x /\ script[n].scope = "global"
  BY MembershipSlot
<1>l. Len(script) \in Nat /\ Lines = 1..Len(script) /\ m \in Lines /\ m \in Nat /\ m \in 1..(Len(script) + 1) /\ script[m].no /\ 1 \in Blocks
  BY StanzaIs, StanzaSessions DEF Negations, IsRead
<1>u. ~Unread(s)
  BY DEF Negations, IsRead, IsGroupDeletion, Unread
<1>k. K \in Nat /\ ops = {replayed[j] : j \in 1..K} /\ b \in 0..K /\ b + 1 = i
      /\ \A j, k \in 1..K : j < k => ~InScriptOrder(replayed[k], replayed[j]) /\ replayed[k] # replayed[j]
  <2>1. ToSet(replayed) = ops /\ IsSeq(replayed)
    BY DEF Inv, ReplayInv, Finished
  <2>2. K \in Nat /\ ops = {replayed[j] : j \in 1..K}
    BY <2>1, SeqIs
  <2> QED BY <2>2 DEF Inv, ReplayInv
<1> HIDE DEF s, W, L, stated
<1>a. Removal(m).line = m /\ m # 0
  BY NegationIs
<1>1. \A q \in Negations, j \in 1..K : replayed[j] = Removal(q) => (j < i <=> q < m)
  <2> SUFFICES ASSUME NEW q \in Negations, NEW j \in 1..K, replayed[j] = Removal(q)
               PROVE  j < i <=> q < m
    OBVIOUS
  <2>1. Removal(q).line = q /\ q \in Nat /\ q # 0
    BY NegationIs
  <2>2. q < m => InScriptOrder(Removal(q), Removal(m))
    BY <2>1, OrderIs
  <2>3. m < q => InScriptOrder(Removal(m), Removal(q))
    BY <2>1, <1>l, <1>a DEF InScriptOrder
  <2>4. q < m => Removal(q) # Removal(m)
    BY <1>a, <1>l, <2>1
  <2>5. j < i \/ j = i \/ i < j
    BY <1>k
  <2>6. q < m \/ q = m \/ m < q
    BY <1>l, <2>1
  <2> QED BY <1>k, <2>2, <2>3, <2>4, <2>5, <2>6
<1>2. W.line = L
  <2>1. ScopeOf(1) = "global"
    BY StanzaSessions
  <2> QED BY <2>1, SessionSetIs DEF W, L
<1>3. L \in Nat /\ \A n \in Lines : States(n, s) =>
           L # 0 /\ n <= L /\ L \in Lines /\ ~script[L].no /\ script[L].at = x /\ script[L].scope = "global"
  <2>1. \A n \in Lines : States(n, s) => n \in Positives("global", SessionKinds, x)
    BY <1>0, PositivesAre
  <2> QED BY <2>1, LineOfSession DEF L
<1>4. \A j \in 1..K : replayed[j] = W => /\ L # 0 /\ L < m => j < i
                                         /\ m < L => ~(j < i)
  <2> SUFFICES ASSUME NEW j \in 1..K, replayed[j] = W
               PROVE  (L # 0 /\ L < m => j < i) /\ (m < L => ~(j < i))
    OBVIOUS
  <2>1. L # 0 /\ L < m => InScriptOrder(W, Removal(m)) /\ W # Removal(m)
    BY <1>2, <1>3, <1>a, <1>l, OrderIs
  <2>2. m < L => InScriptOrder(Removal(m), W)
    BY <1>2, OrderIs
  <2>5. j < i \/ j = i \/ i < j
    BY <1>k
  <2> QED BY <1>k, <2>1, <2>2, <2>5
<1>5. \A o, cfg : o \in ops /\ Touches(cfg, o, s) <=>
         \/ stated /\ o = W
         \/ \E n \in Negations : TakenBy(cfg, script[n], s) /\ o = Removal(n)
  <2>1. \A o, cfg : o \in ops /\ Touches(cfg, o, s) <=>
         \/ \E h \in Blocks : SessionSays(h, s) /\ o = SessionSet(h, s[3])
         \/ \E n \in Negations : TakenBy(cfg, script[n], s) /\ o = Removal(n)
    BY <1>0, SessionTouched
  <2>2. \A o : (\E h \in Blocks : SessionSays(h, s) /\ o = SessionSet(h, s[3])) <=> stated /\ o = W
    BY <1>0, <1>l DEF W
  <2> QED BY <2>1, <2>2
<1>6. \A n \in Negations, j \in 1..K : j < i /\ replayed[j] = Removal(n) => (TakenBy(configs[j], script[n], s) <=> Taken(n, s))
  <2> SUFFICES ASSUME NEW n \in Negations, NEW j \in 1..K, j < i, replayed[j] = Removal(n)
               PROVE  TakenBy(configs[j], script[n], s) <=> Taken(n, s)
    OBVIOUS
  <2>1. script[n] \in Line /\ Belongs(script[n])
    BY StanzaIs DEF Negations
  <2>2. IsGroupDeletion(n) => Get(configs[j], s) = Get(router[n], s)
    BY DEF FoundSame, s
  <2> QED BY <1>0, <2>1, <2>2, TakenSame DEF Taken, IsGroupDeletion
<1>7. \A r \in Lines : Taken(r, s) => r \in Negations /\ LeftBy(Removal(r), s) = Absent /\ Removal(r) \in ops
  <2> SUFFICES ASSUME NEW r \in Lines, Taken(r, s) PROVE r \in Negations /\ LeftBy(Removal(r), s) = Absent /\ Removal(r) \in ops
    OBVIOUS
  <2>1. r \in Negations
    BY <1>0, <1>u, TakenIs DEF Taken
  <2>2. LeftBy(Removal(r), s) = Absent
    BY <1>0, <2>1, NegationTouches
  <2> QED BY <1>5, <2>1, <2>2 DEF Taken
<1>8. \A n \in Negations : n \in Lines
  BY DEF Negations
<1>9. \A j : j \in 1..b <=> j \in 1..K /\ j < i
  BY <1>k
<1>10. ReplayedUpTo(m, b, s, S)
  <2>1. ASSUME NEW j \in 1..b, Touched(j, s)
        PROVE  replayed[j] \in S \/ \E r \in TakenBefore(m, s) : replayed[j] = Removal(r)
    <3>1. replayed[j] \in ops /\ Touches(configs[j], replayed[j], s) /\ j \in 1..K /\ j < i
      BY <1>k, <1>9, <2>1 DEF Touched
    <3>2. CASE stated /\ replayed[j] = W
      BY <3>2
    <3>3. CASE \E n \in Negations : TakenBy(configs[j], script[n], s) /\ replayed[j] = Removal(n)
      <4>1. PICK n \in Negations : TakenBy(configs[j], script[n], s) /\ replayed[j] = Removal(n)
        BY <3>3
      <4>2. n < m /\ Taken(n, s) /\ n \in Lines
        BY <1>1, <1>6, <1>8, <3>1, <4>1
      <4> QED BY <4>1, <4>2 DEF TakenBefore
    <3> QED BY <1>5, <3>1, <3>2, <3>3
  <2>2. ASSUME NEW o \in S
        PROVE  \E j \in 1..b : replayed[j] = o /\ Touched(j, s)
    <3>1. stated /\ o = W
      OBVIOUS
    <3>2. PICK j \in 1..b : replayed[j] = W
      OBVIOUS
    <3>3. Touches(configs[j], W, s)
      BY <1>5, <3>1
    <3> QED BY <3>1, <3>2, <3>3 DEF Touched
  <2>3. ASSUME NEW r \in TakenBefore(m, s)
        PROVE  \E j \in 1..b : replayed[j] = Removal(r) /\ Touched(j, s)
    <3>1. r \in Lines /\ r < m /\ Taken(r, s) /\ r \in Negations /\ Removal(r) \in ops
      BY <1>7 DEF TakenBefore
    <3>2. PICK j \in 1..K : replayed[j] = Removal(r)
      BY <1>k, <3>1
    <3>3. j < i
      BY <1>1, <3>1, <3>2
    <3>4. TakenBy(configs[j], script[r], s)
      BY <1>6, <3>1, <3>2, <3>3
    <3>5. Touches(configs[j], Removal(r), s)
      BY <1>5, <3>1, <3>4
    <3> QED BY <1>9, <3>2, <3>3, <3>5 DEF Touched
  <2> HIDE DEF S
  <2> QED BY <2>1, <2>2, <2>3 DEF ReplayedUpTo
<1>11. Said(m, s, S, W)
  <2>1. ASSUME \A n \in Lines : n < m => ~States(n, s)
        PROVE  S = {}
    <3> SUFFICES ASSUME stated, NEW j \in 1..b, replayed[j] = W PROVE FALSE
      OBVIOUS
    <3>1. PICK n \in Lines : States(n, s)
      BY DEF stated
    <3>2. n # m
      BY <1>0, <1>l, <3>1
    <3>3. m < L
      <4>1. n <= L /\ L \in Nat
        BY <1>3, <3>1
      <4>2. ~(n < m)
        BY <2>1, <3>1
      <4>3. n \in Nat
        BY <1>l
      <4> QED BY <1>l, <3>2, <4>1, <4>2, <4>3
    <3> QED BY <1>4, <1>9, <3>3
  <2>2. ASSUME NEW n, LastToState(n, m, s)
        PROVE  /\ W \in S /\ LeftBy(W, s) = ValueOf(script[n], s)
               /\ \A o \in S : o = W \/ InScriptOrder(o, W)
               /\ \A r \in TakenBefore(m, s) : r < n => InScriptOrder(Removal(r), W)
               /\ \A r \in TakenBefore(m, s) : n < r => \A o \in S : InScriptOrder(o, Removal(r))
    <3>0. n \in Lines /\ n \in Nat /\ n < m /\ States(n, s) /\ \A j \in Lines : j < m /\ States(j, s) => j <= n
      BY <2>2, <1>l DEF LastToState
    <3>1. \A k \in m..Len(script) : ~(~script[k].no /\ script[k].at = x /\ script[k].scope = "global")
      <4> SUFFICES ASSUME NEW k \in m..Len(script), ~script[k].no /\ script[k].at = x /\ script[k].scope = "global" PROVE FALSE
        OBVIOUS
      <4>1. n \in 1..m /\ Slot(n) = <<"global", "member", x>>
        BY <1>0, <1>l, <3>0
      <4> QED BY <4>1, <1>l DEF FoundOtherwise, IsGroupDeletion
    <3>2. \A k \in Lines : ~script[k].no /\ script[k].at = x /\ script[k].scope = "global" => k < m
      BY <3>1, <1>l
    <3>3. L < m /\ L # 0
      BY <1>3, <3>0, <3>2
    <3>4. LastToState(n, Len(script) + 1, s)
      BY <1>0, <1>l, <3>0, <3>2 DEF LastToState
    <3>5. ~CarriedOver(s)
      <4>1. ~CarriedOver(<<"global", "member", x>>)
        BY <1>l DEF FoundOtherwise, IsGroupDeletion
      <4> QED BY <1>0, <4>1
    <3>6. stated
      BY <3>0 DEF stated
    <3>7. S = {W}
      <4>1. \A cfg : W \in ops /\ Touches(cfg, W, s)
        BY <1>5, <3>6
      <4>2. PICK j \in 1..K : replayed[j] = W
        BY <1>k, <4>1
      <4> QED BY <1>4, <1>9, <3>3, <3>6, <4>2
    <3>8. LeftBy(W, s) = ValueOf(script[n], s)
      <4>1. Sessions(Home(n, s))[s[3]][s] = ValueOf(script[n], s) /\ Home(n, s) = 1
        BY <1>0, <3>4 DEF SaysLast, Home
      <4> QED BY <1>0, <4>1, SessionSetIs DEF W
    <3>9. \A r \in TakenBefore(m, s) : r \in Negations /\ r \in TakenBefore(Len(script) + 1, s)
      BY <1>7, <1>l DEF TakenBefore
    <3>10. \A r \in TakenBefore(Len(script) + 1, s) : (r < n => r < L) /\ (n < r => L < r)
      <4>1. n \in Candidates(s[1])
        BY <1>0, <3>0
      <4> QED BY <1>0, <3>4, <3>5, <4>1, LineAround DEF L
    <3>11. \A r \in TakenBefore(m, s) : r < n => InScriptOrder(Removal(r), W)
      BY <1>2, <3>9, <3>10, OrderIs
    <3>12. \A r \in TakenBefore(m, s) : n < r => InScriptOrder(W, Removal(r))
      BY <1>2, <3>3, <3>9, <3>10, OrderIs
    <3> QED BY <3>7, <3>8, <3>11, <3>12
  <2> QED BY <2>1, <2>2 DEF Said
<1>12. Get(configs[b + 1], s) = Get(router[m], s)
  <2>1. \A r \in TakenBefore(m, s) : LeftBy(Removal(r), s) = Absent
    BY <1>7 DEF TakenBefore
  <2> QED BY <1>0, <1>l, <1>k, <1>10, <1>11, <2>1, SameWord
<1> QED BY <1>k, <1>12 DEF FoundSame, s

LEMMA MembershipsSame ==
  ASSUME Inv, Finished, NEW x \in Peers, ~FoundOtherwise(x)
  PROVE  SameMembership(x)
<1> DEFINE Bad(j, n) == replayed[j] = Removal(n) /\ IsGroupDeletion(n) /\ ~FoundSame(j, n, x)
           bad == {j \in 1..Len(replayed) : \E n \in Negations : Bad(j, n)}
<1>1. bad = {}
  <2> SUFFICES ASSUME bad # {} PROVE FALSE
    OBVIOUS
  <2>0. Len(replayed) \in Nat
    <3>1. IsSeq(replayed)
      BY DEF Inv, ReplayInv
    <3> QED BY <3>1, SeqIs
  <2>1. bad \in SUBSET Nat
    BY <2>0
  <2>2. PICK i \in bad : \A j \in bad : i <= j
    <3> HIDE DEF bad
    <3> QED BY <2>1, LeastElement
  <2>3. PICK m \in Negations : Bad(i, m)
    BY <2>2
  <2>4. \A n \in Negations, j \in 1..Len(replayed) : j < i /\ replayed[j] = Removal(n) /\ IsGroupDeletion(n) => FoundSame(j, n, x)
    BY <2>0, <2>2
  <2>5. FoundSame(i, m, x)
    BY <2>2, <2>3, <2>4, MembershipStep
  <2> QED BY <2>3, <2>5
<1> QED BY <1>1 DEF SameMembership, FoundSame

-----------------------------------------------------------------------------
(* Sessions of the stanza, and of its family.                              *)

LEMMA FamilyLines ==
  ASSUME Inv, NEW n \in Lines, NEW s, IsFamilySlot(s), States(n, s)
  PROVE  script[n].scope = "af" /\ script[n].at = s[3] /\ (script[n].kind = "activate" \/ (script[n].kind = "route_map" /\ ~script[n].no))
<1>1. Slot(n) = s /\ (script[n].no => s[2] = "activate")
  BY FamilyStates
<1>2. s[1] = "af" /\ s[2] \in {"activate", "route_map"}
  BY DEF IsFamilySlot
<1>3. script[n].no \in BOOLEAN
  BY StanzaIs DEF Line
<1> QED BY <1>1, <1>2, <1>3 DEF Slot

\* The router had the session at a line of the family about it.
LEMMA FamilyAccepted ==
  ASSUME Inv, Finished, NEW n \in Lines, NEW s, IsFamilySlot(s), States(n, s)
  PROVE  Get(router[n], <<"global", "neighbor", s[3]>>) # Absent
<1>1. script[n].scope = "af" /\ script[n].at = s[3] /\ (script[n].kind = "activate" \/ (script[n].kind = "route_map" /\ ~script[n].no))
  BY FamilyLines
<1>2. Accepts(router[n], script[n]) /\ n \in 1..(Len(script) + 1)
  BY RouterIs, StanzaIs
<1>3. s[3] \notin Groups
  BY TargetsAssumption DEF IsFamilySlot
<1>4. <<"global", "neighbor", s[3]>> \in DOMAIN router[n]
  BY <1>1, <1>2, <1>3 DEF Accepts, SessionKinds
<1> QED BY <1>2, <1>4, RouterHolds

LEMMA StubIsDevice ==
  ASSUME Inv, Finished, NEW s \in SessionSlots, s[1] = "global", s[2] = "neighbor", ~StubOutlives(s), ~Unread(s), ~IsKept(1, s[3]),
         SameMembership(s[3]), \A n \in Lines : ~States(n, s), SessionSays(1, s),
         \A h \in Blocks : SessionSays(h, s) => h = 1, Sessions(1)[s[3]][s] = On, DOMAIN AfEntries(s[3]) # {}
  PROVE  Get(config, s) = Get(Device, s)
<1> DEFINE x == s[3]
           M == Len(script) + 1
           W == SessionSet(1, x)
           K == Len(replayed)
<1>0. IsSessionSlot(s) /\ x \in Peers /\ s = <<"global", "neighbor", x>> /\ 1 \in Blocks /\ Len(script) \in Nat /\ Lines = 1..Len(script)
  <2>1. IsSessionSlot(s) /\ x \in Peers
    BY SlotsAre
  <2>2. s = <<"global", "neighbor", x>>
    BY <2>1 DEF IsSessionSlot
  <2> QED BY <2>1, <2>2, StanzaIs, StanzaSessions
<1>1. StatesAll({W}, s)
  BY <1>0 DEF StatesAll
<1>2. /\ ReplayedUpTo(M, K, s, {W})
      /\ \A r \in TakenBefore(M, s) : r \in Lines /\ r \in Negations /\ Withdraws(r, s) /\ LeftBy(Removal(r), s) = Absent
  BY <1>1, SessionReplayed
<1>3. PICK q \in DOMAIN AfEntries(x) : TRUE
  OBVIOUS
<1>4. IsFamilySlot(q) /\ q[3] = x
  BY <1>0, AfEntriesSlots
<1>5. PICK n \in Lines : States(n, q)
  BY <1>3, <1>4, AfEntriesAre
<1>6. script[n].scope = "af" /\ script[n].at = x /\ Get(router[n], s) # Absent
  BY <1>0, <1>4, <1>5, FamilyLines, FamilyAccepted
<1>7. Get(router[n], s) = IF TakenBefore(n, s) = {} THEN Get(router[1], s) ELSE Absent
  <2>1. n \in 1..(Len(script) + 1)
    BY <1>0
  <2> QED BY <1>0, <2>1, RouterLast
<1>8. TakenBefore(n, s) = {} /\ Get(router[1], s) # Absent
  BY <1>6, <1>7
<1>9. Get(router[1], s) = On
  <2>1. s \in DOMAIN router[1] /\ Get(router[1], s) = router[1][s]
    BY <1>8 DEF Get
  <2>2. router[1] \in Baselines
    BY RouterIs
  <2> QED BY <2>1, <2>2, BaselinesAssumption
<1>10. TakenBefore(M, s) = {}
  <2> SUFFICES ASSUME NEW r \in TakenBefore(M, s) PROVE FALSE
    OBVIOUS
  <2>1. r \in Lines /\ r \in Negations /\ Withdraws(r, s) /\ Taken(r, s)
    BY <1>2 DEF TakenBefore
  <2>2. script[r].scope # "af"
    BY <2>1 DEF Negations
  <2>3. r # n /\ ~(n < r)
    BY <1>6, <2>1, <2>2 DEF StubOutlives
  <2>4. r < n
    BY <1>0, <2>1, <2>3
  <2>5. r \in TakenBefore(n, s)
    BY <2>1, <2>4 DEF TakenBefore
  <2> QED BY <1>8, <2>5
<1>11. Get(Device, s) = On
  <2>1. Get(router[M], s) = IF TakenBefore(M, s) = {} THEN Get(router[1], s) ELSE Absent
    <3>1. M \in 1..(Len(script) + 1)
      BY <1>0
    <3> QED BY <1>0, <3>1, RouterLast
  <2> QED BY <1>9, <1>10, <2>1, RouterIs
<1>12. LeftBy(W, s) = On
  BY SessionSetIs
<1> HIDE DEF W
<1>13. Get(configs[K + 1], s) = On
  <2>1. \A o : (\E j \in 1..K : replayed[j] = o /\ Touched(j, s)) <=> o = W
    BY <1>2, <1>10 DEF ReplayedUpTo
  <2>2. PICK j \in 1..K : replayed[j] = W /\ Touched(j, s)
    BY <2>1
  <2>3. LastWord(K, j, s)
    BY <2>1, <2>2 DEF LastWord
  <2>4. K \in 0..Len(replayed)
    <3>1. IsSeq(replayed)
      BY DEF Inv, ReplayInv
    <3> QED BY <3>1, SeqIs
  <2>5. \A i : LastWord(K, i, s) => Get(configs[K + 1], s) = LeftBy(replayed[i], s)
    BY <2>4, OpsHaveVerbs, ReplayLast
  <2> QED BY <1>12, <2>2, <2>3, <2>5
<1> QED BY <1>11, <1>13, RouterIs

LEMMA StanzaIsDevice ==
  ASSUME Inv, Finished, NEW s \in SessionSlots, s[1] = "global", InScriptSession(s)
  PROVE  Get(config, s) = Get(Device, s)
<1> DEFINE x == s[3]
           M == Len(script) + 1
           L == NeighborLine("global", x)
           S == {SessionSet(h, x) : h \in {h \in Blocks : SessionSays(h, s)}}
           stub == s[2] = "neighbor" /\ ~IsKept(1, x) /\ DOMAIN AfEntries(x) # {}
<1>0. /\ IsSessionSlot(s) /\ IsOwnSlot(s) /\ x \in Peers /\ x \notin Groups /\ s = <<"global", s[2], x>>
      /\ ~CarriedOver(s) /\ ~StubOutlives(s) /\ ~Unread(s) /\ SameMembership(x)
  <2>1. IsSessionSlot(s) /\ IsOwnSlot(s) /\ x \in Peers /\ x \notin Groups
    BY SlotsAre
  <2>2. s = <<"global", s[2], x>>
    BY <2>1 DEF IsOwnSlot
  <2>3. ~FoundOtherwise(x) /\ ~CarriedOver(s) /\ ~StubOutlives(s) /\ ~Unread(s)
    BY DEF InScriptSession
  <2> QED BY <2>1, <2>2, <2>3, MembershipsSame
<1>1. \A n \in Lines : States(n, s) => IsKept(1, x) /\ script[n].kind # "header" /\ script[n].scope = "global"
  <2> SUFFICES ASSUME NEW n \in Lines, States(n, s) PROVE IsKept(1, x) /\ script[n].kind # "header" /\ script[n].scope = "global"
    OBVIOUS
  <2>1. script[n].kind # "header" /\ script[n].scope = "global"
    BY <1>0, OwnStates
  <2>2. Block(n) = 1
    <3>1. Block(n) \in Headers("global")
      BY <2>1, BlockIs
    <3> QED BY <3>1, StanzaIs
  <2> QED BY <2>1, <2>2 DEF InScriptSession
<1>2. /\ \A h \in Blocks : SessionSays(h, s) <=> h = 1 /\ ((\E n \in Lines : States(n, s)) \/ stub)
      /\ SaysLast(s)
      /\ s[2] = "neighbor" => Sessions(1)[x][s] = On \/ ~SessionSays(1, s)
  BY <1>0, <1>1, StanzaSays
<1>3. StatesAll(S, s)
  BY DEF StatesAll
<1> HIDE DEF S
<1>4. /\ ReplayedUpTo(M, Len(replayed), s, S)
      /\ \A r \in TakenBefore(M, s) : r \in Lines /\ r \in Negations /\ Withdraws(r, s) /\ LeftBy(Removal(r), s) = Absent
  BY <1>0, <1>3, SessionReplayed
<1>g. 1 \in Blocks /\ ScopeOf(1) = "global"
  BY StanzaSessions
<1>5. CASE (\A n \in Lines : ~States(n, s)) /\ ~stub
  <2>1. Said(M, s, S, On)
    BY <1>2, <1>3, <1>5, Unsaid
  <2> QED BY <1>0, <1>4, <2>1, SameAtEnd
<1>6. CASE (\A n \in Lines : ~States(n, s)) /\ stub
  <2>1. SessionSays(1, s) /\ Sessions(1)[x][s] = On /\ \A h \in Blocks : SessionSays(h, s) => h = 1
    BY <1>2, <1>6, <1>g
  <2> QED BY <1>0, <1>6, <2>1, StubIsDevice
<1>7. CASE \E n : LastToState(n, M, s)
  <2>1. PICK n : LastToState(n, M, s)
    BY <1>7
  <2>2. n \in Lines /\ States(n, s) /\ Home(n, s) = 1
    BY <2>1, StanzaIs DEF LastToState, Home
  <2>3. n \in Candidates(s[1])
    BY <1>1, <2>2, CandidatesAre
  <2>4. L \in Nat /\ L # 0 /\ \A r \in TakenBefore(M, s) : (r < n => r < L) /\ (n < r => L < r)
    BY <1>0, <2>1, <2>3, LineAround
  <2>5. \A h \in Blocks : SessionSays(h, s) => NeighborLine(ScopeOf(h), x) = L /\ h <= Home(n, s)
    BY <1>2, <1>g, <2>2
  <2>6. (\E h \in Blocks : SessionSays(h, s)) => \E m \in Lines : States(m, s)
    BY <2>2
  <2> HIDE DEF L
  <2>7. Said(M, s, S, SessionSet(Home(n, s), x))
    BY <1>0, <1>2, <1>3, <1>4, <2>1, <2>4, <2>5, <2>6, SaidAtLine
  <2> QED BY <1>0, <1>4, <2>7, SameAtEnd
<1>8. (\A n \in Lines : ~States(n, s)) \/ \E n : LastToState(n, M, s)
  BY NothingOrLast
<1> QED BY <1>5, <1>6, <1>7, <1>8

\* What takes the family's policy takes the session too.
LEMMA TakesSession ==
  ASSUME Inv, NEW s, IsFamilySlot(s), NEW r \in Lines, Slot(r) # s, NEW cfg, TakenBy(cfg, script[r], s)
  PROVE  TakenBy(cfg, script[r], <<"global", "neighbor", s[3]>>)
<1> DEFINE l == script[r]
           x == s[3]
           d == <<"global", "neighbor", x>>
<1>0. s = <<"af", s[2], x>> /\ s[2] # "member" /\ s[1] = "af"
  BY DEF IsFamilySlot
<1>1. Belongs(l) /\ l.scope \in {"global", "af", "vrf"}
  BY StanzaIs DEF Line
<1>2. \A sc, y : s \in TargetSlots(sc, y) => y = x /\ sc \in {"global", "af"}
  BY <1>0 DEF TargetSlots, SessionScopes
<1>3. d \in TargetSlots("global", x)
  BY DEF TargetSlots, SessionScopes, Kinds
<1>4. l.no /\ l.kind # "activate"
  BY DEF TakenBy
<1>5. CASE l.kind \in {"neighbor", "remote_as"} /\ s \in TargetSlots(l.scope, l.at)
  <2>1. l.at = x /\ l.scope = "global"
    <3>1. l.scope # "af"
      BY <1>1, <1>5 DEF Belongs
    <3> QED BY <1>2, <1>5, <3>1
  <2>2. d \in TargetSlots(l.scope, l.at)
    BY <1>3, <2>1
  <2> QED BY <1>4, <1>5, <2>2 DEF TakenBy
<1>6. CASE l.kind = "group" /\ l.at \in Groups /\ s \in TakenWith(cfg, l.scope, l.at)
  <2>1. l.scope = "global"
    BY <1>1, <1>6, TargetsAssumption DEF Belongs
  <2>2. s \in TargetSlots("global", l.at) \/ \E y \in MembersIn(cfg, "global", l.at) : s \in TargetSlots("global", y)
    BY <1>6, <2>1 DEF TakenWith
  <2>3. d \in TargetSlots("global", l.at) \/ \E y \in MembersIn(cfg, "global", l.at) : d \in TargetSlots("global", y)
    BY <1>2, <1>3, <2>2
  <2>4. d \in TakenWith(cfg, l.scope, l.at)
    BY <2>1, <2>3 DEF TakenWith
  <2> QED BY <1>4, <1>6, <2>4 DEF TakenBy
<1>7. ~(s = <<l.scope, "member", l.at>>) /\ SlotOf(l) # s
  BY <1>0 DEF SlotOf, Slot
<1> QED BY <1>5, <1>6, <1>7 DEF TakenBy

LEMMA FamilyIsDevice ==
  ASSUME Inv, Finished, NEW s \in SessionSlots, s[1] = "af", InScriptSession(s)
  PROVE  Get(config, s) = Get(Device, s)
<1> DEFINE x == s[3]
           M == Len(script) + 1
           L == NeighborLine("global", x)
           P == Positives("global", SessionKinds, x)
           S == {SessionSet(h, x) : h \in {h \in Blocks : SessionSays(h, s)}}
           d == <<"global", "neighbor", x>>
<1>0. /\ IsSessionSlot(s) /\ IsFamilySlot(s) /\ x \in Peers /\ x \notin Groups /\ s = <<"af", s[2], x>>
      /\ ~CarriedOver(s) /\ ~StubOutlives(s) /\ ~Unread(s) /\ ~ActivatedFirst(x) /\ SameMembership(x)
      /\ \A n \in Lines : Withdraws(n, s) => Slot(n) # s
  <2>1. IsSessionSlot(s) /\ IsFamilySlot(s) /\ x \in Peers /\ x \notin Groups
    BY SlotsAre
  <2>2. s = <<"af", s[2], x>>
    BY <2>1 DEF IsFamilySlot
  <2>3. ~FoundOtherwise(x)
    BY DEF InScriptSession
  <2> QED BY <2>1, <2>2, <2>3, MembershipsSame DEF InScriptSession
<1>1. /\ \A h \in Blocks : SessionSays(h, s) <=> h = 1 /\ \E n \in Lines : States(n, s)
      /\ SaysLast(s)
  BY <1>0, FamilySays
<1>2. StatesAll(S, s)
  BY DEF StatesAll
<1> HIDE DEF S
<1>3. /\ ReplayedUpTo(M, Len(replayed), s, S)
      /\ \A r \in TakenBefore(M, s) : r \in Lines /\ r \in Negations /\ Withdraws(r, s) /\ LeftBy(Removal(r), s) = Absent
  BY <1>0, <1>2, SessionReplayed
<1>g. 1 \in Blocks /\ ScopeOf(1) = "global" /\ Len(script) \in Nat /\ Lines = 1..Len(script)
  BY StanzaSessions, StanzaIs
<1>4. CASE \A n \in Lines : ~States(n, s)
  <2>1. Said(M, s, S, On)
    BY <1>1, <1>2, <1>4, Unsaid
  <2> QED BY <1>0, <1>3, <2>1, SameAtEnd
<1>5. CASE \E n : LastToState(n, M, s)
  <2>1. PICK n : LastToState(n, M, s)
    BY <1>5
  <2>2. n \in Lines /\ n \in Nat /\ States(n, s) /\ Home(n, s) = 1 /\ \A j \in Lines : States(j, s) => j <= n
    BY <2>1, <1>g DEF LastToState, Home
  <2>3. script[n].scope = "af" /\ script[n].at = x
    BY <1>0, <2>2, FamilyLines
  <2>4. L \in Nat /\ (P = {} => L = 0)
        /\ \A k \in P : L \in P /\ L # 0 /\ L \in Lines /\ k <= L
                        /\ ~script[L].no /\ script[L].kind \in SessionKinds /\ script[L].at = x /\ script[L].scope = "global"
    BY LineOfSession
  <2>5. \A k : k \in P <=> k \in Lines /\ States(k, d)
    <3>1. \A k : k \in P <=> k \in Candidates("global") /\ ~script[k].no /\ script[k].kind \in SessionKinds /\ script[k].at = x
      BY PositivesAre
    <3>2. \A k : k \in Candidates("global") <=> k \in Lines /\ script[k].scope = "global" /\ script[k].kind # "header"
      BY CandidatesAre
    <3>3. IsOwnSlot(d) /\ d[1] = "global" /\ d[2] = "neighbor" /\ d[3] = x
      BY <1>0 DEF IsOwnSlot
    <3>4. \A k \in Lines : States(k, d) <=> ~script[k].no /\ script[k].kind \in SessionKinds /\ script[k].scope = "global" /\ script[k].at = x
      <4> HIDE DEF d
      <4> QED BY <3>3, OwnStates
    <3>5. "header" \notin SessionKinds
      BY DEF SessionKinds
    <3> HIDE DEF P, d
    <3> QED BY <3>1, <3>2, <3>4, <3>5
  <2> HIDE DEF L, P
  <2>6. ASSUME NEW r \in TakenBefore(M, s)
        PROVE  r \in Lines /\ r \in Nat /\ script[r].no /\ Withdraws(r, s) /\ r \in Negations /\ Taken(r, d)
    <3>1. r \in Lines /\ Taken(r, s) /\ r \in Negations /\ Withdraws(r, s) /\ Slot(r) # s
      BY <1>0, <1>3 DEF TakenBefore
    <3>2. Taken(r, d)
      BY <1>0, <3>1, TakesSession DEF Taken
    <3> QED BY <1>g, <3>1, <3>2 DEF Negations, IsRead
  <2>7. ASSUME NEW r \in TakenBefore(M, s), r < n, L # 0
        PROVE  r < L
    <3> SUFFICES ASSUME ~(r < L) PROVE FALSE
      OBVIOUS
    <3>1. L \in P
      BY <2>4, <2>7
    <3>2. L # r
      BY <2>4, <2>6, <3>1
    <3>3. L < r
      BY <2>4, <2>6, <3>2
    <3>4. LastToState(L, n, d)
      BY <2>2, <2>4, <2>5, <2>6, <2>7, <3>1, <3>3 DEF LastToState
    <3>5. r \in TakenBefore(n, d)
      BY <2>6, <2>7 DEF TakenBefore
    <3>6. Get(router[n], d) = IF \E q \in TakenBefore(n, d) : L < q THEN Absent ELSE ValueOf(script[L], d)
      <4>1. n \in 1..(Len(script) + 1) /\ IsSessionSlot(d)
        BY <1>0, <1>g, <2>2 DEF IsSessionSlot
      <4> HIDE DEF d
      <4> QED BY <3>4, <4>1, RouterLast
    <3>7. Get(router[n], d) # Absent
      BY <1>0, <2>2, FamilyAccepted
    <3> QED BY <3>3, <3>5, <3>6, <3>7
  <2>8. ASSUME NEW r \in TakenBefore(M, s), n < r
        PROVE  L # 0 /\ L < r
    <3>1. CASE L = 0
      <4>1. P = {}
        BY <2>4, <3>1
      <4>2. ~IsKept(1, x)
        <5> SUFFICES ASSUME IsKept(1, x) PROVE FALSE
          OBVIOUS
        <5>1. Kept(1, x)
          BY <1>0, <1>g, KeptIs
        <5>2. PICK k \in Children(1) : ~script[k].no /\ script[k].at = x /\ script[k].kind \in {"remote_as", "member", "shutdown"}
          BY <5>1 DEF Kept
        <5>3. k \in Lines /\ script[k].scope = "global" /\ script[k].kind \in SessionKinds
          BY <5>2, ChildrenAre DEF SessionKinds
        <5>4. States(k, d)
          BY <5>2, <5>3 DEF States
        <5> QED BY <2>5, <4>1, <5>3, <5>4
      <4>3. StubOutlives(s)
        BY <2>2, <2>3, <2>6, <2>8, <4>2 DEF StubOutlives
      <4> QED BY <1>0, <4>3
    <3>2. CASE L # 0 /\ ~(L < r)
      <4>1. L \in P
        BY <2>4, <3>2
      <4>2. r < L /\ L \in Lines /\ ~script[L].no /\ script[L].kind \in SessionKinds /\ script[L].at = x /\ script[L].scope = "global"
        <5>1. ~script[L].no /\ script[L].kind \in SessionKinds /\ script[L].at = x /\ script[L].scope = "global" /\ L \in Lines
          BY <2>4, <4>1
        <5>2. L # r
          BY <2>6, <5>1
        <5> QED BY <2>4, <2>6, <3>2, <5>1, <5>2
      <4>3. \A j \in r+1..Len(script) : ~States(j, s)
        BY <1>g, <2>2, <2>6, <2>8
      <4>4. script[L].kind \in Anchors(x) /\ Scope(n) = "global"
        BY <1>0, <2>3, <4>2 DEF Anchors, Scope
      <4>5. CarriedOver(s)
        BY <2>2, <2>6, <2>8, <4>2, <4>3, <4>4 DEF CarriedOver
      <4> QED BY <1>0, <4>5
    <3> QED BY <3>1, <3>2
  <2>9. \A h \in Blocks : SessionSays(h, s) => NeighborLine(ScopeOf(h), x) = L /\ h <= Home(n, s)
    BY <1>1, <1>g, <2>2 DEF L
  <2>10. (\E h \in Blocks : SessionSays(h, s)) => \E m \in Lines : States(m, s)
    BY <2>2
  <2>11. \A r \in TakenBefore(M, s) :
           r \in Negations /\ (r < n => L = 0 \/ r < L) /\ (n < r => L # 0 /\ L < r)
    BY <2>6, <2>7, <2>8
  <2>12. Said(M, s, S, SessionSet(Home(n, s), x))
    BY <1>0, <1>1, <1>2, <2>1, <2>4, <2>9, <2>10, <2>11, SaidAtLine
  <2> QED BY <1>0, <1>3, <2>12, SameAtEnd
<1>6. (\A n \in Lines : ~States(n, s)) \/ \E n : LastToState(n, M, s)
  BY NothingOrLast
<1> QED BY <1>4, <1>5, <1>6

LEMMA InvSessions == Inv => SessionsAreDevice
<1> SUFFICES ASSUME Inv, Finished, NEW s \in SessionSlots, InScriptSession(s) PROVE Get(config, s) = Get(Device, s)
  BY DEF SessionsAreDevice
<1>1. s[1] \in {"global", "vrf", "af"}
  BY DEF SessionSlots
<1> QED BY <1>1, StanzaIsDevice, VrfIsDevice, FamilyIsDevice

(* The sessions after the replay are the router's, in each scope, for      *)
(* every stanza and baseline: outside the folds that lose the order, the   *)
(* parser's word on a session is the script's last one.                    *)
THEOREM SessionsHold == Spec => []SessionsAreDevice
<1> QED BY InvHolds, InvSessions, PTL
=============================================================================
