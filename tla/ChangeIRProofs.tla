--------------------------- MODULE ChangeIRProofs ---------------------------
(***************************************************************************)
(* The composition of native and derived operations is right for every     *)
(* script and every vocabulary that satisfies the assumptions of ChangeIR  *)
(* on the shapes of its paths.  The state is only grown by the lines of    *)
(* the script, so the inductive invariant is small: what the state holds   *)
(* comes from the constants, and no path is queued for removal twice.      *)
(* Everything else is about the pure functions that are applied to the     *)
(* finished state: which native operations there are (NativeOps), which    *)
(* derived ones they claim (WholeClaimed, StringUnclaimed), and what the   *)
(* shim makes of the rest.                                                 *)
(***************************************************************************)
EXTENDS ChangeIR, SequenceTheorems, FiniteSetTheorems, TLAPS

(* Segments are strings; the marker is named because no prover knows that  *)
(* a literal is a member of STRING.                                        *)
Segment == STRING \union {"instance"}

Path == Seq(Segment)

LEMMA StringPaths == \A path \in Seq(STRING) : path \in Path
  BY SeqMonotonic DEF Path, Segment

-----------------------------------------------------------------------------
(* Paths.                                                                  *)

(* A path and one of its prefixes begin alike.                             *)
LEMMA PrefixBegins ==
    ASSUME NEW S, NEW s \in Seq(S), NEW t \in Seq(S), s # <<>>, IsPrefix(s, t)
    PROVE  Len(s) >= 1 /\ Len(s) <= Len(t) /\ s[1] = t[1]
  <1>1. Len(s) \in Nat /\ Len(s) >= 1 /\ Len(t) \in Nat /\ Len(s) <= Len(t)
    <2>1. Len(s) \in Nat /\ Len(t) \in Nat
      BY LenProperties
    <2> QED  BY <2>1, EmptySeq DEF IsPrefix
  <1>2. SubSeq(s, 1, Len(s))[1] = s[1] /\ SubSeq(t, 1, Len(s))[1] = t[1]
    BY <1>1
  <1> QED  BY <1>1, <1>2 DEF IsPrefix

(* A prefix as long as the path is the path.                               *)
LEMMA PrefixWhole ==
    ASSUME NEW S, NEW s \in Seq(S), NEW t \in Seq(S), IsPrefix(s, t), Len(s) = Len(t)
    PROVE  s = t
  BY SubSeqFull DEF IsPrefix

(* Every path is a prefix of itself.                                       *)
LEMMA PrefixSelf ==
    ASSUME NEW S, NEW s \in Seq(S)
    PROVE  IsPrefix(s, s)
  BY LenProperties DEF IsPrefix

(* One segment is a path.                                                  *)
LEMMA OneSegment ==
    ASSUME NEW S, NEW x \in S
    PROVE  <<x>> \in Seq(S) /\ Len(<<x>>) = 1
  OBVIOUS

(* One segment is a prefix of the paths that begin with it.                *)
LEMMA PrefixOne ==
    ASSUME NEW R, NEW h, NEW t \in Seq(R), t # <<>>
    PROVE  IsPrefix(<<h>>, t) <=> t[1] = h
  <1> DEFINE S == R \union {h}
  <1>0. h \in S /\ t \in Seq(S)
    BY SeqMonotonic
  <1> HIDE DEF S
  <1>1. Len(t) \in Nat /\ Len(t) >= 1 /\ <<h>> \in Seq(S) /\ Len(<<h>>) = 1
    <2>1. Len(t) \in Nat
      BY <1>0, LenProperties
    <2>2. Len(t) >= 1
      BY <1>0, <2>1, EmptySeq
    <2> QED  BY <1>0, <2>1, <2>2, OneSegment
  <1>2. SubSeq(<<h>>, 1, 1) = <<h>>
    BY <1>0, <1>1, SubSeqFull
  <1>3. SubSeq(t, 1, 1) = <<t[1]>>
    <2>1. \A i \in 1..1 : t[i] \in S
      BY <1>0, <1>1, ElementOfSeq
    <2>2. SubSeq(t, 1, 1) \in Seq(S) /\ Len(SubSeq(t, 1, 1)) = 1
      BY <2>1, SubSeqProperties
    <2>3. SubSeq(t, 1, 1)[1] = t[1]
      BY <1>0, <1>1
    <2>4. t[1] \in S
      BY <2>1
    <2>5. <<t[1]>> \in Seq(S) /\ Len(<<t[1]>>) = 1 /\ <<t[1]>>[1] = t[1]
      BY <2>4, OneSegment
    <2>6. \A i \in 1..1 : SubSeq(t, 1, 1)[i] = <<t[1]>>[i]
      BY <2>3, <2>5
    <2> HIDE <2>1
    <2> QED  BY <2>2, <2>5, <2>6, SeqEqual
  <1> QED  BY <1>0, <1>1, <1>2, <1>3 DEF IsPrefix

(* The path of a CREATE operation: its container and a marker.             *)
LEMMA AppendShape ==
    ASSUME NEW S, NEW w \in Seq(S), NEW x \in S
    PROVE  /\ Append(w, x) \in Seq(S)
           /\ Len(Append(w, x)) = Len(w) + 1
           /\ Front(Append(w, x)) = w
           /\ Last(Append(w, x)) = x
           /\ w # <<>> => Append(w, x)[1] = w[1]
           /\ \A i \in 1..Len(w) : Append(w, x)[i] = w[i]
  <1>1. /\ Append(w, x) \in Seq(S) /\ Len(Append(w, x)) = Len(w) + 1
        /\ Append(w, x)[Len(w) + 1] = x
        /\ \A i \in 1..Len(w) : Append(w, x)[i] = w[i]
    BY AppendProperties, LenProperties
  <1>2. Len(w) \in Nat /\ (w # <<>> => Len(w) >= 1)
    <2>1. Len(w) \in Nat
      BY LenProperties
    <2> QED  BY <2>1, EmptySeq
  <1>3. Front(Append(w, x)) = w
    <2>1. SubSeq(Append(w, x), 1, Len(w)) = SubSeq(w, 1, Len(w))
      BY <1>1, <1>2
    <2> QED  BY <1>1, <1>2, <2>1, SubSeqFull DEF Front
  <1> QED  BY <1>1, <1>2, <1>3 DEF Last

(* A path is its front and its last segment.                               *)
LEMMA FrontShape ==
    ASSUME NEW S, NEW s \in Seq(S), Len(s) >= 2
    PROVE  /\ Front(s) \in Seq(S)
           /\ Len(Front(s)) = Len(s) - 1
           /\ Front(s)[1] = s[1]
           /\ s = Append(Front(s), Last(s))
  <1>1. Len(s) \in Nat
    BY LenProperties
  <1>2. \A i \in 1..(Len(s) - 1) : s[i] \in S
    BY <1>1, ElementOfSeq
  <1>3. Front(s) \in Seq(S) /\ Len(Front(s)) = Len(s) - 1
    BY <1>1, <1>2, SubSeqProperties DEF Front
  <1>4. \A i \in 1..(Len(s) - 1) : Front(s)[i] = s[i]
    BY <1>1 DEF Front
  <1>5. s = Append(Front(s), Last(s))
    <2>1. Last(s) \in S
      BY <1>1, ElementOfSeq DEF Last
    <2>2. /\ Append(Front(s), Last(s)) \in Seq(S)
          /\ Len(Append(Front(s), Last(s))) = Len(s)
          /\ \A i \in 1..Len(s) : Append(Front(s), Last(s))[i] = s[i]
      BY <1>1, <1>3, <1>4, <2>1, AppendProperties DEF Last
    <2> QED  BY <2>2, SeqEqual
  <1> QED  BY <1>1, <1>3, <1>4, <1>5

(* The path of a member: its container, then segments of its own.          *)
LEMMA ConcatShape ==
    ASSUME NEW S, NEW w \in Seq(S), NEW m \in Seq(S), w # <<>>
    PROVE  /\ w \o m \in Seq(S)
           /\ w \o m # <<>>
           /\ Len(w \o m) = Len(w) + Len(m)
           /\ (w \o m)[1] = w[1]
           /\ IsPrefix(w, w \o m)
           /\ Len(m) >= 1 => Last(w \o m) = Last(m)
  <1>1. Len(w) \in Nat /\ Len(w) >= 1 /\ Len(m) \in Nat
    BY EmptySeq, LenProperties
  <1>2. w \o m \in Seq(S) /\ Len(w \o m) = Len(w) + Len(m)
    BY ConcatProperties
  <1>3. (w \o m)[1] = w[1]
    BY <1>1, ConcatProperties
  <1>4. IsPrefix(w, w \o m)
    <2>1. SubSeq(w \o m, 1, Len(w)) = SubSeq(w, 1, Len(w))
      BY <1>1, SubSeqOfConcat1
    <2> QED  BY <1>1, <1>2, <2>1 DEF IsPrefix
  <1>5. ASSUME Len(m) >= 1
        PROVE  Last(w \o m) = Last(m)
    <2>1. /\ Len(w) + Len(m) \in 1..(Len(w) + Len(m))
          /\ ~(Len(w) + Len(m) <= Len(w))
      BY <1>1, <1>5
    <2>2. (Len(w) + Len(m)) - Len(w) = Len(m)
      BY <1>1
    <2>3. (w \o m)[Len(w) + Len(m)] = m[Len(m)]
      BY <2>1, <2>2, ConcatProperties
    <2> QED  BY <1>2, <2>3 DEF Last
  <1>6. w \o m # <<>>
    BY <1>1, <1>2, EmptySeq
  <1> QED  BY <1>2, <1>3, <1>4, <1>5, <1>6

-----------------------------------------------------------------------------
(* What the state holds, from the assumptions on the constants.            *)

(* A definition of the model, and the operations that may be made of it.   *)
LEMMA ParsedShape ==
    ASSUME TypeOK, NEW d \in parsed
    PROVE  /\ d.whole \in Path /\ d.whole # <<>> /\ d.member \in Path
           /\ d.whole[1] \in Families
           /\ Len(d.whole) = WholeLength(d.whole[1]) /\ Len(d.whole) >= 1
           /\ CreateFamily(d.whole) =>
                 /\ Len(d.member) >= 1
                 /\ Len(d.member) = 1 => Last(d.member) # "instance"
           /\ d.whole[1] \in ServiceFields => Len(d.whole) + Len(d.member) = 2
  <1>1. PICK def \in Definitions, n \in 1..line :
           d = [whole |-> def.whole, member |-> def.member, line |-> n]
    BY DEF TypeOK
  <1>2. d.whole = def.whole /\ d.member = def.member
    BY <1>1
  <1>3. /\ def.whole \in Path /\ def.member \in Path
        /\ def.whole[1] \in Families
        /\ Len(def.whole) = WholeLength(def.whole[1])
        /\ CreateFamily(def.whole) =>
              /\ Len(def.member) >= 1
              /\ Len(def.member) = 1 => Last(def.member) # "instance"
        /\ def.whole[1] \in ServiceFields => Len(def.whole) + Len(def.member) = 2
    BY DefinitionsAssumption, StringPaths
  <1>4. Len(def.whole) >= 1
    BY <1>3 DEF WholeLength
  <1>5. def.whole # <<>>
    BY <1>4, EmptySeq
  <1> QED  BY <1>2, <1>3, <1>4, <1>5

(* A removal the walks queued.                                             *)
LEMMA PendingShape ==
    ASSUME TypeOK, NEW op \in pending
    PROVE  /\ op.origin = "native" /\ op.verb # "SET"
           /\ op.path \in Path /\ Len(op.path) >= 2
           /\ op.path[1] \in Families =>
                 op.path[1] = "interface" /\ Len(op.path) = 2
           /\ ListEntry(op.path) => op.verb = "LIST_REMOVE"
           /\ FamilyField(op.path) => op.verb = "UNSET"
           /\ \A path \in no_commands : ~IsPrefix(path, op.path)
  <1>1. PICK removal \in NativeRemovals \union SharedRemovals, n \in 1..line :
           /\ op = Op(removal.verb, removal.path, "native", n)
           /\ os = "ios_xr" => removal \in SharedRemovals
    BY DEF TypeOK
  <1>2. op.verb = removal.verb /\ op.path = removal.path /\ op.origin = "native"
    BY <1>1 DEF Op
  <1>3. \A path \in no_commands : ~IsPrefix(path, removal.path)
    BY <1>1, StringsAssumption DEF TypeOK
  <1>4. /\ removal.verb \in {"UNSET", "LIST_REMOVE", "OBJECT_DELETE"}
        /\ removal.path \in Path /\ Len(removal.path) >= 2
        /\ removal.path[1] \in Families =>
              removal.path[1] = "interface" /\ Len(removal.path) = 2
        /\ ListEntry(removal.path) => removal.verb = "LIST_REMOVE"
        /\ FamilyField(removal.path) => removal.verb = "UNSET"
    BY RemovalsAssumption, StringPaths
  <1> QED  BY <1>2, <1>3, <1>4

(* A deletion string.                                                      *)
LEMMA StringShape ==
    ASSUME TypeOK, NEW path \in no_commands
    PROVE  path \in Path /\ path # <<>> /\ path[1] \notin Families
  <1>1. path \in LegacyStrings \union XrStrings
    BY DEF TypeOK
  <1> QED  BY <1>1, StringsAssumption, StringPaths

-----------------------------------------------------------------------------
(* The native operations.                                                  *)

MemberOp(d) == Set(d.whole \o d.member, "native", d.line)

CreateOp(d) == Set(Append(d.whole, "instance"), "native", 0)

(* Whether the parser emits the operations of a family at all.             *)
Covered(whole) ==
    HasNatives /\ (whole[1] \in Sections \union PolicyFields => os # "ios_xr")

HasMember(d) == Covered(d.whole)

HasCreate(d) == CreateFamily(d.whole) /\ Covered(d.whole) /\ ~Gated(d.whole)

LEMMA MembersOf ==
    ASSUME NEW heads, NEW op
    PROVE  op \in Members(heads) <=>
               \E d \in parsed : d.whole[1] \in heads /\ op = MemberOp(d)
  BY DEF Members, MemberOp

LEMMA CreatesOf ==
    ASSUME NEW heads, NEW op
    PROVE  op \in Creates(heads) <=>
               \E d \in parsed : d.whole[1] \in heads /\ op = CreateOp(d)
  BY DEF Creates, CreateOp

(* The CREATE of a BGP instance is gated by the VRF in its path.           *)
LEMMA BgpCreates ==
    ASSUME TypeOK, NEW op
    PROVE  op \in {o \in Creates({"bgp_instances"}) : ~_bgp_instance_gated(o.path[3])}
           <=> \E d \in parsed :
                  /\ d.whole[1] = "bgp_instances" /\ ~_bgp_instance_gated(d.whole[3])
                  /\ op = CreateOp(d)
  <1>1. ASSUME NEW d \in parsed, d.whole[1] = "bgp_instances"
        PROVE  CreateOp(d).path[3] = d.whole[3]
    <2>1. Len(d.whole) = 3
      BY <1>1, ParsedShape DEF WholeLength, Sections
    <2>2. CreateOp(d).path = Append(d.whole, "instance")
      BY DEF CreateOp, Set, Op
    <2> QED  BY <2>1, <2>2, ParsedShape, AppendShape DEF Path, Segment
  <1>2. op \in Creates({"bgp_instances"}) <=>
            \E d \in parsed : d.whole[1] = "bgp_instances" /\ op = CreateOp(d)
    BY CreatesOf
  <1> QED  BY <1>1, <1>2

(* Family by family, the native operations are the removals queued, one    *)
(* SET per member and one CREATE per container, where they are not gated.  *)
LEMMA NativeOps ==
    ASSUME TypeOK, NEW op
    PROVE  op \in native_change_ops <=>
             \/ HasNatives /\ op \in pending
             \/ \E d \in parsed : HasMember(d) /\ op = MemberOp(d)
             \/ \E d \in parsed : HasCreate(d) /\ op = CreateOp(d)
  <1> DEFINE M(heads) == \E d \in parsed : d.whole[1] \in heads /\ op = MemberOp(d)
             C(heads) == \E d \in parsed : d.whole[1] \in heads /\ op = CreateOp(d)
  <1>1. /\ op \in _native_iface_set_ops <=> M({"interface"})
        /\ op \in _native_service_entity_ops <=> M(ServiceFields)
        /\ op \in _native_static_ops <=> M({"static_routes"})
        /\ op \in _native_vlan_ops <=> M({"vlans"})
        /\ op \in _native_simple_keyed_list_ops <=> M({"lines"})
    BY MembersOf DEF _native_iface_set_ops, _native_service_entity_ops,
          _native_static_ops, _native_vlan_ops, _native_simple_keyed_list_ops
  <1>2. op \in _native_bgp_ops <=>
            \/ M({"bgp_instances"})
            \/ \E d \in parsed :
                  /\ d.whole[1] = "bgp_instances" /\ ~_bgp_instance_gated(d.whole[3])
                  /\ op = CreateOp(d)
    BY MembersOf, BgpCreates DEF _native_bgp_ops
  <1>3. op \in _native_isis_ops <=>
            M({"isis_instances"}) \/ (~_isis_instance_gated /\ C({"isis_instances"}))
    BY MembersOf, CreatesOf DEF _native_isis_ops, Unless
  <1>4. op \in _native_eigrp_ops <=> M({"eigrp_instances"}) \/ C({"eigrp_instances"})
    BY MembersOf, CreatesOf DEF _native_eigrp_ops, Unless, _eigrp_instance_gated
  <1>5. op \in _native_ospf_ops <=>
            M({"ospf_instances"}) \/ (~_ospf_instance_gated /\ C({"ospf_instances"}))
    BY MembersOf, CreatesOf DEF _native_ospf_ops, Unless
  <1>6. op \in _native_vrf_ops <=>
            M({"vrfs"}) \/ (~_vrf_instance_gated /\ C({"vrfs"}))
    BY MembersOf, CreatesOf DEF _native_vrf_ops, Unless
  <1>7. op \in _native_singleton_section_ops <=>
            os # "ios_xr" /\ (M(Sections) \/ C(Sections))
    BY MembersOf, CreatesOf
       DEF _native_singleton_section_ops, Unless, _singleton_section_gated
  <1>8. op \in _native_policy_object_ops <=>
            os # "ios_xr" /\ (M(PolicyFields) \/ C(PolicyFields))
    BY MembersOf, CreatesOf
       DEF _native_policy_object_ops, Unless, _policy_objects_gated
  <1>9. op \in native_change_ops <=>
            HasNatives /\
              \/ op \in _native_iface_set_ops
              \/ op \in _native_service_entity_ops
              \/ op \in _native_static_ops \/ op \in _native_bgp_ops
              \/ op \in _native_isis_ops \/ op \in _native_eigrp_ops
              \/ op \in _native_ospf_ops \/ op \in _native_vrf_ops
              \/ op \in _native_singleton_section_ops
              \/ op \in _native_vlan_ops
              \/ op \in _native_simple_keyed_list_ops
              \/ op \in _native_policy_object_ops \/ op \in pending
    BY DEF native_change_ops
  <1>10. ASSUME NEW d \in parsed
         PROVE  d.whole[1] \in Families
    BY ParsedShape
  <1>11. (HasNatives /\ (\/ M({"interface"}) \/ M(ServiceFields)
                         \/ M({"static_routes"}) \/ M({"vlans"}) \/ M({"lines"})
                         \/ M({"bgp_instances"}) \/ M({"isis_instances"})
                         \/ M({"eigrp_instances"}) \/ M({"ospf_instances"})
                         \/ M({"vrfs"})
                         \/ os # "ios_xr" /\ (M(Sections) \/ M(PolicyFields))))
         <=> \E d \in parsed : HasMember(d) /\ op = MemberOp(d)
    BY <1>10 DEF HasMember, Covered, Families, CreateFamilies, Sections,
                 PolicyFields, ServiceFields
  <1>12. (HasNatives /\
            (\/ \E d \in parsed :
                  /\ d.whole[1] = "bgp_instances" /\ ~_bgp_instance_gated(d.whole[3])
                  /\ op = CreateOp(d)
             \/ ~_isis_instance_gated /\ C({"isis_instances"})
             \/ C({"eigrp_instances"})
             \/ ~_ospf_instance_gated /\ C({"ospf_instances"})
             \/ ~_vrf_instance_gated /\ C({"vrfs"})
             \/ os # "ios_xr" /\ (C(Sections) \/ C(PolicyFields))))
         <=> \E d \in parsed : HasCreate(d) /\ op = CreateOp(d)
    BY DEF HasCreate, Covered, CreateFamily, CreateFamilies, Gated,
           Sections, PolicyFields
  <1> HIDE DEF M, C
  <1> QED  BY <1>1, <1>2, <1>3, <1>4, <1>5, <1>6, <1>7, <1>8, <1>9, <1>11, <1>12

(* The paths of the operations made of a definition.                       *)
LEMMA MemberShape ==
    ASSUME TypeOK, NEW d \in parsed
    PROVE  LET op == MemberOp(d) IN
           /\ op.origin = "native" /\ op.verb = "SET" /\ op.line = d.line
           /\ op.path = d.whole \o d.member
           /\ op.path \in Path
           /\ Len(op.path) = Len(d.whole) + Len(d.member)
           /\ op.path[1] = d.whole[1] /\ op.path # <<>>
           /\ IsPrefix(d.whole, op.path)
           /\ CreateFamily(d.whole) => Len(op.path) > Len(d.whole)
           /\ CreateFamily(d.whole) =>
                 ~(Len(op.path) = Len(d.whole) + 1 /\ Last(op.path) = "instance")
  <1>1. /\ MemberOp(d).origin = "native" /\ MemberOp(d).verb = "SET"
        /\ MemberOp(d).line = d.line /\ MemberOp(d).path = d.whole \o d.member
    BY DEF MemberOp, Set, Op
  <1>2. /\ d.whole \in Seq(Segment) /\ d.member \in Seq(Segment) /\ d.whole # <<>>
        /\ CreateFamily(d.whole) =>
              /\ Len(d.member) >= 1
              /\ Len(d.member) = 1 => Last(d.member) # "instance"
    BY ParsedShape DEF Path
  <1>3. /\ d.whole \o d.member \in Seq(Segment)
        /\ d.whole \o d.member # <<>>
        /\ Len(d.whole \o d.member) = Len(d.whole) + Len(d.member)
        /\ (d.whole \o d.member)[1] = d.whole[1]
        /\ IsPrefix(d.whole, d.whole \o d.member)
        /\ Len(d.member) >= 1 => Last(d.whole \o d.member) = Last(d.member)
    BY <1>2, ConcatShape
  <1>4. Len(d.whole) \in Nat /\ Len(d.member) \in Nat
    BY <1>2, LenProperties
  <1>5. ASSUME CreateFamily(d.whole)
        PROVE  /\ Len(d.whole \o d.member) > Len(d.whole)
               /\ ~(/\ Len(d.whole \o d.member) = Len(d.whole) + 1
                    /\ Last(d.whole \o d.member) = "instance")
    <2>1. Len(d.member) >= 1 /\ (Len(d.member) = 1 => Last(d.member) # "instance")
      BY <1>2, <1>5
    <2>2. Len(d.whole \o d.member) = Len(d.whole) + Len(d.member)
      BY <1>3
    <2>3. Last(d.whole \o d.member) = Last(d.member)
      BY <1>3, <2>1
    <2> DEFINE path == d.whole \o d.member
               long == Len(path)
               w    == Len(d.whole)
               m    == Len(d.member)
    <2>4. w \in Nat /\ m \in Nat /\ m >= 1 /\ long = w + m
      BY <1>4, <2>1, <2>2
    <2>5. m = 1 => Last(path) # "instance"
      BY <2>1, <2>3
    <2> HIDE DEF long, w, m
    <2>6. long > w /\ ~(long = w + 1 /\ Last(path) = "instance")
      <3> HIDE DEF path
      <3> QED  BY <2>4, <2>5
    <2> QED  BY <2>6 DEF long, w, m
  <1> QED  BY <1>1, <1>3, <1>5 DEF Path

LEMMA CreateShape ==
    ASSUME TypeOK, NEW d \in parsed
    PROVE  LET op == CreateOp(d) IN
           /\ op.origin = "native" /\ op.verb = "SET"
           /\ op.path \in Path /\ Len(op.path) = Len(d.whole) + 1
           /\ Len(op.path) >= 2
           /\ Front(op.path) = d.whole /\ Last(op.path) = "instance"
           /\ op.path[1] = d.whole[1]
  <1>1. /\ CreateOp(d).origin = "native" /\ CreateOp(d).verb = "SET"
        /\ CreateOp(d).path = Append(d.whole, "instance")
    BY DEF CreateOp, Set, Op
  <1>2. d.whole \in Seq(Segment) /\ d.whole # <<>> /\ Len(d.whole) >= 1
    BY ParsedShape DEF Path
  <1>3. Len(d.whole) \in Nat
    BY <1>2, LenProperties
  <1>4. /\ Append(d.whole, "instance") \in Seq(Segment)
        /\ Len(Append(d.whole, "instance")) = Len(d.whole) + 1
        /\ Front(Append(d.whole, "instance")) = d.whole
        /\ Last(Append(d.whole, "instance")) = "instance"
        /\ Append(d.whole, "instance")[1] = d.whole[1]
    <2>1. "instance" \in Segment
      BY DEF Segment
    <2> QED  BY <1>2, <2>1, AppendShape
  <1> QED  BY <1>1, <1>2, <1>3, <1>4 DEF Path

(* The seven predicates on CREATE operations are one: the family decides   *)
(* the length.                                                             *)
LEMMA WholeCreates ==
    ASSUME NEW op
    PROVE  is_native_whole_object_create_op(op) <=>
              /\ Native(op) /\ op.verb = "SET" /\ op.path[1] \in CreateFamilies
              /\ Len(op.path) = WholeLength(op.path[1]) + 1
              /\ Last(op.path) = "instance"
  <1> DEFINE marked(length) == Len(op.path) = length /\ Last(op.path) = "instance"
             h == op.path[1]
  <1>1. is_native_whole_object_create_op(op) <=>
          /\ Native(op) /\ op.verb = "SET"
          /\ \/ h = "bgp_instances" /\ marked(4)
             \/ h = "ospf_instances" /\ marked(4)
             \/ h = "eigrp_instances" /\ marked(4)
             \/ h = "isis_instances" /\ marked(3)
             \/ h = "vrfs" /\ marked(3)
             \/ h \in PolicyFields /\ marked(3)
             \/ h \in Sections /\ marked(2)
    BY DEF is_native_whole_object_create_op, is_native_bgp_instance_create_op,
           is_native_ospf_instance_create_op, is_native_eigrp_instance_create_op,
           is_native_isis_instance_create_op, is_native_vrf_instance_create_op,
           is_native_policy_instance_create_op,
           is_native_singleton_instance_create_op, Created
  <1>2. /\ h \in {"bgp_instances", "ospf_instances", "eigrp_instances"} =>
              WholeLength(h) + 1 = 4
        /\ h \in PolicyFields \union {"isis_instances", "vrfs"} =>
              WholeLength(h) + 1 = 3
        /\ h \in Sections => WholeLength(h) + 1 = 2
    BY DEF WholeLength, Sections, PolicyFields
  <1> HIDE DEF h, marked
  <1>3. is_native_whole_object_create_op(op) <=>
          /\ Native(op) /\ op.verb = "SET" /\ h \in CreateFamilies
          /\ marked(WholeLength(h) + 1)
    BY <1>1, <1>2 DEF CreateFamilies
  <1> QED  BY <1>3 DEF h, marked

(* A native operation is taken for the creation of an object when it is    *)
(* the CREATE of one, never when it sets a member or removes.              *)
LEMMA CreatesRecognised ==
    ASSUME TypeOK, NEW op \in native_change_ops
    PROVE  is_native_whole_object_create_op(op) <=>
              \E d \in parsed : HasCreate(d) /\ op = CreateOp(d)
  <1>1. ASSUME NEW d \in parsed, HasCreate(d), op = CreateOp(d)
        PROVE  is_native_whole_object_create_op(op)
    BY <1>1, CreateShape, ParsedShape, WholeCreates
       DEF HasCreate, CreateFamily, Native
  <1>2. ASSUME op \in pending
        PROVE  ~is_native_whole_object_create_op(op)
    BY <1>2, PendingShape, WholeCreates
  <1>3. ASSUME NEW d \in parsed, op = MemberOp(d)
        PROVE  ~is_native_whole_object_create_op(op)
    <2> SUFFICES ASSUME is_native_whole_object_create_op(op)  PROVE FALSE
      OBVIOUS
    <2>1. op.path[1] = d.whole[1]
      BY <1>3, MemberShape
    <2>2. CreateFamily(d.whole) /\ Len(op.path) = Len(d.whole) + 1
          /\ Last(op.path) = "instance"
      BY <2>1, WholeCreates, ParsedShape DEF CreateFamily
    <2> QED  BY <1>3, <2>2, MemberShape
  <1> QED  BY <1>1, <1>2, <1>3, NativeOps

(* A native SET lies in a family of definitions, below a whole object if   *)
(* the family has CREATE operations; every other native operation was      *)
(* queued by a walk.                                                       *)
LEMMA NativeShape ==
    ASSUME TypeOK, NEW op \in native_change_ops
    PROVE  /\ HasNatives /\ op.origin = "native"
           /\ op.path \in Path /\ op.path # <<>>
           /\ op.verb # "SET" <=> op \in pending
           /\ op.verb = "SET" => op.path[1] \in Families
           /\ op.verb = "SET" /\ op.path[1] \in CreateFamilies =>
                 Len(op.path) > WholeLength(op.path[1])
           /\ op.path[1] \in CreateFamilies => op.verb = "SET"
  <1>1. HasNatives
    BY NativeOps DEF HasMember, HasCreate, Covered
  <1>2. CASE op \in pending
    <2>1. op.path # <<>>
      BY <1>2, PendingShape, EmptySeq
    <2>2. op.path[1] \notin CreateFamilies
      BY <1>2, PendingShape DEF Families, CreateFamilies, Sections, PolicyFields
    <2> QED  BY <1>1, <1>2, <2>1, <2>2, PendingShape
  <1>3. ASSUME NEW d \in parsed, op = MemberOp(d)
        PROVE  /\ op.origin = "native" /\ op.path \in Path /\ op.path # <<>>
               /\ op.verb = "SET" /\ op.path[1] \in Families
               /\ op.path[1] \in CreateFamilies =>
                     Len(op.path) > WholeLength(op.path[1])
    <2>1. op.path[1] = d.whole[1] /\ Len(d.whole) = WholeLength(d.whole[1])
      BY <1>3, MemberShape, ParsedShape
    <2>2. CreateFamily(d.whole) => Len(op.path) > Len(d.whole)
      BY <1>3, MemberShape
    <2> QED  BY <1>3, <2>1, <2>2, MemberShape, ParsedShape DEF CreateFamily
  <1>4. ASSUME NEW d \in parsed, op = CreateOp(d)
        PROVE  /\ op.origin = "native" /\ op.path \in Path /\ op.path # <<>>
               /\ op.verb = "SET" /\ op.path[1] \in Families
               /\ Len(op.path) > WholeLength(op.path[1])
    <2>1. op.path[1] = d.whole[1] /\ Len(d.whole) = WholeLength(d.whole[1])
      BY <1>4, CreateShape, ParsedShape
    <2>2. Len(op.path) = Len(d.whole) + 1 /\ d.whole \in Path /\ Len(op.path) >= 2
      BY <1>4, CreateShape, ParsedShape
    <2>3. Len(d.whole) \in Nat
      BY <2>2, LenProperties DEF Path
    <2>4. op.path # <<>>
      BY <2>2, EmptySeq
    <2>5. Len(op.path) > WholeLength(op.path[1])
      <3> DEFINE long == Len(op.path)
                 whole == Len(d.whole)
      <3>1. long = whole + 1 /\ whole \in Nat /\ WholeLength(op.path[1]) = whole
        BY <2>1, <2>2, <2>3
      <3> HIDE DEF long, whole
      <3>2. long > WholeLength(op.path[1])
        BY <3>1
      <3> QED  BY <3>2 DEF long
    <2>6. op.origin = "native" /\ op.verb = "SET" /\ op.path \in Path
      BY <1>4, CreateShape
    <2> QED  BY <2>1, <2>4, <2>5, <2>6, ParsedShape
  <1> QED  BY <1>1, <1>2, <1>3, <1>4, NativeOps, PendingShape

(* No operation inside an object that has a CREATE claims the object.      *)
LEMMA NeverGeneric ==
    ASSUME TypeOK, NEW op \in native_change_ops, op.path[1] \in CreateFamilies
    PROVE  ~ClaimsGenerically(op)
  <1> DEFINE h == op.path[1]
  <1>1. /\ Native(op) /\ op.verb = "SET" /\ Len(op.path) > WholeLength(h)
        /\ op.path \in Path /\ op.path # <<>>
    BY NativeShape DEF Native
  <1>2. \A x : IsPrefix(<<x>>, op.path) <=> h = x
    BY <1>1, PrefixOne DEF Path
  <1>3. Len(op.path) \in Nat
    BY <1>1, LenProperties DEF Path
  <1>4. CASE h = "bgp_instances"
    <2>1. Len(op.path) >= 4
      BY <1>1, <1>3, <1>4 DEF WholeLength, Sections
    <2> QED  BY <1>1, <1>2, <1>4, <2>1 DEF ClaimsGenerically, is_native_bgp_op, Under
  <1>5. CASE h \in {"isis_instances", "eigrp_instances", "ospf_instances", "vrfs"}
    <2>1. Len(op.path) >= 3
      BY <1>1, <1>3, <1>5 DEF WholeLength, Sections
    <2> QED  BY <1>1, <1>2, <1>5, <2>1
             DEF ClaimsGenerically, is_native_isis_op, is_native_eigrp_op,
                 is_native_ospf_op, is_native_vrf_op, IsProcessOp, Under
  <1>6. CASE h \in Sections
    <2>1. Len(op.path) >= 2
      BY <1>1, <1>3, <1>6 DEF WholeLength, Sections
    <2> QED  BY <1>1, <1>6, <2>1 DEF ClaimsGenerically, is_native_singleton_section_op
  <1>7. CASE h \in PolicyFields
    <2>1. Len(op.path) >= 3
      BY <1>1, <1>3, <1>7 DEF WholeLength, Sections, PolicyFields
    <2> QED  BY <1>1, <1>7, <2>1 DEF ClaimsGenerically, is_native_policy_op
  <1> QED  BY <1>4, <1>5, <1>6, <1>7 DEF CreateFamilies

(* The derived SET of a whole object of such a family is dropped exactly   *)
(* when the object has a CREATE.                                           *)
LEMMA WholeClaimed ==
    ASSUME TypeOK, NEW d \in parsed, CreateFamily(d.whole)
    PROVE  Claimed(d.whole, native_change_ops) <=> HasCreate(d)
  <1>1. ASSUME HasCreate(d)
        PROVE  Claimed(d.whole, native_change_ops)
    <2>1. CreateOp(d) \in native_change_ops
      BY <1>1, NativeOps
    <2>2. ClaimedByCreate(d.whole, CreateOp(d))
      BY <1>1, <2>1, CreatesRecognised, CreateShape DEF ClaimedByCreate
    <2> QED  BY <2>1, <2>2 DEF Claimed
  <1>2. ASSUME NEW op \in native_change_ops, d.whole = op.path
        PROVE  FALSE
    <2>1. op.path[1] \in CreateFamilies /\ Len(op.path) = WholeLength(op.path[1])
      BY <1>2, ParsedShape DEF CreateFamily
    <2>2. Len(op.path) > WholeLength(op.path[1])
      BY <2>1, NativeShape
    <2>3. Len(op.path) \in Nat
      BY NativeShape, LenProperties DEF Path
    <2> QED  BY <2>1, <2>2, <2>3
  <1>3. ASSUME NEW op \in native_change_ops, IsStrictPrefix(d.whole, op.path)
        PROVE  ~ClaimsGenerically(op)
    <2>1. op.path[1] = d.whole[1]
      BY <1>3, ParsedShape, NativeShape, PrefixBegins DEF IsStrictPrefix, Path
    <2> QED  BY <2>1, NeverGeneric DEF CreateFamily
  <1>4. ASSUME NEW op \in native_change_ops, ClaimedByCreate(d.whole, op)
        PROVE  HasCreate(d)
    <2>1. PICK e \in parsed : HasCreate(e) /\ op = CreateOp(e)
      BY <1>4, CreatesRecognised DEF ClaimedByCreate
    <2>2. e.whole = d.whole
      BY <1>4, <2>1, CreateShape DEF ClaimedByCreate
    <2> QED  BY <2>1, <2>2 DEF HasCreate
  <1> QED  BY <1>1, <1>2, <1>3, <1>4 DEF Claimed

(* No native operation claims the deletion a string stands for.            *)
LEMMA StringUnclaimed ==
    ASSUME TypeOK, NEW path \in no_commands
    PROVE  ~Claimed(path, native_change_ops)
  <1>1. path \in Path /\ path # <<>> /\ path[1] \notin Families
    BY StringShape
  <1>2. ASSUME NEW op \in native_change_ops
        PROVE  ~IsPrefix(path, op.path)
    <2>1. CASE op \in pending
      BY <2>1, PendingShape
    <2>2. CASE op.verb = "SET"
      BY <1>1, <2>2, NativeShape, PrefixBegins DEF Path
    <2> QED  BY <2>1, <2>2, NativeShape
  <1>3. ASSUME NEW op \in native_change_ops, path = op.path
        PROVE  FALSE
    BY <1>1, <1>2, <1>3, PrefixSelf DEF Path
  <1>4. ASSUME NEW op \in native_change_ops, ClaimedByCreate(path, op)
        PROVE  FALSE
    <2>1. PICK e \in parsed : HasCreate(e) /\ op = CreateOp(e)
      BY <1>4, CreatesRecognised DEF ClaimedByCreate
    <2>2. path = e.whole
      BY <1>4, <2>1, CreateShape DEF ClaimedByCreate
    <2> QED  BY <1>1, <2>2, ParsedShape
  <1> QED  BY <1>2, <1>3, <1>4 DEF Claimed, IsStrictPrefix

(* The ChangeSet: the native operations, the deletions of the strings, and *)
(* the whole objects no native operation claims.                           *)
LEMMA ChangeSetOps ==
    ASSUME TypeOK, NEW op
    PROVE  op \in change_set <=>
             \/ op \in native_change_ops
             \/ \E path \in no_commands : op = Op("DELETE", path, "derived", 0)
             \/ \E d \in parsed : /\ op = Set(d.whole, "derived", 0)
                                  /\ ~Claimed(d.whole, native_change_ops)
  <1>1. \A path : Op("DELETE", path, "derived", 0).path = path
    BY DEF Op
  <1>2. \A d \in parsed : Set(d.whole, "derived", 0).path = d.whole
    BY DEF Op, Set
  <1> QED  BY <1>1, <1>2, StringUnclaimed
           DEF change_set, derived_ops, DerivedSets, DerivedDeletions

-----------------------------------------------------------------------------
(* The inductive invariant: the state comes from the constants, and no     *)
(* path is queued for removal twice.                                       *)

QueuedOnce ==
    \A a, b \in pending : a.path = b.path => a = b

IInv == TypeOK /\ QueuedOnce

LEMMA InitIInv == Init => IInv
  BY MaxLinesAssumption, SystemsAssumption DEF Init, IInv, TypeOK, QueuedOnce

LEMMA StepIInv == IInv /\ [Next]_vars => IInv'
  <1> SUFFICES ASSUME IInv, [Next]_vars  PROVE IInv'
    OBVIOUS
  <1>1. TypeOK /\ QueuedOnce
    BY DEF IInv
  <1>2. ASSUME NextLine
        PROVE  /\ os' = os /\ line' \in 1..MaxLines /\ line \in Nat
               /\ 1..line \subseteq 1..line' /\ line' \in 1..line'
    BY <1>1, <1>2, MaxLinesAssumption DEF NextLine, TypeOK
  <1>3. ASSUME NEW def \in Definitions, Define(def)
        PROVE  IInv'
    <2>1. NextLine /\ pending' = pending /\ no_commands' = no_commands
      BY <1>3 DEF Define
    <2>2. \A d \in parsed' : \E e \in Definitions, n \in 1..line' :
              d = [whole |-> e.whole, member |-> e.member, line |-> n]
      BY <1>1, <1>2, <1>3, <2>1 DEF Define, TypeOK
    <2> QED  BY <1>1, <1>2, <2>1, <2>2 DEF IInv, TypeOK, QueuedOnce
  <1>4. ASSUME NEW removal \in NativeRemovals \union SharedRemovals,
               RemoveNatively(removal)
        PROVE  IInv'
    <2> DEFINE new == Op(removal.verb, removal.path, "native", line')
    <2>1. /\ NextLine /\ pending' = pending \union {new}
          /\ parsed' = parsed /\ no_commands' = no_commands
          /\ os # "junos" /\ (os = "ios_xr" => removal \in SharedRemovals)
          /\ \A op \in pending : op.path # removal.path
      BY <1>4 DEF RemoveNatively
    <2>2. \A op \in pending' :
              \E r \in NativeRemovals \union SharedRemovals, n \in 1..line' :
                 /\ op = Op(r.verb, r.path, "native", n)
                 /\ os' = "ios_xr" => r \in SharedRemovals
      BY <1>1, <1>2, <2>1 DEF TypeOK
    <2>3. TypeOK'
      BY <1>1, <1>2, <2>1, <2>2 DEF TypeOK
    <2>4. new.path = removal.path
      BY DEF Op
    <2>5. QueuedOnce'
      <3> HIDE DEF new
      <3> QED  BY <1>1, <2>1, <2>4 DEF QueuedOnce
    <2> QED  BY <2>3, <2>5 DEF IInv
  <1>5. ASSUME NEW path \in LegacyStrings \union XrStrings, RemoveByString(path)
        PROVE  IInv'
    <2>1. /\ NextLine /\ pending' = pending /\ parsed' = parsed
          /\ no_commands' = no_commands \union {path}
          /\ os # "junos"
          /\ path \in LegacyStrings \/ (os = "ios_xr" /\ path \in XrStrings)
      BY <1>5 DEF RemoveByString
    <2> QED  BY <1>1, <1>2, <2>1 DEF IInv, TypeOK, QueuedOnce
  <1>6. CASE UNCHANGED vars
    BY <1>1, <1>6 DEF IInv, TypeOK, QueuedOnce, vars
  <1> QED  BY <1>3, <1>4, <1>5, <1>6 DEF Next

LEMMA Invariance == Spec => []IInv
  BY InitIInv, StepIInv, PTL DEF Spec

(* Every state of the parser is made of what its vocabulary allows: no     *)
(* IOS-XR parser queues a removal of the walks it replaces, and a JunOS    *)
(* parser queues none and leaves no string.                                *)
THEOREM TypeCorrect == Spec => []TypeOK
  <1>1. IInv => TypeOK
    BY DEF IInv
  <1> QED  BY <1>1, Invariance, PTL

-----------------------------------------------------------------------------
(* The ChangeSet.                                                          *)

(* The operation that stands for an object is its CREATE when it has one   *)
(* and the derived SET when it has none.                                   *)
LEMMA ObjectOp ==
    ASSUME TypeOK, NEW d \in parsed, CreateFamily(d.whole)
    PROVE  WholeSets(d.whole) \union CreateOps(d.whole) =
              {IF HasCreate(d) THEN CreateOp(d) ELSE Set(d.whole, "derived", 0)}
  <1> DEFINE derived == Set(d.whole, "derived", 0)
  <1>1. derived.verb = "SET" /\ derived.origin = "derived" /\ derived.path = d.whole
    BY DEF Set, Op
  <1>2. \A path : Op("DELETE", path, "derived", 0).verb # "SET"
    BY DEF Op
  <1>3. ASSUME NEW op
        PROVE  op \in WholeSets(d.whole) <=> op = derived /\ ~HasCreate(d)
    <2>1. op \in WholeSets(d.whole) => op = derived /\ ~HasCreate(d)
      <3> SUFFICES ASSUME op \in WholeSets(d.whole)
                   PROVE  op = derived /\ ~HasCreate(d)
        OBVIOUS
      <3>1. op \in change_set /\ op.verb = "SET" /\ op.origin = "derived"
            /\ op.path = d.whole
        BY DEF WholeSets
      <3>2. op \notin native_change_ops
        BY <3>1, NativeShape
      <3>3. PICK e \in parsed : /\ op = Set(e.whole, "derived", 0)
                                /\ ~Claimed(e.whole, native_change_ops)
        BY <1>2, <3>1, <3>2, ChangeSetOps
      <3>4. e.whole = d.whole
        BY <3>1, <3>3 DEF Set, Op
      <3> QED  BY <3>3, <3>4, WholeClaimed
    <2>2. ASSUME op = derived, ~HasCreate(d)
          PROVE  op \in WholeSets(d.whole)
      BY <1>1, <2>2, ChangeSetOps, WholeClaimed DEF WholeSets
    <2> QED  BY <2>1, <2>2
  <1>4. ASSUME NEW op
        PROVE  op \in CreateOps(d.whole) <=> op = CreateOp(d) /\ HasCreate(d)
    <2>1. ASSUME op \in CreateOps(d.whole)
          PROVE  op = CreateOp(d) /\ HasCreate(d)
      <3>1. /\ op \in change_set /\ is_native_whole_object_create_op(op)
            /\ Front(op.path) = d.whole
        BY <2>1 DEF CreateOps
      <3>2. op.origin = "native"
        BY <3>1, WholeCreates DEF Native
      <3>3. op \in native_change_ops
        BY <3>1, <3>2, ChangeSetOps DEF Set, Op
      <3>4. PICK e \in parsed : HasCreate(e) /\ op = CreateOp(e)
        BY <3>1, <3>3, CreatesRecognised
      <3>5. e.whole = d.whole
        BY <3>1, <3>4, CreateShape
      <3> QED  BY <3>4, <3>5 DEF CreateOp, HasCreate
    <2>2. ASSUME op = CreateOp(d), HasCreate(d)
          PROVE  op \in CreateOps(d.whole)
      <3>1. op \in native_change_ops
        BY <2>2, NativeOps
      <3>2. is_native_whole_object_create_op(op)
        BY <2>2, <3>1, CreatesRecognised
      <3>3. Front(op.path) = d.whole
        BY <2>2, CreateShape
      <3> QED  BY <3>1, <3>2, <3>3, ChangeSetOps DEF CreateOps
    <2> QED  BY <2>1, <2>2
  <1> HIDE DEF derived
  <1>5. CASE HasCreate(d)
    BY <1>3, <1>4, <1>5
  <1>6. CASE ~HasCreate(d)
    <2>1. WholeSets(d.whole) \union CreateOps(d.whole) = {derived}
      BY <1>3, <1>4, <1>6
    <2> QED  BY <1>6, <2>1 DEF derived
  <1> QED  BY <1>5, <1>6

(* Exactly one operation of the ChangeSet creates an object of a family    *)
(* with CREATE operations, on every operating system and whatever else the *)
(* script defines and removes.                                             *)
THEOREM ObjectsCorrect == Spec => []ObjectsCreatedOnce
  <1>1. IInv => ObjectsCreatedOnce
    <2> SUFFICES ASSUME IInv, NEW d \in parsed, CreateFamily(d.whole)
                 PROVE  Cardinality(WholeSets(d.whole) \union CreateOps(d.whole)) = 1
      BY DEF ObjectsCreatedOnce
    <2>1. TypeOK
      BY DEF IInv
    <2> QED  BY <2>1, ObjectOp, FS_Singleton
  <1> QED  BY <1>1, Invariance, PTL

(* Only an operation of its own family, native on this system, claims a    *)
(* whole object.                                                           *)
LEMMA ClaimedIsCovered ==
    ASSUME TypeOK, NEW d \in parsed, Claimed(d.whole, native_change_ops)
    PROVE  HasMember(d)
  <1>1. HasNatives
    BY NativeShape DEF Claimed
  <1>2. CASE d.whole[1] \in Sections \union PolicyFields
    <2>1. CreateFamily(d.whole)
      BY <1>2 DEF CreateFamily, CreateFamilies
    <2> QED  BY <2>1, WholeClaimed DEF HasCreate, HasMember
  <1>3. CASE d.whole[1] \notin Sections \union PolicyFields
    BY <1>1, <1>3 DEF HasMember, Covered
  <1> QED  BY <1>2, <1>3

(* A whole object leaves the ChangeSet only when each of its members is in *)
(* it.                                                                     *)
THEOREM IntentCorrect == Spec => []IntentSurvives
  <1>1. IInv => IntentSurvives
    <2> SUFFICES ASSUME IInv, NEW d \in parsed
                 PROVE  \/ WholeSets(d.whole) # {}
                        \/ \E op \in change_set :
                              /\ Native(op) /\ op.verb = "SET"
                              /\ op.path = d.whole \o d.member
      BY DEF IntentSurvives
    <2>1. TypeOK
      BY DEF IInv
    <2>2. CASE Claimed(d.whole, native_change_ops)
      <3>1. MemberOp(d) \in change_set
        BY <2>1, <2>2, ClaimedIsCovered, NativeOps, ChangeSetOps
      <3> QED  BY <2>1, <3>1, MemberShape DEF Native
    <2>3. CASE ~Claimed(d.whole, native_change_ops)
      <3>1. Set(d.whole, "derived", 0) \in change_set
        BY <2>1, <2>3, ChangeSetOps
      <3>2. Set(d.whole, "derived", 0) \in WholeSets(d.whole)
        BY <3>1 DEF WholeSets, Set, Op
      <3> QED  BY <3>2
    <2> QED  BY <2>2, <2>3
  <1> QED  BY <1>1, Invariance, PTL

DeleteOp(path) == Op("DELETE", path, "derived", 0)

(* The deletions of the ChangeSet are the queued removals and one          *)
(* operation per string.                                                   *)
LEMMA DeletionOps ==
    ASSUME TypeOK, NEW op
    PROVE  op \in change_set /\ op.verb # "SET" <=>
             op \in pending \/ \E path \in no_commands : op = DeleteOp(path)
  <1>1. ASSUME op \in pending
        PROVE  op \in native_change_ops /\ op.verb # "SET"
    <2>1. HasNatives
      BY <1>1 DEF TypeOK, HasNatives
    <2> QED  BY <1>1, <2>1, NativeOps, PendingShape
  <1>2. \A path : DeleteOp(path).verb # "SET"
    BY DEF DeleteOp, Op
  <1>3. \A d \in parsed : Set(d.whole, "derived", 0).verb = "SET"
    BY DEF Set, Op
  <1> QED  BY <1>1, <1>2, <1>3, NativeShape, ChangeSetOps DEF DeleteOp

(* What a string stands for was not queued as well.                        *)
LEMMA NotBoth ==
    ASSUME TypeOK, NEW path \in no_commands, NEW op \in pending
    PROVE  op.path # path
  BY PendingShape, PrefixSelf DEF Path

(* Every negation is exactly one deletion of the ChangeSet.                *)
THEOREM DeletionsCorrect == Spec => []DeletionsCarriedOnce
  <1>1. IInv => DeletionsCarriedOnce
    <2> SUFFICES ASSUME IInv,
                        NEW path \in no_commands \union {op.path : op \in pending}
                 PROVE  Cardinality({op \in change_set :
                                        op.verb # "SET" /\ op.path = path}) = 1
      BY DEF DeletionsCarriedOnce
    <2> DEFINE deletions == {op \in change_set : op.verb # "SET" /\ op.path = path}
    <2>1. TypeOK /\ QueuedOnce
      BY DEF IInv
    <2>2. \A other : DeleteOp(other).path = other
      BY DEF DeleteOp, Op
    <2>3. \A op : op \in deletions <=>
              /\ op.path = path
              /\ op \in pending \/ \E other \in no_commands : op = DeleteOp(other)
      BY <2>1, DeletionOps
    <2> HIDE DEF deletions
    <2>4. CASE path \in no_commands
      <3>1. deletions = {DeleteOp(path)}
        BY <2>1, <2>2, <2>3, <2>4, NotBoth
      <3> QED  BY <3>1, FS_Singleton DEF deletions
    <2>5. CASE path \notin no_commands
      <3>1. PICK op \in pending : op.path = path
        BY <2>5
      <3>2. deletions = {op}
        BY <2>1, <2>2, <2>3, <2>5, <3>1 DEF QueuedOnce
      <3> QED  BY <3>2, FS_Singleton DEF deletions
    <2> QED  BY <2>4, <2>5
  <1> QED  BY <1>1, Invariance, PTL

-----------------------------------------------------------------------------
(* The shim.                                                               *)

shimmed ==
    _shim_reconstitute_whole_objects(
        _shim_suppress_readded_service_deletes(change_set))

(* The definition the shim finds to have been made again is a later line   *)
(* of the script for the same entity.                                      *)
LEMMA ReaddedByLine ==
    ASSUME TypeOK, NEW o \in pending
    PROVE  ReaddedLater(change_set, o) <=>
             \E d \in parsed :
                /\ is_native_service_entity_op(o)
                /\ d.whole \o d.member = Tail(o.path)
                /\ d.line > o.line
  <1>1. o.verb # "SET" /\ o.path \in Path /\ HasNatives
    BY PendingShape DEF TypeOK, HasNatives
  <1>2. ASSUME NEW op \in change_set, is_native_service_entity_op(op), op.verb = "SET"
        PROVE  \E d \in parsed : op = MemberOp(d)
    <2>1. op.origin = "native" /\ op.path[1] \in ServiceFields
      BY <1>2 DEF is_native_service_entity_op, Native
    <2>2. op \in native_change_ops
      BY <2>1, ChangeSetOps DEF Set, Op
    <2>3. \A d \in parsed : HasCreate(d) => op # CreateOp(d)
      BY <2>1, CreateShape DEF HasCreate, CreateFamily, CreateFamilies,
                               Sections, PolicyFields, ServiceFields
    <2> QED  BY <1>2, <2>2, <2>3, NativeOps, PendingShape
  <1>3. ASSUME NEW d \in parsed, is_native_service_entity_op(o),
               d.whole \o d.member = Tail(o.path)
        PROVE  MemberOp(d) \in change_set /\ is_native_service_entity_op(MemberOp(d))
    <2>1. Len(o.path) = 3 /\ o.path[2] \in ServiceFields
      BY <1>1, <1>3 DEF is_native_service_entity_op
    <2>2. o.path # <<>>
      BY <2>1, EmptySeq
    <2>3. Len(Tail(o.path)) = 2 /\ Tail(o.path)[1] = o.path[2]
      BY <1>1, <2>1, <2>2, HeadTailProperties DEF Path
    <2>4. /\ MemberOp(d).path = Tail(o.path) /\ MemberOp(d).verb = "SET"
          /\ MemberOp(d).origin = "native" /\ MemberOp(d).path[1] = d.whole[1]
      BY <1>3, MemberShape
    <2>5. d.whole[1] \in ServiceFields /\ d.whole[1] \notin Sections \union PolicyFields
      BY <2>1, <2>3, <2>4 DEF ServiceFields, Sections, PolicyFields
    <2>6. MemberOp(d) \in native_change_ops
      BY <1>1, <2>5, NativeOps DEF HasMember, Covered
    <2> QED  BY <2>1, <2>3, <2>4, <2>6, ChangeSetOps
             DEF is_native_service_entity_op, Native
  <1>4. \A d \in parsed : /\ MemberOp(d).path = d.whole \o d.member
                          /\ MemberOp(d).line = d.line /\ MemberOp(d).verb = "SET"
    BY MemberShape
  <1> QED  BY <1>1, <1>2, <1>3, <1>4, ZenonT(60) DEF ReaddedLater

(* The removals the shim gives no string for are those of the commands     *)
(* that never left one.                                                    *)
LEMMA OpsOnlyByName ==
    ASSUME TypeOK, NEW o \in pending
    PROVE  OpsOnly(o) <=> NeverHadString(o.path)
  <1>1. NeverHadString(o.path) <=> ListEntry(o.path) \/ FamilyField(o.path)
    <2>1. InsideFamily(o.path) <=> EntryOfFamily(o.path) \/ FamilyField(o.path)
      <3>1. Len(o.path) \in Nat
        BY PendingShape, LenProperties DEF Path
      <3>2. Len(o.path) \in 9..10 <=> Len(o.path) = 9 \/ Len(o.path) = 10
        BY <3>1
      <3>3. Len(o.path) = 9 => Len(o.path) # 10
        BY <3>1
      <3> QED  BY <3>2, <3>3, Zenon DEF InsideFamily, EntryOfFamily, FamilyField
    <2> QED  BY <2>1 DEF NeverHadString, ListEntry, EntryOfProcess, RangeOfArea,
                         NetworkProcesses
  <1> QED  BY <1>1, PendingShape DEF OpsOnly, Native

(* The shim leaves a deletion alone unless its entity was defined again.   *)
LEMMA ShimmedDeletion ==
    ASSUME NEW op, op.verb # "SET"
    PROVE  op \in shimmed <=> op \in change_set /\ ~ReaddedLater(change_set, op)
  <1>1. \A path, origin, number : Set(path, origin, number).verb = "SET"
    BY DEF Set, Op
  <1> QED  BY <1>1 DEF shimmed, _shim_reconstitute_whole_objects,
                       _shim_suppress_readded_service_deletes

(* The deletion strings of the shim are those a parser that emitted        *)
(* nothing natively would have left, in the same containers.               *)
THEOREM ShimDeletionsCorrect == Spec => []ShimDeletions
  <1>1. IInv => ShimDeletions
    <2> SUFFICES ASSUME TypeOK
                 PROVE  encode_legacy_shim.deletions = LegacyDeletions
      BY DEF IInv, ShimDeletions
    <2>1. encode_legacy_shim.deletions =
             {Placed(op.path) : op \in {o \in shimmed : o.verb # "SET" /\ ~OpsOnly(o)}}
      BY DEF encode_legacy_shim, encode_legacy, shimmed
    <2>2. ASSUME NEW path \in no_commands
          PROVE  /\ DeleteOp(path) \in shimmed /\ DeleteOp(path).verb # "SET"
                 /\ ~OpsOnly(DeleteOp(path)) /\ DeleteOp(path).path = path
      <3>1. /\ DeleteOp(path).verb # "SET" /\ DeleteOp(path).path = path
            /\ DeleteOp(path).origin = "derived"
        BY DEF DeleteOp, Op
      <3>2. ~OpsOnly(DeleteOp(path)) /\ ~ReaddedLater(change_set, DeleteOp(path))
        BY <3>1 DEF OpsOnly, ReaddedLater, is_native_service_entity_op, Native
      <3>3. DeleteOp(path) \in change_set
        BY DeletionOps
      <3> QED  BY <3>1, <3>2, <3>3, ShimmedDeletion
    <2> DEFINE kept(o) ==
            /\ ~NeverHadString(o.path)
            /\ ~\E d \in parsed :
                  /\ is_native_service_entity_op(o)
                  /\ d.whole \o d.member = Tail(o.path)
                  /\ d.line > o.line
    <2>3. ASSUME NEW o \in pending
          PROVE  (o \in shimmed /\ o.verb # "SET" /\ ~OpsOnly(o)) <=> kept(o)
      BY DeletionOps, ShimmedDeletion, ReaddedByLine, OpsOnlyByName
    <2>4. LegacyDeletions = {Placed(path) : path \in no_commands}
                            \union {Placed(op.path) : op \in {o \in pending : kept(o)}}
      BY DEF LegacyDeletions
    <2>5. ASSUME NEW o \in shimmed, o.verb # "SET"
          PROVE  o \in pending \/ \E path \in no_commands : o = DeleteOp(path)
      BY <2>5, DeletionOps, ShimmedDeletion
    <2> HIDE DEF kept
    <2> QED  BY <2>1, <2>2, <2>3, <2>4, <2>5
  <1> QED  BY <1>1, Invariance, PTL

(* Two containers of one family are as long, so one is inside the other    *)
(* only when they are the same.                                            *)
LEMMA WholesApart ==
    ASSUME TypeOK, NEW d \in parsed, NEW e \in parsed, IsPrefix(d.whole, e.whole)
    PROVE  d.whole = e.whole
  <1>1. d.whole[1] = e.whole[1]
    BY ParsedShape, PrefixBegins DEF Path
  <1>2. Len(d.whole) = Len(e.whole)
    BY <1>1, ParsedShape
  <1> QED  BY <1>2, ParsedShape, PrefixWhole DEF Path

(* The SETs of the shim: the containers of the CREATE operations, and the  *)
(* SETs none of them subsumes.                                             *)
LEMMA ShimmedSets ==
    ASSUME TypeOK, NEW path
    PROVE  path \in encode_legacy_shim.set_fields <=>
             \/ \E d \in parsed : HasCreate(d) /\ path = d.whole
             \/ \E op \in change_set :
                   /\ op.verb = "SET" /\ path = op.path
                   /\ ~\E d \in parsed : HasCreate(d) /\ IsStrictPrefix(d.whole, path)
  <1> DEFINE ops == _shim_suppress_readded_service_deletes(change_set)
  <1>1. \A op : op.verb = "SET" => (op \in ops <=> op \in change_set)
    BY DEF _shim_suppress_readded_service_deletes, ReaddedLater
  <1>2. ASSUME NEW op
        PROVE  op \in ops /\ is_native_whole_object_create_op(op) <=>
                 \E d \in parsed : HasCreate(d) /\ op = CreateOp(d)
    <2>1. ASSUME op \in ops, is_native_whole_object_create_op(op)
          PROVE  \E d \in parsed : HasCreate(d) /\ op = CreateOp(d)
      <3>1. op \in change_set /\ op.origin = "native"
        BY <1>1, <2>1, WholeCreates DEF Native
      <3>2. op \in native_change_ops
        BY <3>1, ChangeSetOps DEF Set, Op
      <3> QED  BY <2>1, <3>2, CreatesRecognised
    <2>2. ASSUME NEW d \in parsed, HasCreate(d), op = CreateOp(d)
          PROVE  op \in ops /\ is_native_whole_object_create_op(op)
      <3>1. op \in native_change_ops /\ op.verb = "SET"
        BY <2>2, NativeOps, CreateShape
      <3> QED  BY <1>1, <2>2, <3>1, CreatesRecognised, ChangeSetOps
    <2> QED  BY <2>1, <2>2
  <1> HIDE DEF ops
  <1>3. encode_legacy_shim.set_fields =
          {op.path : op \in {o \in _shim_reconstitute_whole_objects(ops) :
                               o.verb = "SET"}}
    BY DEF encode_legacy_shim, encode_legacy, ops
  <1>4. ASSUME NEW op
        PROVE  Subsumed(ops, op) <=>
                 \E d \in parsed : HasCreate(d) /\ IsStrictPrefix(d.whole, op.path)
    BY <1>2, CreateShape DEF Subsumed
  <1>5. ASSUME NEW op
        PROVE  op \in _shim_reconstitute_whole_objects(ops) /\ op.verb = "SET" <=>
                 \/ \E c \in ops : /\ is_native_whole_object_create_op(c)
                                   /\ op = Set(Front(c.path), c.origin, c.line)
                 \/ op \in ops /\ op.verb = "SET" /\ ~Subsumed(ops, op)
    <2>1. \A p, origin, number : Set(p, origin, number).verb = "SET"
      BY DEF Set, Op
    <2> QED  BY <2>1 DEF _shim_reconstitute_whole_objects
  <1>6. \A p, origin, number : Set(p, origin, number).path = p
    BY DEF Set, Op
  <1>7. (\E c \in ops : /\ is_native_whole_object_create_op(c)
                        /\ path = Front(c.path))
        <=> \E d \in parsed : HasCreate(d) /\ path = d.whole
    BY <1>2, CreateShape
  <1>8. path \in encode_legacy_shim.set_fields <=>
          \/ \E c \in ops : /\ is_native_whole_object_create_op(c)
                            /\ path = Front(c.path)
          \/ \E op \in ops : op.verb = "SET" /\ ~Subsumed(ops, op) /\ path = op.path
    BY <1>3, <1>5, <1>6
  <1> QED  BY <1>1, <1>4, <1>7, <1>8

(* A SET at or inside an object without a CREATE is the derived one, when  *)
(* the reason is not a gate on the instance.                               *)
LEMMA UncoveredSets ==
    ASSUME TypeOK, NEW d \in parsed, CreateFamily(d.whole), ~Gated(d.whole),
           ~HasCreate(d), NEW op \in change_set, op.verb = "SET",
           IsPrefix(d.whole, op.path)
    PROVE  op.path = d.whole
  <1>1. ~Covered(d.whole)
    BY DEF HasCreate
  <1>2. ASSUME NEW e \in parsed, Covered(e.whole)
        PROVE  e.whole[1] # d.whole[1]
    BY <1>1, <1>2 DEF Covered
  <1>3. op \notin native_change_ops
    <2> SUFFICES ASSUME op \in native_change_ops  PROVE FALSE
      OBVIOUS
    <2>1. op.path[1] = d.whole[1]
      BY NativeShape, ParsedShape, PrefixBegins DEF Path
    <2>2. ASSUME NEW e \in parsed, HasMember(e), op = MemberOp(e)  PROVE FALSE
      BY <1>2, <2>1, <2>2, MemberShape DEF HasMember
    <2>3. ASSUME NEW e \in parsed, HasCreate(e), op = CreateOp(e)  PROVE FALSE
      BY <1>2, <2>1, <2>3, CreateShape DEF HasCreate
    <2> QED  BY <2>2, <2>3, NativeOps, PendingShape
  <1>4. PICK e \in parsed : op = Set(e.whole, "derived", 0)
    BY <1>3, ChangeSetOps DEF Op
  <1>5. op.path = e.whole
    BY <1>4 DEF Set, Op
  <1> QED  BY <1>5, WholesApart

(* Every object of a family with CREATE operations whose instance is not   *)
(* gated is whole again in the output of the shim, and nothing inside it   *)
(* is left beside it.                                                      *)
THEOREM ShimWholeCorrect == Spec => []ShimWholeObjects
  <1>1. IInv => ShimWholeObjects
    <2> SUFFICES ASSUME TypeOK, NEW d \in parsed, CreateFamily(d.whole),
                        ~Gated(d.whole)
                 PROVE  WholeAgain(d.whole)
      BY DEF IInv, ShimWholeObjects
    <2>1. \A e \in parsed : ~IsStrictPrefix(e.whole, d.whole)
      BY WholesApart DEF IsStrictPrefix
    <2>2. IsPrefix(d.whole, d.whole)
      BY ParsedShape, PrefixSelf DEF Path
    <2>3. d.whole \in encode_legacy_shim.set_fields
      <3>1. CASE HasCreate(d)
        BY <3>1, ShimmedSets
      <3>2. CASE ~HasCreate(d)
        <4> DEFINE op == Set(d.whole, "derived", 0)
        <4>1. op \in change_set
          BY <3>2, WholeClaimed, ChangeSetOps
        <4>2. op.verb = "SET" /\ op.path = d.whole
          BY DEF Set, Op
        <4> HIDE DEF op
        <4> QED  BY <2>1, <4>1, <4>2, ShimmedSets
      <3> QED  BY <3>1, <3>2
    <2>4. ASSUME NEW path \in encode_legacy_shim.set_fields, IsPrefix(d.whole, path)
          PROVE  path = d.whole
      <3>1. CASE \E e \in parsed : HasCreate(e) /\ path = e.whole
        BY <2>4, <3>1, WholesApart
      <3>2. ASSUME NEW op \in change_set, op.verb = "SET", path = op.path,
                   ~\E e \in parsed : HasCreate(e) /\ IsStrictPrefix(e.whole, path)
            PROVE  path = d.whole
        <4>1. CASE HasCreate(d)
          BY <2>4, <3>2, <4>1 DEF IsStrictPrefix
        <4>2. CASE ~HasCreate(d)
          BY <2>4, <3>2, <4>2, UncoveredSets
        <4> QED  BY <4>1, <4>2
      <3> QED  BY <3>1, <3>2, ShimmedSets
    <2> QED  BY <2>2, <2>3, <2>4 DEF WholeAgain
  <1> QED  BY <1>1, Invariance, PTL
=============================================================================
