--------------------------- MODULE ParsingProofs ---------------------------
(***************************************************************************)
(* Proofs about parse() and about one of the walks it runs.                *)
(*                                                                         *)
(* ParsePipeline: for texts and documents of any size and any number of    *)
(* steps, the back-fills overwrite and invent nothing, what is returned is *)
(* complete, every negation nobody consumed is disclosed and no consumed   *)
(* one is.  The invariant says of every moment which lines have been read: *)
(* those of the steps passed, none of which failed.  The disclosure        *)
(* properties need it at the moment of the collection, where all steps     *)
(* have been passed and the claim set is therefore the set of the lines    *)
(* consumed.                                                               *)
(*                                                                         *)
(* TrunkVlan: for every set of VLANs, every list of a withdrawn port and   *)
(* stanzas of every length.  The replay of an operation set is awkward to  *)
(* reason about directly, so two lemmas say how it changes when the newest *)
(* operation is added: an operation newer than all others decides every    *)
(* VLAN it speaks of, and one that speaks of every VLAN hides the baseline *)
(* and the rest.  The inductive invariant splits on whether the fold is    *)
(* anchored: while it is not, the replay is the device's list; while it    *)
(* is, that list is the folded one unless a `no switchport` came after the *)
(* anchor.                                                                 *)
(***************************************************************************)
EXTENDS ParsePipeline, TrunkVlan, WellFoundedInduction, TLAPS

-----------------------------------------------------------------------------
(***************************************************************************)
(* The back-fill walks.  FillInit establishes FillInv and each walk        *)
(* preserves it, for every document.  ParsedValueWins and NothingInvented  *)
(* are inductive once the types are known; that the walk over the          *)
(* processes is a fold with the first word winning is not, and FirstWord   *)
(* states it of the turns taken so far.                                    *)
(***************************************************************************)

(* Every non-empty set of natural numbers has a least element.             *)
LEMMA LeastElement ==
  ASSUME NEW S \in SUBSET Nat, S # {}
  PROVE  \E n \in S : \A m \in S : n <= m
<1> DEFINE Less == {ss \in Nat \X Nat : ss[1] < ss[2]}
<1>1. IsWellFoundedOn(Less, Nat)
  BY NatLessThanWellFounded DEF OpToRel
<1> HIDE DEF Less
<1>2. PICK n \in S : \A m \in S : ~(<<m, n>> \in Less)
  BY <1>1, WFMin
<1>3. \A m \in S : ~(m < n)
  BY <1>2 DEF Less
<1> QED BY <1>3

LEMMA FirstOfIs ==
  ASSUME NEW S \in SUBSET Nat, NEW n \in S, \A m \in S : n <= m
  PROVE  FirstOf(S) = n
<1>1. \A k \in S : (\A m \in S : k <= m) => k = n
  OBVIOUS
<1> QED BY <1>1 DEF FirstOf

-----------------------------------------------------------------------------
(* The walks so far, for the passivity of interface i: the word of the     *)
(* process on turn n and the flag of its areas.                            *)
Word(n, i) == Passivity(document.ospf[n], i)
Flag(n, i) == Setting(document.ospf[n], i, "ospf_passive")

FirstWord ==
  \A i \in Ifaces :
    \/ /\ document.ifaces[i].ospf_passive # None
       /\ ifaces[i].ospf_passive = document.ifaces[i].ospf_passive
    \/ /\ document.ifaces[i].ospf_passive = None
       /\ \E n \in 1..passive_at :
            /\ Word(n, i) # None /\ ifaces[i].ospf_passive = Word(n, i)
            /\ \A m \in 1..n-1 : Word(m, i) = None
    \/ /\ document.ifaces[i].ospf_passive = None
       /\ \A n \in 1..passive_at : Word(n, i) = None
       /\ \/ /\ ifaces[i].ospf_passive = None
             /\ \A n \in 1..area_at : ~Says(Flag(n, i))
          \/ \E n \in 1..area_at :
               /\ Says(Flag(n, i)) /\ ifaces[i].ospf_passive = Flag(n, i)
               /\ \A m \in 1..n-1 : ~Says(Flag(m, i))

(* The walks run one after the other.                                      *)
InTurn == area_at > 0 => passive_at = Len(document.ospf)

FillInv ==
  /\ document \in Document
  /\ FillTypeOK
  /\ InTurn
  /\ ParsedValueWins
  /\ NothingInvented
  /\ FirstWord

-----------------------------------------------------------------------------
LEMMA FieldNames ==
  /\ IfaceFields = {"ospf_passive", "ospf_priority", "ospf_mtu_ignore", "ospf_process_id"}
  /\ VrfFields = {"rd", "route_target_import"}
BY DEF IfaceFields, ModelDefault, VrfFields, VrfDefault

LEMMA DocumentShape ==
  ASSUME document \in Document
  PROVE  /\ document.ifaces \in [Ifaces -> [IfaceFields -> Values]]
         /\ document.vrfs \in [Vrfs -> [VrfFields -> Values]]
         /\ Len(document.ospf) \in Nat /\ Len(document.bgp) \in Nat
         /\ \A n \in 1..Len(document.ospf) : document.ospf[n] \in Process
         /\ \A n \in 1..Len(document.bgp) : document.bgp[n] \in Instance
BY DEF Document

(* What a process says is a value.                                         *)
LEMMA SettingType ==
  ASSUME NEW p \in Process, NEW i \in Ifaces, NEW f \in IfaceFields
  PROVE  Setting(p, i, f) \in Values
<1>1. CASE Speaking(p, i, f) = {}
  BY <1>1 DEF Setting, Values
<1>2. CASE Speaking(p, i, f) # {}
  <2>1. p.areas \in Seq(Area)
    BY DEF Process
  <2>2. Speaking(p, i, f) \in SUBSET Nat
    BY <2>1 DEF Speaking
  <2>3. PICK a \in Speaking(p, i, f) : \A b \in Speaking(p, i, f) : a <= b
    BY <1>2, <2>2, LeastElement
  <2> DEFINE least == CHOOSE c \in Speaking(p, i, f) : \A b \in Speaking(p, i, f) : c <= b
  <2>4. least \in Speaking(p, i, f)
    BY <2>3
  <2> HIDE DEF least
  <2>5. p.areas[least] \in Area
    BY <2>1, <2>4 DEF Speaking
  <2>6. p.areas[least].settings[i][f] \in Values
    BY <2>5 DEF Area
  <2> QED BY <1>2, <2>6 DEF Setting, least
<1> QED BY <1>1, <1>2

LEMMA PassivityType ==
  ASSUME NEW p, NEW i
  PROVE  Passivity(p, i) \in {None, False, True}
BY DEF Passivity

LEMMA DefaultsAreValues == {None, False, True} \subseteq Values
BY DEF Values

-----------------------------------------------------------------------------
LEMMA FillInitInv ==
  ASSUME document \in Document, FillInit
  PROVE  FillInv
<1>1. FillTypeOK
  BY DocumentShape DEF FillInit, FillTypeOK
<1>2. ParsedValueWins /\ NothingInvented /\ InTurn
  BY DEF FillInit, ParsedValueWins, NothingInvented, InTurn
<1>3. FirstWord
  BY DEF FillInit, FirstWord
<1> QED BY <1>1, <1>2, <1>3 DEF FillInv

(* A turn over a process: only the tri-state changes, and only from None.  *)
LEMMA PassiveStep ==
  ASSUME FillInv, PassiveProcess
  PROVE  FillInv'
<1> DEFINE n == passive_at + 1
           p == document.ospf[n]
<1>1. /\ document' = document /\ vrfs' = vrfs
      /\ area_at' = area_at /\ instance_at' = instance_at /\ passive_at' = n
      /\ n \in 1..Len(document.ospf) /\ area_at = 0
  BY DocumentShape DEF PassiveProcess, FillInv, FillTypeOK, InTurn
<1>2. \A i \in Ifaces : ifaces[i] \in [IfaceFields -> Values]
  BY DEF FillInv, FillTypeOK
<1>3. ifaces' = [i \in Ifaces |-> [ifaces[i] EXCEPT !.ospf_passive = Stamped(p, ifaces[i], i)]]
  BY <1>1 DEF PassiveProcess
<1>4. \A i \in Ifaces : ifaces'[i].ospf_passive = Stamped(p, ifaces[i], i)
  BY <1>2, <1>3, FieldNames
<1>5. \A i \in Ifaces, f \in IfaceFields : f # "ospf_passive" => ifaces'[i][f] = ifaces[i][f]
  BY <1>2, <1>3
<1>6. \A i \in Ifaces : Stamped(p, ifaces[i], i) =
                          IF ifaces[i].ospf_passive = None THEN Word(n, i) ELSE ifaces[i].ospf_passive
  BY DEF Stamped, Word
<1>7. FillTypeOK'
  <2>1. \A i \in Ifaces : Stamped(p, ifaces[i], i) \in Values
    BY <1>2, <1>6, FieldNames, PassivityType, DefaultsAreValues DEF Word
  <2>2. ifaces' \in [Ifaces -> [IfaceFields -> Values]]
    BY <1>2, <1>3, <2>1
  <2> QED BY <1>1, <2>2, DocumentShape DEF FillInv, FillTypeOK
<1>8. ParsedValueWins'
  <2>1. \A i \in Ifaces, f \in IfaceFields :
          document.ifaces[i][f] # ModelDefault[f] => ifaces'[i][f] = document.ifaces[i][f]
    <3> SUFFICES ASSUME NEW i \in Ifaces, NEW f \in IfaceFields,
                        document.ifaces[i][f] # ModelDefault[f]
                 PROVE  ifaces'[i][f] = document.ifaces[i][f]
      OBVIOUS
    <3>1. ifaces[i][f] = document.ifaces[i][f]
      BY DEF FillInv, ParsedValueWins
    <3>2. CASE f = "ospf_passive"
      BY <3>1, <3>2, <1>4, <1>6 DEF ModelDefault
    <3> QED BY <3>1, <3>2, <1>5
  <2> QED BY <1>1, <2>1 DEF FillInv, ParsedValueWins
<1>9. NothingInvented'
  <2>1. \A i \in Ifaces, f \in IfaceFields : ifaces'[i][f] # document.ifaces[i][f] =>
          \E m \in 1..Len(document.ospf) :
            \/ ifaces'[i][f] = Setting(document.ospf[m], i, f)
            \/ f = "ospf_passive" /\ ifaces'[i][f] = Passivity(document.ospf[m], i)
    <3> SUFFICES ASSUME NEW i \in Ifaces, NEW f \in IfaceFields,
                        ifaces'[i][f] # document.ifaces[i][f]
                 PROVE  \E m \in 1..Len(document.ospf) :
                          \/ ifaces'[i][f] = Setting(document.ospf[m], i, f)
                          \/ f = "ospf_passive" /\ ifaces'[i][f] = Passivity(document.ospf[m], i)
      OBVIOUS
    <3>1. CASE ifaces'[i][f] = ifaces[i][f]
      BY <3>1 DEF FillInv, NothingInvented
    <3>2. CASE ifaces'[i][f] # ifaces[i][f]
      <4>1. f = "ospf_passive" /\ ifaces'[i][f] = Passivity(p, i)
        BY <3>2, <1>4, <1>5, <1>6 DEF Word
      <4> QED BY <4>1, <1>1
    <3> QED BY <3>1, <3>2
  <2>2. \A v \in Vrfs, f \in VrfFields : vrfs[v][f] # document.vrfs[v][f] =>
          \E m \in 1..Len(document.bgp) :
            document.bgp[m].vrf = v /\ vrfs[v][f] = document.bgp[m].said[f]
    BY DEF FillInv, NothingInvented
  <2>3. \A q, i : Passivity(q, i)' = Passivity(q, i)
    BY <1>1 DEF Passivity, Member
  <2> HIDE DEF n, p
  <2> QED BY <1>1, <2>1, <2>2, <2>3 DEF NothingInvented
<1>10. FirstWord'
  <2> SUFFICES ASSUME NEW i \in Ifaces
               PROVE  \/ /\ document.ifaces[i].ospf_passive # None
                         /\ ifaces'[i].ospf_passive = document.ifaces[i].ospf_passive
                      \/ /\ document.ifaces[i].ospf_passive = None
                         /\ \E k \in 1..n :
                              /\ Word(k, i) # None /\ ifaces'[i].ospf_passive = Word(k, i)
                              /\ \A m \in 1..k-1 : Word(m, i) = None
                      \/ /\ document.ifaces[i].ospf_passive = None
                         /\ \A k \in 1..n : Word(k, i) = None
                         /\ ifaces'[i].ospf_passive = None
    <3>1. \A k, j : Word(k, j)' = Word(k, j)
      BY <1>1 DEF Word, Passivity, Member
    <3> QED BY <1>1, <3>1 DEF FirstWord
  <2>1. passive_at \in Nat
    BY DEF FillInv, FillTypeOK
  <2>2. CASE document.ifaces[i].ospf_passive # None
    BY <2>2, <1>4, <1>6 DEF FillInv, FirstWord
  <2>3. CASE /\ document.ifaces[i].ospf_passive = None
             /\ \E k \in 1..passive_at :
                  /\ Word(k, i) # None /\ ifaces[i].ospf_passive = Word(k, i)
                  /\ \A m \in 1..k-1 : Word(m, i) = None
    <3>1. 1..passive_at \subseteq 1..n
      BY <2>1
    <3> QED BY <2>3, <3>1, <1>4, <1>6
  <2>4. CASE /\ document.ifaces[i].ospf_passive = None
             /\ \A k \in 1..passive_at : Word(k, i) = None
             /\ ifaces[i].ospf_passive = None
    <3>1. ifaces'[i].ospf_passive = Word(n, i)
      BY <2>4, <1>4, <1>6
    <3>2. 1..n-1 = 1..passive_at /\ n \in 1..n /\ 1..n = (1..passive_at) \cup {n}
      BY <2>1
    <3> QED BY <2>4, <3>1, <3>2
  <2>5. 1..area_at = {}
    BY <1>1
  <2> QED BY <2>2, <2>3, <2>4, <2>5 DEF FillInv, FirstWord
<1> QED BY <1>1, <1>7, <1>8, <1>9, <1>10 DEF FillInv, InTurn

(* A turn over the areas of a process: a field changes only from its       *)
(* default, to what the process says of it.                                *)
LEMMA SettingsStep ==
  ASSUME FillInv, SettingsOfProcess
  PROVE  FillInv'
<1> DEFINE n == area_at + 1
           p == document.ospf[n]
<1>1. /\ document' = document /\ vrfs' = vrfs /\ passive_at' = passive_at
      /\ instance_at' = instance_at /\ area_at' = n
      /\ passive_at = Len(document.ospf) /\ area_at \in Nat
      /\ n \in 1..Len(document.ospf) /\ p \in Process
  BY DocumentShape DEF SettingsOfProcess, FillInv, FillTypeOK
<1>2. \A i \in Ifaces : ifaces[i] \in [IfaceFields -> Values]
  BY DEF FillInv, FillTypeOK
<1>3. ifaces' = [i \in Ifaces |-> [f \in IfaceFields |-> Filled(p, ifaces[i], i, f)]]
  BY <1>1 DEF SettingsOfProcess
<1>4. \A i \in Ifaces, f \in IfaceFields :
        ifaces'[i][f] = IF Says(Setting(p, i, f)) /\ ifaces[i][f] = ModelDefault[f]
                        THEN Setting(p, i, f) ELSE ifaces[i][f]
  BY <1>3 DEF Filled, _is_model_default
<1> HIDE DEF n, p
<1>5. FillTypeOK'
  <2>1. \A i \in Ifaces, f \in IfaceFields : Filled(p, ifaces[i], i, f) \in Values
    BY <1>1, <1>2, SettingType DEF Filled
  <2>2. ifaces' \in [Ifaces -> [IfaceFields -> Values]]
    BY <1>3, <2>1
  <2> QED BY <1>1, <2>2, DocumentShape DEF FillInv, FillTypeOK, n
<1>6. ParsedValueWins'
  <2>1. \A i \in Ifaces, f \in IfaceFields :
          document.ifaces[i][f] # ModelDefault[f] => ifaces'[i][f] = document.ifaces[i][f]
    BY <1>4 DEF FillInv, ParsedValueWins
  <2> QED BY <1>1, <2>1 DEF FillInv, ParsedValueWins
<1>7. NothingInvented'
  <2>1. \A i \in Ifaces, f \in IfaceFields : ifaces'[i][f] # document.ifaces[i][f] =>
          \E m \in 1..Len(document.ospf) :
            \/ ifaces'[i][f] = Setting(document.ospf[m], i, f)
            \/ f = "ospf_passive" /\ ifaces'[i][f] = Passivity(document.ospf[m], i)
    <3> SUFFICES ASSUME NEW i \in Ifaces, NEW f \in IfaceFields,
                        ifaces'[i][f] # document.ifaces[i][f]
                 PROVE  \E m \in 1..Len(document.ospf) :
                          \/ ifaces'[i][f] = Setting(document.ospf[m], i, f)
                          \/ f = "ospf_passive" /\ ifaces'[i][f] = Passivity(document.ospf[m], i)
      OBVIOUS
    <3>1. CASE ifaces'[i][f] = ifaces[i][f]
      BY <3>1 DEF FillInv, NothingInvented
    <3>2. CASE ifaces'[i][f] = Setting(p, i, f)
      BY <3>2, <1>1 DEF p
    <3> QED BY <3>1, <3>2, <1>4
  <2>2. \A v \in Vrfs, f \in VrfFields : vrfs[v][f] # document.vrfs[v][f] =>
          \E m \in 1..Len(document.bgp) :
            document.bgp[m].vrf = v /\ vrfs[v][f] = document.bgp[m].said[f]
    BY DEF FillInv, NothingInvented
  <2>3. \A q, i : Passivity(q, i)' = Passivity(q, i)
    BY <1>1 DEF Passivity, Member
  <2> QED BY <1>1, <2>1, <2>2, <2>3 DEF NothingInvented
<1>8. FirstWord'
  <2>1. \A k, i : Word(k, i)' = Word(k, i) /\ Flag(k, i)' = Flag(k, i)
    BY <1>1 DEF Word, Flag, Passivity, Member
  <2>2. \A i \in Ifaces :
          ifaces'[i].ospf_passive = IF Says(Flag(n, i)) /\ ifaces[i].ospf_passive = None
                                    THEN Flag(n, i) ELSE ifaces[i].ospf_passive
    BY <1>4, FieldNames DEF Flag, ModelDefault, p
  <2>3. /\ 1..n = (1..area_at) \cup {n} /\ 1..n-1 = 1..area_at
    BY <1>1 DEF n
  <2> SUFFICES ASSUME NEW i \in Ifaces
               PROVE  \/ /\ document.ifaces[i].ospf_passive # None
                         /\ ifaces'[i].ospf_passive = document.ifaces[i].ospf_passive
                      \/ /\ document.ifaces[i].ospf_passive = None
                         /\ \E k \in 1..passive_at :
                              /\ Word(k, i) # None /\ ifaces'[i].ospf_passive = Word(k, i)
                              /\ \A m \in 1..k-1 : Word(m, i) = None
                      \/ /\ document.ifaces[i].ospf_passive = None
                         /\ \A k \in 1..passive_at : Word(k, i) = None
                         /\ \/ /\ ifaces'[i].ospf_passive = None
                               /\ \A k \in 1..n : ~Says(Flag(k, i))
                            \/ \E k \in 1..n :
                                 /\ Says(Flag(k, i)) /\ ifaces'[i].ospf_passive = Flag(k, i)
                                 /\ \A m \in 1..k-1 : ~Says(Flag(m, i))
    BY <1>1, <2>1 DEF FirstWord
  <2>4. CASE /\ document.ifaces[i].ospf_passive # None
             /\ ifaces[i].ospf_passive = document.ifaces[i].ospf_passive
    BY <2>2, <2>4
  <2>5. CASE /\ document.ifaces[i].ospf_passive = None
             /\ \E k \in 1..passive_at :
                  /\ Word(k, i) # None /\ ifaces[i].ospf_passive = Word(k, i)
                  /\ \A m \in 1..k-1 : Word(m, i) = None
    BY <2>2, <2>5
  <2>6. CASE /\ document.ifaces[i].ospf_passive = None
             /\ \A k \in 1..passive_at : Word(k, i) = None
             /\ ifaces[i].ospf_passive = None
             /\ \A k \in 1..area_at : ~Says(Flag(k, i))
    BY <2>2, <2>3, <2>6
  <2>7. CASE /\ document.ifaces[i].ospf_passive = None
             /\ \A k \in 1..passive_at : Word(k, i) = None
             /\ \E k \in 1..area_at :
                  /\ Says(Flag(k, i)) /\ ifaces[i].ospf_passive = Flag(k, i)
                  /\ \A m \in 1..k-1 : ~Says(Flag(m, i))
    <3>1. ifaces[i].ospf_passive # None
      BY <2>7 DEF Says
    <3> QED BY <2>2, <2>3, <2>7, <3>1
  <2> QED BY <2>4, <2>5, <2>6, <2>7 DEF FillInv, FirstWord
<1> QED BY <1>1, <1>5, <1>6, <1>7, <1>8 DEF FillInv, InTurn

(* A turn over a BGP instance: a VRF's blank answers only.                 *)
LEMMA VrfStep ==
  ASSUME FillInv, VrfOfInstance
  PROVE  FillInv'
<1> DEFINE n == instance_at + 1
           b == document.bgp[n]
<1>1. /\ document' = document /\ ifaces' = ifaces /\ passive_at' = passive_at
      /\ area_at' = area_at /\ instance_at' = n
      /\ n \in 1..Len(document.bgp) /\ b \in Instance
  BY DocumentShape DEF VrfOfInstance, FillInv, FillTypeOK
<1>2. \A v \in Vrfs : vrfs[v] \in [VrfFields -> Values]
  BY DEF FillInv, FillTypeOK
<1>3. vrfs' = [v \in Vrfs |-> IF b.vrf = v
                 THEN [f \in VrfFields |-> Identity(b, vrfs[v][f], f)] ELSE vrfs[v]]
  BY <1>1 DEF VrfOfInstance
<1> HIDE DEF n, b
<1>4. \A v \in Vrfs, f \in VrfFields :
        \/ vrfs'[v][f] = vrfs[v][f]
        \/ b.vrf = v /\ Empty(vrfs[v][f]) /\ vrfs'[v][f] = b.said[f]
  BY <1>3 DEF Identity
<1>5. FillTypeOK'
  <2>1. \A v \in Vrfs, f \in VrfFields : Identity(b, vrfs[v][f], f) \in Values
    BY <1>1, <1>2 DEF Identity, Instance
  <2>2. vrfs' \in [Vrfs -> [VrfFields -> Values]]
    BY <1>2, <1>3, <2>1
  <2> QED BY <1>1, <2>2, DocumentShape DEF FillInv, FillTypeOK, n
<1>6. ParsedValueWins'
  BY <1>1, <1>4 DEF FillInv, ParsedValueWins
<1>7. NothingInvented'
  <2>1. \A i \in Ifaces, f \in IfaceFields : ifaces[i][f] # document.ifaces[i][f] =>
          \E m \in 1..Len(document.ospf) :
            \/ ifaces[i][f] = Setting(document.ospf[m], i, f)
            \/ f = "ospf_passive" /\ ifaces[i][f] = Passivity(document.ospf[m], i)
    BY DEF FillInv, NothingInvented
  <2>2. \A v \in Vrfs, f \in VrfFields : vrfs'[v][f] # document.vrfs[v][f] =>
          \E m \in 1..Len(document.bgp) :
            document.bgp[m].vrf = v /\ vrfs'[v][f] = document.bgp[m].said[f]
    BY <1>1, <1>4 DEF FillInv, NothingInvented, b
  <2>3. \A q, i : Passivity(q, i)' = Passivity(q, i)
    BY <1>1 DEF Passivity, Member
  <2> QED BY <1>1, <2>1, <2>2, <2>3 DEF NothingInvented
<1>8. FirstWord'
  BY <1>1 DEF FillInv, FirstWord, Word, Flag, Passivity, Member
<1> QED BY <1>1, <1>5, <1>6, <1>7, <1>8 DEF FillInv, InTurn

LEMMA FillNextInv ==
  ASSUME FillInv, [FillNext]_fillVars
  PROVE  FillInv'
<1>1. CASE UNCHANGED fillVars
  BY <1>1 DEF fillVars, FillInv, FillTypeOK, InTurn, ParsedValueWins, NothingInvented,
              FirstWord, Word, Flag, Passivity, Member
<1> QED BY <1>1, PassiveStep, SettingsStep, VrfStep DEF FillNext

(* At the end of the walks FirstWord speaks of all processes: the word     *)
(* that won is the first one there is.                                     *)
LEMMA FirstWordWins ==
  ASSUME FillInv
  PROVE  PassivityIsTheFirstWord
<1> SUFFICES ASSUME FillDone, NEW i \in Ifaces
             PROVE  LET stamps == {n \in 1..Len(document.ospf) : Word(n, i) # None}
                        flags == {n \in 1..Len(document.ospf) : Says(Flag(n, i))}
                    IN  ifaces[i].ospf_passive =
                          IF document.ifaces[i].ospf_passive # None THEN document.ifaces[i].ospf_passive
                          ELSE IF stamps # {} THEN Word(FirstOf(stamps), i)
                          ELSE IF flags # {} THEN Flag(FirstOf(flags), i)
                          ELSE None
  BY DEF PassivityIsTheFirstWord, Word, Flag
<1> DEFINE stamps == {n \in 1..Len(document.ospf) : Word(n, i) # None}
           flags == {n \in 1..Len(document.ospf) : Says(Flag(n, i))}
<1>1. passive_at = Len(document.ospf) /\ area_at = Len(document.ospf) /\ Len(document.ospf) \in Nat
  BY DocumentShape DEF FillDone, FillInv
<1>2. stamps \in SUBSET Nat /\ flags \in SUBSET Nat
  BY <1>1
<1>3. \A n \in stamps : (\A m \in 1..n-1 : Word(m, i) = None) => FirstOf(stamps) = n
  <2> SUFFICES ASSUME NEW n \in stamps, \A m \in 1..n-1 : Word(m, i) = None
               PROVE  FirstOf(stamps) = n
    OBVIOUS
  <2>1. \A m \in stamps : n <= m
    BY <1>1
  <2> HIDE DEF stamps
  <2> QED BY <1>2, <2>1, FirstOfIs
<1>4. \A n \in flags : (\A m \in 1..n-1 : ~Says(Flag(m, i))) => FirstOf(flags) = n
  <2> SUFFICES ASSUME NEW n \in flags, \A m \in 1..n-1 : ~Says(Flag(m, i))
               PROVE  FirstOf(flags) = n
    OBVIOUS
  <2>1. \A m \in flags : n <= m
    BY <1>1
  <2> HIDE DEF flags
  <2> QED BY <1>2, <2>1, FirstOfIs
<1> QED BY <1>1, <1>3, <1>4 DEF FillInv, FirstWord

-----------------------------------------------------------------------------
(* parse(). *)

ReadBefore(s, by) == {n \in Numbers : lines[n].by = by /\ lines[n].step < s}

Collected == UnrecognizedBlocks \cup UnrecognizedChildLines \cup UndisclosedNegations

ParseInv ==
  /\ FillInv
  /\ lines \in Seq(Line) /\ (lines # <<>> => lines[1].depth = "top")
  /\ at \in 0..Steps + 1
  /\ outcome \in {"running", "attached", "returned", "ParseError"}
  /\ \A s \in 0..Steps : s < at => ~Fails(s)
  /\ ledger = ReadBefore(at, "ledger")
  /\ queues = ReadBefore(at, "queue")
  /\ outcome \in {"attached", "returned"} => at = Steps + 1 /\ FillDone
  /\ attached = IF outcome \in {"attached", "returned"}
                THEN queues \cup {n \in Numbers : lines[n].by = "derived"} ELSE {}
  /\ disclosed = IF outcome = "returned" THEN Collected ELSE {}

-----------------------------------------------------------------------------
LEMMA StepNumbers ==
  ASSUME lines \in Seq(Line)
  PROVE  \A n \in Numbers : lines[n].step \in 0..Steps
<1> SUFFICES ASSUME NEW n \in Numbers PROVE lines[n].step \in 0..Steps
  OBVIOUS
<1>1. lines[n] \in Line
  BY DEF Numbers
<1> QED BY <1>1 DEF Line

LEMMA InitParse == ASSUME Init PROVE ParseInv
<1>1. PICK input \in Inputs : lines = input[1] /\ document = input[2]
  BY DEF Init
<1>2. /\ lines \in Seq(Line) /\ document \in Document
      /\ lines # <<>> => lines[1].depth = "top"
  BY <1>1, InputsAssumption
<1>3. FillInv
  BY <1>2, FillInitInv DEF Init
<1>4. /\ at = 0 /\ outcome = "running"
      /\ ledger = {} /\ queues = {} /\ attached = {} /\ disclosed = {}
  BY DEF Init
<1>5. \A n \in Numbers : lines[n].step \in 0..Steps
  BY <1>2, StepNumbers
<1>6. ReadBefore(0, "ledger") = {} /\ ReadBefore(0, "queue") = {}
  BY <1>5, StepsAssumption DEF ReadBefore
<1> QED BY <1>2, <1>3, <1>4, <1>6, StepsAssumption DEF ParseInv

(* What is read of the text does not change while the text does not.       *)
LEMMA SameText ==
  ASSUME lines' = lines
  PROVE  /\ Numbers' = Numbers
         /\ \A s : Fails(s)' = Fails(s)
         /\ \A s, by : ReadBefore(s, by)' = ReadBefore(s, by)
BY DEF Numbers, Fails, ReadBefore

LEMMA SameFill ==
  ASSUME FillInv, UNCHANGED fillVars
  PROVE  FillInv'
BY FillNextInv

(* A step adds the lines it reads to those of the steps before it.         *)
LEMMA StepInv == ASSUME ParseInv, ParseStep PROVE ParseInv'
<1>1. /\ lines' = lines /\ outcome' = outcome /\ attached' = attached /\ disclosed' = disclosed
      /\ outcome = "running" /\ at <= Steps /\ ~Fails(at) /\ at' = at + 1 /\ UNCHANGED fillVars
  BY DEF ParseStep
<1>2. FillInv'
  BY <1>1, SameFill DEF ParseInv
<1>3. at \in 0..Steps /\ at' \in 0..Steps + 1
  BY <1>1, StepsAssumption DEF ParseInv
<1>4. \A n \in Numbers : lines[n].step \in 0..Steps
  BY StepNumbers DEF ParseInv
<1>5. \A by : ReadBefore(at, by) \cup ReadAt(at, by) = ReadBefore(at + 1, by)
  BY <1>3, <1>4 DEF ReadBefore, ReadAt
<1>6. ledger' = ReadBefore(at + 1, "ledger") /\ queues' = ReadBefore(at + 1, "queue")
  BY <1>5 DEF ParseStep, ParseInv
<1>7. \A s \in 0..Steps : s < at + 1 => ~Fails(s)
  BY <1>1, <1>3 DEF ParseInv
<1>8. attached' = {} /\ disclosed' = {}
  BY <1>1 DEF ParseInv
<1> QED BY <1>1, <1>2, <1>3, <1>6, <1>7, <1>8, SameText DEF ParseInv

LEMMA ErrorInv == ASSUME ParseInv, RaiseParseError PROVE ParseInv'
<1>1. /\ lines' = lines /\ at' = at /\ ledger' = ledger /\ queues' = queues
      /\ attached' = attached /\ disclosed' = disclosed /\ UNCHANGED fillVars
      /\ outcome = "running" /\ outcome' = "ParseError"
  BY DEF RaiseParseError
<1>2. FillInv'
  BY <1>1, SameFill DEF ParseInv
<1> QED BY <1>1, <1>2, SameText DEF ParseInv

LEMMA WalkInv == ASSUME ParseInv, Fill PROVE ParseInv'
<1>1. UNCHANGED parseVars /\ outcome = "running" /\ FillNext
  BY DEF Fill
<1>2. FillInv'
  BY <1>1, FillNextInv DEF ParseInv
<1> QED BY <1>1, <1>2, SameText DEF ParseInv, parseVars

LEMMA AttachInv == ASSUME ParseInv, AttachOps PROVE ParseInv'
<1>1. /\ lines' = lines /\ at' = at /\ ledger' = ledger /\ queues' = queues
      /\ disclosed' = disclosed /\ UNCHANGED fillVars
      /\ outcome = "running" /\ outcome' = "attached" /\ at > Steps /\ FillDone
      /\ attached' = queues \cup {n \in Numbers : lines[n].by = "derived"}
  BY DEF AttachOps
<1>2. FillInv' /\ FillDone'
  BY <1>1, SameFill DEF ParseInv, FillDone, fillVars
<1>3. at = Steps + 1
  BY <1>1, StepsAssumption DEF ParseInv
<1> QED BY <1>1, <1>2, <1>3, SameText DEF ParseInv

LEMMA CollectInv == ASSUME ParseInv, CollectUnrecognized PROVE ParseInv'
<1>1. /\ lines' = lines /\ at' = at /\ ledger' = ledger /\ queues' = queues
      /\ attached' = attached /\ UNCHANGED fillVars
      /\ outcome = "attached" /\ outcome' = "returned" /\ disclosed' = Collected
  BY DEF CollectUnrecognized, Collected
<1>2. FillInv' /\ FillDone'
  BY <1>1, SameFill DEF ParseInv, FillDone, fillVars
<1>3. Collected' = Collected
  BY <1>1 DEF Collected, UnrecognizedBlocks, UnrecognizedChildLines, UndisclosedNegations,
              _claimed_negation_line_set, Claimed, Header, Numbers
<1> QED BY <1>1, <1>2, <1>3, SameText DEF ParseInv

LEMMA StutterInv == ASSUME ParseInv, UNCHANGED vars PROVE ParseInv'
<1>1. /\ UNCHANGED parseVars /\ UNCHANGED fillVars
  BY DEF vars
<1>2. FillInv' /\ FillDone' = FillDone
  BY <1>1, SameFill DEF ParseInv, FillDone, fillVars
<1>3. Collected' = Collected
  BY <1>1 DEF Collected, UnrecognizedBlocks, UnrecognizedChildLines, UndisclosedNegations,
              _claimed_negation_line_set, Claimed, Header, Numbers, parseVars
<1> QED BY <1>1, <1>2, <1>3, SameText DEF ParseInv, parseVars

THEOREM ParseInvariant == Spec => []ParseInv
<1>1. Init => ParseInv
  BY InitParse
<1>2. ParseInv /\ [Next]_vars => ParseInv'
  BY StepInv, ErrorInv, WalkInv, AttachInv, CollectInv, StutterInv DEF Next
<1> QED BY <1>1, <1>2, PTL DEF Spec

-----------------------------------------------------------------------------
(* A set of line numbers has a last one.                                   *)
LEMMA LastElement ==
  ASSUME NEW k \in Nat, NEW S \in SUBSET (1..k), S # {}
  PROVE  \E h \in S : \A m \in S : m <= h
<1> DEFINE Below == {k - h : h \in S}
<1>1. Below \in SUBSET Nat /\ Below # {}
  <2>1. \A h \in S : h \in 1..k /\ k - h \in Nat
    OBVIOUS
  <2>2. PICK h \in S : TRUE
    OBVIOUS
  <2> QED BY <2>1, <2>2
<1>2. PICK n \in Below : \A m \in Below : n <= m
  <2> HIDE DEF Below
  <2> QED BY <1>1, LeastElement
<1>3. PICK h \in S : n = k - h
  BY <1>2
<1>4. \A m \in S : k - h <= k - m
  BY <1>2, <1>3
<1> QED BY <1>3, <1>4

(* A nested line stands under the last top line before it.                 *)
LEMMA HeaderIsTop ==
  ASSUME ParseInv, NEW n \in Numbers
  PROVE  Header(n) \in 1..n /\ lines[Header(n)].depth = "top" /\ Header(n) \in Numbers
<1> DEFINE tops == {h \in 1..n : lines[h].depth = "top"}
<1>1. Len(lines) \in Nat /\ n \in 1..Len(lines) /\ n \in Nat
  BY DEF ParseInv, Numbers
<1>2. 1 \in tops
  BY <1>1 DEF ParseInv
<1>3. PICK h \in tops : \A m \in tops : m <= h
  <2>1. tops \in SUBSET (1..n) /\ tops # {}
    BY <1>2
  <2> HIDE DEF tops
  <2> QED BY <1>1, <2>1, LastElement
<1>4. lines[h].depth = "top" /\ \A m \in h+1..n : lines[m].depth # "top"
  BY <1>1, <1>3
<1>5. Header(n) \in 1..n /\ lines[Header(n)].depth = "top"
  BY <1>1, <1>3, <1>4 DEF Header
<1> QED BY <1>1, <1>5 DEF Numbers

(* Nothing a walk consumed is outside the claim set once parse() is done,  *)
(* and nothing is inside it that no walk consumed.                         *)
LEMMA ClaimSet ==
  ASSUME ParseInv, outcome = "returned"
  PROVE  _claimed_negation_line_set =
           {n \in Numbers : lines[n].by \in {"queue", "ledger", "derived"}}
<1>1. at = Steps + 1
  BY DEF ParseInv
<1>2. \A n \in Numbers : lines[n].step \in 0..Steps
  BY StepNumbers DEF ParseInv
<1>3. \A n \in Numbers : lines[n].step < at
  BY <1>1, <1>2, StepsAssumption
<1> QED BY <1>3 DEF ParseInv, _claimed_negation_line_set, ReadBefore

LEMMA InvDiscloses == ASSUME ParseInv PROVE NoNegationVanishes
<1> SUFFICES ASSUME outcome = "returned", NEW n \in Numbers
             PROVE  /\ Claimed(n) /\ lines[n].no /\ ~Consumed(n) /\ ~lines[n].benign => n \in disclosed
                    /\ lines[n].depth # "top" /\ ~lines[Header(n)].known => Header(n) \in disclosed
  BY DEF NoNegationVanishes
<1>1. disclosed = Collected
  BY DEF ParseInv
<1>2. ASSUME Claimed(n), lines[n].no, ~Consumed(n), ~lines[n].benign
      PROVE  n \in disclosed
  <2>1. n \notin _claimed_negation_line_set
    BY <1>2, ClaimSet DEF Consumed
  <2> QED BY <1>1, <1>2, <2>1 DEF Collected, UndisclosedNegations
<1>3. ASSUME lines[n].depth # "top", ~lines[Header(n)].known
      PROVE  Header(n) \in disclosed
  BY <1>1, <1>3, HeaderIsTop DEF Collected, UnrecognizedBlocks
<1> QED BY <1>2, <1>3

LEMMA InvFlags == ASSUME ParseInv PROVE ConsumedIsNotFlagged
<1> SUFFICES ASSUME NEW n \in Numbers, Claimed(n), lines[n].no,
                    lines[n].by \in {"queue", "ledger", "derived"}, n \in disclosed
             PROVE  FALSE
  BY DEF ConsumedIsNotFlagged
<1>1. outcome = "returned" /\ disclosed = Collected
  BY DEF ParseInv
<1>2. n \in _claimed_negation_line_set
  BY <1>1, ClaimSet
<1> QED BY <1>1, <1>2 DEF Collected, UnrecognizedBlocks, UnrecognizedChildLines,
                          UndisclosedNegations, Claimed

-----------------------------------------------------------------------------
(* The state of parse() keeps its shape, the filled objects included.      *)
THEOREM TypeCorrect == Spec => []TypeOK
<1>1. ParseInv => TypeOK
  <2> SUFFICES ASSUME ParseInv PROVE TypeOK
    OBVIOUS
  <2>1. ledger \subseteq Numbers /\ queues \subseteq Numbers
    BY DEF ParseInv, ReadBefore
  <2>2. attached \subseteq Numbers /\ disclosed \subseteq Numbers
    BY <2>1 DEF ParseInv, Collected, UnrecognizedBlocks, UnrecognizedChildLines, UndisclosedNegations
  <2> QED BY <2>1, <2>2 DEF ParseInv, TypeOK, FillInv
<1> QED BY <1>1, ParseInvariant, PTL

(* What the blocks set themselves survives every walk, for any number of   *)
(* processes, areas, interfaces and instances.                             *)
THEOREM ParsedValueCorrect == Spec => []ParsedValueWins
<1>1. ParseInv => ParsedValueWins
  BY DEF ParseInv, FillInv
<1> QED BY <1>1, ParseInvariant, PTL

(* What a walk fills in is the word of some process about that object.     *)
THEOREM NothingInventedCorrect == Spec => []NothingInvented
<1>1. ParseInv => NothingInvented
  BY DEF ParseInv, FillInv
<1> QED BY <1>1, ParseInvariant, PTL

(* The passivity of an interface is the first word there is about it.      *)
THEOREM PassivityCorrect == Spec => []PassivityIsTheFirstWord
<1>1. ParseInv => PassivityIsTheFirstWord
  BY FirstWordWins DEF ParseInv
<1> QED BY <1>1, ParseInvariant, PTL

(* parse() returns all it was to read or nothing.                          *)
THEOREM CompleteCorrect == Spec => []CompleteOrNothing
<1>1. ParseInv => CompleteOrNothing
  <2> SUFFICES ASSUME ParseInv, outcome = "returned", NEW n \in Numbers,
                      lines[n].by \in {"value", "queue", "ledger"}
               PROVE  FillDone /\ ~lines[n].fails
    BY DEF CompleteOrNothing, ParseInv
  <2>1. at = Steps + 1 /\ FillDone
    BY DEF ParseInv
  <2>2. lines[n].step \in 0..Steps
    BY StepNumbers DEF ParseInv
  <2>3. ~Fails(lines[n].step)
    BY <2>1, <2>2, StepsAssumption DEF ParseInv
  <2> QED BY <2>1, <2>3 DEF Fails
<1> QED BY <1>1, ParseInvariant, PTL

(* No negation vanishes: consumed, benign or disclosed.                    *)
THEOREM DisclosureCorrect == Spec => []NoNegationVanishes
<1>1. ParseInv => NoNegationVanishes
  BY InvDiscloses
<1> QED BY <1>1, ParseInvariant, PTL

(* No consumed negation is disclosed.                                      *)
THEOREM NoFalseAlarm == Spec => []ConsumedIsNotFlagged
<1>1. ParseInv => ConsumedIsNotFlagged
  BY InvFlags
<1> QED BY <1>1, ParseInvariant, PTL

-----------------------------------------------------------------------------
(* The newest operation decides the VLANs it speaks of and leaves the rest *)
(* to the older ones: replay is a fold over the lines.                     *)
LEMMA ReplayNewest ==
    ASSUME NEW ops, NEW base, NEW new,
           \A op \in ops : op.line \in Int, new.line \in Int,
           \A op \in ops : op.line < new.line
    PROVE  Replay(ops \union {new}, base) =
              {v \in VlanIds : IF Decides(new, v) THEN Allows(new, v)
                                                  ELSE v \in Replay(ops, base)}
<1> DEFINE all == ops \union {new}
<1> SUFFICES ASSUME NEW v \in VlanIds
             PROVE  v \in Replay(all, base)
                       <=> IF Decides(new, v) THEN Allows(new, v)
                                              ELSE v \in Replay(ops, base)
    BY DEF Replay
<1>1. CASE Decides(new, v)
    <2>1. ~(v \in base /\ \A op \in all : ~Decides(op, v))
        BY <1>1
    <2>2. \A other \in all : Decides(other, v) => other.line <= new.line
        OBVIOUS
    <2>3. \A op \in all :
              (\A other \in all : Decides(other, v) => other.line <= op.line)
                 => op = new
        <3> SUFFICES ASSUME NEW op \in ops,
                            new.line <= op.line
                     PROVE  FALSE
            BY <1>1
        <3> QED OBVIOUS
    <2> QED BY <1>1, <2>1, <2>2, <2>3 DEF Replay
<1>2. CASE ~Decides(new, v)
    BY <1>2 DEF Replay
<1> QED BY <1>1, <1>2

(* An operation on every VLAN that is newer than all others hides them and *)
(* the baseline.                                                           *)
LEMMA ReplayOverride ==
    ASSUME NEW ops, NEW base, NEW new \in ops,
           \A op \in ops : op.line \in Int,
           \A op \in ops : op # new => op.line < new.line,
           \A v \in VlanIds : Decides(new, v)
    PROVE  Replay(ops, base) = {v \in VlanIds : Allows(new, v)}
<1> DEFINE old == ops \ {new}
<1>1. ops = old \union {new}
    OBVIOUS
<1>2. /\ \A op \in old : op.line \in Int /\ op.line < new.line
      /\ new.line \in Int
    OBVIOUS
<1>3. Replay(old \union {new}, base) =
          {v \in VlanIds : IF Decides(new, v) THEN Allows(new, v)
                                              ELSE v \in Replay(old, base)}
    <2> HIDE DEF old
    <2> QED BY <1>2, ReplayNewest
<1> QED BY <1>1, <1>3

-----------------------------------------------------------------------------
(* Line numbers: every line of the stanza read so far is at most `line`,   *)
(* the header is line 0 and -1 stands for a line that was not met.         *)
LineOrder ==
    /\ positive_line <= line /\ reset_line <= line /\ anchor_line <= line
    /\ \A n \in routed_lines : 0 < n /\ n <= line
    /\ \A op \in trunk_vlan_ops : op.line <= line
    /\ reset_line # -1 => 0 < reset_line
    /\ routed_lines # {} =>
          \E n \in routed_lines : \A m \in routed_lines : m <= n

(* While anchored nothing is queued, the last bare negation is older than  *)
(* the anchor, and the folded list is the device's unless the port was     *)
(* routed since: then it is the withdrawn port's list until the next line  *)
(* that edits it.                                                          *)
AnchoredInv ==
    anchored =>
        /\ trunk_vlan_ops = {}
        /\ 0 < anchor_line /\ anchor_line <= positive_line
        /\ reset_line < anchor_line
        /\ anchor_line \notin routed_lines /\ positive_line \notin routed_lines
        /\ (\A n \in routed_lines : n < anchor_line) => vlan_set = device
        /\ (\E n \in routed_lines : positive_line < n) => device = ResetList

(* While not anchored there is no list, and the queue with the reported    *)
(* withdrawals replays to the device's list.                               *)
QueueInv ==
    ~anchored =>
        /\ vlan_set = {}
        /\ Replay(native_ops, baseline) = device

IInv == TrunkTypeOK /\ LineOrder /\ AnchoredInv /\ QueueInv

-----------------------------------------------------------------------------
(* The whole-list SET operation is there exactly while anchored: the empty *)
(* list is told from "not mentioned" by trunk_none.                        *)
LEMMA SetOpsShape ==
    SetOps = IF anchored THEN {Op("SET", vlan_set, positive_line)} ELSE {}
BY DEF SetOps, trunk_allowed_vlans, trunk_none

(* Every operation of the stanza carries a line that was already read.     *)
OpsRead == \A op \in native_ops : op.line \in Int /\ op.line <= line

LEMMA OpsAreRead ==
    TrunkTypeOK /\ LineOrder => OpsRead
<1> SUFFICES ASSUME TrunkTypeOK, LineOrder
             PROVE  OpsRead
    OBVIOUS
<1>1. \A op \in SetOps : op.line \in Int /\ op.line <= line
    BY SetOpsShape DEF TrunkTypeOK, LineOrder, Op
<1>2. \A op \in UnsetOps : op.line \in Int /\ op.line <= line
    BY DEF TrunkTypeOK, LineOrder, UnsetOps, Op
<1>3. \A op \in trunk_vlan_ops : op.line \in Int /\ op.line <= line
    BY DEF TrunkTypeOK, LineOrder, Ops
<1> QED BY <1>1, <1>2, <1>3 DEF native_ops, OpsRead

LEMMA InitInv == ASSUME TrunkAssumption, TrunkInit PROVE IInv
<1>1. TrunkTypeOK
    <2>1. {} \in SUBSET VlanIds /\ {} \in SUBSET Nat
        OBVIOUS
    <2>2. baseline \in SUBSET VlanIds /\ device \in SUBSET VlanIds
        BY DEF TrunkInit
    <2>3. line \in Nat /\ positive_line \in Int /\ reset_line \in Int /\ anchor_line \in Int
        BY DEF TrunkInit
    <2>4. anchored \in BOOLEAN /\ vlan_set \in SUBSET VlanIds
          /\ trunk_vlan_ops \subseteq Ops /\ routed_lines \in SUBSET Nat
        BY <2>1 DEF TrunkInit
    <2> QED BY <2>2, <2>3, <2>4 DEF TrunkTypeOK
<1>2. LineOrder /\ AnchoredInv
    BY DEF TrunkInit, LineOrder, AnchoredInv
<1>3. native_ops = {}
    BY DEF TrunkInit, native_ops, SetOps, UnsetOps, trunk_allowed_vlans, trunk_none
<1>4. QueueInv
    BY <1>3 DEF TrunkInit, QueueInv, Replay
<1> QED BY <1>1, <1>2, <1>4 DEF IInv

(* Each absolute form starts over: nothing queued, nothing folded before,  *)
(* and the list is the one the device has now.                             *)
LEMMA AnchorStep ==
    ASSUME IInv, NEW value \in SUBSET VlanIds, Anchor(value)
    PROVE  IInv'
<1> USE DEF Anchor, NextLine, Port!Replace
<1>1. TrunkTypeOK'
    BY DEF IInv, TrunkTypeOK
<1>2. LineOrder'
    BY DEF IInv, TrunkTypeOK, LineOrder, Ops
<1>3. AnchoredInv'
    BY DEF IInv, TrunkTypeOK, LineOrder, AnchoredInv
<1>4. QueueInv'
    BY DEF QueueInv
<1> QED BY <1>1, <1>2, <1>3, <1>4 DEF IInv

(* A queued delta is the newest operation of the stanza.                   *)
LEMMA QueuedDelta ==
    ASSUME IInv, ~anchored, NextLine, NEW spec \in SUBSET VlanIds,
           NEW verb \in {"LIST_ADD", "LIST_REMOVE"},
           trunk_vlan_ops' = trunk_vlan_ops \union {Op(verb, spec, line')},
           UNCHANGED <<anchored, vlan_set, reset_line, routed_lines>>
    PROVE  Replay(native_ops', baseline') =
              IF verb = "LIST_ADD" THEN device \union spec ELSE device \ spec
<1> DEFINE new == Op(verb, spec, line')
<1>1. native_ops' = native_ops \union {new}
    BY SetOpsShape DEF native_ops, UnsetOps, SetOps, trunk_allowed_vlans, trunk_none
<1>2. /\ \A op \in native_ops : op.line \in Int /\ op.line < new.line
      /\ new.line \in Int
    BY OpsAreRead DEF IInv, TrunkTypeOK, NextLine, Op, OpsRead
<1>3. baseline' = baseline
    BY DEF NextLine
<1>4. Replay(native_ops', baseline') =
          {v \in VlanIds : IF Decides(new, v) THEN Allows(new, v)
                                              ELSE v \in Replay(native_ops, baseline)}
    <2> HIDE DEF new
    <2> QED BY <1>1, <1>2, <1>3, ReplayNewest
<1>5. Replay(native_ops, baseline) = device /\ device \in SUBSET VlanIds
    BY DEF IInv, QueueInv, TrunkTypeOK
<1> QED BY <1>4, <1>5 DEF Decides, Allows, Op

LEMMA AddStep ==
    ASSUME IInv, NEW spec \in SUBSET VlanIds, VlanAdd(spec)
    PROVE  IInv'
<1> USE DEF VlanAdd, NextLine, Port!Add
<1>1. TrunkTypeOK'
    BY DEF IInv, TrunkTypeOK, Ops, Op
<1>2. LineOrder'
    BY DEF IInv, TrunkTypeOK, LineOrder, Op, Ops
<1>3. AnchoredInv'
    BY DEF IInv, TrunkTypeOK, LineOrder, AnchoredInv
<1>4. QueueInv'
    BY QueuedDelta DEF IInv, QueueInv
<1> QED BY <1>1, <1>2, <1>3, <1>4 DEF IInv

LEMMA RemoveStep ==
    ASSUME IInv, NEW spec \in SUBSET VlanIds, VlanRemove(spec)
    PROVE  IInv'
<1> USE DEF VlanRemove, NextLine, Port!Remove
<1>1. TrunkTypeOK'
    BY DEF IInv, TrunkTypeOK, Ops, Op
<1>2. LineOrder'
    BY DEF IInv, TrunkTypeOK, LineOrder, Op, Ops
<1>3. AnchoredInv'
    BY DEF IInv, TrunkTypeOK, LineOrder, AnchoredInv
<1>4. QueueInv'
    BY QueuedDelta DEF IInv, QueueInv
<1> QED BY <1>1, <1>2, <1>3, <1>4 DEF IInv

(* A withdrawal on the line just read is the newest operation and speaks   *)
(* of every VLAN.                                                          *)
LEMMA NewestWithdrawal ==
    ASSUME TrunkAssumption, TrunkTypeOK', LineOrder',
           Op("UNSET", {}, line') \in native_ops',
           \A op \in native_ops' :
              op.line = line' => op = Op("UNSET", {}, line')
    PROVE  Replay(native_ops', baseline') = ResetList
<1> DEFINE new == Op("UNSET", {}, line')
<1>1. OpsRead'
    BY OpsAreRead, PTL
<1>2. /\ new \in native_ops' /\ new.line = line' /\ line' \in Int
      /\ \A op \in native_ops' : op # new => op.line < new.line
      /\ \A v \in VlanIds : Decides(new, v)
    BY <1>1 DEF TrunkTypeOK, Op, Decides, OpsRead
<1>3. Replay(native_ops', baseline') = {v \in VlanIds : Allows(new, v)}
    <2>1. \A op \in native_ops' : op.line \in Int
        BY <1>1 DEF OpsRead
    <2> HIDE DEF new
    <2> QED BY <2>1, <1>2, ReplayOverride
<1> QED BY <1>3 DEF Allows, Op, TrunkAssumption

LEMMA ResetStep ==
    ASSUME TrunkAssumption, IInv, VlanReset
    PROVE  IInv'
<1> USE DEF VlanReset, NextLine, Port!Withdraw
<1>1. TrunkTypeOK'
    <2>1. {} \in SUBSET VlanIds /\ {} \subseteq Ops
        OBVIOUS
    <2>2. baseline' \in SUBSET VlanIds /\ device' \in SUBSET VlanIds
        BY DEF IInv, TrunkTypeOK, TrunkAssumption
    <2>3. line' \in Nat /\ positive_line' \in Int /\ reset_line' \in Int /\ anchor_line' \in Int
        BY DEF IInv, TrunkTypeOK
    <2>4. anchored' \in BOOLEAN /\ vlan_set' \in SUBSET VlanIds
          /\ trunk_vlan_ops' \subseteq Ops /\ routed_lines' \in SUBSET Nat
        BY <2>1 DEF IInv, TrunkTypeOK
    <2> QED BY <2>2, <2>3, <2>4 DEF TrunkTypeOK
<1>2. LineOrder'
    BY DEF IInv, TrunkTypeOK, LineOrder, Ops
<1>3. AnchoredInv'
    BY DEF AnchoredInv
<1>4. native_ops' = {Op("UNSET", {}, n) : n \in routed_lines' \union {line'}}
    BY <1>1 DEF native_ops, SetOps, UnsetOps, trunk_allowed_vlans, trunk_none, TrunkTypeOK
<1>5. QueueInv'
    <2>1. /\ Op("UNSET", {}, line') \in native_ops'
          /\ \A op \in native_ops' :
                op.line = line' => op = Op("UNSET", {}, line')
        <3>1. \A n : Op("UNSET", {}, n).line = n
            BY DEF Op
        <3> QED BY <1>4, <3>1
    <2>2. Replay(native_ops', baseline') = ResetList
        BY <1>1, <1>2, <2>1, NewestWithdrawal
    <2> QED BY <2>2 DEF QueueInv
<1> QED BY <1>1, <1>2, <1>3, <1>5 DEF IInv

LEMMA RoutedStep ==
    ASSUME TrunkAssumption, IInv, NoSwitchport
    PROVE  IInv'
<1> USE DEF NoSwitchport, NextLine, Port!Withdraw
<1>1. TrunkTypeOK'
    BY DEF IInv, TrunkTypeOK, TrunkAssumption, Ops
<1>2. LineOrder'
    BY DEF IInv, TrunkTypeOK, LineOrder, Ops
<1>3. AnchoredInv'
    BY DEF IInv, TrunkTypeOK, LineOrder, AnchoredInv
<1>4. QueueInv'
    <2> SUFFICES ASSUME ~anchored
                 PROVE  vlan_set' = {} /\ Replay(native_ops', baseline') = device'
        BY DEF QueueInv
    <2>1. native_ops' = native_ops \union {Op("UNSET", {}, line')}
        <3>1. SetOps = {} /\ SetOps' = {}
            BY DEF SetOps, trunk_allowed_vlans, trunk_none
        <3>2. UnsetOps' = UnsetOps \union {Op("UNSET", {}, line')}
            BY DEF UnsetOps
        <3> QED BY <3>1, <3>2 DEF native_ops
    <2>2. \A op \in native_ops : op.line \in Int /\ op.line < line'
        BY OpsAreRead DEF IInv, TrunkTypeOK, OpsRead
    <2>3. Replay(native_ops', baseline') = ResetList
        BY <1>1, <1>2, <2>1, <2>2, NewestWithdrawal
    <2> QED BY <2>3 DEF IInv, QueueInv
<1> QED BY <1>1, <1>2, <1>3, <1>4 DEF IInv

LEMMA NextInv == ASSUME TrunkAssumption, IInv, [TrunkNext]_trunkVars PROVE IInv'
<1>1. ASSUME NEW spec \in Port!Specs PROVE spec \in SUBSET VlanIds
    BY <1>1 DEF Port!Specs
<1>2. CASE VlanNone
    BY <1>2, AnchorStep DEF VlanNone
<1>3. CASE VlanAll
    BY <1>3, AnchorStep DEF VlanAll
<1>4. CASE \E spec \in Port!Specs : VlanExcept(spec)
    <2>1. PICK spec \in Port!Specs : VlanExcept(spec)
        BY <1>4
    <2> QED BY <2>1, AnchorStep, VlanIds \ spec \in SUBSET VlanIds DEF VlanExcept
<1>5. CASE \E spec \in Port!Specs : VlanList(spec)
    BY <1>1, <1>5, AnchorStep DEF VlanList
<1>6. CASE \E spec \in Port!Specs : VlanAdd(spec)
    BY <1>1, <1>6, AddStep
<1>7. CASE \E spec \in Port!Specs : VlanRemove(spec)
    BY <1>1, <1>7, RemoveStep
<1>8. CASE VlanReset
    BY <1>8, ResetStep
<1>9. CASE NoSwitchport
    BY <1>9, RoutedStep
<1>10. CASE UNCHANGED trunkVars
    <2>1. UNCHANGED native_ops
        BY <1>10 DEF trunkVars, parserVars, native_ops, SetOps, UnsetOps,
                     trunk_allowed_vlans, trunk_none
    <2> QED BY <1>10, <2>1 DEF trunkVars, parserVars, IInv, TrunkTypeOK, LineOrder,
                               AnchoredInv, QueueInv
<1> QED BY <1>2, <1>3, <1>4, <1>5, <1>6, <1>7, <1>8, <1>9, <1>10
        DEF TrunkNext, TrunkLine

-----------------------------------------------------------------------------
(* The invariant, and what follows from it in every state.                 *)
THEOREM InvariantHolds == TrunkSpec => []IInv
<1>1. TrunkInit => IInv
    BY TrunkAssumption, InitInv
<1>2. IInv /\ [TrunkNext]_trunkVars => IInv'
    BY TrunkAssumption, NextInv
<1> QED BY <1>1, <1>2, PTL DEF TrunkSpec

(* The parser's state keeps its shape: the folded list and every queued    *)
(* operation speak of VLANs only.                                          *)
THEOREM TrunkTypeCorrect == TrunkSpec => []TrunkTypeOK
<1>1. IInv => TrunkTypeOK
    BY DEF IInv
<1> QED BY <1>1, InvariantHolds, PTL

(* While anchored the SET operation is newer than all withdrawals, unless  *)
(* the port was routed after it; then the last withdrawal is the newest.   *)
LEMMA InvReplays == ASSUME TrunkAssumption, IInv PROVE ReplayMatchesDevice
<1> DEFINE set == Op("SET", vlan_set, positive_line)
<1>1. SUFFICES ASSUME anchored, ~FoldedAcrossRouted
               PROVE  Replay(native_ops, baseline) = device
    BY DEF IInv, QueueInv, ReplayMatchesDevice
<1>2. native_ops = {set} \union UnsetOps
    BY <1>1, SetOpsShape DEF native_ops, IInv, AnchoredInv
<1>3. \A op \in native_ops : op.line \in Int
    BY OpsAreRead DEF IInv, OpsRead
<1>4. CASE \A n \in routed_lines : n < positive_line
    <2>1. \A n \in routed_lines : n < anchor_line
        BY <1>1, <1>4 DEF FoldedAcrossRouted, IInv, TrunkTypeOK, AnchoredInv
    <2>2. \A op \in native_ops : op # set => op.line < set.line
        BY <1>1, <1>2, <1>4 DEF IInv, TrunkTypeOK, AnchoredInv, UnsetOps, Op
    <2>3. set \in native_ops /\ \A v \in VlanIds : Decides(set, v)
        BY <1>2 DEF Decides, Op
    <2>4. Replay(native_ops, baseline) = {v \in VlanIds : Allows(set, v)}
        <3> HIDE DEF set
        <3> QED BY <1>3, <2>2, <2>3, ReplayOverride
    <2>5. Replay(native_ops, baseline) = vlan_set
        BY <2>4 DEF Allows, Op, IInv, TrunkTypeOK
    <2> QED BY <1>1, <2>1, <2>5 DEF IInv, AnchoredInv
<1>5. CASE ~ \A n \in routed_lines : n < positive_line
    <2>1. PICK n \in routed_lines : \A m \in routed_lines : m <= n
        BY <1>5 DEF IInv, LineOrder
    <2>2. positive_line < n
        BY <1>1, <1>5, <2>1 DEF IInv, TrunkTypeOK, AnchoredInv
    <2>3. device = ResetList
        BY <1>1, <2>2 DEF IInv, AnchoredInv
    <2> DEFINE new == Op("UNSET", {}, n)
    <2>4. new \in native_ops /\ \A v \in VlanIds : Decides(new, v)
        BY <1>2 DEF UnsetOps, Op, Decides
    <2>5. \A op \in native_ops : op # new => op.line < new.line
        <3>1. set # new => set.line < new.line
            BY <2>2 DEF Op
        <3>2. reset_line < n
            BY <1>1, <2>2 DEF IInv, TrunkTypeOK, AnchoredInv
        <3>3. \A m \in routed_lines \union {reset_line} : m # n => m < n
            BY <2>1, <3>2 DEF IInv, TrunkTypeOK
        <3> QED BY <1>2, <3>1, <3>3 DEF UnsetOps, Op
    <2>6. Replay(native_ops, baseline) = {v \in VlanIds : Allows(new, v)}
        <3> HIDE DEF new
        <3> QED BY <1>3, <2>4, <2>5, ReplayOverride
    <2> QED BY <2>3, <2>6 DEF Allows, Op, TrunkAssumption
<1> QED BY <1>4, <1>5

(* For every stanza and every baseline the operations replay to the list   *)
(* of the device, outside the one shape of stanza that is set apart.       *)
THEOREM ReplayCorrect == TrunkSpec => []ReplayMatchesDevice
<1>1. IInv => ReplayMatchesDevice
    BY TrunkAssumption, InvReplays
<1> QED BY <1>1, InvariantHolds, PTL

(* A stanza that fixes the list by itself is parsed to the device's list.  *)
THEOREM AnchoredListCorrect == TrunkSpec => []AnchoredListIsDeviceList
<1>1. IInv => AnchoredListIsDeviceList
    BY DEF IInv, AnchoredInv, AnchoredListIsDeviceList, trunk_allowed_vlans
<1> QED BY <1>1, InvariantHolds, PTL

-----------------------------------------------------------------------------
(* Without `no switchport` the replayed list is the device's in every      *)
(* state, so each line the parser reads is a step of the device on it.     *)
Exact == IInv /\ routed_lines = {}

LEMMA ExactReplay ==
    Exact => Replay(native_ops, baseline) = device
BY TrunkAssumption, InvReplays DEF Exact, ReplayMatchesDevice, FoldedAcrossRouted

LEMMA TrunkLineStep ==
    ASSUME Replay(native_ops, baseline) = device,
           Replay(native_ops', baseline') = device',
           TrunkLine
    PROVE  Replayed!DeviceNext
<1> USE DEF Replayed!DeviceNext, Replayed!Specs, Port!Specs,
            Replayed!Line, Port!Line
<1>1. CASE VlanNone
    BY <1>1 DEF VlanNone, Anchor, Port!Replace, Replayed!Replace
<1>2. CASE VlanAll
    BY <1>2 DEF VlanAll, Anchor, Port!Replace, Replayed!Replace
<1>3. CASE \E spec \in Port!Specs : VlanExcept(spec) \/ VlanList(spec)
    <2>1. PICK spec \in Port!Specs : VlanExcept(spec) \/ VlanList(spec)
        BY <1>3
    <2>2. PICK list \in {spec, VlanIds \ spec} : Port!Replace(list)
        BY <2>1 DEF VlanExcept, VlanList, Anchor
    <2>3. list \in SUBSET VlanIds
        OBVIOUS
    <2> QED BY <2>2, <2>3 DEF Port!Replace, Replayed!Replace
<1>4. CASE \E spec \in Port!Specs : VlanAdd(spec)
    BY <1>4 DEF VlanAdd, Port!Add, Replayed!Add
<1>5. CASE \E spec \in Port!Specs : VlanRemove(spec)
    BY <1>5 DEF VlanRemove, Port!Remove, Replayed!Remove
<1>6. CASE VlanReset
    BY <1>6 DEF VlanReset, Port!Withdraw, Replayed!Withdraw
<1> QED BY <1>1, <1>2, <1>3, <1>4, <1>5, <1>6 DEF TrunkLine

LEMMA DeviceStarts == TrunkInit => Replayed!DeviceInit
<1> SUFFICES ASSUME TrunkInit PROVE Replayed!DeviceInit
    OBVIOUS
<1>1. Replay(native_ops, baseline) = device
    BY TrunkAssumption, InitInv, ExactReplay DEF Exact, TrunkInit
<1> QED BY <1>1 DEF TrunkInit, Replayed!DeviceInit, Replayed!NoLine, Port!NoLine,
                    Replayed!Line, Port!Line

(* A bare `no switchport` is a withdrawal of the device.                   *)
LEMMA AnyLineStep ==
    ASSUME Replay(native_ops, baseline) = device,
           Replay(native_ops', baseline') = device',
           TrunkNext
    PROVE  Replayed!DeviceNext
<1>1. CASE TrunkLine
    BY <1>1, TrunkLineStep
<1>2. CASE NoSwitchport
    BY <1>2 DEF NoSwitchport, Port!Withdraw, Replayed!Withdraw,
                Replayed!DeviceNext, Replayed!Line, Port!Line
<1> QED BY <1>1, <1>2 DEF TrunkNext

(* The operations of a stanza implement the device: each line read is a    *)
(* step of TrunkDevice on the replayed list, outside the case set apart.   *)
THEOREM OpsRefineDevice == TrunkSpec => OpsImplementDevice
<1> DEFINE Step == [~FoldedAcrossRouted /\ ~FoldedAcrossRouted'
                        => Replayed!DeviceNext]_(Replayed!deviceVars)
<1>1. ReplayMatchesDevice /\ ReplayMatchesDevice' /\ [TrunkNext]_trunkVars => Step
    <2> SUFFICES ASSUME ReplayMatchesDevice, ReplayMatchesDevice',
                        [TrunkNext]_trunkVars,
                        ~FoldedAcrossRouted, ~FoldedAcrossRouted'
                 PROVE  [Replayed!DeviceNext]_(Replayed!deviceVars)
        OBVIOUS
    <2>1. /\ Replay(native_ops, baseline) = device
          /\ Replay(native_ops', baseline') = device'
        BY DEF ReplayMatchesDevice
    <2>2. CASE TrunkNext
        BY <2>1, <2>2, AnyLineStep
    <2>3. CASE UNCHANGED trunkVars
        BY <2>1, <2>3 DEF trunkVars, Replayed!deviceVars
    <2> QED BY <2>2, <2>3
<1>2. TrunkSpec => [][TrunkNext]_trunkVars
    BY DEF TrunkSpec
<1>3. TrunkSpec => TrunkInit
    BY DEF TrunkSpec
<1> QED BY <1>1, <1>2, <1>3, DeviceStarts, ReplayCorrect, PTL
        DEF OpsImplementDevice

(* Without `no switchport` nothing is set apart: the parser implements     *)
(* TrunkDevice as it stands.                                               *)
THEOREM SwitchportRefines == SwitchportSpec => Replayed!DeviceSpec
<1>1. TrunkInit => Exact
    BY TrunkAssumption, InitInv DEF Exact, TrunkInit
<1>2. Exact /\ [TrunkLine]_trunkVars => Exact'
    <2> SUFFICES ASSUME Exact, [TrunkLine]_trunkVars PROVE Exact'
        OBVIOUS
    <2>1. IInv'
        BY TrunkAssumption, NextInv DEF Exact, TrunkNext
    <2>2. routed_lines' = routed_lines
        BY DEF TrunkLine, VlanNone, VlanAll, VlanExcept, VlanList, Anchor,
               VlanAdd, VlanRemove, VlanReset, trunkVars, parserVars
    <2> QED BY <2>1, <2>2 DEF Exact
<1>3. TrunkInit => Replayed!DeviceInit
    BY DeviceStarts
<1>4. /\ Replay(native_ops, baseline) = device
      /\ (Replay(native_ops, baseline) = device)'
      /\ [TrunkLine]_trunkVars
      => [Replayed!DeviceNext]_(Replayed!deviceVars)
    <2> SUFFICES ASSUME Replay(native_ops, baseline) = device,
                        Replay(native_ops', baseline') = device',
                        [TrunkLine]_trunkVars
                 PROVE  [Replayed!DeviceNext]_(Replayed!deviceVars)
        OBVIOUS
    <2>1. CASE TrunkLine
        BY <2>1, TrunkLineStep
    <2>2. CASE UNCHANGED trunkVars
        BY <2>2 DEF trunkVars, Replayed!deviceVars
    <2> QED BY <2>1, <2>2
<1> QED BY <1>1, <1>2, <1>3, <1>4, ExactReplay, PTL
        DEF SwitchportSpec, Replayed!DeviceSpec

=============================================================================
