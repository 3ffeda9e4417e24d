------------------------------ MODULE BackFill ------------------------------
(***************************************************************************)
(* The three walks of BaseParser.parse that carry settings from the block  *)
(* that holds them on some systems to the object that has them on all: the *)
(* passivity of an interface (from the lists of the OSPF processes), the   *)
(* settings a process gives an interface inside an area, and the route     *)
(* distinguisher and targets a BGP process gives a VRF.  One action is one *)
(* turn of a walk's outer loop.                                            *)
(*                                                                         *)
(* A value is abstract but for what the guards tell apart: "None", "False" *)
(* and the explicit zero, which Python's == does not keep from False.      *)
(***************************************************************************)
EXTENDS Naturals, Sequences

CONSTANTS
  Ifaces,      \* names of the parsed interfaces
  Vrfs         \* names of the parsed VRFs

None == "None"
False == "False"
True == "True"
Zero == "0"
Blank == "[]"
Values == {None, False, True, Zero, Blank, "v1", "v2"}

ModelDefault ==     \* InterfaceConfig, one field per shape of default
  [ospf_passive |-> None, ospf_priority |-> None, ospf_mtu_ignore |-> False,
   ospf_process_id |-> None]
IfaceFields == DOMAIN ModelDefault

VrfDefault == [rd |-> None, route_target_import |-> Blank]
VrfFields == DOMAIN VrfDefault

Area == [interfaces : SUBSET Ifaces, settings : [Ifaces -> [IfaceFields -> Values]]]
Process == [id : Values, passive : SUBSET Ifaces, non_passive : SUBSET Ifaces,
            passive_default : BOOLEAN, areas : Seq(Area)]
Instance == [vrf : Vrfs \cup {None}, said : [VrfFields -> Values]]
\* What the parse steps make of a configuration.
Document == [ifaces : [Ifaces -> [IfaceFields -> Values]],
             vrfs : [Vrfs -> [VrfFields -> Values]],
             ospf : Seq(Process), bgp : Seq(Instance)]

VARIABLES
  document,   \* the parsed objects as the steps left them
  ifaces,     \* ParsedConfig.interfaces, being back-filled
  vrfs,       \* ParsedConfig.vrfs, being back-filled
  passive_at, area_at, instance_at    \* turns of the three loops taken

fillVars == <<document, ifaces, vrfs, passive_at, area_at, instance_at>>

-----------------------------------------------------------------------------
\* M3: what a process says of an interface's passivity, None if nothing.
Member(p, i) == (\E a \in 1..Len(p.areas) : i \in p.areas[a].interfaces)
                  \/ document.ifaces[i].ospf_process_id = p.id

Passivity(p, i) ==
  IF i \in p.passive THEN True
  ELSE IF i \in p.non_passive THEN False
  ELSE IF p.passive_default /\ Member(p, i) THEN True ELSE None

StampedAlways(p, current, i) ==  \* (mutant) without the `is None` guards
  IF Passivity(p, i) # None THEN Passivity(p, i) ELSE current.ospf_passive

StampedDefault(p, current, i) ==  \* (mutant) the default stamps every interface
  IF current.ospf_passive # None THEN current.ospf_passive
  ELSE IF p.passive_default /\ i \notin p.non_passive THEN True ELSE Passivity(p, i)

Stamped(p, current, i) == IF current.ospf_passive = None THEN Passivity(p, i) ELSE current.ospf_passive

PassiveProcess ==
  /\ passive_at < Len(document.ospf)
  /\ passive_at' = passive_at + 1
  /\ ifaces' = [i \in Ifaces |-> [ifaces[i] EXCEPT !.ospf_passive =
                    Stamped(document.ospf[passive_at'], ifaces[i], i)]]
  /\ UNCHANGED <<document, vrfs, area_at, instance_at>>

-----------------------------------------------------------------------------
\* _OSPF_IFACE_BACKFILL: what the first area of a process that speaks of
\* field f of interface i says; None and False are "the vendor did not say".
Says(value) == value \notin {None, False}

Speaking(p, i, f) == {a \in 1..Len(p.areas) : Says(p.areas[a].settings[i][f])}

Setting(p, i, f) ==
  IF Speaking(p, i, f) = {} THEN None
  ELSE LET a == CHOOSE a \in Speaking(p, i, f) : \A b \in Speaking(p, i, f) : a <= b
       IN  p.areas[a].settings[i][f]

IsNoneOrFalse(f, value) == value \in {None, False, Zero}   \* (mutant) `in (None, False)`

\* By identity, or by equality within one type: 0 is not False.
_is_model_default(f, value) == value = ModelDefault[f]

Filled(p, current, i, f) ==
  IF Says(Setting(p, i, f)) /\ _is_model_default(f, current[f]) THEN Setting(p, i, f) ELSE current[f]

SettingsOfProcess ==
  /\ passive_at = Len(document.ospf) /\ area_at < Len(document.ospf)
  /\ area_at' = area_at + 1
  /\ ifaces' = [i \in Ifaces |-> [f \in IfaceFields |->
                    Filled(document.ospf[area_at'], ifaces[i], i, f)]]
  /\ UNCHANGED <<document, vrfs, passive_at, instance_at>>

\* _BGP_VRF_BACKFILL: the VRF block's own answer is never overwritten nor
\* appended to, and a blank never overwrites.
Empty(value) == value \in {None, Blank}

Identity(b, current, f) == IF Empty(b.said[f]) \/ ~Empty(current) THEN current ELSE b.said[f]

VrfOfInstance ==
  /\ area_at = Len(document.ospf) /\ instance_at < Len(document.bgp)
  /\ instance_at' = instance_at + 1
  /\ LET b == document.bgp[instance_at']
     IN  vrfs' = [v \in Vrfs |-> IF b.vrf = v
                    THEN [f \in VrfFields |-> Identity(b, vrfs[v][f], f)] ELSE vrfs[v]]
  /\ UNCHANGED <<document, ifaces, passive_at, area_at>>

FillInit ==
  /\ ifaces = document.ifaces /\ vrfs = document.vrfs
  /\ passive_at = 0 /\ area_at = 0 /\ instance_at = 0

FillNext == PassiveProcess \/ SettingsOfProcess \/ VrfOfInstance

FillDone == area_at = Len(document.ospf) /\ instance_at = Len(document.bgp)
            /\ passive_at = Len(document.ospf)

-----------------------------------------------------------------------------
FillTypeOK ==
  /\ ifaces \in [Ifaces -> [IfaceFields -> Values]]
  /\ vrfs \in [Vrfs -> [VrfFields -> Values]]
  /\ passive_at \in 0..Len(document.ospf) /\ area_at \in 0..passive_at
  /\ instance_at \in 0..Len(document.bgp)

(***************************************************************************)
(* "A parsed value never loses to a back-filled one": what the interface   *)
(* block and the VRF block set themselves survives every walk, an explicit *)
(* False in the tri-state and an explicit zero included.                   *)
(***************************************************************************)
ParsedValueWins ==
  /\ \A i \in Ifaces, f \in IfaceFields :
       document.ifaces[i][f] # ModelDefault[f] => ifaces[i][f] = document.ifaces[i][f]
  /\ \A v \in Vrfs, f \in VrfFields :
       ~Empty(document.vrfs[v][f]) => vrfs[v][f] = document.vrfs[v][f]

(***************************************************************************)
(* Nothing is invented: a field the block left at its default holds the    *)
(* default, or the word of a process about this very interface; likewise   *)
(* a VRF holds its own answer or that of a BGP instance of its name.       *)
(***************************************************************************)
NothingInvented ==
  /\ \A i \in Ifaces, f \in IfaceFields : ifaces[i][f] # document.ifaces[i][f] =>
       \E n \in 1..Len(document.ospf) : LET p == document.ospf[n] IN
         \/ ifaces[i][f] = Setting(p, i, f)
         \/ f = "ospf_passive" /\ ifaces[i][f] = Passivity(p, i)
  /\ \A v \in Vrfs, f \in VrfFields : vrfs[v][f] # document.vrfs[v][f] =>
       \E n \in 1..Len(document.bgp) :
         document.bgp[n].vrf = v /\ vrfs[v][f] = document.bgp[n].said[f]

(***************************************************************************)
(* The first process with a word about an interface's passivity decides it *)
(* and an area's `passive` flag only where no process has one: the walk is *)
(* a fold, this is the reference it must equal when the loops have ended.  *)
(***************************************************************************)
FirstOf(S) == CHOOSE n \in S : \A m \in S : n <= m

PassivityIsTheFirstWord == FillDone =>
  \A i \in Ifaces :
    LET stamps == {n \in 1..Len(document.ospf) : Passivity(document.ospf[n], i) # None}
        flags == {n \in 1..Len(document.ospf) : Says(Setting(document.ospf[n], i, "ospf_passive"))}
    IN  ifaces[i].ospf_passive =
          IF document.ifaces[i].ospf_passive # None THEN document.ifaces[i].ospf_passive
          ELSE IF stamps # {} THEN Passivity(document.ospf[FirstOf(stamps)], i)
          ELSE IF flags # {} THEN Setting(document.ospf[FirstOf(flags)], i, "ospf_passive")
          ELSE None
=============================================================================
