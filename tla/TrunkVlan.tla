----------------------------- MODULE TrunkVlan -----------------------------
(***************************************************************************)
(* The allowed-VLAN part of IOSParser.parse_interfaces for one interface   *)
(* stanza, and the change operations it leaves behind.                     *)
(*                                                                         *)
(* A stanza is either a full running configuration or a snippet meant for  *)
(* a device whose list the parser does not know.  The parser folds the     *)
(* lines into one list while an absolute form has fixed the base state     *)
(* ("anchored") and queues LIST_ADD / LIST_REMOVE operations while none    *)
(* has.  The consumer of the operations orders those of an interface by    *)
(* line number.  Every prefix of a stanza is a stanza, so the state after  *)
(* each line is the result of parsing the lines read so far.               *)
(***************************************************************************)
EXTENDS Integers

CONSTANTS
    VlanIds,
    ResetList,
    MaxLines    \* bound on the lines of the stanza

ASSUME TrunkAssumption ==
    /\ ResetList \subseteq VlanIds
    /\ MaxLines \in Nat

VARIABLES
    baseline,        \* the port's list before the script, unknown to the parser
    device,          \* the port's list after the lines read so far
    last,            \* the line read last
    line,            \* its number; the header of the stanza is line 0
    anchored,        \* an absolute form has fixed the base state
    vlan_set,        \* the list folded so far
    trunk_vlan_ops,  \* the delta operations queued so far
    positive_line,   \* the last `switchport trunk allowed vlan ...` line
    reset_line,      \* the last bare `no switchport trunk allowed vlan` line
    routed_lines,    \* the bare `no switchport` lines
    anchor_line      \* history: the line of the absolute form last folded

parserVars == <<anchored, vlan_set, trunk_vlan_ops, positive_line, reset_line,
                routed_lines, anchor_line>>
trunkVars == <<baseline, device, last, line, parserVars>>

Port == INSTANCE TrunkDevice WITH allowed <- device

Op(verb, value, number) == [verb |-> verb, value |-> value, line |-> number]

Ops == [verb : {"SET", "UNSET", "LIST_ADD", "LIST_REMOVE"},
        value : SUBSET VlanIds, line : Int]

-----------------------------------------------------------------------------
(* What the finished parse holds for the lines read so far.                *)

trunk_allowed_vlans == IF anchored THEN vlan_set ELSE {}

(* _pending_native_trunk_none: anchored to the empty list, which the list  *)
(* alone cannot tell from "not mentioned".                                 *)
NoTrunkNone == FALSE  \* mutant of trunk_none: `none` reads as "not mentioned"

trunk_none == anchored /\ vlan_set = {}

SetOps ==
    IF trunk_allowed_vlans # {} \/ trunk_none
    THEN {Op("SET", trunk_allowed_vlans, positive_line)}
    ELSE {}

(* The whole-list reset registry reports the last bare negation only; a    *)
(* bare `no switchport` reports every line.                                *)
UnsetOps ==
    {Op("UNSET", {}, n) : n \in routed_lines \union ({reset_line} \ {-1})}

native_ops == SetOps \union UnsetOps \union trunk_vlan_ops

-----------------------------------------------------------------------------
(* The consumer: operations applied in line order to a baseline.  Of the   *)
(* operations that say something of VLAN v the one on the last line wins.  *)

Decides(op, v) == op.verb \in {"SET", "UNSET"} \/ v \in op.value

Allows(op, v) ==
    \/ op.verb \in {"SET", "LIST_ADD"} /\ v \in op.value
    \/ op.verb = "UNSET" /\ v \in ResetList

Replay(ops, base) ==
    {v \in VlanIds :
        \/ v \in base /\ \A op \in ops : ~Decides(op, v)
        \/ \E op \in ops :
              /\ Decides(op, v)
              /\ Allows(op, v)
              /\ \A other \in ops : Decides(other, v) => other.line <= op.line}

-----------------------------------------------------------------------------
TrunkInit ==
    /\ baseline \in SUBSET VlanIds
    /\ device = baseline
    /\ last = Port!NoLine
    /\ line = 0
    /\ anchored = FALSE
    /\ vlan_set = {}
    /\ trunk_vlan_ops = {}
    /\ positive_line = -1
    /\ reset_line = -1
    /\ routed_lines = {}
    /\ anchor_line = -1

NextLine ==
    /\ line < MaxLines
    /\ line' = line + 1
    /\ UNCHANGED baseline

(* none, all, except <list> and <list>: each replaces what was folded or   *)
(* queued before.                                                          *)
Anchor(value) ==
    /\ NextLine
    /\ Port!Replace(value)
    /\ anchored' = TRUE
    /\ trunk_vlan_ops' = {}
    /\ vlan_set' = value
    /\ positive_line' = line'
    /\ anchor_line' = line'
    /\ UNCHANGED <<reset_line, routed_lines>>

VlanNone == Anchor({})

VlanAllFromZero == Anchor(VlanIds \union {0})  \* mutant of VlanAll: range(0, ...)

VlanAll == Anchor(VlanIds)
VlanExcept(spec) == Anchor(VlanIds \ spec)
VlanList(spec) == Anchor(spec)

VlanAdd(spec) ==
    /\ NextLine
    /\ Port!Add(spec)
    /\ positive_line' = line'
    /\ \/ /\ anchored
          /\ vlan_set' = vlan_set \union spec
          /\ UNCHANGED trunk_vlan_ops
       \/ /\ ~anchored
          /\ trunk_vlan_ops' =
                trunk_vlan_ops \union {Op("LIST_ADD", spec, line')}
          /\ UNCHANGED vlan_set
    /\ UNCHANGED <<anchored, reset_line, routed_lines, anchor_line>>

(* Mutant of VlanRemove: queued whether or not the list is anchored.        *)
VlanRemoveQueued(spec) ==
    /\ NextLine
    /\ Port!Remove(spec)
    /\ positive_line' = line'
    /\ trunk_vlan_ops' = trunk_vlan_ops \union {Op("LIST_REMOVE", spec, line')}
    /\ UNCHANGED <<anchored, vlan_set, reset_line, routed_lines, anchor_line>>

VlanRemove(spec) ==
    /\ NextLine
    /\ Port!Remove(spec)
    /\ positive_line' = line'
    /\ \/ /\ anchored
          /\ vlan_set' = vlan_set \ spec
          /\ UNCHANGED trunk_vlan_ops
       \/ /\ ~anchored
          /\ trunk_vlan_ops' =
                trunk_vlan_ops \union {Op("LIST_REMOVE", spec, line')}
          /\ UNCHANGED vlan_set
    /\ UNCHANGED <<anchored, reset_line, routed_lines, anchor_line>>

(* Mutant of VlanReset: the anchor survives the withdrawal.                *)
VlanResetKeepsAnchor ==
    /\ NextLine
    /\ Port!Withdraw
    /\ trunk_vlan_ops' = {}
    /\ reset_line' = line'
    /\ UNCHANGED <<anchored, vlan_set, positive_line, routed_lines, anchor_line>>

(* The bare whole-list negation forgets the anchor and what was queued; it *)
(* is itself reported by the negation scan.                                *)
VlanReset ==
    /\ NextLine
    /\ Port!Withdraw
    /\ anchored' = FALSE
    /\ vlan_set' = {}
    /\ trunk_vlan_ops' = {}
    /\ reset_line' = line'
    /\ UNCHANGED <<positive_line, routed_lines, anchor_line>>

(* A bare `no switchport` withdraws the layer-2 fields.  Only the negation *)
(* scan looks at it: the fold neither un-anchors nor drops its queue.      *)
NoSwitchport ==
    /\ NextLine
    /\ Port!Withdraw
    /\ routed_lines' = routed_lines \union {line'}
    /\ UNCHANGED <<anchored, vlan_set, trunk_vlan_ops, positive_line,
                   reset_line, anchor_line>>

TrunkLine ==
    \/ VlanNone
    \/ VlanAll
    \/ \E spec \in Port!Specs :
          \/ VlanExcept(spec)
          \/ VlanList(spec)
          \/ VlanAdd(spec)
          \/ VlanRemove(spec)
    \/ VlanReset

TrunkNext == TrunkLine \/ NoSwitchport

TrunkSpec == TrunkInit /\ [][TrunkNext]_trunkVars

(* Stanzas without a bare `no switchport`.                                 *)
SwitchportSpec == TrunkInit /\ [][TrunkLine]_trunkVars

-----------------------------------------------------------------------------
TrunkTypeOK ==
    /\ baseline \in SUBSET VlanIds
    /\ device \in SUBSET VlanIds
    /\ line \in Nat
    /\ anchored \in BOOLEAN
    /\ vlan_set \in SUBSET VlanIds
    /\ trunk_vlan_ops \subseteq Ops
    /\ positive_line \in Int
    /\ reset_line \in Int
    /\ routed_lines \in SUBSET Nat
    /\ anchor_line \in Int

(* A delta was folded into a list that a later `no switchport` had already *)
(* withdrawn.                                                              *)
FoldedAcrossRouted ==
    /\ anchored
    /\ \E n \in routed_lines : anchor_line < n /\ n < positive_line
    /\ \A n \in routed_lines : n < positive_line

(* For every baseline the device may have, replaying the operations of the *)
(* stanza in line order gives the list the device would have after         *)
(* executing the stanza: no line is lost, folded into a state it does not  *)
(* belong to or applied out of order.  The fold of parse_interfaces and    *)
(* the last-line reset registry must agree for this; a stanza that edits a *)
(* list after `no switchport` withdrew its anchor is set apart, see        *)
(* ReplayIsExact.                                                          *)
ReplayMatchesDevice ==
    ~FoldedAcrossRouted => Replay(native_ops, baseline) = device

(* The same without the exception.  The comment at ios_parser.py 4615 says *)
(* a bare `no switchport` withdraws the port's entire layer-2 personality, *)
(* and the one at 951 that a withdrawal must un-anchor the running list.   *)
ReplayIsExact == Replay(native_ops, baseline) = device

(* The list in the parsed interface is the device's list whenever the      *)
(* stanza fixes it by itself: a running configuration read back gives the  *)
(* list the device runs, whatever deltas follow the absolute form.         *)
AnchoredListIsDeviceList ==
    (anchored /\ \A n \in routed_lines : n < anchor_line)
        => trunk_allowed_vlans = device

(* The operations left behind implement the device of TrunkDevice: each    *)
(* line the parser reads is a step of the device on the replayed list,     *)
(* for every baseline, as long as the stanza stays clear of the case that  *)
(* is set apart.  Without `no switchport` it always does (SwitchportSpec). *)
Replayed == INSTANCE TrunkDevice WITH allowed <- Replay(native_ops, baseline)

OpsImplementDevice ==
    /\ Replayed!DeviceInit
    /\ [][~FoldedAcrossRouted /\ ~FoldedAcrossRouted'
             => Replayed!DeviceNext]_(Replayed!deviceVars)
=============================================================================
