---------------------------- MODULE TrunkDevice ----------------------------
(***************************************************************************)
(* What a switch does with the lines that edit the allowed-VLAN list of    *)
(* one trunk port, as the comments of the interface parser state it        *)
(* (ios_parser.py 949-985 and 4615-4630): an absolute form replaces the    *)
(* list, `add` and `remove` edit the list the port has now, and the two    *)
(* withdrawals put back the list of a port nobody configured.              *)
(*                                                                         *)
(* This is the abstract specification of module TrunkVlan: a parser that   *)
(* never sees the port's current list must still describe these effects.   *)
(***************************************************************************)
CONSTANTS
    VlanIds,    \* the VLAN numbers (1..4094 in the code)
    ResetList   \* the list of a port whose configuration was withdrawn

VARIABLES
    allowed,    \* the list the port allows now
    last        \* the line executed last

Specs == (SUBSET VlanIds) \ {{}}

Line(form, spec) == [form |-> form, spec |-> spec]

NoLine == Line("start", {})

deviceVars == <<allowed, last>>

DeviceInit ==
    /\ allowed \in SUBSET VlanIds
    /\ last = NoLine

Replace(spec) ==
    /\ allowed' = spec
    /\ last' = Line("absolute", spec)

Add(spec) ==
    /\ allowed' = allowed \union spec
    /\ last' = Line("add", spec)

Remove(spec) ==
    /\ allowed' = allowed \ spec
    /\ last' = Line("remove", spec)

Withdraw ==
    /\ allowed' = ResetList
    /\ last' = Line("reset", {})

DeviceNext ==
    \/ \E spec \in SUBSET VlanIds : Replace(spec)
    \/ \E spec \in Specs : Add(spec) \/ Remove(spec)
    \/ Withdraw

DeviceSpec == DeviceInit /\ [][DeviceNext]_deviceVars
=============================================================================
