-------------------------- MODULE ServiceEntities --------------------------
(***************************************************************************)
(* The service entities of an IOS-family change script -- IP SLA           *)
(* operations, object tracks and EEM applets, banners -- from the lines of *)
(* the script to the change operations (_native_service_entity_ops) and to *)
(* the legacy deletion strings (encode_legacy_shim).                       *)
(*                                                                         *)
(* A script may define, edit, remove and re-define an entity in any order. *)
(* The parser reads it in separate scans that do not see each other: one   *)
(* per kind for the definitions, one for `ip sla schedule`, one for the    *)
(* reactions, one for the removals.  Order is recovered from line numbers. *)
(* Every prefix of a script is a script, so the state after each line is   *)
(* the result of parsing the lines read so far.                            *)
(***************************************************************************)
EXTENDS Integers

CONSTANTS
    Slas,       \* IP SLA numbers
    Blocks,     \* object-track numbers and EEM applet names
    Banners,    \* banner types
    Facts,      \* what a line can say of an entity
    Schedules,  \* those of `ip sla schedule`
    MaxLines    \* bound on the lines of the script

Entities == Slas \union Blocks \union Banners

ASSUME ServiceAssumption ==
    /\ Slas \intersect Blocks = {}
    /\ Slas \intersect Banners = {}
    /\ Blocks \intersect Banners = {}
    /\ Schedules \subseteq Facts
    /\ MaxLines \in Nat

NoLine == -1

VARIABLES
    baseline,     \* what the device says of each entity before the script
    device,       \* and after the lines read so far; {} is an absent entity
    line,         \* number of the line read last
    operations,   \* parse_ip_sla: the last `ip sla <id>` block of each id
    schedules,    \* its schedule scan: the last one of each id
    schedule_line,\* and the line of the first
    reactions,    \* its reaction scan: all of each id
    objects,      \* parse_object_tracks, parse_eem: every block
    banner_text,  \* parse_banners: the first text of each type
    banner_line,  \* the last `banner <type>` line
    entity_ops    \* _pending_native_entity_ops: the removals queued

parserVars == <<operations, schedules, schedule_line, reactions, objects,
                banner_text, banner_line, entity_ops>>
vars == <<baseline, device, line, parserVars>>

Op(verb, entity, value, number) ==
    [verb |-> verb, entity |-> entity, value |-> value, line |-> number]

Ops == [verb : {"SET", "DELETE"}, entity : Entities, value : SUBSET Facts,
        line : 1..MaxLines]

-----------------------------------------------------------------------------
(* _native_service_entity_ops: the operations of the lines read so far.    *)

(* Where the operation of an id stands: at its last block, else at the     *)
(* first schedule, which makes one of type "unknown".                      *)
SlaLine(e) ==
    IF operations[e].line # NoLine THEN operations[e].line ELSE schedule_line[e]

(* Schedules and reactions are scanned after the blocks and attached to    *)
(* whatever operation the id has by then, wherever they stand.             *)
SlaOps ==
    {Op("SET", e, operations[e].value \union schedules[e] \union reactions[e],
        SlaLine(e)) : e \in {s \in Slas : SlaLine(s) # NoLine}}

BannerOps ==
    {Op("SET", e, banner_text[e], banner_line[e]) :
        e \in {b \in Banners : banner_text[b] # {}}}

native_ops == SlaOps \union objects \union BannerOps \union entity_ops

(* encode_legacy after _shim_suppress_readded_service_deletes: a removal   *)
(* leaves a deletion string unless a later line defines the entity again.  *)
(* The lines of a block lie on one side of every removal, so its first     *)
(* stands for all of them.                                                 *)
AllRemovals == {op.entity : op \in entity_ops}  \* mutant of no_commands: never suppressed

no_commands ==
    {op.entity : op \in
        {del \in native_ops :
            /\ del.verb = "DELETE"
            /\ \A set \in native_ops :
                  (set.verb = "SET" /\ set.entity = del.entity)
                      => ~(set.line > del.line)}}

set_fields == {op.entity : op \in {set \in native_ops : set.verb = "SET"}}

-----------------------------------------------------------------------------
(* The consumer of the operations applies them in line order: a SET of a   *)
(* track or an applet keeps what the entity had, one of an SLA operation   *)
(* or of a banner replaces it (service_entity_list_fields).                *)

Merges(e) == e \in Blocks

Keeps(op) == op.verb = "SET" /\ Merges(op.entity)

Replay(ops, base, e) ==
    {f \in Facts :
        \/ f \in base[e] /\ \A op \in ops : op.entity = e => Keeps(op)
        \/ \E op \in ops :
              /\ op.entity = e /\ op.verb = "SET" /\ f \in op.value
              /\ \A other \in ops :
                    (other.entity = e /\ other.line > op.line) => Keeps(other)}

(* The consumer of the legacy vocabulary: additive pass, then deletions.   *)
LegacyPresent(e) ==
    (baseline[e] # {} \/ e \in set_fields) /\ e \notin no_commands

-----------------------------------------------------------------------------
Init ==
    /\ baseline \in [Entities -> {{}} \union {{f} : f \in Facts \ Schedules}]
    /\ device = baseline
    /\ line = 0
    /\ operations = [e \in Slas |-> [value |-> {}, line |-> NoLine]]
    /\ schedules = [e \in Slas |-> {}]
    /\ schedule_line = [e \in Slas |-> NoLine]
    /\ reactions = [e \in Slas |-> {}]
    /\ objects = {}
    /\ banner_text = [e \in Banners |-> {}]
    /\ banner_line = [e \in Banners |-> NoLine]
    /\ entity_ops = {}

NextLine ==
    /\ line < MaxLines
    /\ line' = line + 1
    /\ UNCHANGED baseline

(* Mutant of DefineSla: the first block of an id is kept.                  *)
DefineSlaKeepsFirst(e, fact) ==
    /\ NextLine
    /\ device[e] = {}
    /\ device' = [device EXCEPT ![e] = {fact}]
    /\ operations' = [operations EXCEPT ![e] =
          IF @.line = NoLine THEN [value |-> {fact}, line |-> line'] ELSE @]
    /\ UNCHANGED <<schedules, schedule_line, reactions, objects, banner_text,
                   banner_line, entity_ops>>

(* `ip sla <id>`: the dictionary keeps the last block.  The device refuses *)
(* to modify an operation in place, so a script restates one only after    *)
(* `no ip sla <id>` (change_ir.py 822-825).                                *)
DefineSla(e, fact) ==
    /\ NextLine
    /\ device[e] = {}
    /\ device' = [device EXCEPT ![e] = {fact}]
    /\ operations' = [operations EXCEPT ![e] = [value |-> {fact}, line |-> line']]
    /\ UNCHANGED <<schedules, schedule_line, reactions, objects, banner_text,
                   banner_line, entity_ops>>

(* `ip sla schedule <id>` of an operation the device has, whether this     *)
(* script or the baseline defined it.                                      *)
ScheduleSla(e, fact) ==
    /\ NextLine
    /\ device[e] # {}
    /\ device' = [device EXCEPT ![e] = (@ \ Schedules) \union {fact}]
    /\ schedules' = [schedules EXCEPT ![e] = {fact}]
    /\ schedule_line' = [schedule_line EXCEPT ![e] = IF @ = NoLine THEN line' ELSE @]
    /\ UNCHANGED <<operations, reactions, objects, banner_text, banner_line,
                   entity_ops>>

(* `ip sla reaction-configuration <id>`; it is dropped when the id ends up *)
(* without an operation.                                                   *)
ReactSla(e, fact) ==
    /\ NextLine
    /\ device[e] # {}
    /\ device' = [device EXCEPT ![e] = @ \union {fact}]
    /\ reactions' = [reactions EXCEPT ![e] = @ \union {fact}]
    /\ UNCHANGED <<operations, schedules, schedule_line, objects, banner_text,
                   banner_line, entity_ops>>

(* Mutants of DefineBlock: a dictionary by id, where the code has a list;  *)
(* and line numbers that count from zero.                                  *)
DefineBlockOnce(e, fact) ==
    /\ NextLine
    /\ device' = [device EXCEPT ![e] = @ \union {fact}]
    /\ objects' = {op \in objects : op.entity # e}
                     \union {Op("SET", e, {fact}, line')}
    /\ UNCHANGED <<operations, schedules, schedule_line, reactions, banner_text,
                   banner_line, entity_ops>>

DefineBlockFromZero(e, fact) ==
    /\ NextLine
    /\ device' = [device EXCEPT ![e] = @ \union {fact}]
    /\ objects' = objects \union {Op("SET", e, {fact}, line)}
    /\ UNCHANGED <<operations, schedules, schedule_line, reactions, banner_text,
                   banner_line, entity_ops>>

(* `track <id> ...` or `event manager applet <name>`: one object per block.*)
DefineBlock(e, fact) ==
    /\ NextLine
    /\ device' = [device EXCEPT ![e] = @ \union {fact}]
    /\ objects' = objects \union {Op("SET", e, {fact}, line')}
    /\ UNCHANGED <<operations, schedules, schedule_line, reactions, banner_text,
                   banner_line, entity_ops>>

(* `banner <type> ...`: re.search finds the first text, the position is    *)
(* that of the last line.                                                  *)
DefineBanner(e, fact) ==
    /\ NextLine
    /\ device' = [device EXCEPT ![e] = {fact}]
    /\ banner_text' = [banner_text EXCEPT ![e] = IF @ = {} THEN {fact} ELSE @]
    /\ banner_line' = [banner_line EXCEPT ![e] = line']
    /\ UNCHANGED <<operations, schedules, schedule_line, reactions, objects,
                   entity_ops>>

(* `no ip sla <id>`, `no track <id>`, `no event manager applet <name>` and *)
(* `no banner <type>`: queued whatever the script says later.              *)
Remove(e) ==
    /\ NextLine
    /\ device' = [device EXCEPT ![e] = {}]
    /\ entity_ops' = entity_ops \union {Op("DELETE", e, {}, line')}
    /\ UNCHANGED <<operations, schedules, schedule_line, reactions, objects,
                   banner_text, banner_line>>

Next ==
    \/ \E e \in Slas :
          \/ \E fact \in Facts \ Schedules : DefineSla(e, fact) \/ ReactSla(e, fact)
          \/ \E fact \in Schedules : ScheduleSla(e, fact)
    \/ \E e \in Blocks, fact \in Facts : DefineBlock(e, fact)
    \/ \E e \in Banners, fact \in Facts : DefineBanner(e, fact)
    \/ \E e \in Entities : Remove(e)

Spec == Init /\ [][Next]_vars

-----------------------------------------------------------------------------
TypeOK ==
    /\ baseline \in [Entities -> SUBSET Facts]
    /\ device \in [Entities -> SUBSET Facts]
    /\ line \in Nat
    /\ operations \in [Slas -> [value : SUBSET Facts, line : Int]]
    /\ schedules \in [Slas -> SUBSET Facts]
    /\ schedule_line \in [Slas -> Int]
    /\ reactions \in [Slas -> SUBSET Facts]
    /\ objects \subseteq Ops
    /\ banner_text \in [Banners -> SUBSET Facts]
    /\ banner_line \in [Banners -> Int]
    /\ entity_ops \subseteq Ops

(* Replaying the operations in line order leaves an entity present exactly *)
(* when the device has it after the script: no order of definitions and    *)
(* removals, which four scans collect separately, resurrects a removed     *)
(* entity or loses a re-created one.                                       *)
ReplayedPresence ==
    \A e \in Entities :
        Replay(native_ops, baseline, e) = {} <=> device[e] = {}

(* A track or an applet has, after the replay, exactly the attributes the  *)
(* device gives it, those of the baseline included when nothing removed    *)
(* them.                                                                   *)
ReplayedBlocks ==
    \A e \in Blocks : Replay(native_ops, baseline, e) = device[e]

(* The legacy consumer, which deletes after adding and knows no order, has *)
(* the same entities as the device, because the shim keeps the deletion    *)
(* string of a removal only when no later line defines the entity again    *)
(* (change_ir.py 3485-3505).                                               *)
LegacyMergeAgrees ==
    \A e \in Entities : LegacyPresent(e) <=> device[e] # {}

(* The script removes the entity somewhere.                                *)
Removed(e) == \E op \in entity_ops : op.entity = e

(* The docstring of _native_service_entity_ops (ios_parser.py 4515-4519):  *)
(* delete-then-recreate and create-then-delete are different and correct   *)
(* operation sequences.  For banners: the replay leaves the text the       *)
(* device has.                                                             *)
ReplayedBanners ==
    \A e \in Banners : Removed(e) => Replay(native_ops, baseline, e) = device[e]

(* And for IP SLA operations: what was attached before the removal is not  *)
(* attached to the re-created operation.                                   *)
ReplayedSlas ==
    \A e \in Slas : Removed(e) => Replay(native_ops, baseline, e) = device[e]
=============================================================================
