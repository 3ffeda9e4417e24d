---------------------------- MODULE ParsePipeline ----------------------------
(***************************************************************************)
(* BaseParser.parse: the host name, the steps of _PARSE_STEPS in order and *)
(* fail-fast, the back-fill walks (BackFill), the attachment of the native *)
(* operations, and last the collection of everything nobody read.          *)
(*                                                                         *)
(* A line is what the collector's registries and the walks tell apart.     *)
(* `by` says how the line is consumed, by the walk of step `step`:         *)
(*   "value"    a step puts it in a model object                           *)
(*   "queue"    a step queues an operation with the line's number          *)
(*   "ledger"   a step consumes it without an operation and claims it      *)
(*   "derived"  an attachment walk detects it and emits an operation       *)
(*   "nobody"   no walk matches it                                         *)
(* `fails` holds when the walk that reads it raises.                       *)
(***************************************************************************)
EXTENDS BackFill

CONSTANTS
  Steps,      \* number of entries of _PARSE_STEPS; parse_deletion_commands is the last
  Inputs      \* pairs of a configuration's lines and the document its steps produce

Line == [depth : {"top", "child", "below"}, no : BOOLEAN,
         by : {"value", "queue", "ledger", "derived", "nobody"},
         step : 0..Steps, fails : BOOLEAN,
         known : BOOLEAN,       \* top: matches _KNOWN_TOP_LEVEL_PATTERNS
         registered : BOOLEAN,  \* top: has an entry in _KNOWN_CHILD_PATTERNS
         listed : BOOLEAN,      \* child: matches a known child pattern
         benign : BOOLEAN]      \* negation: matches _KNOWN_BENIGN_NEGATIONS

ASSUME StepsAssumption == Steps \in Nat \ {0}
\* The first line of a text is under no other.
ASSUME InputsAssumption ==
  /\ Inputs \subseteq Seq(Line) \X Document
  /\ \A input \in Inputs : input[1] # <<>> => input[1][1].depth = "top"

VARIABLES
  lines,      \* config_lines
  at,         \* the step under way; 0 is the host name, before the loop
  outcome,    \* "running", "attached", "returned" or "ParseError"
  ledger,     \* _claimed_negation_lines
  queues,     \* line numbers of the operations in the _pending_native_* queues
  attached,   \* line numbers of ParsedConfig.native_change_ops
  disclosed   \* line numbers of ParsedConfig.unrecognized_blocks

parseVars == <<lines, at, outcome, ledger, queues, attached, disclosed>>
vars == <<parseVars, fillVars>>

Numbers == 1..Len(lines)
ReadAt(s, by) == {n \in Numbers : lines[n].step = s /\ lines[n].by = by}
Fails(s) == \E n \in Numbers : lines[n].step = s /\ lines[n].by \in {"value", "queue", "ledger"} /\ lines[n].fails

-----------------------------------------------------------------------------
Init ==
  /\ \E input \in Inputs : lines = input[1] /\ document = input[2]
  /\ FillInit
  /\ at = 0 /\ outcome = "running"
  /\ ledger = {} /\ queues = {} /\ attached = {} /\ disclosed = {}

RaiseNothing ==          \* (mutant) the exception is caught and the step tried again
  outcome = "running" /\ at <= Steps /\ Fails(at) /\ UNCHANGED vars

\* A step, or the host name: any exception becomes a ParseError, and the
\* results of the steps before it are dropped with the stack frame.
RaiseParseError ==
  /\ outcome = "running" /\ at <= Steps /\ Fails(at)
  /\ outcome' = "ParseError"
  /\ UNCHANGED <<lines, at, ledger, queues, attached, disclosed, fillVars>>

ParseStep ==
  /\ outcome = "running" /\ at <= Steps /\ ~Fails(at)
  /\ at' = at + 1
  /\ ledger' = ledger \cup ReadAt(at, "ledger")
  /\ queues' = queues \cup ReadAt(at, "queue")
  /\ UNCHANGED <<lines, outcome, attached, disclosed, fillVars>>

Fill == outcome = "running" /\ at > Steps /\ FillNext /\ UNCHANGED parseVars

\* _attach_native_change_ops runs after every walk: its values are final.
\* (Operations of positive lines are left out: only `no` lines consult them.)
AttachOps ==
  /\ outcome = "running" /\ at > Steps /\ FillDone
  /\ outcome' = "attached"
  /\ attached' = queues \cup {n \in Numbers : lines[n].by = "derived"}
  /\ UNCHANGED <<lines, at, ledger, queues, disclosed, fillVars>>

-----------------------------------------------------------------------------
Header(n) == CHOOSE h \in 1..n : lines[h].depth = "top" /\ \A m \in h+1..n : lines[m].depth # "top"

\* Nested under a block that some step claims.
Claimed(n) == lines[n].depth # "top" /\ lines[Header(n)].known

ClaimsOfQueues == ledger \cup queues     \* (mutant) the attached stream not scanned

_claimed_negation_line_set == ledger \cup queues \cup attached

UnrecognizedBlocks == {n \in Numbers : lines[n].depth = "top" /\ ~lines[n].known}

UnrecognizedChildLines ==
  {n \in Numbers : /\ Claimed(n) /\ lines[n].depth = "child" /\ lines[Header(n)].registered
                   /\ ~lines[n].no /\ ~lines[n].listed}

NegationsOfRegistered ==  \* (mutant) gated on the child registry, as the positive walk is
  {n \in Numbers : /\ Claimed(n) /\ lines[n].no /\ lines[Header(n)].registered
                   /\ n \notin _claimed_negation_line_set /\ ~lines[n].benign}

UndisclosedNegations ==
  {n \in Numbers : /\ Claimed(n) /\ lines[n].no
                   /\ n \notin _claimed_negation_line_set /\ ~lines[n].benign}

CollectUnrecognized ==
  /\ outcome = "attached"
  /\ outcome' = "returned"
  /\ disclosed' = UnrecognizedBlocks \cup UnrecognizedChildLines \cup UndisclosedNegations
  /\ UNCHANGED <<lines, at, ledger, queues, attached, fillVars>>

Next == RaiseParseError \/ ParseStep \/ Fill \/ AttachOps \/ CollectUnrecognized
Spec == Init /\ [][Next]_vars /\ WF_vars(Next)

-----------------------------------------------------------------------------
TypeOK ==
  /\ FillTypeOK /\ <<lines, document>> \in Seq(Line) \X Document
  /\ at \in 0..Steps + 1
  /\ outcome \in {"running", "attached", "returned", "ParseError"}
  /\ ledger \subseteq Numbers /\ queues \subseteq Numbers
  /\ attached \subseteq Numbers /\ disclosed \subseteq Numbers

Consumed(n) == lines[n].by # "nobody"

(***************************************************************************)
(* A returned ParsedConfig is complete: every line a step reads was read   *)
(* without an exception, and the steps and the walks ran to their end; a   *)
(* parse that fails hands out neither operations nor disclosures.          *)
(***************************************************************************)
CompleteOrNothing ==
  /\ outcome = "returned" =>
       FillDone /\ \A n \in Numbers : lines[n].by \in {"value", "queue", "ledger"} => ~lines[n].fails
  /\ outcome = "ParseError" => attached = {} /\ disclosed = {}

(***************************************************************************)
(* Fail-closed disclosure: a nested `no` line of a claimed block that no   *)
(* walk consumed and no registry calls benign is disclosed, at any depth   *)
(* and whether or not the block has a child registry; every line of an     *)
(* unclaimed block is, with its header.                                    *)
(***************************************************************************)
NoNegationVanishes == outcome = "returned" =>
  \A n \in Numbers :
    /\ Claimed(n) /\ lines[n].no /\ ~Consumed(n) /\ ~lines[n].benign => n \in disclosed
    /\ lines[n].depth # "top" /\ ~lines[Header(n)].known => Header(n) \in disclosed

(***************************************************************************)
(* No false alarm: a nested negation that some walk consumed, with or      *)
(* without an operation and at whatever point of parse(), is not disclosed *)
(* (this needs the collection to be last and the whole claim set).         *)
(***************************************************************************)
ConsumedIsNotFlagged ==
  \A n \in Numbers : Claimed(n) /\ lines[n].no /\ lines[n].by \in {"queue", "ledger", "derived"} => n \notin disclosed

(***************************************************************************)
(* parse() ends, in a configuration or in a ParseError: no walk of it      *)
(* waits.  Fairness is that of a function the interpreter is running.      *)
(***************************************************************************)
ParseEnds == <>(outcome \in {"returned", "ParseError"})
=============================================================================
