------------------------------ MODULE JunosTree ------------------------------
(***************************************************************************)
(* A JunOS configuration as the parser's extractors see it:                *)
(* parse_junos_config builds one canonical tree from either rendering of   *)
(* the configuration (braces, or set lines) and expand_apply_groups        *)
(* inherits the groups into it; unsupported_lines lists the statements the *)
(* tree cannot hold, for the parser to disclose.                           *)
(*                                                                         *)
(* The tree is a dict of dicts.  It is modelled as the set of the paths of *)
(* its nodes and, of any two keys of a node, which the dict got first: the *)
(* order its readers see them in.                                          *)
(***************************************************************************)
EXTENDS Naturals, Sequences, FiniteSets, SequencesExt, FiniteSetsExt

CONSTANTS
  Names,       \* the keys of configurations
  Matches,     \* angle-bracketed keys |-> the keys their pattern matches
  Documents    \* configurations explored

Controls == {"apply-groups", "apply-groups-except"}
Wildcards == DOMAIN Matches
BRACE_STATEMENT_TAGS == {"inactive:", "replace:"}
Path == Seq(Names)

\* A statement of a block, in the brace rendering; in the set rendering a line
\* of its own that repeats the path of the block.
\*   verb    "set" when it states a value; else the verb ("delete") of a set
\*           line or the tag ("inactive:") of a brace statement; "#" a comment
\*   block   the path of its block, <<>> at the outermost level
\*   keys    the alternatives its path ends in: several for a bracketed list
\*   braced  a quoted string or a comment on the line holds a brace
\*   closes  it is the last of its block
Statement ==
  [verb : {"set", "delete", "#"} \cup BRACE_STATEMENT_TAGS, block : Path, path : Path, keys : Path \ {<<>>},
   braced : BOOLEAN, closes : BOOLEAN]
Document == [idiom : {"set", "brace"}, lines : Seq(Statement)]

\* Lines n and m are of one block.
Together(lines, n, m) == lines[n].block = lines[m].block /\ \A k \in n..m-1 : ~lines[k].closes

ASSUME NamesAssumption ==
  /\ BRACE_STATEMENT_TAGS \intersect Names = {}
  /\ Wildcards \subseteq Names /\ \A w \in Wildcards : Matches[w] \subseteq Names
  /\ Wildcards \intersect (Controls \cup {"groups"}) = {}

\* `display set` prints no block and no comment; a block holds a statement.
ASSUME DocumentsAssumption ==
  \A d \in Documents :
    /\ d \in Document
    /\ \A n \in 1..Len(d.lines) :
         /\ d.idiom = "set" => d.lines[n].verb \notin BRACE_STATEMENT_TAGS /\ (d.lines[n].verb = "#" => ~d.lines[n].braced)
         /\ d.idiom = "brace" =>
              /\ d.lines[n].verb # "delete"
              /\ d.lines[n].closes \/ (n < Len(d.lines) /\ Together(d.lines, n, n + 1))
              /\ d.lines[n].closes => \E m \in 1..n : Together(d.lines, m, n) /\ d.lines[m].verb # "#"

VARIABLES
  document,
  phase,      \* "parse", "expand", "collect" or "done"
  read,       \* the number of statements parsed
  body,       \* the dict of the block being parsed
  parsed,     \* the tree before the groups are inherited (history)
  tree,       \* the tree
  pending,    \* levels with an apply-groups still to be visited
  inherits,   \* groups the visited level has yet to inherit
  calls,      \* the calls of _fill and its wildcard loops, innermost last
  disclosed   \* statements disclosed, by their numbers

vars == <<document, phase, read, body, parsed, tree, pending, inherits, calls, disclosed>>

-----------------------------------------------------------------------------
(* The tree *)

Empty == [nodes |-> {}, earlier |-> {}]
Has(t, p) == p = <<>> \/ p \in t.nodes
Keys(t, p) == {Last(q) : q \in {q \in t.nodes : Front(q) = p}}
Siblings(p, q) == Front(p) = Front(q)
NodesOn(p) == {SubSeq(p, 1, n) : n \in 1..Len(p)}

\* The first of some keys of a node.
First(t, p, keys) ==
  CHOOSE k \in keys : \A l \in keys \ {k} : <<Append(p, k), Append(p, l)>> \in t.earlier

\* What t lacks of u is added behind what it has.
_deep_merge(t, u) ==
  LET new == u.nodes \ t.nodes
  IN  [nodes |-> t.nodes \cup new,
       earlier |-> t.earlier \cup {o \in t.nodes \X new : Siblings(o[1], o[2])} \cup (u.earlier \intersect (new \X new))]

\* The tree of a path to another tree.
At(path, u) ==
  [nodes |-> NodesOn(path) \cup {path \o q : q \in u.nodes},
   earlier |-> {<<path \o o[1], path \o o[2]>> : o \in u.earlier}]

_merge_at_path(root, path, u) == _deep_merge(root, At(path, u))

\* The members of a list in their order, each at its first place.
Members(keys) ==
  LET Place(p) == Min({n \in 1..Len(keys) : <<keys[n]>> = p})
      nodes == {<<keys[n]>> : n \in 1..Len(keys)}
  IN  [nodes |-> nodes, earlier |-> {o \in nodes \X nodes : Place(o[1]) < Place(o[2])}]

-----------------------------------------------------------------------------
(* The two renderings *)

Lines == 1..Len(document.lines)
Line(n) == document.lines[n]

\* What _is_set_style counts in the first n statements: the lines of a verb,
\* and those with a brace, which a block has on the lines that open and close it.
SetLines(n) == {m \in 1..n : document.idiom = "set" /\ Line(m).verb \in {"set", "delete"}}
Opens(n) == n = 1 \/ Line(n - 1).closes
BraceLines(n) ==
  {o \in (1..n) \X {"opens", "text", "closes"} :
     \/ o[2] = "text" /\ Line(o[1]).braced
     \/ /\ document.idiom = "brace" /\ Line(o[1]).block # <<>>
        /\ (o[2] = "opens" /\ Opens(o[1])) \/ (o[2] = "closes" /\ Line(o[1]).closes)}

_is_set_style ==
  LET decided == {n \in Lines : Cardinality(SetLines(n)) >= 3 \/ Cardinality(BraceLines(n)) >= 3}
  IN  IF decided = {} THEN SetLines(Len(document.lines)) # {}
      ELSE Cardinality(SetLines(Min(decided))) >= 3

_classify_set_line(s) == CASE s.verb = "#" -> "skip" [] s.verb = "set" -> "set" [] OTHER -> "unsupported"

UnfoldedBrackets(s) ==    \* (mutant) the members of a list nested in each other
  At(s.path \o Front(s.keys), Members(<<Last(s.keys)>>))

_fold_brackets(s) == At(s.path, Members(s.keys))

\* A line of the other rendering is no set line; braces never closed are no tree.
_parse_set_style ==
  /\ phase = "parse" /\ read < Len(document.lines) /\ _is_set_style
  /\ read' = read + 1
  /\ LET s == Line(read')
     IN  tree' = IF document.idiom = "set" /\ _classify_set_line(s) = "set"
                 THEN _merge_at_path(tree, s.block, _fold_brackets(s)) ELSE tree
  /\ UNCHANGED <<document, phase, body, parsed, pending, inherits, calls, disclosed>>

\* A tag is a keyword to the brace parser: the statement is folded under it.
Keyword(s) == IF s.verb \in BRACE_STATEMENT_TAGS THEN <<s.verb>> ELSE <<>>

_parse_block ==
  /\ phase = "parse" /\ read < Len(document.lines) /\ ~_is_set_style
  /\ read' = read + 1
  /\ LET s == Line(read')
         child == IF s.verb = "#" \/ document.idiom = "set" THEN body
                  ELSE _merge_at_path(body, Keyword(s) \o s.path, Members(s.keys))
     IN  IF s.closes /\ document.idiom = "brace"
         THEN body' = Empty /\ tree' = _merge_at_path(tree, s.block, child)
         ELSE body' = child /\ UNCHANGED tree
  /\ UNCHANGED <<document, phase, parsed, pending, inherits, calls, disclosed>>

UnsupportedTags ==        \* (mutant) the tags are looked for in either rendering
  {n \in Lines : Line(n).verb \in BRACE_STATEMENT_TAGS}

unsupported_lines ==
  IF _is_set_style
  THEN {n \in Lines : document.idiom = "brace" \/ _classify_set_line(Line(n)) = "unsupported"}
  ELSE {n \in Lines : Line(n).verb \in BRACE_STATEMENT_TAGS}

-----------------------------------------------------------------------------
(* Groups *)

\* The key of a group's node that stands for a key of the configuration.
Standing(t, node, key) ==
  LET matching == {w \in Keys(t, node) \intersect Wildcards : key \in Matches[w]}
  IN  IF key \in Keys(t, node) THEN {key}
      ELSE IF matching # {} THEN {First(t, node, matching)} ELSE {}

\* The part of a group that sits at a path: none or one.
_descend(t, group, path) ==
  {r \in t.nodes \cup {<<"groups", group>>} :
     /\ Has(t, <<"groups", group>>) /\ Len(r) = Len(path) + 2 /\ IsPrefix(<<"groups", group>>, r)
     /\ \A n \in 1..Len(path) : r[n + 2] \in Standing(t, SubSeq(r, 1, n + 1), path[n])}

Subtree(t, src) ==
  LET below == {q \in t.nodes : IsPrefix(src, q) /\ q # src}
      Rest(q) == SubSeq(q, Len(src) + 1, Len(q))
  IN  [nodes |-> {Rest(q) : q \in below},
       earlier |-> {<<Rest(o[1]), Rest(o[2])>> : o \in t.earlier \intersect (below \X below)}]

Replaced(t, src, target) ==    \* (mutant) what is inherited comes first
  _deep_merge(At(target, Subtree(t, src)), t)

\* copy.deepcopy: the whole subtree, its wildcards and controls included.
Planted(t, src, target) == _merge_at_path(t, target, Subtree(t, src))

OptedOut(t, target, group) == group \in Keys(t, Append(target, "apply-groups-except"))

\* A call of _fill, which may return at once: the keys of src it is to visit.
Call(t, target, src, group) ==
  IF OptedOut(t, target, group) THEN <<>>
  ELSE <<[target |-> target, src |-> src, group |-> group, wildcard |-> FALSE, keys |-> Keys(t, src)]>>

\* The loop over the siblings that the wildcard src ends in matches.
WildcardLoop(t, target, src, group) ==
  <<[target |-> target, src |-> src, group |-> group, wildcard |-> TRUE, keys |-> Keys(t, target) \intersect Matches[Last(src)]]>>

\* The groups a level inherits.
Applied(t, level) ==
  Keys(t, Append(level, "apply-groups")) \ Keys(t, Append(level, "apply-groups-except"))

Levels(t) ==
  {p \in t.nodes \cup {<<>>} :
     /\ p # <<>> => p[1] # "groups"
     /\ \A i \in 1..Len(p) : p[i] \notin Controls
     /\ Keys(t, Append(p, "apply-groups")) # {}}

OutermostFirst(p) == \A q \in pending : IsPrefix(q, p) => q = p    \* (mutant) pre-order

\* Children before parents; levels side by side do not see each other.
InPostOrder(p) == \A q \in pending : IsPrefix(p, q) => q = p

-----------------------------------------------------------------------------
Init ==
  /\ \E d \in Documents : document = d
  /\ phase = "parse" /\ read = 0 /\ body = Empty /\ parsed = Empty /\ tree = Empty
  /\ pending = {} /\ inherits = {} /\ calls = <<>> /\ disclosed = {}

parse_junos_config ==
  /\ phase = "parse" /\ read = Len(document.lines) /\ phase' = "expand"
  /\ parsed' = tree
  /\ pending' = IF Keys(tree, <<"groups">>) = {} THEN {} ELSE Levels(tree)
  /\ UNCHANGED <<document, read, body, tree, inherits, calls, disclosed>>

\* `inherits` holds pairs of the level and a group it names.
_expand_node ==
  /\ phase = "expand" /\ inherits = {} /\ calls = <<>>
  /\ \E level \in pending :
       /\ InPostOrder(level)
       /\ pending' = pending \ {level}
       /\ inherits' = {level} \X Applied(tree, level)
  /\ UNCHANGED <<document, phase, read, body, parsed, tree, calls, disclosed>>

\* for name in names: the groups of a level in priority order.
InheritGroup ==
  /\ phase = "expand" /\ calls = <<>>
  /\ \E i \in inherits :
       /\ i[2] = First(tree, Append(i[1], "apply-groups"), {j[2] : j \in inherits})
       /\ inherits' = inherits \ {i}
       /\ calls' = IF _descend(tree, i[2], i[1]) = {} THEN <<>>
                   ELSE Call(tree, i[1], CHOOSE r \in _descend(tree, i[2], i[1]) : TRUE, i[2])
  /\ UNCHANGED <<document, phase, read, body, parsed, tree, pending, disclosed>>

\* One key of the innermost loop.
_fill ==
  /\ calls # <<>> /\ Last(calls).keys # {}
  /\ LET call == Last(calls)
         key == First(tree, IF call.wildcard THEN call.target ELSE call.src, call.keys)
         to == Append(call.target, key)
         from == IF call.wildcard THEN call.src ELSE Append(call.src, key)
         rest == Append(Front(calls), [call EXCEPT !.keys = @ \ {key}])
     IN  \/ /\ ~call.wildcard /\ key \in Controls
            /\ calls' = rest /\ UNCHANGED tree
         \/ /\ ~call.wildcard /\ key \in Wildcards
            /\ calls' = rest \o WildcardLoop(tree, call.target, from, call.group) /\ UNCHANGED tree
         \/ /\ call.wildcard \/ (key \notin Controls \cup Wildcards /\ Has(tree, to))
            /\ calls' = rest \o Call(tree, to, from, call.group) /\ UNCHANGED tree
         \/ /\ ~call.wildcard /\ key \notin Controls \cup Wildcards /\ ~Has(tree, to)
            /\ calls' = rest /\ tree' = Planted(tree, from, to)
  /\ UNCHANGED <<document, phase, read, body, parsed, pending, inherits, disclosed>>

ReturnFill ==
  /\ calls # <<>> /\ Last(calls).keys = {}
  /\ calls' = Front(calls)
  /\ UNCHANGED <<document, phase, read, body, parsed, tree, pending, inherits, disclosed>>

ReturnTree ==
  /\ phase = "expand" /\ pending = {} /\ inherits = {} /\ calls = <<>> /\ phase' = "collect"
  /\ UNCHANGED <<document, read, body, parsed, tree, pending, inherits, calls, disclosed>>

_collect_unrecognized_blocks ==
  /\ phase = "collect" /\ phase' = "done"
  /\ disclosed' = unsupported_lines
  /\ UNCHANGED <<document, read, body, parsed, tree, pending, inherits, calls>>

Next ==
  \/ _parse_set_style \/ _parse_block \/ parse_junos_config
  \/ _expand_node \/ InheritGroup \/ _fill \/ ReturnFill \/ ReturnTree
  \/ _collect_unrecognized_blocks

Spec == Init /\ [][Next]_vars

-----------------------------------------------------------------------------
(* Properties *)

\* Nodes have their parents; the keys of a node are in one order.
IsTree(t) ==
  /\ \A p \in t.nodes : p # <<>> /\ Has(t, Front(p))
  /\ \A o \in t.earlier : o \in t.nodes \X t.nodes /\ Siblings(o[1], o[2]) /\ <<o[2], o[1]>> \notin t.earlier
  /\ \A p, q \in t.nodes : Siblings(p, q) /\ p # q => <<p, q>> \in t.earlier \/ <<q, p>> \in t.earlier
  /\ \A o \in t.earlier, r \in t.nodes : <<o[2], r>> \in t.earlier => <<o[1], r>> \in t.earlier

TypeOK ==
  /\ phase \in {"parse", "expand", "collect", "done"} /\ read \in 0..Len(document.lines)
  /\ IsTree(parsed) /\ IsTree(tree) /\ IsTree(body)
  /\ \A p \in pending : Has(tree, p)
  /\ \A i \in inherits : Has(tree, i[1])
  /\ \A n \in 1..Len(calls) : Has(tree, calls[n].target) /\ Has(tree, calls[n].src)
  /\ disclosed \subseteq Lines

\* What statement n says is there, and when a node is said first.
Said(n) == At(Line(n).block \o Line(n).path, Members(Line(n).keys))
Saying(p) == Min({n \in Lines : Line(n).verb = "set" /\ p \in Said(n).nodes})

\* The tree that the statements of the document say, whatever its rendering.
Written ==
  LET nodes == UNION {Said(n).nodes : n \in {n \in Lines : Line(n).verb = "set"}}
  IN  [nodes |-> nodes,
       earlier |-> {o \in nodes \X nodes :
                      /\ Siblings(o[1], o[2])
                      /\ \/ Saying(o[1]) < Saying(o[2])
                         \/ Saying(o[1]) = Saying(o[2]) /\ o \in Said(Saying(o[1])).earlier}]

(***************************************************************************)
(* Both renderings of a configuration are one tree, keys in the same order:*)
(* that of its statements, as long as none carries a verb or a tag.        *)
(***************************************************************************)
RenderingsConverge ==
  phase # "parse" /\ (\A n \in Lines : Line(n).verb \in {"set", "#"}) => parsed = Written

\* A brace statement of any kind says that the block around it is there.
Stated(p) ==
  \E n \in Lines :
    \/ Line(n).verb = "set" /\ p \in Said(n).nodes
    \/ document.idiom = "brace" /\ p \in NodesOn(Line(n).block)

(***************************************************************************)
(* A statement that changes the configuration rather than states a value   *)
(* is disclosed and is never taken for the value it names; every other     *)
(* statement is in the tree and is not disclosed.                          *)
(***************************************************************************)
ChangesAreDisclosed ==
  phase = "done" =>
    \A n \in Lines :
      LET named == {Line(n).block \o Line(n).path \o <<k>> : k \in ToSet(Line(n).keys)}
      IN  CASE Line(n).verb = "#" -> n \notin disclosed
            [] Line(n).verb = "set" -> n \notin disclosed /\ named \subseteq parsed.nodes
            [] OTHER -> n \in disclosed /\ \A p \in named : Has(parsed, p) => Stated(p)

(***************************************************************************)
(* Rule 3: at every moment of the expansion, what was written locally is   *)
(* still there, in its order, before whatever was inherited: readers take  *)
(* a statement's first key for its value.                                  *)
(***************************************************************************)
LocalFirst ==
  phase # "parse" =>
    \A p \in parsed.nodes :
      /\ p \in tree.nodes
      /\ \A q \in tree.nodes : Siblings(p, q) /\ p # q =>
           (<<p, q>> \in tree.earlier <=> (q \in parsed.nodes => <<p, q>> \in parsed.earlier))

\* A group's path stands for a path of the configuration: key by key, a
\* wildcard for the nodes that were written locally.
Covers(r, p) ==
  /\ Len(r) = Len(p) + 2
  /\ \A i \in 1..Len(p) :
       r[i + 2] = p[i] \/ (r[i + 2] \in Wildcards /\ p[i] \in Matches[r[i + 2]] /\ Has(parsed, SubSeq(p, 1, i)))

\* The paths of group g that reach p, inherited at a level above it and not
\* suppressed on the way.
Reaching(p, level, g) ==
  IF IsPrefix(level, p) /\ g \in Applied(parsed, level)
     /\ \A n \in Len(level)..Len(p) : g \notin Keys(parsed, Append(SubSeq(p, 1, n), "apply-groups-except"))
  THEN {r \in parsed.nodes : IsPrefix(<<"groups", g>>, r) /\ Covers(r, p)}
  ELSE {}

Plain(p) == p # <<>> /\ p[1] # "groups" /\ \A i \in 1..Len(p) : p[i] \notin Controls \cup Wildcards

\* No wildcard matches a node that was inherited, no group names the same
\* node by name and by wildcard or contributes to a group or an exception: the
\* order of the groups is then all that counts.
Settled ==
  /\ \A w \in Wildcards, p \in tree.nodes :
       Last(p) \in Matches[w] /\ p[1] # "groups" /\ w \in UNION {ToSet(r) : r \in parsed.nodes} => Has(parsed, p)
  /\ \A r, s \in {r \in parsed.nodes : r[1] = "groups" /\ Len(r) > 2} : r # s /\ r[2] = s[2] =>
       ~\E p \in tree.nodes : Covers(r, p) /\ Covers(s, p)
  /\ \A p \in tree.nodes :
       p[1] = "groups" \/ (Len(p) > 1 /\ p[Len(p) - 1] = "apply-groups-except") => Has(parsed, p)

(***************************************************************************)
(* Rules 4 and 5: the configuration that comes out is what was written     *)
(* together with all that its groups contribute, except where suppressed.  *)
(***************************************************************************)
SetsMerge ==
  phase = "done" /\ Settled =>
    \A p \in tree.nodes \cup {SubSeq(r, 3, Len(r)) : r \in {r \in parsed.nodes : r[1] = "groups"}} :
      Plain(p) =>
        (Has(tree, p) <=> \/ Has(parsed, p)
                          \/ \E level \in Levels(parsed) : \E g \in Applied(parsed, level) :
                               Reaching(p, level, g) # {})

\* (level, g) reaches p before (other, h) does.
Before(level, g, other, h) ==
  \/ Len(level) > Len(other)
  \/ level = other /\ <<level \o <<"apply-groups", g>>, level \o <<"apply-groups", h>>>> \in parsed.earlier

\* What a statement may have for its value: a planted subtree brings the
\* wildcards and the controls of its group with it.
Values(t, p) == Keys(t, p) \ (Wildcards \cup Controls)

(***************************************************************************)
(* Rules 1, 2 and 3: the value of a statement is the local one; failing    *)
(* that the innermost level's, and there the group named first.            *)
(***************************************************************************)
ValueByPrecedence ==
  phase = "done" /\ Settled =>
    \A p \in tree.nodes : Plain(p) /\ Values(parsed, p) = {} =>
      \A level \in Levels(parsed) : \A g \in Applied(parsed, level) : \A r \in Reaching(p, level, g) :
        /\ Values(parsed, r) # {}
        /\ \A other \in Levels(parsed) : \A h \in Applied(parsed, other) :
             Before(other, h, level, g) => \A s \in Reaching(p, other, h) : Values(parsed, s) = {}
        => First(tree, p, Values(tree, p)) = First(parsed, r, Values(parsed, r))

(***************************************************************************)
(* "A wildcard matches existing nodes only -- it never creates one."       *)
(***************************************************************************)
WildcardNeverCreates ==
  \A p \in tree.nodes : Last(p) \in Wildcards /\ p[1] # "groups" => Has(parsed, p)
=============================================================================
