---------------------------- MODULE MCJunosTree ----------------------------
(* Two groups over two interfaces, one of them never written locally, in   *)
(* both renderings; inheritance at the outermost level and at interfaces.  *)
EXTENDS JunosTree

Groups == {"g1", "g2"}
Local0 == {"ge", "xe", "mtu", "1", "2", "3"}
MCNames == Groups \cup Local0 \cup Controls \cup {"groups", "if", "unit", "<ge*>", "<*>", "a", "b", "x", "y", "p"}

MCMatches == [w \in {"<ge*>", "<*>"} |-> IF w = "<ge*>" THEN {"ge"} ELSE Local0 \cup Controls]

Says(verb, names) == [verb |-> verb, path |-> Front(names), keys |-> <<Last(names)>>, braced |-> FALSE]
Set(names) == Says("set", names)
Block(names, body_) == [path |-> names, body |-> body_]
ApplyGroups(groups) == [verb |-> "set", path |-> <<"apply-groups">>, keys |-> groups, braced |-> FALSE]

\* The statements of a block, each with the path and the end of the block.
BlockLines(b) ==
  [i \in 1..Len(b.body) |->
     [verb |-> b.body[i].verb, block |-> b.path, path |-> b.body[i].path, keys |-> b.body[i].keys,
      braced |-> b.body[i].braced, closes |-> i = Len(b.body)]]

\* A device prints no block without statements.
Doc(idiom, blocks) ==
  LET printed == SelectSeq(blocks, LAMBDA b : \E s \in ToSet(b.body) : s.verb # "#")
  IN  [idiom |-> idiom, lines |-> FlattenSeq([i \in 1..Len(printed) |-> BlockLines(printed[i])])]

\* Statements below interfaces, of the configuration and of the groups.
Local == {<<>>, <<Set(<<"ge", "mtu", "1">>)>>, <<Set(<<"xe">>), Set(<<"ge", "unit">>)>>}
Except == {<<>>, <<Set(<<"ge", "apply-groups-except", "g1">>)>>, <<Set(<<"apply-groups-except", "g2">>)>>}
Contents == {<<Set(<<"ge", "mtu", "2">>)>>, <<Set(<<"ge", "mtu", "3">>), Set(<<"xe", "mtu", "3">>)>>,
             <<Set(<<"<ge*>", "mtu", "2">>)>>, <<Set(<<"apply-groups", "g1">>), Set(<<"ge", "mtu", "2">>)>>}
Order == {<<>>, <<ApplyGroups(<<"g1", "g2">>)>>, <<ApplyGroups(<<"g2", "g1">>)>>}
Nested == {<<>>, <<ApplyGroups(<<"g2">>)>>}

Grouped(contents, local) ==
  {Doc(i, <<Block(<<"groups", "g1", "if">>, c), Block(<<"groups", "g2", "if">>, d),
            Block(<<>>, o), Block(<<"if">>, l \o e \o n)>>) :
     i \in {"brace"}, c \in contents, d \in contents, o \in Order, l \in local, e \in Except, n \in Nested}

\* Without the literal wildcard of the finding: interfaces exist already.
Existing == Grouped(Contents, Local \ {<<>>})

\* Wildcards in a group, and no interface written locally.
Absent == Grouped(Contents, {<<>>})

\* Renderings, verbs and tags, and lines that hold braces.
Texts == {Set(<<"a", "x">>), Set(<<"a", "y">>), Set(<<"b">>), Says("#", <<"a">>),
          [verb |-> "set", path |-> <<"a">>, keys |-> <<"x", "y">>, braced |-> FALSE],
          [verb |-> "set", path |-> <<"b">>, keys |-> <<"x">>, braced |-> TRUE]}
Changes(idiom) == Texts \cup {Says(IF idiom = "set" THEN "delete" ELSE "inactive:", <<"a", "y">>)}
Rendered ==
  UNION {{Doc(i, <<Block(<<"p">>, <<s, t>>), Block(<<>>, <<u>>), Block(<<"p">>, <<v>>)>>) :
            s \in Changes(i), t \in Changes(i), u \in Changes(i), v \in Changes(i)} : i \in {"set", "brace"}}
  \cup {Doc("set", <<Block(<<"p">>, <<s>>)>>) : s \in Changes("set")}

MCDocuments == Existing \cup Rendered
=============================================================================
