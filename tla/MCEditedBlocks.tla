--------------------------- MODULE MCEditedBlocks ---------------------------
\* One or two blocks of an object, deleted between or not, with up to four
\* lines of one kind, or of two kinds of a family, in every order and sense.
EXTENDS EditedBlocks

SeqsOf(S, n) == UNION {[1..m -> S] : m \in 0..n}

Header == [kind |-> "block", no |-> FALSE, key |-> One, val |-> On, as |-> TRUE]
Deletion == [Header EXCEPT !.no = TRUE, !.val = Absent]

Positives(kind) ==
  [kind : {kind}, no : {FALSE}, key : KeysOf(kind), val : ValuesOf(kind),
   as : IF kind \in Resettable THEN BOOLEAN ELSE {TRUE}]

LinesOfKind(kind) ==
  Positives(kind) \cup [kind : {kind}, no : {TRUE}, key : Operands(kind), val : {Absent}, as : {TRUE}]

\* Routes and sections have no header; a section may be nulled out.
Bare(f) == f \in {"static", "section", "toggles"}
Opened(f, s) == IF Bare(f) THEN s ELSE <<Header>> \o s

OneKind(f, k) ==
  LET L == LinesOfKind(k)
  IN  {Opened(f, s) : s \in SeqsOf(L, 3)}
        \cup (IF f \in {"static", "toggles"} THEN {}
              ELSE {Opened(f, s) \o d \o Opened(f, t) : s \in SeqsOf(L, 2), t \in SeqsOf(L, 1), d \in {<<>>, <<Deletion>>}}
                     \cup {<<Deletion>> \o Opened(f, s) \o <<Deletion>> : s \in SeqsOf(L, 1)})

TwoKinds(f) ==
  UNION {{Opened(f, <<l, m>>) \o d \o Opened(f, <<n>>) : l \in LinesOfKind(k), m \in LinesOfKind(j), n \in LinesOfKind(k),
                                                        d \in {<<>>, <<Deletion>>}}
         : <<k, j>> \in {p \in KindsOf(f) \X KindsOf(f) : p[1] # p[2]}}

Empty == {<<Header>>, <<Deletion>>, <<Header, Deletion>>, <<Deletion, Header>>, <<Header, Deletion, Header>>}

ScriptsOf(f) ==
  UNION {OneKind(f, k) : k \in KindsOf(f)}
    \cup (IF f \in {"interface", "vrf"} THEN TwoKinds(f) ELSE {})
    \cup (IF Bare(f) THEN {} ELSE Empty)

MCScripts == UNION {{f} \X ScriptsOf(f) : f \in Families}
MCResets == {"interface"} \X UNION {OneKind("interface", k) : k \in Resettable}
=============================================================================
