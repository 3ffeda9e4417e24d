--------------------------- MODULE MCIgpInstance ---------------------------
\* Scripts of one process: a block of up to three lines on one or two kinds,
\* or two blocks of up to two lines, with every sense, value and spelling.
EXTENDS IgpInstance

Header == [kind |-> "header", no |-> FALSE, key |-> CHOOSE k \in Keys : TRUE,
           as |-> CHOOSE s \in Spellings : TRUE, val |-> Absent]

LinesOf(kind) ==
  LET vals == IF kind \in Valued THEN Values ELSE {On}
      spellings == IF kind \in AreaKinds THEN Spellings ELSE {CHOOSE s \in Spellings : TRUE}
      keys == IF kind \in Valued \cup {"default_information", "log_adjacency"} THEN {CHOOSE k \in Keys : TRUE} ELSE Keys
  IN  [kind : {kind}, no : {FALSE}, key : keys, as : spellings, val : vals]
      \cup [kind : {kind}, no : {TRUE}, key : keys, as : spellings, val : {Absent}]

SeqsOf(S, n) == UNION {[1..m -> S] : m \in 0..n}

OneKind(p) ==
  UNION {{<<Header>> \o s : s \in SeqsOf(LinesOf(k), 3)} : k \in KindsOf(p)}
    \cup UNION {{<<Header>> \o s \o <<Header>> \o t : s \in SeqsOf(LinesOf(k), 2), t \in SeqsOf(LinesOf(k), 1)}
                : k \in KindsOf(p)}

TwoKinds(p) ==
  UNION {{<<Header, l, m, n>> : l \in LinesOf(k), m \in LinesOf(j), n \in LinesOf(k)}
         : <<k, j>> \in KindsOf(p) \X (KindsOf(p) \ {"virtual_link"})}

MCScripts == UNION {{p} \X (OneKind(p) \cup TwoKinds(p)) : p \in Protocols}

TwoSpellings == {<<"ospf", s>> : s \in OneKind("ospf")}
=============================================================================
