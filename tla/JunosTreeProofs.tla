-------------------------- MODULE JunosTreeProofs --------------------------
(***************************************************************************)
(* Proofs about module JunosTree, for every document over any names.       *)
(*                                                                         *)
(* First, that merging, planting and putting at a path make trees of trees *)
(* and move nothing that is there: with the type invariant this gives      *)
(* LocalFirst.  Then what a set of statements becomes when each is merged  *)
(* behind the ones before it (Woven).  A block that is woven by itself and *)
(* then put at its path is the same as its statements put there one by     *)
(* one, so that both parsers weave the statements of the document          *)
(* (ParseInv): RenderingsConverge.  Last, that the count of lines tells    *)
(* the rendering of a document, so that the scan for what is to be         *)
(* disclosed reads each line as the parser did: ChangesAreDisclosed.       *)
(*                                                                         *)
(* The second half is about the inheritance of groups.  Whatever comes     *)
(* first for a statement has, once its turn has come, given it its value   *)
(* or a call of _fill still owes it (PrecedenceInv): ValueByPrecedence.    *)
(***************************************************************************)
EXTENDS JunosTree, FiniteSetTheorems, SequenceTheorems, WellFoundedInduction, TLAPS

(* Every non-empty set of natural numbers has a least element.             *)
LEMMA LeastElement ==
  ASSUME NEW S \in SUBSET Nat, S # {}
  PROVE  \E n \in S : \A m \in S : n <= m
<1> DEFINE Less == {ss \in Nat \X Nat : ss[1] < ss[2]}
<1>1. IsWellFoundedOn(Less, Nat)
  BY NatLessThanWellFounded DEF OpToRel
<1> HIDE DEF Less
<1>2. PICK n \in S : \A m \in S : ~(<<m, n>> \in Less)
  BY <1>1, WFMin
<1>3. \A m \in S : ~(m < n)
  BY <1>2 DEF Less
<1> QED BY <1>3

LEMMA MinIsLeast ==
  ASSUME NEW S \in SUBSET Nat, S # {}
  PROVE  Min(S) \in S /\ \A n \in S : Min(S) <= n
<1>1. \E n \in S : \A m \in S : n <= m
  BY LeastElement
<1> QED BY <1>1 DEF Min

(* What decides the least element of a set.                                *)
LEMMA MinIs ==
  ASSUME NEW S \in SUBSET Nat, NEW n \in S, \A m \in S : n <= m
  PROVE  Min(S) = n
<1>1. Min(S) \in S /\ \A m \in S : Min(S) <= m
  BY MinIsLeast
<1>2. Min(S) <= n /\ n <= Min(S) /\ Min(S) \in Nat /\ n \in Nat
  BY <1>1
<1> HIDE DEF Min
<1> QED BY <1>2

-----------------------------------------------------------------------------
(* Paths *)

LEMMA Cut ==
  ASSUME NEW S, NEW p \in Seq(S), p # <<>>
  PROVE  /\ Len(p) \in Nat \ {0} /\ Front(p) \in Seq(S) /\ Last(p) \in S
         /\ Len(Front(p)) = Len(p) - 1 /\ p = Append(Front(p), Last(p))
         /\ \A i \in 1..Len(p)-1 : Front(p)[i] = p[i]
<1>1. PICK s \in Seq(S), e \in S : p = Append(s, e)
  BY SequenceEmptyOrAppend
<1>2. Len(p) = Len(s) + 1 /\ p[Len(p)] = e /\ Len(s) \in Nat /\ \A i \in 1..Len(s) : p[i] = s[i]
  BY <1>1, AppendProperties, LenProperties
<1>3. Front(p) = s
  <2>1. /\ SubSeq(p, 1, Len(p) - 1) \in Seq(S)
        /\ Len(SubSeq(p, 1, Len(p) - 1)) = Len(s)
        /\ \A i \in 1..Len(s) : SubSeq(p, 1, Len(p) - 1)[i] = p[i]
    <3>1. \A i \in 1..Len(p)-1 : p[i] \in S
      BY ElementOfSeq, <1>2
    <3> QED BY <1>2, <3>1, SubSeqProperties
  <2>2. SubSeq(p, 1, Len(p) - 1) = s
    BY <2>1, <1>2, SeqEqual
  <2> QED BY <2>2 DEF Front
<1>4. Last(p) = e
  BY <1>2 DEF Last
<1> QED BY <1>1, <1>2, <1>3, <1>4

LEMMA FrontAppend ==
  ASSUME NEW S, NEW p \in Seq(S), NEW k \in S
  PROVE  /\ Append(p, k) \in Seq(S) /\ Append(p, k) # <<>>
         /\ Front(Append(p, k)) = p /\ Last(Append(p, k)) = k
<1>1. Append(p, k) \in Seq(S) /\ Append(p, k) # <<>>
  BY AppendProperties
<1> DEFINE a == Append(p, k)
<1>2. Front(a) \in Seq(S) /\ Last(a) \in S /\ a = Append(Front(a), Last(a))
  <2> HIDE DEF a
  <2>1. a \in Seq(S) /\ a # <<>>
    BY <1>1 DEF a
  <2> QED BY <2>1, Cut
<1>3. Append(p, k) = Append(Front(a), Last(a))
  BY <1>2
<1>4. p = Front(a) /\ k = Last(a)
  <2> HIDE DEF a
  <2> QED BY <1>2, <1>3, AppendInjective
<1> QED BY <1>1, <1>4

LEMMA FrontConcat ==
  ASSUME NEW S, NEW s \in Seq(S), NEW q \in Seq(S), q # <<>>
  PROVE  /\ s \o q \in Seq(S) /\ s \o q # <<>>
         /\ Front(s \o q) = s \o Front(q) /\ Last(s \o q) = Last(q)
<1>1. Front(q) \in Seq(S) /\ Last(q) \in S /\ q = Append(Front(q), Last(q))
  BY Cut
<1>2. <<Last(q)>> \in Seq(S)
  BY <1>1
<1>3. s \o q = (s \o Front(q)) \o <<Last(q)>>
  <2>1. q = Front(q) \o <<Last(q)>>
    BY <1>1, AppendIsConcat
  <2>2. (s \o Front(q)) \o <<Last(q)>> = s \o (Front(q) \o <<Last(q)>>)
    BY <1>1, <1>2, ConcatAssociative
  <2> QED BY <2>1, <2>2
<1>4. s \o Front(q) \in Seq(S)
  BY <1>1, ConcatProperties
<1>5. s \o q = Append(s \o Front(q), Last(q))
  BY <1>1, <1>3, <1>4, AppendIsConcat
<1>6. /\ Append(s \o Front(q), Last(q)) \in Seq(S) /\ Append(s \o Front(q), Last(q)) # <<>>
      /\ Front(Append(s \o Front(q), Last(q))) = s \o Front(q)
      /\ Last(Append(s \o Front(q), Last(q))) = Last(q)
  BY <1>1, <1>4, FrontAppend
<1> QED BY <1>5, <1>6

LEMMA Cancel ==
  ASSUME NEW S, NEW s \in Seq(S), NEW q \in Seq(S), NEW r \in Seq(S), s \o q = s \o r
  PROVE  q = r
BY ConcatSimplifications

(* The path of a node and those above it.                                  *)
LEMMA NodesAbove ==
  ASSUME NEW S, NEW path \in Seq(S), NEW p \in NodesOn(path)
  PROVE  /\ p \in Seq(S) /\ p # <<>> /\ Len(p) \in 1..Len(path) /\ p = SubSeq(path, 1, Len(p))
         /\ Front(p) = <<>> \/ Front(p) \in NodesOn(path)
<1>0. Len(path) \in Nat
  BY LenProperties
<1>1. PICK n \in 1..Len(path) : p = SubSeq(path, 1, n)
  BY DEF NodesOn
<1>2. \A i \in 1..Len(path) : path[i] \in S
  BY ElementOfSeq
<1>3. \A m \in 0..Len(path) :
        /\ SubSeq(path, 1, m) \in Seq(S) /\ Len(SubSeq(path, 1, m)) = m
        /\ \A i \in 1..m : SubSeq(path, 1, m)[i] = path[i]
  <2> TAKE m \in 0..Len(path)
  <2>1. \A i \in 1..m : path[i] \in S
    BY <1>0, <1>2
  <2> QED BY <1>0, <2>1, SubSeqProperties
<1>4. p \in Seq(S) /\ Len(p) = n /\ p # <<>>
  BY <1>0, <1>1, <1>3
<1>5. Front(p) = SubSeq(path, 1, n - 1)
  <2>1. Front(p) \in Seq(S) /\ Len(Front(p)) = n - 1 /\ \A i \in 1..n-1 : Front(p)[i] = p[i]
    BY <1>4, Cut
  <2>2. n - 1 \in 0..Len(path) /\ n \in 0..Len(path)
    BY <1>0
  <2>3. \A i \in 1..n-1 : p[i] = path[i]
    <3> TAKE i \in 1..n-1
    <3> QED BY <1>1, <1>3, <2>2
  <2> DEFINE q == SubSeq(path, 1, n - 1)
  <2>4. q \in Seq(S) /\ Len(q) = n - 1 /\ \A i \in 1..n-1 : q[i] = path[i]
    BY <1>3, <2>2
  <2> HIDE DEF q
  <2>5. Front(p) = q
    BY <2>1, <2>3, <2>4, SeqEqual
  <2> QED BY <2>5 DEF q
<1>6. CASE n = 1
  <2>1. Len(Front(p)) = 0 /\ Front(p) \in Seq(S)
    BY <1>4, <1>6, Cut
  <2>2. Front(p) = <<>>
    BY <2>1, EmptySeq
  <2> QED BY <1>1, <1>4, <2>2
<1>7. CASE n # 1
  <2>1. n - 1 \in 1..Len(path)
    BY <1>0, <1>7
  <2>2. Front(p) \in NodesOn(path)
    BY <2>1, <1>5 DEF NodesOn
  <2> QED BY <1>1, <1>4, <2>2
<1> QED BY <1>6, <1>7

(* The nodes on a path: it is one itself, they are finitely many, and two  *)
(* of them are no siblings, nor is one of them and a node below the path.  *)
LEMMA NodesOnPath ==
  ASSUME NEW S, NEW path \in Seq(S)
  PROVE  /\ path # <<>> => path \in NodesOn(path)
         /\ IsFiniteSet(NodesOn(path))
         /\ \A p, q \in NodesOn(path) : Siblings(p, q) => p = q
         /\ \A p \in NodesOn(path), q \in Seq(S) : q # <<>> => ~Siblings(p, path \o q) /\ ~Siblings(path \o q, p)
         /\ \A p \in NodesOn(path), q \in Seq(S) : q # <<>> => p # path \o q
<1>0. Len(path) \in Nat
  BY LenProperties
<1>1. ASSUME path # <<>>
      PROVE  path \in NodesOn(path)
  <2>1. Len(path) \in 1..Len(path)
    BY <1>0, <1>1, EmptySeq
  <2>2. path = SubSeq(path, 1, Len(path))
    BY SubSeqFull
  <2> QED BY <2>1, <2>2 DEF NodesOn
<1>2. IsFiniteSet(NodesOn(path))
  <2> DEFINE f == [n \in 1..Len(path) |-> SubSeq(path, 1, n)]
  <2>1. f \in Surjection(1..Len(path), NodesOn(path))
    BY DEF Surjection, NodesOn
  <2>2. IsFiniteSet(1..Len(path))
    BY <1>0, FS_Interval
  <2> HIDE DEF f
  <2> QED BY <2>1, <2>2, FS_Surjection
<1>3. ASSUME NEW p \in NodesOn(path), NEW q \in NodesOn(path), Siblings(p, q)
      PROVE  p = q
  <2>1. /\ p \in Seq(S) /\ p # <<>> /\ p = SubSeq(path, 1, Len(p))
        /\ q \in Seq(S) /\ q # <<>> /\ q = SubSeq(path, 1, Len(q))
    BY NodesAbove
  <2>2. Len(Front(p)) = Len(p) - 1 /\ Len(Front(q)) = Len(q) - 1 /\ Len(p) \in Nat /\ Len(q) \in Nat
    BY <2>1, Cut
  <2>3. Len(p) = Len(q)
    BY <2>2, <1>3 DEF Siblings
  <2> QED BY <2>1, <2>3
<1>4. ASSUME NEW p \in NodesOn(path), NEW q \in Seq(S), q # <<>>
      PROVE  ~Siblings(p, path \o q) /\ ~Siblings(path \o q, p) /\ p # path \o q
  <2>1. p \in Seq(S) /\ p # <<>> /\ Len(p) \in 1..Len(path)
    BY NodesAbove
  <2>2. Len(Front(p)) = Len(p) - 1
    BY <2>1, Cut
  <2>3. Len(q) \in Nat \ {0}
    BY <1>4, EmptySeq
  <2> DEFINE r == path \o q
  <2>4. r \in Seq(S) /\ r # <<>> /\ Len(r) = Len(path) + Len(q)
    BY <1>4, FrontConcat, ConcatProperties
  <2> HIDE DEF r
  <2>5. Len(Front(r)) = Len(path) + Len(q) - 1
    BY <2>4, Cut
  <2>6. Front(p) # Front(r) /\ p # r
    BY <1>0, <2>1, <2>2, <2>3, <2>4, <2>5
  <2> QED BY <2>6 DEF Siblings, r
<1> QED BY <1>1, <1>2, <1>3, <1>4

(* The nodes on the path of a block and then on a path in it.              *)
LEMMA NodesOnConcat ==
  ASSUME NEW S, NEW b \in Seq(S), NEW p \in Seq(S)
  PROVE  NodesOn(b \o p) = NodesOn(b) \cup {b \o q : q \in NodesOn(p)}
<1> DEFINE r == b \o p
<1>0. Len(b) \in Nat /\ Len(p) \in Nat
  BY LenProperties
<1>1. /\ r \in Seq(S) /\ Len(r) = Len(b) + Len(p)
      /\ \A i \in 1..Len(b) : r[i] = b[i]
      /\ \A i \in 1..Len(p) : r[Len(b) + i] = p[i]
  BY <1>0, ConcatProperties
<1>2. \A i \in 1..Len(b) : b[i] \in S
  BY ElementOfSeq
<1>3. \A i \in 1..Len(p) : p[i] \in S
  BY ElementOfSeq
<1> HIDE DEF r
<1>4. ASSUME NEW n \in 1..Len(b)
      PROVE  SubSeq(r, 1, n) = SubSeq(b, 1, n)
  <2> DEFINE u == SubSeq(r, 1, n)
             v == SubSeq(b, 1, n)
  <2>1. u \in Seq(S) /\ Len(u) = n /\ \A i \in 1..n : u[i] = b[i]
    <3>1. \A i \in 1..n : r[i] \in S /\ r[i] = b[i]
      BY <1>0, <1>1, <1>2
    <3>2. u \in Seq(S) /\ Len(u) = n /\ \A i \in 1..n : u[i] = r[i]
      BY <1>0, <3>1, SubSeqProperties
    <3> QED BY <3>1, <3>2
  <2>2. v \in Seq(S) /\ Len(v) = n /\ \A i \in 1..n : v[i] = b[i]
    <3>1. \A i \in 1..n : b[i] \in S
      BY <1>0, <1>2
    <3> QED BY <1>0, <3>1, SubSeqProperties
  <2> HIDE DEF u, v
  <2>3. u = v
    BY <2>1, <2>2, SeqEqual
  <2> QED BY <2>3 DEF u, v
<1>5. ASSUME NEW n \in 1..Len(p)
      PROVE  SubSeq(r, 1, Len(b) + n) = b \o SubSeq(p, 1, n)
  <2> DEFINE u == SubSeq(r, 1, Len(b) + n)
             v == SubSeq(p, 1, n)
  <2>1. u \in Seq(S) /\ Len(u) = Len(b) + n /\ \A i \in 1..Len(b) + n : u[i] = r[i]
    <3>1. \A i \in 1..Len(b) + n : r[i] \in S
      BY <1>0, <1>1, ElementOfSeq
    <3> QED BY <1>0, <3>1, SubSeqProperties
  <2>2. v \in Seq(S) /\ Len(v) = n /\ \A i \in 1..n : v[i] = p[i]
    <3>1. \A i \in 1..n : p[i] \in S
      BY <1>0, <1>3
    <3> QED BY <1>0, <3>1, SubSeqProperties
  <2> HIDE DEF u, v
  <2>3. /\ b \o v \in Seq(S) /\ Len(b \o v) = Len(b) + n
        /\ \A i \in 1..Len(b) + n : (b \o v)[i] = IF i <= Len(b) THEN b[i] ELSE v[i - Len(b)]
    BY <2>2, ConcatProperties
  <2>4. \A i \in 1..Len(b) + n : u[i] = (b \o v)[i]
    <3> TAKE i \in 1..Len(b) + n
    <3>1. CASE i <= Len(b)
      BY <1>0, <1>1, <2>1, <2>3, <3>1
    <3>2. CASE ~(i <= Len(b))
      <4>1. i - Len(b) \in 1..n /\ i - Len(b) \in 1..Len(p) /\ i = Len(b) + (i - Len(b))
        BY <1>0, <3>2
      <4> QED BY <1>1, <2>1, <2>2, <2>3, <3>2, <4>1, ZenonT(60)
    <3> QED BY <3>1, <3>2
  <2>5. u = b \o v
    BY <2>1, <2>3, <2>4, SeqEqual
  <2> QED BY <2>5 DEF u, v
<1>6. NodesOn(r) \subseteq NodesOn(b) \cup {b \o q : q \in NodesOn(p)}
  <2> SUFFICES ASSUME NEW n \in 1..Len(r)
               PROVE  SubSeq(r, 1, n) \in NodesOn(b) \cup {b \o q : q \in NodesOn(p)}
    BY DEF NodesOn
  <2>1. CASE n <= Len(b)
    <3>1. n \in 1..Len(b)
      BY <1>0, <2>1
    <3> QED BY <3>1, <1>4 DEF NodesOn
  <2>2. CASE ~(n <= Len(b))
    <3>1. n - Len(b) \in 1..Len(p) /\ n = Len(b) + (n - Len(b))
      BY <1>0, <1>1, <2>2
    <3>2. SubSeq(p, 1, n - Len(b)) \in NodesOn(p)
      BY <3>1 DEF NodesOn
    <3> QED BY <3>1, <3>2, <1>5
  <2> QED BY <2>1, <2>2
<1>7. NodesOn(b) \subseteq NodesOn(r)
  <2> SUFFICES ASSUME NEW n \in 1..Len(b)
               PROVE  SubSeq(b, 1, n) \in NodesOn(r)
    BY DEF NodesOn
  <2>1. n \in 1..Len(r)
    BY <1>0, <1>1
  <2> QED BY <1>4, <2>1 DEF NodesOn
<1>8. \A q \in NodesOn(p) : b \o q \in NodesOn(r)
  <2> SUFFICES ASSUME NEW n \in 1..Len(p)
               PROVE  b \o SubSeq(p, 1, n) \in NodesOn(r)
    BY DEF NodesOn
  <2>1. Len(b) + n \in 1..Len(r)
    BY <1>0, <1>1
  <2> QED BY <1>5, <2>1 DEF NodesOn
<1> QED BY <1>6, <1>7, <1>8 DEF r

-----------------------------------------------------------------------------
(* Trees *)

Shape(S) == [nodes : SUBSET Seq(S), earlier : SUBSET (Seq(S) \X Seq(S))]

\* A finite tree with keys of S.
TreeOver(S, t) == t \in Shape(S) /\ IsTree(t) /\ IsFiniteSet(t.nodes)

\* The order of a tree, pair by pair.
Ordered(t) ==
  /\ \A p, q : <<p, q>> \in t.earlier => p \in t.nodes /\ q \in t.nodes /\ Siblings(p, q) /\ <<q, p>> \notin t.earlier
  /\ \A p, q \in t.nodes : Siblings(p, q) /\ p # q => <<p, q>> \in t.earlier \/ <<q, p>> \in t.earlier
  /\ \A p, q, r : <<p, q>> \in t.earlier /\ <<q, r>> \in t.earlier => <<p, r>> \in t.earlier

LEMMA PairByPair ==
  ASSUME NEW S, NEW t \in Shape(S)
  PROVE  IsTree(t) <=> Ordered(t) /\ \A p \in t.nodes : p # <<>> /\ Has(t, Front(p))
<1>1. \A o \in t.earlier : o = <<o[1], o[2]>>
  BY DEF Shape
<1>2. IsTree(t) => Ordered(t) /\ \A p \in t.nodes : p # <<>> /\ Has(t, Front(p))
  <2> SUFFICES ASSUME IsTree(t)
               PROVE  Ordered(t) /\ \A p \in t.nodes : p # <<>> /\ Has(t, Front(p))
    OBVIOUS
  <2>1. \A p, q : <<p, q>> \in t.earlier => p \in t.nodes /\ q \in t.nodes /\ Siblings(p, q) /\ <<q, p>> \notin t.earlier
    BY DEF IsTree
  <2>2. \A p, q, r : <<p, q>> \in t.earlier /\ <<q, r>> \in t.earlier => <<p, r>> \in t.earlier
    BY <2>1 DEF IsTree
  <2> QED BY <2>1, <2>2 DEF Ordered, IsTree
<1>3. ASSUME Ordered(t), \A p \in t.nodes : p # <<>> /\ Has(t, Front(p))
      PROVE  IsTree(t)
  <2>1. \A o \in t.earlier : o \in t.nodes \X t.nodes /\ Siblings(o[1], o[2]) /\ <<o[2], o[1]>> \notin t.earlier
    BY <1>1, <1>3 DEF Ordered
  <2>2. \A o \in t.earlier, r \in t.nodes : <<o[2], r>> \in t.earlier => <<o[1], r>> \in t.earlier
    BY <1>1, <1>3 DEF Ordered
  <2> QED BY <2>1, <2>2, <1>3 DEF Ordered, IsTree
<1> QED BY <1>2, <1>3

LEMMA EmptyTree ==
  ASSUME NEW S
  PROVE  TreeOver(S, Empty)
BY FS_EmptySet DEF TreeOver, Shape, Empty, IsTree

(* What a merge has: everything of t, in its order, and then what is new.  *)
LEMMA Merged ==
  ASSUME NEW t, NEW u
  PROVE  LET m == _deep_merge(t, u)
             new == u.nodes \ t.nodes
         IN  /\ m.nodes = t.nodes \cup u.nodes
             /\ \A p, q : <<p, q>> \in m.earlier <=>
                  \/ <<p, q>> \in t.earlier
                  \/ p \in t.nodes /\ q \in new /\ Siblings(p, q)
                  \/ <<p, q>> \in u.earlier /\ p \in new /\ q \in new
<1> DEFINE new == u.nodes \ t.nodes
<1> HIDE DEF new
<1>1. \A p, q : <<p, q>> \in {o \in t.nodes \X new : Siblings(o[1], o[2])} <=> p \in t.nodes /\ q \in new /\ Siblings(p, q)
  OBVIOUS
<1>2. \A p, q : <<p, q>> \in u.earlier \intersect (new \X new) <=> <<p, q>> \in u.earlier /\ p \in new /\ q \in new
  OBVIOUS
<1>3. /\ _deep_merge(t, u).nodes = t.nodes \cup new
      /\ _deep_merge(t, u).earlier = t.earlier \cup {o \in t.nodes \X new : Siblings(o[1], o[2])} \cup (u.earlier \intersect (new \X new))
  BY DEF _deep_merge, new
<1>4. t.nodes \cup new = t.nodes \cup u.nodes
  BY DEF new
<1>5. \A p, q : <<p, q>> \in _deep_merge(t, u).earlier <=>
                  \/ <<p, q>> \in t.earlier
                  \/ p \in t.nodes /\ q \in new /\ Siblings(p, q)
                  \/ <<p, q>> \in u.earlier /\ p \in new /\ q \in new
  BY <1>1, <1>2, <1>3
<1> QED BY <1>3, <1>4, <1>5 DEF new

LEMMA MergeIsTree ==
  ASSUME NEW S, NEW t, NEW u, TreeOver(S, t), TreeOver(S, u)
  PROVE  TreeOver(S, _deep_merge(t, u))
<1> DEFINE m == _deep_merge(t, u)
           new == u.nodes \ t.nodes
<1>1. /\ m.nodes = t.nodes \cup u.nodes
      /\ \A p, q : <<p, q>> \in m.earlier <=>
           \/ <<p, q>> \in t.earlier
           \/ p \in t.nodes /\ q \in new /\ Siblings(p, q)
           \/ <<p, q>> \in u.earlier /\ p \in new /\ q \in new
  BY Merged
<1>2. m \in Shape(S)
  BY DEF TreeOver, Shape, _deep_merge
<1>3. IsFiniteSet(m.nodes)
  BY <1>1, FS_Union DEF TreeOver
<1>4. Ordered(t) /\ Ordered(u)
  BY PairByPair DEF TreeOver
<1>5. (\A p \in t.nodes : p # <<>> /\ Has(t, Front(p))) /\ (\A p \in u.nodes : p # <<>> /\ Has(u, Front(p)))
  BY PairByPair DEF TreeOver
<1> HIDE DEF m
<1>6. \A p \in m.nodes : p # <<>> /\ Has(m, Front(p))
  BY <1>1, <1>5 DEF Has
<1>7. Ordered(m)
  <2>1. ASSUME NEW p, NEW q, <<p, q>> \in m.earlier
        PROVE  p \in m.nodes /\ q \in m.nodes /\ Siblings(p, q) /\ <<q, p>> \notin m.earlier
    BY <1>1, <1>4, <2>1 DEF Ordered
  <2>2. ASSUME NEW p \in m.nodes, NEW q \in m.nodes, Siblings(p, q), p # q
        PROVE  <<p, q>> \in m.earlier \/ <<q, p>> \in m.earlier
    <3>1. Siblings(q, p)
      BY <2>2 DEF Siblings
    <3> QED BY <1>1, <1>4, <2>2, <3>1 DEF Ordered
  <2>3. ASSUME NEW p, NEW q, NEW r, <<p, q>> \in m.earlier, <<q, r>> \in m.earlier
        PROVE  <<p, r>> \in m.earlier
    <3>1. Siblings(p, q) /\ Siblings(q, r) /\ Siblings(p, r)
      BY <2>1, <2>3 DEF Siblings
    <3> QED BY <1>1, <1>4, <2>3, <3>1 DEF Ordered
  <2> QED BY <2>1, <2>2, <2>3 DEF Ordered
<1>8. IsTree(m)
  BY <1>2, <1>6, <1>7, PairByPair
<1> QED BY <1>2, <1>3, <1>8 DEF TreeOver, m

\* p and q are below the path, in the order of u.
Below(path, u, p, q) == \E x, y \in u.nodes : <<x, y>> \in u.earlier /\ p = path \o x /\ q = path \o y

\* a is the tree of a path to u: the nodes on the path and, below it, those of
\* u in their order.
IsAt(S, path, u, a) ==
  /\ a \in Shape(S)
  /\ a.nodes = NodesOn(path) \cup {path \o q : q \in u.nodes}
  /\ \A q \in Seq(S) : q # <<>> => (path \o q \in a.nodes <=> q \in u.nodes)
  /\ \A p, q : <<p, q>> \in a.earlier => Below(path, u, p, q)
  /\ \A x, y \in Seq(S) : <<path \o x, path \o y>> \in a.earlier <=> <<x, y>> \in u.earlier

LEMMA AtPath ==
  ASSUME NEW S, NEW path \in Seq(S), NEW u, TreeOver(S, u)
  PROVE  IsAt(S, path, u, At(path, u))
<1> DEFINE a == At(path, u)
<1>1. u.nodes \subseteq Seq(S) /\ u.earlier \subseteq Seq(S) \X Seq(S)
  BY DEF TreeOver, Shape
<1>2. Ordered(u) /\ \A p \in u.nodes : p # <<>>
  BY PairByPair DEF TreeOver
<1>3. /\ a = [nodes |-> a.nodes, earlier |-> a.earlier]
      /\ a.nodes = NodesOn(path) \cup {path \o q : q \in u.nodes}
      /\ a.earlier = {<<path \o o[1], path \o o[2]>> : o \in u.earlier}
  BY DEF At
<1> HIDE DEF a
<1>4. a \in Shape(S)
  <2>1. a.nodes \subseteq Seq(S)
    <3>1. NodesOn(path) \subseteq Seq(S)
      BY NodesAbove
    <3>2. \A q \in u.nodes : path \o q \in Seq(S)
      BY <1>1, ConcatProperties
    <3> QED BY <1>3, <3>1, <3>2
  <2>2. a.earlier \subseteq Seq(S) \X Seq(S)
    <3> SUFFICES ASSUME NEW o \in u.earlier
                 PROVE  <<path \o o[1], path \o o[2]>> \in Seq(S) \X Seq(S)
      BY <1>3
    <3>1. o[1] \in Seq(S) /\ o[2] \in Seq(S)
      BY <1>1
    <3>2. path \o o[1] \in Seq(S) /\ path \o o[2] \in Seq(S)
      BY <3>1, ConcatProperties
    <3> QED BY <3>2
  <2> QED BY <1>3, <2>1, <2>2 DEF Shape
<1>5. ASSUME NEW q \in Seq(S), q # <<>>, path \o q \in a.nodes
      PROVE  q \in u.nodes
  <2>1. path \o q \notin NodesOn(path)
    BY <1>5, NodesOnPath
  <2>2. PICK r \in u.nodes : path \o q = path \o r
    BY <1>3, <1>5, <2>1
  <2>3. q = r
    BY <1>1, <2>2, Cancel
  <2> QED BY <2>3
<1>6. ASSUME NEW p, NEW q, <<p, q>> \in a.earlier
      PROVE  Below(path, u, p, q)
  <2>1. PICK o \in u.earlier : <<p, q>> = <<path \o o[1], path \o o[2]>>
    BY <1>3, <1>6
  <2>2. o = <<o[1], o[2]>>
    BY <1>1
  <2>3. o[1] \in u.nodes /\ o[2] \in u.nodes
    <3>1. PICK x, y : o = <<x, y>>
      BY <2>2
    <3>2. <<x, y>> \in u.earlier
      BY <3>1
    <3>3. x \in u.nodes /\ y \in u.nodes
      BY <1>2, <3>2 DEF Ordered
    <3> QED BY <3>1, <3>3
  <2>4. <<o[1], o[2]>> \in u.earlier /\ p = path \o o[1] /\ q = path \o o[2]
    BY <2>1, <2>2
  <2> QED BY <2>3, <2>4 DEF Below
<1>7. ASSUME NEW x \in Seq(S), NEW y \in Seq(S)
      PROVE  <<path \o x, path \o y>> \in a.earlier <=> <<x, y>> \in u.earlier
  <2>1. ASSUME <<path \o x, path \o y>> \in a.earlier
        PROVE  <<x, y>> \in u.earlier
    <3>1. PICK v, w \in u.nodes : <<v, w>> \in u.earlier /\ path \o x = path \o v /\ path \o y = path \o w
      BY <1>6, <2>1 DEF Below
    <3>2. x = v /\ y = w
      BY <1>1, <3>1, Cancel
    <3> QED BY <3>1, <3>2
  <2>2. ASSUME <<x, y>> \in u.earlier
        PROVE  <<path \o x, path \o y>> \in a.earlier
    <3> DEFINE o == <<x, y>>
    <3>1. o \in u.earlier /\ o[1] = x /\ o[2] = y
      BY <2>2
    <3> HIDE DEF o
    <3> QED BY <1>3, <3>1
  <2> QED BY <2>1, <2>2
<1>8. \A q \in Seq(S) : q # <<>> => (path \o q \in a.nodes <=> q \in u.nodes)
  BY <1>3, <1>5
<1> QED BY <1>3, <1>4, <1>6, <1>7, <1>8 DEF IsAt, a

LEMMA AtIsTree ==
  ASSUME NEW S, NEW path \in Seq(S), NEW u, TreeOver(S, u)
  PROVE  TreeOver(S, At(path, u))
<1> DEFINE a == At(path, u)
<1>0. IsAt(S, path, u, a)
  BY AtPath
<1> HIDE DEF a
<1>1. a \in Shape(S) /\ a.nodes = NodesOn(path) \cup {path \o q : q \in u.nodes}
  BY <1>0 DEF IsAt
<1>9. \A p, q : <<p, q>> \in a.earlier => Below(path, u, p, q)
  BY <1>0 DEF IsAt
<1>10. \A x, y \in Seq(S) : <<path \o x, path \o y>> \in a.earlier <=> <<x, y>> \in u.earlier
  BY <1>0 DEF IsAt
<1>2. u.nodes \subseteq Seq(S) /\ Ordered(u) /\ \A q \in u.nodes : q # <<>> /\ Has(u, Front(q))
  BY PairByPair DEF TreeOver, Shape
<1>3. \A x, y \in u.nodes : path \o x = path \o y => x = y
  BY <1>2, Cancel
<1>4. \A x, y \in u.nodes : Siblings(path \o x, path \o y) <=> Siblings(x, y)
  <2> TAKE x, y \in u.nodes
  <2>1. /\ x \in Seq(S) /\ y \in Seq(S) /\ x # <<>> /\ y # <<>>
        /\ Front(x) \in Seq(S) /\ Front(y) \in Seq(S)
    BY <1>2, Cut
  <2>2. Front(path \o x) = path \o Front(x) /\ Front(path \o y) = path \o Front(y)
    BY <2>1, FrontConcat
  <2> QED BY <2>1, <2>2, Cancel DEF Siblings
<1>5. ASSUME NEW p \in a.nodes
      PROVE  p # <<>> /\ Has(a, Front(p))
  <2>1. CASE p \in NodesOn(path)
    BY <2>1, <1>1, NodesAbove DEF Has
  <2>2. CASE p \notin NodesOn(path)
    <3>1. PICK q \in u.nodes : p = path \o q
      BY <1>1, <2>2
    <3>2. q \in Seq(S) /\ q # <<>> /\ (Front(q) = <<>> \/ Front(q) \in u.nodes)
      BY <1>2 DEF Has
    <3>3. Front(p) = path \o Front(q) /\ p # <<>>
      BY <3>1, <3>2, FrontConcat
    <3>4. CASE Front(q) = <<>>
      <4>1. Front(p) = path
        BY <3>3, <3>4, ConcatEmptySeq
      <4> QED BY <1>1, <3>3, <4>1, NodesOnPath DEF Has
    <3>5. CASE Front(q) \in u.nodes
      BY <1>1, <3>3, <3>5 DEF Has
    <3> QED BY <3>2, <3>4, <3>5
  <2> QED BY <2>1, <2>2
<1>6. Ordered(a)
  <2>1. ASSUME NEW p, NEW q, <<p, q>> \in a.earlier
        PROVE  p \in a.nodes /\ q \in a.nodes /\ Siblings(p, q) /\ <<q, p>> \notin a.earlier
    <3>1. PICK x, y \in u.nodes : <<x, y>> \in u.earlier /\ p = path \o x /\ q = path \o y
      <4>1. Below(path, u, p, q)
        BY <1>9, <2>1
      <4> QED BY <4>1 DEF Below
    <3>2. Siblings(x, y) /\ <<y, x>> \notin u.earlier
      BY <3>1, <1>2 DEF Ordered
    <3>3. <<q, p>> \notin a.earlier
      BY <1>10, <1>2, <3>1, <3>2
    <3> QED BY <1>1, <1>4, <3>1, <3>2, <3>3
  <2>2. ASSUME NEW p \in a.nodes, NEW q \in a.nodes, Siblings(p, q), p # q
        PROVE  <<p, q>> \in a.earlier \/ <<q, p>> \in a.earlier
    <3>1. p \notin NodesOn(path)
      <4>1. ASSUME p \in NodesOn(path), q \in NodesOn(path)
            PROVE  FALSE
        BY <4>1, <2>2, NodesOnPath
      <4>2. ASSUME p \in NodesOn(path), NEW y \in u.nodes, q = path \o y
            PROVE  FALSE
        BY <4>2, <2>2, <1>2, NodesOnPath
      <4> QED BY <1>1, <4>1, <4>2
    <3>2. q \notin NodesOn(path)
      <4>1. PICK x \in u.nodes : p = path \o x
        BY <1>1, <3>1
      <4> QED BY <4>1, <2>2, <1>2, NodesOnPath
    <3>3. PICK x \in u.nodes, y \in u.nodes : p = path \o x /\ q = path \o y
      BY <1>1, <3>1, <3>2
    <3>4. Siblings(x, y) /\ x # y
      BY <1>4, <2>2, <3>3
    <3>5. <<x, y>> \in u.earlier \/ <<y, x>> \in u.earlier
      BY <1>2, <3>4 DEF Ordered
    <3> QED BY <1>10, <1>2, <3>3, <3>5
  <2>3. ASSUME NEW p, NEW q, NEW r, <<p, q>> \in a.earlier, <<q, r>> \in a.earlier
        PROVE  <<p, r>> \in a.earlier
    <3>1. PICK x, y \in u.nodes : <<x, y>> \in u.earlier /\ p = path \o x /\ q = path \o y
      <4>1. Below(path, u, p, q)
        BY <1>9, <2>3
      <4> QED BY <4>1 DEF Below
    <3>2. PICK v, z \in u.nodes : <<v, z>> \in u.earlier /\ q = path \o v /\ r = path \o z
      <4>1. Below(path, u, q, r)
        BY <1>9, <2>3
      <4> QED BY <4>1 DEF Below
    <3>3. y = v
      BY <1>3, <3>1, <3>2
    <3>4. <<x, z>> \in u.earlier
      BY <1>2, <3>1, <3>2, <3>3 DEF Ordered
    <3>5. x \in Seq(S) /\ z \in Seq(S)
      BY <1>2
    <3> QED BY <1>10, <3>1, <3>2, <3>4, <3>5
  <2> QED BY <2>1, <2>2, <2>3 DEF Ordered
<1>7. IsFiniteSet(a.nodes)
  <2>1. IsFiniteSet(NodesOn(path))
    BY NodesOnPath
  <2> DEFINE T == {path \o q : q \in u.nodes}
             f == [q \in u.nodes |-> path \o q]
  <2>2. f \in Surjection(u.nodes, T)
    BY DEF Surjection
  <2>3. IsFiniteSet(T)
    <3> HIDE DEF f, T
    <3> QED BY <2>2, FS_Surjection DEF TreeOver
  <2> HIDE DEF f
  <2>4. a.nodes = NodesOn(path) \cup T
    BY <1>1
  <2> HIDE DEF T
  <2> QED BY <2>1, <2>3, <2>4, FS_Union
<1>8. IsTree(a)
  BY <1>1, <1>5, <1>6, PairByPair
<1> QED BY <1>1, <1>7, <1>8 DEF TreeOver, a

(* The members of a list.                                                  *)
LEMMA MembersAreTree ==
  ASSUME NEW S, NEW keys \in Seq(S)
  PROVE  /\ TreeOver(S, Members(keys))
         /\ Members(keys).nodes = {<<keys[n]>> : n \in 1..Len(keys)}
<1> DEFINE Places(p) == {n \in 1..Len(keys) : <<keys[n]>> = p}
           nodes == {<<keys[n]>> : n \in 1..Len(keys)}
           m == Members(keys)
<1>0. Len(keys) \in Nat /\ \A n \in 1..Len(keys) : keys[n] \in S
  BY LenProperties, ElementOfSeq
<1>1. /\ m = [nodes |-> m.nodes, earlier |-> m.earlier] /\ m.nodes = nodes
      /\ m.earlier = {o \in nodes \X nodes : Min(Places(o[1])) < Min(Places(o[2]))}
  BY DEF Members
<1>2. \A p, q : <<p, q>> \in m.earlier <=> p \in nodes /\ q \in nodes /\ Min(Places(p)) < Min(Places(q))
  BY <1>1
<1>3. nodes \subseteq Seq(S)
  <2>1. \A n \in 1..Len(keys) : <<keys[n]>> \in Seq(S)
    BY <1>0
  <2> QED BY <2>1
<1>4. \A p \in nodes : p # <<>> /\ Front(p) = <<>>
  <2> TAKE p \in nodes
  <2>1. PICK n \in 1..Len(keys) : p = <<keys[n]>>
    OBVIOUS
  <2>2. p \in Seq(S) /\ p # <<>> /\ Len(p) = 1
    BY <1>0, <2>1
  <2>3. Front(p) \in Seq(S) /\ Len(Front(p)) = 0
    BY <2>2, Cut
  <2> QED BY <2>2, <2>3, EmptySeq
<1>5. \A p \in nodes : Min(Places(p)) \in 1..Len(keys) /\ p = <<keys[Min(Places(p))]>>
  <2> TAKE p \in nodes
  <2>1. Places(p) \in SUBSET Nat /\ Places(p) # {}
    BY <1>0
  <2> HIDE DEF Places
  <2>2. Min(Places(p)) \in Places(p)
    BY <2>1, MinIsLeast
  <2> QED BY <2>2 DEF Places
<1>6. m \in Shape(S)
  BY <1>1, <1>3 DEF Shape
<1>7. IsFiniteSet(nodes)
  <2> DEFINE f == [n \in 1..Len(keys) |-> <<keys[n]>>]
  <2>1. f \in Surjection(1..Len(keys), nodes)
    BY DEF Surjection
  <2>2. IsFiniteSet(1..Len(keys))
    BY <1>0, FS_Interval
  <2> HIDE DEF f, nodes
  <2> QED BY <2>1, <2>2, FS_Surjection
<1> HIDE DEF nodes, m, Places
<1>8. Ordered(m)
  <2>1. \A p, q : <<p, q>> \in m.earlier => p \in nodes /\ q \in nodes /\ Siblings(p, q) /\ <<q, p>> \notin m.earlier
    <3> TAKE p, q
    <3> HAVE <<p, q>> \in m.earlier
    <3>1. p \in nodes /\ q \in nodes /\ Min(Places(p)) < Min(Places(q))
      BY <1>2
    <3>2. Min(Places(p)) \in Int /\ Min(Places(q)) \in Int
      BY <1>0, <1>5, <3>1
    <3>3. ~(Min(Places(q)) < Min(Places(p)))
      BY <3>1, <3>2
    <3> QED BY <1>2, <1>4, <3>1, <3>3 DEF Siblings
  <2>2. \A p, q \in nodes : p # q => <<p, q>> \in m.earlier \/ <<q, p>> \in m.earlier
    <3> TAKE p, q \in nodes
    <3> HAVE p # q
    <3>1. Min(Places(p)) \in Int /\ Min(Places(q)) \in Int /\ Min(Places(p)) # Min(Places(q))
      BY <1>0, <1>5
    <3>2. Min(Places(p)) < Min(Places(q)) \/ Min(Places(q)) < Min(Places(p))
      BY <3>1
    <3> QED BY <1>2, <3>2
  <2>3. \A p, q, r : <<p, q>> \in m.earlier /\ <<q, r>> \in m.earlier => <<p, r>> \in m.earlier
    <3> TAKE p, q, r
    <3> HAVE <<p, q>> \in m.earlier /\ <<q, r>> \in m.earlier
    <3>1. p \in nodes /\ q \in nodes /\ r \in nodes /\ Min(Places(p)) < Min(Places(q)) /\ Min(Places(q)) < Min(Places(r))
      BY <1>2
    <3>2. Min(Places(p)) \in Int /\ Min(Places(q)) \in Int /\ Min(Places(r)) \in Int
      BY <1>0, <1>5, <3>1
    <3>3. Min(Places(p)) < Min(Places(r))
      BY <3>1, <3>2
    <3> QED BY <1>2, <3>1, <3>3
  <2> QED BY <1>1, <2>1, <2>2, <2>3 DEF Ordered
<1>9. IsTree(m)
  BY <1>1, <1>4, <1>6, <1>8, PairByPair DEF Has
<1> QED BY <1>1, <1>6, <1>7, <1>9 DEF TreeOver, m, nodes

(* What is left of a path below src.                                       *)
LEMMA Remainder ==
  ASSUME NEW S, NEW src \in Seq(S), NEW q \in Seq(S), IsPrefix(src, q), q # src
  PROVE  /\ SubSeq(q, Len(src) + 1, Len(q)) \in Seq(S) \ {<<>>}
         /\ q = src \o SubSeq(q, Len(src) + 1, Len(q))
<1> DEFINE r == SubSeq(q, Len(src) + 1, Len(q))
<1>1. Len(src) \in Nat /\ Len(q) \in Nat /\ Len(src) <= Len(q)
  BY LenProperties DEF IsPrefix
<1>2. SubSeq(q, 1, Len(src)) = src
  BY SubSeqFull DEF IsPrefix
<1>3. SubSeq(q, 1, Len(q)) = q
  BY SubSeqFull
<1>4. Len(src) # Len(q)
  BY <1>2, <1>3
<1>5. SubSeq(q, 1, Len(src)) \o r = SubSeq(q, 1, Len(q))
  <2>1. 1 \in 1..Len(q)+1 /\ Len(src) \in 1-1..Len(q) /\ Len(q) \in Len(src)..Len(q)
    BY <1>1
  <2> QED BY <2>1, ConcatAdjacentSubSeq
<1>6. \A i \in Len(src)+1..Len(q) : q[i] \in S
  BY <1>1, ElementOfSeq
<1>7. r \in Seq(S) /\ Len(r) = Len(q) - Len(src)
  BY <1>1, <1>4, <1>6, SubSeqProperties
<1>8. r # <<>>
  <2>1. Len(r) # 0
    BY <1>1, <1>4, <1>7
  <2> HIDE DEF r
  <2> QED BY <2>1
<1> QED BY <1>2, <1>3, <1>5, <1>7, <1>8

LEMMA PrefixOfConcat ==
  ASSUME NEW S, NEW src \in Seq(S), NEW r \in Seq(S), r # <<>>
  PROVE  /\ IsPrefix(src, src \o r) /\ src \o r # src
         /\ SubSeq(src \o r, Len(src) + 1, Len(src \o r)) = r
<1> DEFINE q == src \o r
<1>1. /\ Len(src) \in Nat /\ Len(r) \in Nat \ {0} /\ q \in Seq(S) /\ Len(q) = Len(src) + Len(r)
      /\ \A i \in 1..Len(src) : q[i] = src[i]
  BY ConcatProperties, LenProperties, EmptySeq
<1> HIDE DEF q
<1>2. SubSeq(q, 1, Len(src)) = src
  <2>1. \A i \in 1..Len(src) : q[i] \in S
    BY <1>1, ElementOfSeq
  <2>2. /\ SubSeq(q, 1, Len(src)) \in Seq(S) /\ Len(SubSeq(q, 1, Len(src))) = Len(src)
        /\ \A i \in 1..Len(src) : SubSeq(q, 1, Len(src))[i] = q[i]
    BY <1>1, <2>1, SubSeqProperties
  <2> QED BY <1>1, <2>2, SeqEqual
<1>3. SubSeq(src, 1, Len(src)) = src
  BY SubSeqFull
<1>4. IsPrefix(src, q) /\ q # src
  BY <1>1, <1>2, <1>3 DEF IsPrefix
<1>5. SubSeq(q, Len(src) + 1, Len(q)) \in Seq(S) /\ q = src \o SubSeq(q, Len(src) + 1, Len(q))
  BY <1>1, <1>4, Remainder
<1>6. SubSeq(q, Len(src) + 1, Len(q)) = r
  <2> DEFINE x == SubSeq(q, Len(src) + 1, Len(q))
  <2>1. x \in Seq(S) /\ src \o x = src \o r
    BY <1>5 DEF q
  <2> HIDE DEF x
  <2>2. x = r
    BY <2>1, Cancel
  <2> QED BY <2>2 DEF x
<1> QED BY <1>4, <1>6 DEF q

\* v is what t has below src.
IsBelow(S, t, src, v) ==
  /\ v \in Shape(S)
  /\ \A r \in v.nodes : r # <<>>
  /\ \A r \in Seq(S) : r # <<>> => (r \in v.nodes <=> src \o r \in t.nodes)
  /\ \A x, y : <<x, y>> \in v.earlier => x \in v.nodes /\ y \in v.nodes
  /\ \A x, y \in v.nodes : <<x, y>> \in v.earlier <=> <<src \o x, src \o y>> \in t.earlier

LEMMA SubtreeBelow ==
  ASSUME NEW S, NEW t, TreeOver(S, t), NEW src \in Seq(S)
  PROVE  IsBelow(S, t, src, Subtree(t, src))
<1> DEFINE v == Subtree(t, src)
           below == {q \in t.nodes : IsPrefix(src, q) /\ q # src}
           Rest(q) == SubSeq(q, Len(src) + 1, Len(q))
<1>1. t.nodes \subseteq Seq(S) /\ t.earlier \subseteq Seq(S) \X Seq(S) /\ Ordered(t)
  BY PairByPair DEF TreeOver, Shape
<1>2. /\ v = [nodes |-> v.nodes, earlier |-> v.earlier]
      /\ v.nodes = {Rest(q) : q \in below}
      /\ v.earlier = {<<Rest(o[1]), Rest(o[2])>> : o \in t.earlier \intersect (below \X below)}
  BY DEF Subtree
<1>3. \A q \in below : Rest(q) \in Seq(S) \ {<<>>} /\ q = src \o Rest(q)
  BY <1>1, Remainder
<1>4. \A r \in Seq(S) : r # <<>> /\ src \o r \in t.nodes => src \o r \in below /\ Rest(src \o r) = r
  BY PrefixOfConcat
<1>5. below \subseteq t.nodes
  OBVIOUS
<1> HIDE DEF v, below, Rest
<1>6. \A r \in v.nodes : r \in Seq(S) /\ r # <<>> /\ src \o r \in below /\ Rest(src \o r) = r
  <2> TAKE r \in v.nodes
  <2>1. PICK q \in below : r = Rest(q)
    BY <1>2
  <2> QED BY <2>1, <1>3
<1>7. \A r \in Seq(S) : r # <<>> => (r \in v.nodes <=> src \o r \in t.nodes)
  <2> TAKE r \in Seq(S)
  <2> HAVE r # <<>>
  <2>1. ASSUME src \o r \in t.nodes
        PROVE  r \in v.nodes
    <3>1. src \o r \in below /\ Rest(src \o r) = r
      BY <1>4, <2>1
    <3> QED BY <1>2, <3>1
  <2>2. ASSUME r \in v.nodes
        PROVE  src \o r \in t.nodes
    BY <1>5, <1>6, <2>2
  <2> QED BY <2>1, <2>2
<1>8. \A o \in v.earlier : \E p, q \in below : <<p, q>> \in t.earlier /\ o = <<Rest(p), Rest(q)>>
  <2> TAKE o \in v.earlier
  <2>1. PICK e \in t.earlier \intersect (below \X below) : o = <<Rest(e[1]), Rest(e[2])>>
    BY <1>2
  <2>2. PICK p \in below, q \in below : e = <<p, q>>
    BY <2>1
  <2>3. e[1] = p /\ e[2] = q /\ <<p, q>> \in t.earlier
    BY <2>1, <2>2
  <2> QED BY <2>1, <2>3
<1>9. \A x, y : <<x, y>> \in v.earlier => x \in v.nodes /\ y \in v.nodes
  <2> TAKE x, y
  <2> HAVE <<x, y>> \in v.earlier
  <2>1. PICK p \in below, q \in below : <<p, q>> \in t.earlier /\ <<x, y>> = <<Rest(p), Rest(q)>>
    BY <1>8
  <2> QED BY <1>2, <2>1
<1>10. \A x, y \in v.nodes : <<x, y>> \in v.earlier <=> <<src \o x, src \o y>> \in t.earlier
  <2> TAKE x, y \in v.nodes
  <2>1. ASSUME <<x, y>> \in v.earlier
        PROVE  <<src \o x, src \o y>> \in t.earlier
    <3>1. PICK p \in below, q \in below : <<p, q>> \in t.earlier /\ <<x, y>> = <<Rest(p), Rest(q)>>
      BY <1>8, <2>1
    <3>2. x = Rest(p) /\ y = Rest(q)
      BY <3>1
    <3>3. p = src \o x /\ q = src \o y
      BY <1>3, <3>2
    <3> QED BY <3>1, <3>3
  <2>2. ASSUME <<src \o x, src \o y>> \in t.earlier
        PROVE  <<x, y>> \in v.earlier
    <3> DEFINE e == <<src \o x, src \o y>>
    <3>1. e \in t.earlier /\ e[1] = src \o x /\ e[2] = src \o y
      BY <2>2
    <3>2. e \in below \X below
      BY <1>6
    <3> HIDE DEF e
    <3>3. e \in t.earlier \intersect (below \X below)
      BY <3>1, <3>2
    <3>4. <<Rest(e[1]), Rest(e[2])>> \in v.earlier
      BY <1>2, <3>3
    <3>5. Rest(e[1]) = x /\ Rest(e[2]) = y
      BY <1>6, <3>1
    <3> QED BY <3>4, <3>5
  <2> QED BY <2>1, <2>2
<1>11. v \in Shape(S)
  <2>1. v.nodes \subseteq Seq(S)
    BY <1>6
  <2>2. v.earlier \subseteq Seq(S) \X Seq(S)
    <3> SUFFICES ASSUME NEW o \in v.earlier
                 PROVE  o \in Seq(S) \X Seq(S)
      OBVIOUS
    <3>1. PICK p \in below, q \in below : o = <<Rest(p), Rest(q)>>
      BY <1>8
    <3> QED BY <1>3, <3>1
  <2> QED BY <1>2, <2>1, <2>2 DEF Shape
<1> QED BY <1>6, <1>7, <1>9, <1>10, <1>11 DEF IsBelow, v

LEMMA SubtreeIsTree ==
  ASSUME NEW S, NEW t, TreeOver(S, t), NEW src \in Seq(S)
  PROVE  TreeOver(S, Subtree(t, src))
<1> DEFINE v == Subtree(t, src)
<1>0. IsBelow(S, t, src, v)
  BY SubtreeBelow
<1>1. IsFiniteSet(v.nodes)
  <2> DEFINE below == {q \in t.nodes : IsPrefix(src, q) /\ q # src}
             f == [q \in below |-> SubSeq(q, Len(src) + 1, Len(q))]
  <2>1. f \in Surjection(below, v.nodes)
    BY DEF Subtree, Surjection
  <2>2. IsFiniteSet(below)
    BY FS_Subset DEF TreeOver
  <2> HIDE DEF f, v, below
  <2> QED BY <2>1, <2>2, FS_Surjection
<1> HIDE DEF v
<1>2. /\ v \in Shape(S) /\ \A r \in v.nodes : r \in Seq(S) /\ r # <<>> /\ src \o r \in t.nodes
  BY <1>0 DEF IsBelow, Shape
<1>3. \A r \in Seq(S) : r # <<>> => (r \in v.nodes <=> src \o r \in t.nodes)
  BY <1>0 DEF IsBelow
<1>4. \A x, y : <<x, y>> \in v.earlier => x \in v.nodes /\ y \in v.nodes
  BY <1>0 DEF IsBelow
<1>5. \A x, y \in v.nodes : <<x, y>> \in v.earlier <=> <<src \o x, src \o y>> \in t.earlier
  BY <1>0 DEF IsBelow
<1>6. Ordered(t) /\ \A q \in t.nodes : Has(t, Front(q))
  BY PairByPair DEF TreeOver
<1>7. \A x \in v.nodes : Front(x) \in Seq(S) /\ Front(src \o x) = src \o Front(x)
  BY <1>2, Cut, FrontConcat
<1>8. \A x, y \in v.nodes : Siblings(src \o x, src \o y) <=> Siblings(x, y)
  <2> TAKE x, y \in v.nodes
  <2>1. Front(x) \in Seq(S) /\ Front(y) \in Seq(S)
    BY <1>7
  <2>2. Front(src \o x) = src \o Front(x) /\ Front(src \o y) = src \o Front(y)
    BY <1>7
  <2> QED BY <2>1, <2>2, Cancel DEF Siblings
<1>9. \A x \in v.nodes : Has(v, Front(x))
  <2> TAKE x \in v.nodes
  <2>1. CASE Front(x) = <<>>
    BY <2>1 DEF Has
  <2>2. CASE Front(x) # <<>>
    <3>1. src \o Front(x) # <<>>
      BY <1>7, <2>2, FrontConcat
    <3>2. src \o Front(x) \in t.nodes
      BY <1>2, <1>6, <1>7, <3>1 DEF Has
    <3> QED BY <1>3, <1>7, <2>2, <3>2 DEF Has
  <2> QED BY <2>1, <2>2
<1>10. Ordered(v)
  <2>1. \A p, q : <<p, q>> \in v.earlier => p \in v.nodes /\ q \in v.nodes /\ Siblings(p, q) /\ <<q, p>> \notin v.earlier
    <3> TAKE p, q
    <3> HAVE <<p, q>> \in v.earlier
    <3>1. p \in v.nodes /\ q \in v.nodes
      BY <1>4
    <3>2. <<src \o p, src \o q>> \in t.earlier
      BY <1>5, <3>1
    <3>3. Siblings(src \o p, src \o q) /\ <<src \o q, src \o p>> \notin t.earlier
      BY <1>6, <3>2 DEF Ordered
    <3> QED BY <1>5, <1>8, <3>1, <3>3
  <2>2. \A p, q \in v.nodes : Siblings(p, q) /\ p # q => <<p, q>> \in v.earlier \/ <<q, p>> \in v.earlier
    <3> TAKE p, q \in v.nodes
    <3> HAVE Siblings(p, q) /\ p # q
    <3>1. src \o p # src \o q
      BY <1>2, Cancel
    <3>2. Siblings(src \o p, src \o q)
      BY <1>8
    <3>3. <<src \o p, src \o q>> \in t.earlier \/ <<src \o q, src \o p>> \in t.earlier
      BY <1>2, <1>6, <3>1, <3>2 DEF Ordered
    <3> QED BY <1>5, <3>3
  <2>3. \A p, q, r : <<p, q>> \in v.earlier /\ <<q, r>> \in v.earlier => <<p, r>> \in v.earlier
    <3> TAKE p, q, r
    <3> HAVE <<p, q>> \in v.earlier /\ <<q, r>> \in v.earlier
    <3>1. p \in v.nodes /\ q \in v.nodes /\ r \in v.nodes
      BY <1>4
    <3>2. <<src \o p, src \o q>> \in t.earlier /\ <<src \o q, src \o r>> \in t.earlier
      BY <1>5, <3>1
    <3>3. <<src \o p, src \o r>> \in t.earlier
      BY <1>6, <3>2 DEF Ordered
    <3> QED BY <1>5, <3>1, <3>3
  <2> QED BY <2>1, <2>2, <2>3 DEF Ordered
<1>11. IsTree(v)
  BY <1>2, <1>9, <1>10, PairByPair
<1> QED BY <1>1, <1>2, <1>11 DEF TreeOver, v

LEMMA KeysOf ==
  ASSUME NEW S, NEW t, TreeOver(S, t), NEW p \in Seq(S)
  PROVE  /\ Keys(t, p) \subseteq S /\ IsFiniteSet(Keys(t, p))
         /\ \A k : k \in Keys(t, p) <=> k \in S /\ Append(p, k) \in t.nodes
<1> DEFINE on == {q \in t.nodes : Front(q) = p}
           f == [q \in on |-> Last(q)]
<1>1. \A q \in t.nodes : q \in Seq(S) /\ q # <<>>
  BY PairByPair DEF TreeOver, Shape
<1>2. \A q \in on : q \in t.nodes /\ Last(q) \in S /\ q = Append(p, Last(q))
  BY <1>1, Cut
<1>3. Keys(t, p) = {Last(q) : q \in on}
  BY DEF Keys
<1>4. f \in Surjection(on, Keys(t, p))
  BY DEF Keys, Surjection
<1>5. IsFiniteSet(on)
  BY FS_Subset DEF TreeOver
<1>6. IsFiniteSet(Keys(t, p))
  <2> HIDE DEF f, on
  <2> QED BY <1>4, <1>5, FS_Surjection
<1>7. \A k \in S : Append(p, k) \in t.nodes => Append(p, k) \in on /\ Last(Append(p, k)) = k
  BY FrontAppend
<1> HIDE DEF on
<1> QED BY <1>2, <1>3, <1>6, <1>7

(* Some keys of a node have a first one, as they are finitely many: the    *)
(* one with the fewest before it.                                          *)
LEMMA FirstIsFirst ==
  ASSUME NEW S, NEW t, TreeOver(S, t), NEW p \in Seq(S), NEW keys, keys \subseteq Keys(t, p), keys # {}
  PROVE  /\ First(t, p, keys) \in keys
         /\ \A l \in keys \ {First(t, p, keys)} : <<Append(p, First(t, p, keys)), Append(p, l)>> \in t.earlier
<1> DEFINE Precede(k) == {l \in keys : <<Append(p, l), Append(p, k)>> \in t.earlier}
           sizes == {Cardinality(Precede(k)) : k \in keys}
<1>1. IsFiniteSet(keys) /\ \A k \in keys : k \in S /\ Append(p, k) \in t.nodes
  BY KeysOf, FS_Subset
<1>2. Ordered(t)
  BY PairByPair DEF TreeOver
<1>3. \A k \in keys : IsFiniteSet(Precede(k)) /\ Cardinality(Precede(k)) \in Nat
  <2> TAKE k \in keys
  <2>1. Precede(k) \in SUBSET keys
    OBVIOUS
  <2> HIDE DEF Precede
  <2> QED BY <1>1, <2>1, FS_Subset, FS_CardinalityType
<1>4. \A k, l : l \in Precede(k) <=> l \in keys /\ <<Append(p, l), Append(p, k)>> \in t.earlier
  OBVIOUS
<1> HIDE DEF Precede
<1>5. PICK n \in sizes : \A m \in sizes : n <= m
  <2>1. sizes \in SUBSET Nat /\ sizes # {}
    BY <1>3
  <2> HIDE DEF sizes
  <2> QED BY <2>1, LeastElement
<1>6. PICK k \in keys : n = Cardinality(Precede(k))
  OBVIOUS
<1>7. \A l \in keys : Cardinality(Precede(k)) <= Cardinality(Precede(l))
  BY <1>5, <1>6
<1>8. \A l \in keys : l \notin Precede(k)
  <2> SUFFICES ASSUME NEW l \in keys, l \in Precede(k)
               PROVE  FALSE
    OBVIOUS
  <2>1. Precede(l) \subseteq Precede(k)
    <3>1. <<Append(p, l), Append(p, k)>> \in t.earlier
      BY <1>4
    <3>2. \A x : <<x, Append(p, l)>> \in t.earlier => <<x, Append(p, k)>> \in t.earlier
      BY <1>2, <3>1 DEF Ordered
    <3> QED BY <1>4, <3>2
  <2>2. l \notin Precede(l)
    <3>1. \A x, y : <<x, y>> \in t.earlier => <<y, x>> \notin t.earlier
      BY <1>2 DEF Ordered
    <3> QED BY <1>4, <3>1
  <2>3. /\ Cardinality(Precede(l)) <= Cardinality(Precede(k))
        /\ Cardinality(Precede(k)) = Cardinality(Precede(l)) => Precede(k) = Precede(l)
    BY <1>3, <2>1, FS_Subset
  <2> QED BY <1>3, <1>7, <2>2, <2>3
<1>9. \A l \in keys \ {k} : <<Append(p, k), Append(p, l)>> \in t.earlier
  <2> TAKE l \in keys \ {k}
  <2> DEFINE x == Append(p, k)
             y == Append(p, l)
  <2>1. k \in S /\ l \in S /\ x \in t.nodes /\ y \in t.nodes
    BY <1>1
  <2>2. Siblings(x, y)
    BY <2>1, FrontAppend DEF Siblings
  <2>3. x # y
    BY <2>1, FrontAppend
  <2>4. <<y, x>> \notin t.earlier
    BY <1>4, <1>8
  <2> HIDE DEF x, y
  <2>5. <<x, y>> \in t.earlier
    BY <1>2, <2>1, <2>2, <2>3, <2>4 DEF Ordered
  <2> QED BY <2>5 DEF x, y
<1> QED BY <1>9 DEF First

-----------------------------------------------------------------------------
(* Types *)

Labels == Names \cup BRACE_STATEMENT_TAGS

\* A call whose nodes are there, and so are the keys it is yet to visit.
Frames(t) ==
  {c \in [target : Seq(Labels), src : Seq(Labels), group : Labels, wildcard : BOOLEAN, keys : SUBSET Labels] :
     /\ Has(t, c.target) /\ Has(t, c.src)
     /\ c.keys \subseteq Keys(t, IF c.wildcard THEN c.target ELSE c.src)}

TypeInv ==
  /\ document \in Documents
  /\ phase \in {"parse", "expand", "collect", "done"} /\ read \in 0..Len(document.lines)
  /\ TreeOver(Labels, parsed) /\ TreeOver(Labels, tree) /\ TreeOver(Labels, body)
  /\ pending \subseteq Seq(Labels) /\ \A p \in pending : Has(tree, p)
  /\ inherits \subseteq Seq(Labels) \X Labels /\ \A i \in inherits : Has(tree, i[1])
  /\ calls \in Seq(Frames(tree))
  /\ disclosed \subseteq Lines
  /\ phase = "parse" => pending = {} /\ inherits = {} /\ calls = <<>>

LEMMA GivenLines ==
  ASSUME document \in Documents
  PROVE  /\ document.idiom \in {"set", "brace"} /\ Len(document.lines) \in Nat /\ Lines \subseteq Nat
         /\ \A n \in Lines :
              /\ Line(n).verb \in {"set", "delete", "#"} \cup BRACE_STATEMENT_TAGS
              /\ Line(n).block \in Seq(Names) /\ Line(n).path \in Seq(Names)
              /\ Line(n).keys \in Seq(Names) /\ Line(n).keys # <<>>
              /\ Line(n).block \in Seq(Labels) /\ Line(n).path \in Seq(Labels) /\ Line(n).keys \in Seq(Labels)
              /\ Line(n).braced \in BOOLEAN /\ Line(n).closes \in BOOLEAN
<1>1. document \in Document
  BY DocumentsAssumption
<1>2. document.idiom \in {"set", "brace"} /\ document.lines \in Seq(Statement)
  BY <1>1 DEF Document
<1>3. Len(document.lines) \in Nat /\ \A n \in 1..Len(document.lines) : document.lines[n] \in Statement
  BY <1>2, LenProperties, ElementOfSeq
<1>4. \A p \in Path : p \in Seq(Names) /\ p \in Seq(Labels)
  BY SeqMonotonic DEF Path, Labels
<1>5. \A s \in Statement :
        /\ s.verb \in {"set", "delete", "#"} \cup BRACE_STATEMENT_TAGS
        /\ s.block \in Path /\ s.path \in Path /\ s.keys \in Path /\ s.keys # <<>>
        /\ s.braced \in BOOLEAN /\ s.closes \in BOOLEAN
  BY DEF Statement
<1>6. \A n \in Lines : Line(n) \in Statement
  BY <1>3 DEF Lines, Line
<1>7. Lines \subseteq Nat
  BY <1>3 DEF Lines
<1> QED BY <1>2, <1>3, <1>4, <1>5, <1>6, <1>7

(* What a node keeps when the tree grows.                                  *)
LEMMA Grown ==
  ASSUME NEW t, NEW u, t.nodes \subseteq u.nodes
  PROVE  /\ \A p : Has(t, p) => Has(u, p)
         /\ \A p : Keys(t, p) \subseteq Keys(u, p)
         /\ Seq(Frames(t)) \subseteq Seq(Frames(u))
<1>1. \A p : Has(t, p) => Has(u, p)
  BY DEF Has
<1>2. \A p : Keys(t, p) \subseteq Keys(u, p)
  BY DEF Keys
<1>3. Frames(t) \subseteq Frames(u)
  BY <1>1, <1>2 DEF Frames
<1>4. \A s \in Seq(Frames(t)) : s \in Seq(Frames(u))
  BY <1>3, SeqMonotonic
<1> QED BY <1>1, <1>2, <1>4

(* The tree after another has been merged into it at a path.               *)
LEMMA MergeAtPath ==
  ASSUME NEW S, NEW t, TreeOver(S, t), NEW u, TreeOver(S, u), NEW path \in Seq(S)
  PROVE  TreeOver(S, _merge_at_path(t, path, u)) /\ t.nodes \subseteq _merge_at_path(t, path, u).nodes
<1>1. TreeOver(S, At(path, u))
  BY AtIsTree
<1>2. TreeOver(S, _deep_merge(t, At(path, u)))
  BY <1>1, MergeIsTree
<1>3. t.nodes \subseteq _deep_merge(t, At(path, u)).nodes
  BY DEF _deep_merge
<1> QED BY <1>2, <1>3 DEF _merge_at_path

LEMMA TypeInit ==
  ASSUME Init
  PROVE  TypeInv
<1>1. document \in Documents
  BY DEF Init
<1>2. Len(document.lines) \in Nat
  BY <1>1, GivenLines
<1>3. TreeOver(Labels, Empty) /\ <<>> \in Seq(Frames(tree))
  BY EmptyTree, EmptySeq
<1> QED BY <1>1, <1>2, <1>3 DEF Init, TypeInv

(* A step that leaves the calls alone while the tree grows.                *)
LEMMA StillTyped ==
  ASSUME TypeInv, TreeOver(Labels, tree'), tree.nodes \subseteq tree'.nodes,
         UNCHANGED <<pending, inherits, calls>>
  PROVE  /\ pending' \subseteq Seq(Labels) /\ \A p \in pending' : Has(tree', p)
         /\ inherits' \subseteq Seq(Labels) \X Labels /\ \A i \in inherits' : Has(tree', i[1])
         /\ calls' \in Seq(Frames(tree'))
<1>1. /\ \A p : Has(tree, p) => Has(tree', p)
      /\ Seq(Frames(tree)) \subseteq Seq(Frames(tree'))
  BY Grown
<1> QED BY <1>1 DEF TypeInv

LEMMA TypeParse ==
  ASSUME TypeInv, _parse_set_style \/ _parse_block
  PROVE  TypeInv'
<1>1. /\ phase = "parse" /\ read \in Nat /\ read' = read + 1 /\ read' \in Lines
      /\ UNCHANGED <<document, phase, parsed, pending, inherits, calls, disclosed>>
  <2>1. Len(document.lines) \in Nat
    BY GivenLines DEF TypeInv
  <2> QED BY <2>1 DEF TypeInv, _parse_set_style, _parse_block, Lines
<1>2. /\ Line(read').block \in Seq(Labels) /\ Line(read').path \in Seq(Labels) /\ Line(read').keys \in Seq(Labels)
      /\ Line(read').keys # <<>>
  BY <1>1, GivenLines DEF TypeInv
<1>3. TreeOver(Labels, tree') /\ TreeOver(Labels, body') /\ tree.nodes \subseteq tree'.nodes
  <2>1. CASE _parse_set_style
    <3>1. TreeOver(Labels, _fold_brackets(Line(read')))
      BY <1>2, MembersAreTree, AtIsTree DEF _fold_brackets
    <3>2. LET t == _merge_at_path(tree, Line(read').block, _fold_brackets(Line(read')))
          IN  TreeOver(Labels, t) /\ tree.nodes \subseteq t.nodes
      BY <1>2, <3>1, MergeAtPath DEF TypeInv
    <3> QED BY <2>1, <3>2 DEF _parse_set_style, TypeInv
  <2>2. CASE _parse_block
    <3> DEFINE s == Line(read')
               path == Keyword(s) \o s.path
               child == IF s.verb = "#" \/ document.idiom = "set" THEN body
                        ELSE _merge_at_path(body, path, Members(s.keys))
    <3>1. path \in Seq(Labels)
      <4>1. Keyword(s) \in Seq(Labels)
        <5>1. <<>> \in Seq(Labels) /\ \A v \in Labels : <<v>> \in Seq(Labels)
          BY EmptySeq
        <5>2. BRACE_STATEMENT_TAGS \subseteq Labels
          BY DEF Labels
        <5> QED BY <5>1, <5>2 DEF Keyword
      <4> QED BY <1>2, <4>1, ConcatProperties
    <3>2. TreeOver(Labels, Members(s.keys))
      BY <1>2, MembersAreTree
    <3>3. TreeOver(Labels, body) /\ TreeOver(Labels, tree)
      BY DEF TypeInv
    <3>4. TreeOver(Labels, child)
      <4> HIDE DEF path
      <4>1. TreeOver(Labels, _merge_at_path(body, path, Members(s.keys)))
        BY <3>1, <3>2, <3>3, MergeAtPath
      <4> QED BY <3>3, <4>1
    <3> DEFINE merged == _merge_at_path(tree, s.block, child)
    <3>5. \/ body' = Empty /\ tree' = merged
          \/ body' = child /\ tree' = tree
      BY <2>2 DEF _parse_block
    <3>6. TreeOver(Labels, merged) /\ tree.nodes \subseteq merged.nodes
      <4> HIDE DEF child
      <4> QED BY <1>2, <3>3, <3>4, MergeAtPath
    <3> HIDE DEF child, merged
    <3> QED BY <3>3, <3>4, <3>5, <3>6, EmptyTree
  <2> QED BY <2>1, <2>2
<1>4. /\ pending' \subseteq Seq(Labels) /\ \A p \in pending' : Has(tree', p)
      /\ inherits' \subseteq Seq(Labels) \X Labels /\ \A i \in inherits' : Has(tree', i[1])
      /\ calls' \in Seq(Frames(tree'))
  BY <1>1, <1>3, StillTyped
<1>5. Len(document.lines) \in Nat
  BY GivenLines DEF TypeInv
<1>6. /\ document' \in Documents /\ phase' \in {"parse", "expand", "collect", "done"}
      /\ read' \in 0..Len(document'.lines) /\ TreeOver(Labels, parsed')
      /\ disclosed' \subseteq Lines'
      /\ phase' = "parse" => pending' = {} /\ inherits' = {} /\ calls' = <<>>
  BY <1>1, <1>5 DEF TypeInv, Lines
<1> QED BY <1>3, <1>4, <1>6 DEF TypeInv

LEMMA TypeParsed ==
  ASSUME TypeInv, parse_junos_config
  PROVE  TypeInv'
<1>1. Levels(tree) \subseteq Seq(Labels) /\ \A p \in Levels(tree) : Has(tree, p)
  <2>1. tree.nodes \subseteq Seq(Labels) /\ <<>> \in Seq(Labels)
    BY EmptySeq DEF TypeInv, TreeOver, Shape
  <2> QED BY <2>1 DEF Levels, Has
<1>2. pending' \subseteq Levels(tree)
  BY DEF parse_junos_config
<1> QED BY <1>1, <1>2 DEF TypeInv, parse_junos_config, Lines

LEMMA TypeExpand ==
  ASSUME TypeInv, _expand_node
  PROVE  TypeInv'
<1>1. PICK level \in pending : pending' = pending \ {level} /\ inherits' = {level} \X Applied(tree, level)
  BY DEF _expand_node
<1>2. level \in Seq(Labels) /\ Has(tree, level)
  BY DEF TypeInv
<1>3. Applied(tree, level) \subseteq Labels
  <2>1. Keys(tree, Append(level, "apply-groups")) \subseteq Labels
    <3>1. \A q \in tree.nodes : q \in Seq(Labels) /\ q # <<>>
      BY PairByPair DEF TypeInv, TreeOver, Shape
    <3>2. \A q \in tree.nodes : Last(q) \in Labels
      BY <3>1, Cut
    <3> QED BY <3>2 DEF Keys
  <2> QED BY <2>1 DEF Applied
<1>4. inherits' \subseteq Seq(Labels) \X Labels /\ \A i \in inherits' : Has(tree, i[1])
  BY <1>1, <1>2, <1>3
<1> QED BY <1>1, <1>4 DEF TypeInv, _expand_node, Lines

LEMMA TypeRest ==
  ASSUME TypeInv, ReturnTree \/ _collect_unrecognized_blocks \/ UNCHANGED vars
  PROVE  TypeInv'
<1>1. unsupported_lines \subseteq Lines
  BY DEF unsupported_lines
<1>2. CASE ReturnTree
  BY <1>2 DEF TypeInv, ReturnTree, Lines
<1>3. CASE _collect_unrecognized_blocks
  BY <1>1, <1>3 DEF TypeInv, _collect_unrecognized_blocks, Lines
<1>4. CASE UNCHANGED vars
  BY <1>4 DEF TypeInv, vars, Lines
<1> QED BY <1>2, <1>3, <1>4

LEMMA CallTyped ==
  ASSUME NEW t, TreeOver(Labels, t), NEW target \in Seq(Labels), NEW src \in Seq(Labels), NEW group \in Labels,
         Has(t, target), Has(t, src)
  PROVE  /\ Call(t, target, src, group) \in Seq(Frames(t))
         /\ WildcardLoop(t, target, src, group) \in Seq(Frames(t))
<1>1. Keys(t, src) \subseteq Labels /\ Keys(t, target) \subseteq Labels
  BY KeysOf
<1> DEFINE c == [target |-> target, src |-> src, group |-> group, wildcard |-> FALSE, keys |-> Keys(t, src)]
           w == [target |-> target, src |-> src, group |-> group, wildcard |-> TRUE,
                 keys |-> Keys(t, target) \intersect Matches[Last(src)]]
<1>2. c \in Frames(t) /\ w \in Frames(t)
  BY <1>1 DEF Frames
<1> HIDE DEF c, w
<1>3. <<>> \in Seq(Frames(t)) /\ <<c>> \in Seq(Frames(t)) /\ <<w>> \in Seq(Frames(t))
  BY <1>2, EmptySeq
<1>4. Call(t, target, src, group) \in {<<>>, <<c>>} /\ WildcardLoop(t, target, src, group) = <<w>>
  BY DEF Call, WildcardLoop, c, w
<1> QED BY <1>3, <1>4

LEMMA TypeInherit ==
  ASSUME TypeInv, InheritGroup
  PROVE  TypeInv'
<1>1. PICK i \in inherits :
        /\ inherits' = inherits \ {i}
        /\ calls' = IF _descend(tree, i[2], i[1]) = {} THEN <<>>
                    ELSE Call(tree, i[1], CHOOSE r \in _descend(tree, i[2], i[1]) : TRUE, i[2])
  BY DEF InheritGroup
<1>2. i[1] \in Seq(Labels) /\ i[2] \in Labels /\ Has(tree, i[1])
  BY DEF TypeInv
<1>3. tree.nodes \subseteq Seq(Labels) /\ TreeOver(Labels, tree)
  BY DEF TypeInv, TreeOver, Shape
<1>4. \A r \in _descend(tree, i[2], i[1]) : r \in Seq(Labels) /\ Has(tree, r)
  <2>1. \A r \in _descend(tree, i[2], i[1]) : r \in tree.nodes
    <3> TAKE r \in _descend(tree, i[2], i[1])
    <3>1. r \in tree.nodes \cup {<<"groups", i[2]>>} /\ Has(tree, <<"groups", i[2]>>)
      BY DEF _descend
    <3>2. <<"groups", i[2]>> # <<>>
      OBVIOUS
    <3> QED BY <3>1, <3>2 DEF Has
  <2> QED BY <1>3, <2>1 DEF Has
<1>5. calls' \in Seq(Frames(tree))
  <2>1. CASE _descend(tree, i[2], i[1]) = {}
    BY <1>1, <2>1, EmptySeq
  <2>2. CASE _descend(tree, i[2], i[1]) # {}
    <3> DEFINE r == CHOOSE r \in _descend(tree, i[2], i[1]) : TRUE
    <3>1. r \in _descend(tree, i[2], i[1])
      BY <2>2
    <3>2. calls' = Call(tree, i[1], r, i[2])
      BY <1>1, <2>2
    <3> HIDE DEF r
    <3> QED BY <1>2, <1>3, <1>4, <3>1, <3>2, CallTyped
  <2> QED BY <2>1, <2>2
<1> QED BY <1>1, <1>5 DEF TypeInv, InheritGroup, Lines

\* The parts of a step of _fill.
Top == Last(calls)
Visited == First(tree, IF Top.wildcard THEN Top.target ELSE Top.src, Top.keys)
To == Append(Top.target, Visited)
From == IF Top.wildcard THEN Top.src ELSE Append(Top.src, Visited)
Remaining == Append(Front(calls), [Top EXCEPT !.keys = @ \ {Visited}])

LEMMA FillTyped ==
  ASSUME TypeInv, calls # <<>>, Top.keys # {}
  PROVE  /\ Top \in Frames(tree) /\ Top.target \in Seq(Labels) /\ Top.src \in Seq(Labels) /\ Top.group \in Labels
         /\ Visited \in Labels /\ Visited \in Top.keys
         /\ To \in Seq(Labels) /\ From \in Seq(Labels)
         /\ Has(tree, Top.target) /\ Has(tree, From)
         /\ Top.wildcard => Has(tree, To)
         /\ Remaining \in Seq(Frames(tree))
<1>1. Front(calls) \in Seq(Frames(tree)) /\ Top \in Frames(tree)
  BY Cut DEF TypeInv, Top
<1>2. /\ Top.target \in Seq(Labels) /\ Top.src \in Seq(Labels) /\ Top.group \in Labels /\ Top.wildcard \in BOOLEAN
      /\ Top.keys \subseteq Labels
      /\ Has(tree, Top.target) /\ Has(tree, Top.src)
      /\ Top.keys \subseteq Keys(tree, IF Top.wildcard THEN Top.target ELSE Top.src)
  BY <1>1 DEF Frames
<1>3. TreeOver(Labels, tree)
  BY DEF TypeInv
<1> DEFINE on == IF Top.wildcard THEN Top.target ELSE Top.src
<1>4. on \in Seq(Labels)
  BY <1>2
<1>5. Visited \in Top.keys
  <2> HIDE DEF on
  <2>1. First(tree, on, Top.keys) \in Top.keys
    BY <1>2, <1>3, <1>4, FirstIsFirst DEF on
  <2> QED BY <2>1 DEF Visited, on
<1>6. Visited \in Labels /\ Append(on, Visited) \in tree.nodes
  <2>1. Visited \in Keys(tree, on)
    BY <1>2, <1>5
  <2> HIDE DEF on
  <2> QED BY <1>3, <1>4, <2>1, KeysOf
<1>7. To \in Seq(Labels) /\ (Top.wildcard => Has(tree, To))
  BY <1>2, <1>6, AppendProperties DEF To, Has
<1>8. From \in Seq(Labels) /\ Has(tree, From)
  BY <1>2, <1>6, AppendProperties DEF From, Has
<1>9. Remaining \in Seq(Frames(tree))
  <2> DEFINE c == [Top EXCEPT !.keys = @ \ {Visited}]
  <2>1. c \in Frames(tree)
    BY <1>1 DEF Frames
  <2> HIDE DEF c
  <2>2. Append(Front(calls), c) \in Seq(Frames(tree))
    BY <1>1, <2>1, AppendProperties
  <2> QED BY <2>2 DEF Remaining, c
<1> QED BY <1>1, <1>2, <1>5, <1>6, <1>7, <1>8, <1>9

LEMMA TypeFill ==
  ASSUME TypeInv, _fill
  PROVE  TypeInv'
<1>1. calls # <<>> /\ Top.keys # {}
  BY DEF _fill, Top
<1>2. /\ Top.target \in Seq(Labels) /\ Top.group \in Labels
      /\ To \in Seq(Labels) /\ From \in Seq(Labels)
      /\ Has(tree, Top.target) /\ Has(tree, From) /\ (Top.wildcard => Has(tree, To))
      /\ Remaining \in Seq(Frames(tree))
  BY <1>1, FillTyped
<1>3. /\ \/ calls' = Remaining /\ tree' = tree
         \/ calls' = Remaining \o WildcardLoop(tree, Top.target, From, Top.group) /\ tree' = tree
         \/ (Top.wildcard \/ Has(tree, To)) /\ calls' = Remaining \o Call(tree, To, From, Top.group) /\ tree' = tree
         \/ calls' = Remaining /\ tree' = Planted(tree, From, To)
      /\ UNCHANGED <<document, phase, read, body, parsed, pending, inherits, disclosed>>
  BY DEF _fill, Top, Visited, To, From, Remaining
<1>4. TreeOver(Labels, tree)
  BY DEF TypeInv
<1>5. TreeOver(Labels, Planted(tree, From, To)) /\ tree.nodes \subseteq Planted(tree, From, To).nodes
  <2>1. TreeOver(Labels, Subtree(tree, From))
    BY <1>2, <1>4, SubtreeIsTree
  <2> QED BY <1>2, <1>4, <2>1, MergeAtPath DEF Planted
<1>6. TreeOver(Labels, tree') /\ tree.nodes \subseteq tree'.nodes
  BY <1>3, <1>4, <1>5
<1>7. /\ \A p : Has(tree, p) => Has(tree', p)
      /\ Seq(Frames(tree)) \subseteq Seq(Frames(tree'))
  BY <1>6, Grown
<1>8. calls' \in Seq(Frames(tree))
  <2>1. CASE calls' = Remaining
    BY <1>2, <2>1
  <2>2. CASE calls' = Remaining \o WildcardLoop(tree, Top.target, From, Top.group)
    <3>1. WildcardLoop(tree, Top.target, From, Top.group) \in Seq(Frames(tree))
      BY <1>2, <1>4, CallTyped
    <3> QED BY <1>2, <2>2, <3>1, ConcatProperties
  <2>3. CASE (Top.wildcard \/ Has(tree, To)) /\ calls' = Remaining \o Call(tree, To, From, Top.group)
    <3>1. Has(tree, To)
      BY <1>2, <2>3
    <3>2. Call(tree, To, From, Top.group) \in Seq(Frames(tree))
      BY <1>2, <1>4, <3>1, CallTyped
    <3> QED BY <1>2, <2>3, <3>2, ConcatProperties
  <2> QED BY <1>3, <2>1, <2>2, <2>3
<1>9. calls' \in Seq(Frames(tree'))
  BY <1>7, <1>8
<1>10. phase' = "parse" => FALSE
  BY <1>1, <1>3 DEF TypeInv
<1> QED BY <1>3, <1>6, <1>7, <1>9, <1>10 DEF TypeInv, Lines

LEMMA TypeReturn ==
  ASSUME TypeInv, ReturnFill
  PROVE  TypeInv'
<1>1. Front(calls) \in Seq(Frames(tree))
  BY Cut DEF TypeInv, ReturnFill
<1>2. phase # "parse"
  BY DEF TypeInv, ReturnFill
<1> QED BY <1>1, <1>2 DEF TypeInv, ReturnFill, Lines

LEMMA TypeInvImplies ==
  ASSUME TypeInv
  PROVE  TypeOK
<1>1. IsTree(parsed) /\ IsTree(tree) /\ IsTree(body)
  BY DEF TypeInv, TreeOver
<1>2. \A n \in 1..Len(calls) : Has(tree, calls[n].target) /\ Has(tree, calls[n].src)
  <2>1. \A n \in 1..Len(calls) : calls[n] \in Frames(tree)
    BY ElementOfSeq DEF TypeInv
  <2> QED BY <2>1 DEF Frames
<1> QED BY <1>1, <1>2 DEF TypeInv, TypeOK

LEMMA TypeStep ==
  ASSUME TypeInv, [Next]_vars
  PROVE  TypeInv'
BY TypeParse, TypeParsed, TypeExpand, TypeInherit, TypeFill, TypeReturn, TypeRest DEF Next

(***************************************************************************)
(* The dicts of the parser are trees throughout - no node without its      *)
(* parent, one order for the keys of each - and every call of _fill is     *)
(* about nodes that are there.                                             *)
(***************************************************************************)
THEOREM TypeCorrect == Spec => []TypeOK
<1>1. Spec => []TypeInv
  BY TypeInit, TypeStep, PTL DEF Spec
<1> QED BY <1>1, TypeInvImplies, PTL

-----------------------------------------------------------------------------
(* What was written locally stays first. *)

\* Everything of t is in u, in its order and before what is new.
Extends(t, u) ==
  \A p \in t.nodes :
    /\ p \in u.nodes
    /\ \A q \in u.nodes : Siblings(p, q) /\ p # q => (<<p, q>> \in u.earlier <=> (q \in t.nodes => <<p, q>> \in t.earlier))

LEMMA MergeExtends ==
  ASSUME NEW S, NEW s, NEW t, TreeOver(S, t), NEW u, Extends(s, t)
  PROVE  Extends(s, _deep_merge(t, u))
<1> DEFINE m == _deep_merge(t, u)
           new == u.nodes \ t.nodes
<1>1. /\ m.nodes = t.nodes \cup new
      /\ \A p, q : <<p, q>> \in m.earlier <=>
           \/ <<p, q>> \in t.earlier
           \/ p \in t.nodes /\ q \in new /\ Siblings(p, q)
           \/ <<p, q>> \in u.earlier /\ p \in new /\ q \in new
  BY Merged
<1>2. Ordered(t)
  BY PairByPair DEF TreeOver
<1>3. \A q \in new : q \notin t.nodes
  OBVIOUS
<1> HIDE DEF m, new
<1>4. ASSUME NEW p \in s.nodes
      PROVE  /\ p \in m.nodes
             /\ \A q \in m.nodes : Siblings(p, q) /\ p # q => (<<p, q>> \in m.earlier <=> (q \in s.nodes => <<p, q>> \in s.earlier))
  <2>1. p \in t.nodes /\ s.nodes \subseteq t.nodes
    BY DEF Extends
  <2>2. ASSUME NEW q \in t.nodes, Siblings(p, q), p # q
        PROVE  <<p, q>> \in m.earlier <=> (q \in s.nodes => <<p, q>> \in s.earlier)
    <3>1. <<p, q>> \in m.earlier <=> <<p, q>> \in t.earlier
      BY <1>1, <1>3, <2>1, <2>2
    <3> QED BY <2>2, <3>1 DEF Extends
  <2>3. ASSUME NEW q \in new, Siblings(p, q), p # q
        PROVE  <<p, q>> \in m.earlier /\ q \notin s.nodes
    BY <1>1, <1>3, <2>1, <2>3
  <2> QED BY <1>1, <2>1, <2>2, <2>3
<1> QED BY <1>4 DEF Extends, m

(***************************************************************************)
(* Rule 3, at every moment of the expansion, for any groups: every step    *)
(* merges behind what is there.                                            *)
(***************************************************************************)
THEOREM LocalFirstHolds == Spec => []LocalFirst
<1> DEFINE Inv == phase # "parse" => Extends(parsed, tree)
<1>1. Inv <=> LocalFirst
  BY DEF LocalFirst, Extends
<1>2. Init => Inv
  BY DEF Init
<1>3. TypeInv /\ Inv /\ [Next]_vars => Inv'
  <2> SUFFICES ASSUME TypeInv, Inv, [Next]_vars
               PROVE  Inv'
    OBVIOUS
  <2>1. TreeOver(Labels, tree)
    BY DEF TypeInv
  <2>2. CASE _parse_set_style \/ _parse_block
    BY <2>2 DEF _parse_set_style, _parse_block
  <2>3. CASE parse_junos_config
    <3>1. Extends(tree, tree)
      BY DEF Extends
    <3> QED BY <2>3, <3>1 DEF parse_junos_config
  <2>4. CASE _fill
    <3>1. tree' = tree \/ tree' = Planted(tree, From, To)
      BY <2>4 DEF _fill, Top, Visited, To, From
    <3>2. calls # <<>> /\ UNCHANGED <<phase, parsed>>
      BY <2>4 DEF _fill
    <3>3. phase # "parse"
      BY <3>2 DEF TypeInv
    <3>4. Extends(parsed, Planted(tree, From, To))
      BY <2>1, <3>3, MergeExtends DEF Planted, _merge_at_path
    <3> QED BY <3>1, <3>2, <3>3, <3>4
  <2>5. CASE _expand_node \/ InheritGroup \/ ReturnFill
    BY <2>5 DEF _expand_node, InheritGroup, ReturnFill
  <2>6. CASE ReturnTree \/ _collect_unrecognized_blocks
    BY <2>6 DEF ReturnTree, _collect_unrecognized_blocks
  <2>7. CASE UNCHANGED vars
    BY <2>7 DEF vars
  <2> QED BY <2>2, <2>3, <2>4, <2>5, <2>6, <2>7 DEF Next
<1>4. Spec => []TypeInv
  BY TypeInit, TypeStep, PTL DEF Spec
<1>5. Spec => []Inv
  BY <1>2, <1>3, <1>4, PTL DEF Spec
<1>6. Inv => LocalFirst
  BY <1>1
<1> HIDE DEF Inv
<1> QED BY <1>5, <1>6, PTL

-----------------------------------------------------------------------------
(* What a sequence of trees becomes when they are merged one by one. *)

\* The first of the trees numbered S that has the node.
FirstIn(F, S, p) == Min({n \in S : p \in F[n].nodes})

\* p comes before q among the trees numbered S.
Leads(F, S, p, q) ==
  \/ FirstIn(F, S, p) < FirstIn(F, S, q)
  \/ FirstIn(F, S, p) = FirstIn(F, S, q) /\ <<p, q>> \in F[FirstIn(F, S, p)].earlier

Woven(F, S) ==
  LET nodes == UNION {F[n].nodes : n \in S}
  IN  [nodes |-> nodes,
       earlier |-> {o \in nodes \X nodes : Siblings(o[1], o[2]) /\ Leads(F, S, o[1], o[2])}]

LEMMA WovenIs ==
  ASSUME NEW F, NEW S
  PROVE  /\ Woven(F, S).nodes = UNION {F[n].nodes : n \in S}
         /\ \A p, q : <<p, q>> \in Woven(F, S).earlier <=>
              /\ p \in Woven(F, S).nodes /\ q \in Woven(F, S).nodes
              /\ Siblings(p, q) /\ Leads(F, S, p, q)
         /\ \A o \in Woven(F, S).earlier : o \in Woven(F, S).nodes \X Woven(F, S).nodes
BY DEF Woven

LEMMA FirstInIs ==
  ASSUME NEW F, NEW S, S \subseteq Nat, NEW p \in Woven(F, S).nodes
  PROVE  /\ FirstIn(F, S, p) \in S /\ p \in F[FirstIn(F, S, p)].nodes
         /\ \A n \in S : p \in F[n].nodes => FirstIn(F, S, p) <= n
<1> DEFINE T == {n \in S : p \in F[n].nodes}
<1>1. T \in SUBSET Nat /\ T # {}
  BY DEF Woven
<1> HIDE DEF T
<1>2. Min(T) \in T /\ \A n \in T : Min(T) <= n
  BY <1>1, MinIsLeast
<1> QED BY <1>2 DEF FirstIn, T

\* Two trees in the same record shape with the same pairs are the same.
LEMMA SameTree ==
  ASSUME NEW t, NEW u, NEW X, NEW Y,
         t = [nodes |-> t.nodes, earlier |-> t.earlier], u = [nodes |-> u.nodes, earlier |-> u.earlier],
         t.earlier \subseteq X \X X, u.earlier \subseteq Y \X Y,
         t.nodes = u.nodes, \A p, q : <<p, q>> \in t.earlier <=> <<p, q>> \in u.earlier
  PROVE  t = u
<1>1. \A o \in t.earlier : o \in u.earlier
  <2> TAKE o \in t.earlier
  <2>1. PICK p, q : o = <<p, q>>
    OBVIOUS
  <2> QED BY <2>1
<1>2. \A o \in u.earlier : o \in t.earlier
  <2> TAKE o \in u.earlier
  <2>1. PICK p, q : o = <<p, q>>
    OBVIOUS
  <2> QED BY <2>1
<1>3. t.earlier = u.earlier
  BY <1>1, <1>2
<1> QED BY <1>3

LEMMA WovenShape ==
  ASSUME NEW F, NEW S
  PROVE  /\ Woven(F, S) = [nodes |-> Woven(F, S).nodes, earlier |-> Woven(F, S).earlier]
         /\ Woven(F, S).earlier \subseteq Woven(F, S).nodes \X Woven(F, S).nodes
BY DEF Woven

LEMMA WeaveNone ==
  ASSUME NEW F
  PROVE  Woven(F, {}) = Empty
<1>1. UNION {F[n].nodes : n \in {}} = {}
  OBVIOUS
<1>2. Woven(F, {}).nodes = {} /\ Woven(F, {}).earlier = {}
  BY <1>1, WovenIs
<1> QED BY <1>2, WovenShape DEF Empty

LEMMA WeaveOne ==
  ASSUME NEW S, NEW F, NEW n \in Nat, TreeOver(S, F[n])
  PROVE  Woven(F, {n}) = F[n]
<1> DEFINE w == Woven(F, {n})
           t == F[n]
<1>1. w.nodes = t.nodes
  <2>1. UNION {F[i].nodes : i \in {n}} = F[n].nodes
    OBVIOUS
  <2> QED BY <2>1, WovenIs
<1>2. \A p \in t.nodes : FirstIn(F, {n}, p) = n
  <2> TAKE p \in t.nodes
  <2>1. p \in w.nodes
    BY <1>1
  <2>2. FirstIn(F, {n}, p) \in {n}
    BY <2>1, FirstInIs
  <2> QED BY <2>2
<1>3. t \in Shape(S) /\ Ordered(t)
  BY PairByPair DEF TreeOver
<1>4. \A p, q : <<p, q>> \in w.earlier <=> <<p, q>> \in t.earlier
  <2> TAKE p, q
  <2>1. <<p, q>> \in w.earlier <=> p \in t.nodes /\ q \in t.nodes /\ Siblings(p, q) /\ Leads(F, {n}, p, q)
    BY <1>1, WovenIs
  <2>2. p \in t.nodes /\ q \in t.nodes => (Leads(F, {n}, p, q) <=> <<p, q>> \in t.earlier)
    BY <1>2 DEF Leads
  <2>3. <<p, q>> \in t.earlier => p \in t.nodes /\ q \in t.nodes /\ Siblings(p, q)
    BY <1>3 DEF Ordered
  <2> QED BY <2>1, <2>2, <2>3
<1>5. t = [nodes |-> t.nodes, earlier |-> t.earlier] /\ t.earlier \subseteq Seq(S) \X Seq(S)
  BY <1>3 DEF Shape
<1>6. w = [nodes |-> w.nodes, earlier |-> w.earlier] /\ w.earlier \subseteq w.nodes \X w.nodes
  BY WovenShape
<1> HIDE DEF w, t
<1>7. w = t
  BY <1>1, <1>4, <1>5, <1>6, SameTree
<1> QED BY <1>7 DEF w, t

(* Merging what came of later trees into what came of earlier ones.        *)
LEMMA WeaveMore ==
  ASSUME NEW F, NEW S, S \subseteq Nat, NEW T, T \subseteq Nat, \A m \in S, n \in T : m < n
  PROVE  _deep_merge(Woven(F, S), Woven(F, T)) = Woven(F, S \cup T)
<1> DEFINE s == Woven(F, S)
           t == Woven(F, T)
           w == Woven(F, S \cup T)
           m == _deep_merge(s, t)
           new == t.nodes \ s.nodes
<1>1. /\ m.nodes = s.nodes \cup t.nodes
      /\ \A p, q : <<p, q>> \in m.earlier <=>
           \/ <<p, q>> \in s.earlier
           \/ p \in s.nodes /\ q \in new /\ Siblings(p, q)
           \/ <<p, q>> \in t.earlier /\ p \in new /\ q \in new
  BY Merged
<1>2. w.nodes = s.nodes \cup t.nodes
  BY WovenIs
<1>3. \A p \in s.nodes : FirstIn(F, S \cup T, p) = FirstIn(F, S, p) /\ FirstIn(F, S, p) \in S
  <2> TAKE p \in s.nodes
  <2> DEFINE n == FirstIn(F, S, p)
             k == FirstIn(F, S \cup T, p)
  <2>1. n \in S /\ p \in F[n].nodes /\ \A i \in S : p \in F[i].nodes => n <= i
    BY FirstInIs
  <2>2. k \in S \cup T /\ p \in F[k].nodes /\ \A i \in S \cup T : p \in F[i].nodes => k <= i
    <3>1. p \in w.nodes
      BY <1>2
    <3> QED BY <3>1, FirstInIs
  <2> HIDE DEF n, k
  <2>3. k <= n
    BY <2>1, <2>2
  <2>4. k \in S
    BY <2>1, <2>2, <2>3
  <2>5. n <= k
    BY <2>1, <2>2, <2>4
  <2>6. n = k
    <3>1. n \in Nat /\ k \in Nat
      BY <2>1, <2>4
    <3> QED BY <2>3, <2>5, <3>1
  <2> QED BY <2>1, <2>6 DEF n, k
<1>4. \A p \in new : FirstIn(F, S \cup T, p) = FirstIn(F, T, p) /\ FirstIn(F, T, p) \in T
  <2> TAKE p \in new
  <2> DEFINE n == FirstIn(F, T, p)
             k == FirstIn(F, S \cup T, p)
  <2>1. n \in T /\ p \in F[n].nodes /\ \A i \in T : p \in F[i].nodes => n <= i
    BY FirstInIs
  <2>2. k \in S \cup T /\ p \in F[k].nodes /\ \A i \in S \cup T : p \in F[i].nodes => k <= i
    <3>1. p \in w.nodes
      BY <1>2
    <3> QED BY <3>1, FirstInIs
  <2>3. \A i \in S : p \notin F[i].nodes
    BY DEF Woven
  <2> HIDE DEF n, k
  <2>4. k \in T /\ k <= n /\ n <= k
    BY <2>1, <2>2, <2>3
  <2>5. n = k
    <3>1. n \in Nat /\ k \in Nat
      BY <2>1, <2>4
    <3> QED BY <2>4, <3>1
  <2> QED BY <2>1, <2>5 DEF n, k
<1>5. /\ \A p, q : <<p, q>> \in s.earlier <=> p \in s.nodes /\ q \in s.nodes /\ Siblings(p, q) /\ Leads(F, S, p, q)
      /\ \A p, q : <<p, q>> \in t.earlier <=> p \in t.nodes /\ q \in t.nodes /\ Siblings(p, q) /\ Leads(F, T, p, q)
      /\ \A p, q : <<p, q>> \in w.earlier <=> p \in w.nodes /\ q \in w.nodes /\ Siblings(p, q) /\ Leads(F, S \cup T, p, q)
  BY WovenIs
<1>6. new \subseteq t.nodes /\ \A p \in s.nodes : p \notin new
  OBVIOUS
<1>7. s.nodes \cup t.nodes = s.nodes \cup new
  OBVIOUS
<1>8. /\ m = [nodes |-> m.nodes, earlier |-> m.earlier]
      /\ w = [nodes |-> w.nodes, earlier |-> w.earlier] /\ w.earlier \subseteq w.nodes \X w.nodes
  BY WovenShape DEF _deep_merge
<1>9. m.earlier \subseteq w.nodes \X w.nodes
  <2>1. s.earlier \subseteq s.nodes \X s.nodes
    BY WovenShape
  <2> QED BY <1>2, <2>1 DEF _deep_merge
<1> HIDE DEF s, t, w, m, new
<1>10. ASSUME NEW p, NEW q
       PROVE  <<p, q>> \in m.earlier <=> <<p, q>> \in w.earlier
  <2>1. CASE p \in s.nodes /\ q \in s.nodes
    <3>1. Leads(F, S \cup T, p, q) <=> Leads(F, S, p, q)
      BY <1>3, <2>1 DEF Leads
    <3> QED BY <1>1, <1>2, <1>5, <1>6, <2>1, <3>1
  <2>2. CASE p \in s.nodes /\ q \in new
    <3>1. Leads(F, S \cup T, p, q)
      BY <1>3, <1>4, <2>2 DEF Leads
    <3> QED BY <1>1, <1>2, <1>5, <1>6, <2>2, <3>1
  <2>3. CASE p \in new /\ q \in s.nodes
    <3>1. FirstIn(F, S \cup T, q) < FirstIn(F, S \cup T, p)
      BY <1>3, <1>4, <2>3
    <3>2. FirstIn(F, S \cup T, q) \in Nat /\ FirstIn(F, S \cup T, p) \in Nat
      BY <1>3, <1>4, <2>3
    <3>3. ~Leads(F, S \cup T, p, q)
      BY <3>1, <3>2 DEF Leads
    <3> QED BY <1>1, <1>2, <1>5, <1>6, <2>3, <3>3
  <2>4. CASE p \in new /\ q \in new
    <3>1. Leads(F, S \cup T, p, q) <=> Leads(F, T, p, q)
      BY <1>4, <2>4 DEF Leads
    <3>2. p \notin s.nodes /\ q \notin s.nodes /\ p \in t.nodes /\ q \in t.nodes
      BY <1>6, <2>4
    <3>3. <<p, q>> \in m.earlier <=> <<p, q>> \in t.earlier
      BY <1>1, <1>5, <2>4, <3>2
    <3> QED BY <1>2, <1>5, <3>1, <3>2, <3>3
  <2>5. CASE p \notin s.nodes \cup new \/ q \notin s.nodes \cup new
    BY <1>1, <1>2, <1>5, <1>6, <1>7, <2>5
  <2> QED BY <2>1, <2>2, <2>3, <2>4, <2>5
<1>11. m.nodes = w.nodes
  BY <1>1, <1>2
<1>12. m = w
  BY <1>8, <1>9, <1>10, <1>11, SameTree
<1> QED BY <1>12 DEF m, s, t, w

(* A path and then a path are one path.                                    *)
LEMMA AtAt ==
  ASSUME NEW S, NEW b \in Seq(S), NEW p \in Seq(S), NEW u, TreeOver(S, u)
  PROVE  At(b, At(p, u)) = At(b \o p, u)
<1> DEFINE v == At(p, u)
           x == At(b, v)
           y == At(b \o p, u)
<1>1. TreeOver(S, v) /\ IsAt(S, p, u, v)
  BY AtIsTree, AtPath
<1>2. b \o p \in Seq(S)
  BY ConcatProperties
<1>3. IsAt(S, b \o p, u, y) /\ TreeOver(S, y)
  BY <1>2, AtPath, AtIsTree
<1>4. x = [nodes |-> x.nodes, earlier |-> x.earlier] /\ y = [nodes |-> y.nodes, earlier |-> y.earlier]
  BY DEF At
<1> HIDE DEF v
<1>5. IsAt(S, b, v, x) /\ TreeOver(S, x)
  BY <1>1, AtPath, AtIsTree
<1> HIDE DEF x, y
<1>6. u.nodes \subseteq Seq(S)
  BY DEF TreeOver, Shape
<1>7. \A q \in Seq(S) : (b \o p) \o q = b \o (p \o q) /\ p \o q \in Seq(S)
  BY ConcatAssociative, ConcatProperties
<1>8. x.nodes = y.nodes
  <2>1. x.nodes = NodesOn(b) \cup {b \o q : q \in NodesOn(p) \cup {p \o r : r \in u.nodes}}
    BY <1>1, <1>5 DEF IsAt
  <2>2. {b \o q : q \in NodesOn(p) \cup {p \o r : r \in u.nodes}}
        = {b \o q : q \in NodesOn(p)} \cup {b \o (p \o r) : r \in u.nodes}
    OBVIOUS
  <2>3. {b \o (p \o r) : r \in u.nodes} = {(b \o p) \o r : r \in u.nodes}
    BY <1>6, <1>7, ZenonT(60)
  <2>4. y.nodes = NodesOn(b \o p) \cup {(b \o p) \o r : r \in u.nodes}
    BY <1>3 DEF IsAt
  <2>5. NodesOn(b \o p) = NodesOn(b) \cup {b \o q : q \in NodesOn(p)}
    BY NodesOnConcat
  <2> QED BY <2>1, <2>2, <2>3, <2>4, <2>5
<1>9. ASSUME NEW i, NEW j, <<i, j>> \in x.earlier
      PROVE  <<i, j>> \in y.earlier
  <2>1. Below(b, v, i, j)
    BY <1>5, <1>9 DEF IsAt
  <2>2. PICK q, r \in v.nodes : <<q, r>> \in v.earlier /\ i = b \o q /\ j = b \o r
    BY <2>1 DEF Below
  <2>3. Below(p, u, q, r)
    BY <1>1, <2>2 DEF IsAt
  <2>4. PICK c, d \in u.nodes : <<c, d>> \in u.earlier /\ q = p \o c /\ r = p \o d
    BY <2>3 DEF Below
  <2>5. c \in Seq(S) /\ d \in Seq(S)
    BY <1>6
  <2>6. i = (b \o p) \o c /\ j = (b \o p) \o d
    BY <1>7, <2>2, <2>4, <2>5
  <2>7. <<(b \o p) \o c, (b \o p) \o d>> \in y.earlier
    BY <1>3, <2>4, <2>5 DEF IsAt
  <2> QED BY <2>6, <2>7
<1>10. ASSUME NEW i, NEW j, <<i, j>> \in y.earlier
       PROVE  <<i, j>> \in x.earlier
  <2>1. Below(b \o p, u, i, j)
    BY <1>3, <1>10 DEF IsAt
  <2>2. PICK c, d \in u.nodes : <<c, d>> \in u.earlier /\ i = (b \o p) \o c /\ j = (b \o p) \o d
    BY <2>1 DEF Below
  <2>3. c \in Seq(S) /\ d \in Seq(S)
    BY <1>6
  <2>4. <<p \o c, p \o d>> \in v.earlier
    BY <1>1, <2>2, <2>3 DEF IsAt
  <2>5. p \o c \in Seq(S) /\ p \o d \in Seq(S)
    BY <1>7, <2>3
  <2>6. <<b \o (p \o c), b \o (p \o d)>> \in x.earlier
    BY <1>5, <2>4, <2>5 DEF IsAt
  <2> QED BY <1>7, <2>2, <2>3, <2>6
<1>11. x.earlier \subseteq Seq(S) \X Seq(S) /\ y.earlier \subseteq Seq(S) \X Seq(S)
  BY <1>3, <1>5 DEF IsAt, Shape
<1>12. x = y
  BY <1>4, <1>8, <1>9, <1>10, <1>11, SameTree
<1> QED BY <1>12 DEF x, y, v

\* Each of the trees of F numbered T is the one of R put at a path.
Puts(S, F, R, T, path) ==
  /\ T \subseteq Nat /\ T # {} /\ path \in Seq(S) /\ TreeOver(S, Woven(R, T))
  /\ \A n \in T : TreeOver(S, R[n]) /\ F[n] = At(path, R[n])

(* What the statements of a block become in it, put at its path, is what   *)
(* each becomes when it is put there itself.                               *)
LEMMA WovenAt ==
  ASSUME NEW S, NEW F, NEW R, NEW T, NEW path, Puts(S, F, R, T, path)
  PROVE  At(path, Woven(R, T)) = Woven(F, T)
<1> DEFINE r == Woven(R, T)
           f == Woven(F, T)
           a == At(path, r)
<1>0. T \subseteq Nat /\ T # {} /\ path \in Seq(S) /\ TreeOver(S, r)
  BY DEF Puts
<1>1. a = [nodes |-> a.nodes, earlier |-> a.earlier] /\ f = [nodes |-> f.nodes, earlier |-> f.earlier]
      /\ f.earlier \subseteq f.nodes \X f.nodes
  BY WovenShape DEF At
<1>2. /\ r.nodes = UNION {R[n].nodes : n \in T}
      /\ \A p, q : <<p, q>> \in r.earlier <=> p \in r.nodes /\ q \in r.nodes /\ Siblings(p, q) /\ Leads(R, T, p, q)
  BY WovenIs
<1>3. /\ f.nodes = UNION {F[n].nodes : n \in T}
      /\ \A p, q : <<p, q>> \in f.earlier <=> p \in f.nodes /\ q \in f.nodes /\ Siblings(p, q) /\ Leads(F, T, p, q)
  BY WovenIs
<1>4. \A p \in r.nodes : FirstIn(R, T, p) \in T
  BY <1>0, FirstInIs
<1>13. \A p \in f.nodes : FirstIn(F, T, p) \in T
  BY <1>0, FirstInIs
<1>5. IsAt(S, path, r, a) /\ TreeOver(S, r)
  BY <1>0, AtPath
<1> HIDE DEF r, f, a
<1>6. \A n \in T : IsAt(S, path, R[n], F[n])
  BY <1>0, AtPath DEF Puts
<1>7. r.nodes \subseteq Seq(S) /\ (\A p \in r.nodes : p # <<>>) /\ Ordered(r)
  BY <1>5, PairByPair DEF TreeOver, Shape
<1>8. a.nodes = f.nodes
  <2>1. a.nodes = NodesOn(path) \cup {path \o q : q \in r.nodes}
    BY <1>5 DEF IsAt
  <2>2. \A n \in T : F[n].nodes = NodesOn(path) \cup {path \o q : q \in R[n].nodes}
    BY <1>6 DEF IsAt
  <2>3. a.nodes \subseteq f.nodes
    <3>1. \A n \in T : F[n].nodes \subseteq f.nodes
      BY <1>3
    <3>2. PICK n \in T : TRUE
      BY <1>0
    <3>3. NodesOn(path) \subseteq F[n].nodes
      BY <2>2
    <3>4. \A q \in r.nodes : path \o q \in f.nodes
      <4> TAKE q \in r.nodes
      <4>1. PICK m \in T : q \in R[m].nodes
        BY <1>2
      <4>2. path \o q \in {path \o x : x \in R[m].nodes}
        BY <4>1
      <4>3. path \o q \in F[m].nodes
        BY <2>2, <4>2
      <4> QED BY <3>1, <4>3
    <3> QED BY <2>1, <3>1, <3>2, <3>3, <3>4
  <2>4. f.nodes \subseteq a.nodes
    <3> SUFFICES ASSUME NEW n \in T, NEW p \in F[n].nodes
                 PROVE  p \in a.nodes
      BY <1>3
    <3>1. R[n].nodes \subseteq r.nodes
      BY <1>2
    <3>2. CASE p \in NodesOn(path)
      BY <2>1, <3>2
    <3>3. CASE p \notin NodesOn(path)
      <4>1. PICK q \in R[n].nodes : p = path \o q
        BY <2>2, <3>3
      <4> QED BY <2>1, <3>1, <4>1
    <3> QED BY <3>2, <3>3
  <2> QED BY <2>3, <2>4
<1>9. \A p \in r.nodes : FirstIn(F, T, path \o p) = FirstIn(R, T, p)
  <2> TAKE p \in r.nodes
  <2>1. \A n \in T : path \o p \in F[n].nodes <=> p \in R[n].nodes
    BY <1>6, <1>7 DEF IsAt
  <2>2. {n \in T : path \o p \in F[n].nodes} = {n \in T : p \in R[n].nodes}
    BY <2>1
  <2> QED BY <2>2 DEF FirstIn
<1>10. \A p, q \in r.nodes : Leads(F, T, path \o p, path \o q) <=> Leads(R, T, p, q)
  <2> TAKE p, q \in r.nodes
  <2> DEFINE n == FirstIn(R, T, p)
  <2>1. n \in T /\ FirstIn(F, T, path \o p) = n /\ FirstIn(F, T, path \o q) = FirstIn(R, T, q)
    BY <1>4, <1>9
  <2> HIDE DEF n
  <2>2. p \in Seq(S) /\ q \in Seq(S)
    BY <1>7
  <2>3. <<path \o p, path \o q>> \in F[n].earlier <=> <<p, q>> \in R[n].earlier
    BY <1>6, <2>1, <2>2 DEF IsAt
  <2> QED BY <2>1, <2>3 DEF Leads, n
<1>11. ASSUME NEW p, NEW q, <<p, q>> \in a.earlier
       PROVE  <<p, q>> \in f.earlier
  <2>1. Below(path, r, p, q)
    BY <1>5, <1>11 DEF IsAt
  <2>2. PICK x, y \in r.nodes : <<x, y>> \in r.earlier /\ p = path \o x /\ q = path \o y
    BY <2>1 DEF Below
  <2>3. Siblings(x, y) /\ Leads(R, T, x, y)
    BY <1>2, <2>2
  <2>4. Leads(F, T, p, q)
    BY <1>10, <2>2, <2>3
  <2>5. p \in a.nodes /\ q \in a.nodes /\ Siblings(p, q)
    <3>1. TreeOver(S, a)
      BY <1>0, <1>5, AtIsTree DEF a
    <3>2. Ordered(a)
      BY <3>1, PairByPair DEF TreeOver
    <3> QED BY <1>11, <3>2 DEF Ordered
  <2> QED BY <1>3, <1>8, <2>4, <2>5
<1>12. ASSUME NEW p, NEW q, <<p, q>> \in f.earlier
       PROVE  <<p, q>> \in a.earlier
  <2>1. p \in f.nodes /\ q \in f.nodes /\ Siblings(p, q) /\ Leads(F, T, p, q)
    BY <1>3, <1>12
  <2>2. p # q
    <3>1. CASE FirstIn(F, T, p) < FirstIn(F, T, q)
      <4>1. FirstIn(F, T, p) \in Nat
        BY <1>0, <1>13, <2>1
      <4> QED BY <3>1, <4>1
    <3>2. CASE <<p, q>> \in F[FirstIn(F, T, p)].earlier
      <4> DEFINE n == FirstIn(F, T, p)
      <4>1. n \in T
        BY <1>13, <2>1
      <4> HIDE DEF n
      <4>2. Ordered(F[n])
        <5>1. TreeOver(S, F[n])
          BY <1>0, <4>1, AtIsTree DEF Puts
        <5> QED BY <5>1, PairByPair DEF TreeOver
      <4> QED BY <3>2, <4>2 DEF Ordered, n
    <3> QED BY <2>1, <3>1, <3>2 DEF Leads
  <2>3. a.nodes = NodesOn(path) \cup {path \o x : x \in r.nodes}
    BY <1>5 DEF IsAt
  <2>4. p \notin NodesOn(path)
    <3>1. ASSUME p \in NodesOn(path), q \in NodesOn(path)
          PROVE  FALSE
      BY <3>1, <2>1, <2>2, <1>0, NodesOnPath
    <3>2. ASSUME p \in NodesOn(path), NEW y \in r.nodes, q = path \o y
          PROVE  FALSE
      BY <3>2, <2>1, <1>7, <1>0, NodesOnPath
    <3> QED BY <1>8, <2>1, <2>3, <3>1, <3>2
  <2>5. q \notin NodesOn(path)
    <3>1. PICK x \in r.nodes : p = path \o x
      BY <1>8, <2>1, <2>3, <2>4
    <3> QED BY <3>1, <2>1, <1>7, <1>0, NodesOnPath
  <2>6. PICK x \in r.nodes, y \in r.nodes : p = path \o x /\ q = path \o y
    BY <1>8, <2>1, <2>3, <2>4, <2>5
  <2>7. Leads(R, T, x, y)
    BY <1>10, <2>1, <2>6
  <2>8. x \in Seq(S) /\ y \in Seq(S) /\ x # <<>> /\ y # <<>>
    BY <1>7
  <2>9. Siblings(x, y)
    <3>1. Front(x) \in Seq(S) /\ Front(y) \in Seq(S)
      BY <2>8, Cut
    <3>2. Front(path \o x) = path \o Front(x) /\ Front(path \o y) = path \o Front(y)
      BY <2>8, <1>0, FrontConcat
    <3> QED BY <2>1, <2>6, <3>1, <3>2, <1>0, Cancel DEF Siblings
  <2>10. <<x, y>> \in r.earlier
    BY <1>2, <2>6, <2>7, <2>9
  <2>11. <<path \o x, path \o y>> \in a.earlier
    BY <1>5, <2>8, <2>10 DEF IsAt
  <2> QED BY <2>6, <2>11
<1>14. a.earlier \subseteq Seq(S) \X Seq(S)
  BY <1>5 DEF IsAt, Shape
<1>15. a = f
  BY <1>1, <1>8, <1>11, <1>12, <1>14, SameTree
<1> QED BY <1>15 DEF a, f, r

-----------------------------------------------------------------------------
(* The rendering is told from the lines. *)

LEMMA FewerBraces ==
  ASSUME document \in Documents, document.idiom = "set", NEW n \in Lines
  PROVE  /\ Cardinality(BraceLines(n)) <= Cardinality(SetLines(n))
         /\ Cardinality(BraceLines(n)) \in Nat /\ Cardinality(SetLines(n)) \in Nat
<1> DEFINE Braced == {m \in 1..n : Line(m).braced}
           f == [m \in Braced |-> <<m, "text">>]
<1>1. n \in Nat /\ 1..n \subseteq Lines
  BY GivenLines DEF Lines
<1>2. IsFiniteSet(SetLines(n)) /\ Cardinality(SetLines(n)) \in Nat
  <2>1. IsFiniteSet(1..n) /\ SetLines(n) \in SUBSET (1..n)
    BY <1>1, FS_Interval DEF SetLines
  <2> QED BY <2>1, FS_Subset, FS_CardinalityType
<1>3. Braced \subseteq SetLines(n)
  <2> SUFFICES ASSUME NEW m \in Braced
               PROVE  m \in SetLines(n)
    OBVIOUS
  <2>1. m \in Lines /\ m \in 1..n /\ Line(m).braced
    BY <1>1
  <2>2. Line(m).verb \in {"set", "delete", "#"} \cup BRACE_STATEMENT_TAGS
    BY <2>1, GivenLines
  <2>3. Line(m).verb \notin BRACE_STATEMENT_TAGS /\ Line(m).verb # "#"
    BY <2>1, DocumentsAssumption DEF Lines, Line
  <2> QED BY <2>1, <2>2, <2>3 DEF SetLines
<1>4. BraceLines(n) = {<<m, "text">> : m \in Braced}
  <2>1. \A o \in BraceLines(n) : o[1] \in 1..n /\ o = <<o[1], o[2]>> /\ o[2] = "text" /\ Line(o[1]).braced
    BY DEF BraceLines
  <2>2. \A m \in Braced : <<m, "text">> \in BraceLines(n)
    BY DEF BraceLines
  <2>3. \A o \in BraceLines(n) : o[1] \in Braced /\ o = <<o[1], "text">>
    BY <2>1
  <2> QED BY <2>2, <2>3
<1>5. f \in Surjection(Braced, BraceLines(n))
  BY <1>4 DEF Surjection
<1>6. IsFiniteSet(Braced) /\ Cardinality(Braced) <= Cardinality(SetLines(n)) /\ Cardinality(Braced) \in Nat
  <2> HIDE DEF Braced
  <2> QED BY <1>2, <1>3, FS_Subset, FS_CardinalityType
<1>7. IsFiniteSet(BraceLines(n)) /\ Cardinality(BraceLines(n)) <= Cardinality(Braced) /\ Cardinality(BraceLines(n)) \in Nat
  <2> HIDE DEF Braced, f
  <2> QED BY <1>5, <1>6, FS_Surjection, FS_CardinalityType
<1> QED BY <1>2, <1>6, <1>7

LEMMA IdiomTold ==
  ASSUME document \in Documents
  PROVE  _is_set_style <=> document.idiom = "set" /\ \E n \in Lines : Line(n).verb \in {"set", "delete"}
<1> DEFINE L == Len(document.lines)
           decided == {n \in Lines : Cardinality(SetLines(n)) >= 3 \/ Cardinality(BraceLines(n)) >= 3}
<1>1. L \in Nat /\ Lines = 1..L
  BY GivenLines DEF Lines
<1>2. _is_set_style <=> IF decided = {} THEN SetLines(L) # {} ELSE Cardinality(SetLines(Min(decided))) >= 3
  BY DEF _is_set_style
<1>3. decided # {} => Min(decided) \in decided
  <2>1. decided \in SUBSET Nat
    BY <1>1
  <2> HIDE DEF decided
  <2> QED BY <2>1, MinIsLeast
<1>4. Cardinality({}) = 0
  BY FS_EmptySet
<1>5. \A n \in Lines : n \in decided <=> Cardinality(SetLines(n)) >= 3 \/ Cardinality(BraceLines(n)) >= 3
  OBVIOUS
<1>6. decided \subseteq Lines
  OBVIOUS
<1>7. SetLines(L) # {} <=> document.idiom = "set" /\ \E n \in Lines : Line(n).verb \in {"set", "delete"}
  BY <1>1 DEF SetLines
<1> HIDE DEF decided
<1>8. CASE decided = {}
  BY <1>2, <1>7, <1>8
<1>9. CASE decided # {}
  <2> DEFINE n == Min(decided)
  <2>1. n \in Lines /\ n \in decided
    BY <1>3, <1>6, <1>9
  <2> HIDE DEF n
  <2>2. SetLines(n) \subseteq SetLines(L)
    BY <1>1, <2>1 DEF SetLines
  <2>3. CASE document.idiom = "set"
    <3>1. Cardinality(SetLines(n)) >= 3
      BY <1>5, <2>1, <2>3, FewerBraces
    <3>2. SetLines(n) # {}
      BY <1>4, <3>1
    <3> QED BY <1>2, <1>7, <1>9, <2>2, <3>1, <3>2 DEF n
  <2>4. CASE document.idiom # "set"
    <3>1. SetLines(n) = {}
      BY <2>4 DEF SetLines
    <3> QED BY <1>2, <1>4, <1>9, <2>4, <3>1 DEF n
  <2> QED BY <2>3, <2>4
<1> QED BY <1>8, <1>9

-----------------------------------------------------------------------------
(* The tree is what its statements add, in their order. *)

\* The statements that a parser of their rendering takes, what each adds to the
\* dict of its block, and to the tree.
Taken == {n \in Lines : Line(n).verb # "#" /\ (document.idiom = "set" => Line(n).verb = "set")}
Inner == [n \in Lines |-> At(Keyword(Line(n)) \o Line(n).path, Members(Line(n).keys))]
Outer == [n \in Lines |-> At(Line(n).block, Inner[n])]

\* The statements of the block that is being read after statement r.
Open(r) == {m \in 1..r : document.idiom = "brace" /\ \A k \in m..r : ~Line(k).closes}

ParseInv ==
  /\ phase = "parse" =>
       /\ tree = Woven(Outer, Taken \intersect ((1..read) \ Open(read)))
       /\ body = Woven(Inner, Taken \intersect Open(read))
       /\ \A m \in Open(read) : read < Len(document.lines) /\ Line(m).block = Line(read + 1).block
  /\ phase # "parse" => parsed = Woven(Outer, Taken)

LEMMA AddedTrees ==
  ASSUME document \in Documents, NEW n \in Lines
  PROVE  /\ Keyword(Line(n)) \o Line(n).path \in Seq(Labels)
         /\ TreeOver(Labels, Members(Line(n).keys))
         /\ TreeOver(Labels, Inner[n]) /\ TreeOver(Labels, Outer[n])
<1>1. Line(n).block \in Seq(Labels) /\ Line(n).path \in Seq(Labels) /\ Line(n).keys \in Seq(Labels)
  BY GivenLines
<1>2. Keyword(Line(n)) \in Seq(Labels)
  <2>1. <<>> \in Seq(Labels) /\ \A v \in Labels : <<v>> \in Seq(Labels)
    BY EmptySeq
  <2>2. BRACE_STATEMENT_TAGS \subseteq Labels
    BY DEF Labels
  <2> QED BY <2>1, <2>2 DEF Keyword
<1>3. Keyword(Line(n)) \o Line(n).path \in Seq(Labels)
  BY <1>1, <1>2, ConcatProperties
<1>4. TreeOver(Labels, Members(Line(n).keys))
  BY <1>1, MembersAreTree
<1>5. TreeOver(Labels, Inner[n])
  <2>1. TreeOver(Labels, At(Keyword(Line(n)) \o Line(n).path, Members(Line(n).keys)))
    BY <1>3, <1>4, AtIsTree
  <2> QED BY <2>1 DEF Inner
<1>6. TreeOver(Labels, Outer[n])
  <2>1. TreeOver(Labels, At(Line(n).block, Inner[n]))
    BY <1>1, <1>5, AtIsTree
  <2> QED BY <2>1 DEF Outer
<1> QED BY <1>3, <1>4, <1>5, <1>6

LEMMA ParseInit ==
  ASSUME Init
  PROVE  ParseInv
<1>1. Open(0) = {} /\ 1..0 = {}
  BY DEF Open
<1>2. Woven(Outer, {}) = Empty /\ Woven(Inner, {}) = Empty
  BY WeaveNone
<1> QED BY <1>1, <1>2 DEF Init, ParseInv

(* A set line is merged at its whole path.                                 *)
LEMMA ParseSetStyle ==
  ASSUME TypeInv, ParseInv, _parse_set_style
  PROVE  ParseInv'
<1> DEFINE s == Line(read')
           before == Taken \intersect (1..read)
           after == Taken \intersect (1..read')
<1>1. /\ phase = "parse" /\ read \in Nat /\ read' = read + 1 /\ read' \in Lines /\ document \in Documents
      /\ UNCHANGED <<document, phase, body>>
  <2>1. Len(document.lines) \in Nat
    BY GivenLines DEF TypeInv
  <2> QED BY <2>1 DEF TypeInv, _parse_set_style, Lines
<1>2. document.idiom = "set"
  BY <1>1, IdiomTold DEF _parse_set_style
<1>3. Open(read) = {} /\ Open(read') = {}
  BY <1>2 DEF Open
<1>4. tree = Woven(Outer, before) /\ body = Woven(Inner, {})
  BY <1>1, <1>3 DEF ParseInv
<1>5. tree' = IF s.verb = "set" THEN _deep_merge(tree, At(s.block, At(s.path, Members(s.keys)))) ELSE tree
  BY <1>2 DEF _parse_set_style, _classify_set_line, _merge_at_path, _fold_brackets
<1>6. tree' = Woven(Outer, after)
  <2>1. CASE s.verb = "set"
    <3>1. read' \in Taken
      BY <1>1, <2>1 DEF Taken
    <3>2. after = before \cup {read'}
      BY <1>1, <3>1
    <3>3. Keyword(s) = <<>> /\ s.path \in Seq(Labels)
      <4>1. "set" \notin BRACE_STATEMENT_TAGS
        BY DEF BRACE_STATEMENT_TAGS
      <4> QED BY <1>1, <2>1, <4>1, GivenLines DEF Keyword
    <3>4. Keyword(s) \o s.path = s.path
      BY <3>3, ConcatEmptySeq
    <3>5. At(s.block, At(s.path, Members(s.keys))) = Outer[read']
      BY <1>1, <3>4 DEF Outer, Inner
    <3>6. Woven(Outer, {read'}) = Outer[read']
      <4>1. TreeOver(Labels, Outer[read'])
        BY <1>1, AddedTrees
      <4> QED BY <1>1, <4>1, WeaveOne
    <3>7. _deep_merge(Woven(Outer, before), Woven(Outer, {read'})) = Woven(Outer, before \cup {read'})
      <4>1. before \subseteq Nat /\ {read'} \subseteq Nat /\ \A m \in before, n \in {read'} : m < n
        BY <1>1
      <4> QED BY <4>1, WeaveMore
    <3> QED BY <1>4, <1>5, <2>1, <3>2, <3>5, <3>6, <3>7
  <2>2. CASE s.verb # "set"
    <3>1. read' \notin Taken
      BY <1>2, <2>2 DEF Taken
    <3>2. after = before
      BY <1>1, <3>1
    <3> QED BY <1>4, <1>5, <2>2, <3>2
  <2> QED BY <2>1, <2>2
<1>7. Taken' = Taken /\ Inner' = Inner /\ Outer' = Outer /\ Open(read)' = Open(read')
  BY <1>1 DEF Taken, Inner, Outer, Open, Lines, Line
<1> QED BY <1>1, <1>3, <1>4, <1>6, <1>7 DEF ParseInv

(* A statement of a block goes into its dict, which is merged into the     *)
(* tree when the block is closed.                                          *)
LEMMA ParseBlock ==
  ASSUME TypeInv, ParseInv, _parse_block
  PROVE  ParseInv'
<1> DEFINE r == read + 1
           s == Line(r)
           closed == Taken \intersect ((1..read) \ Open(read))
           inside == Taken \intersect Open(read)
           now == Taken \intersect (Open(read) \cup {r})
           child == IF s.verb = "#" \/ document.idiom = "set" THEN body
                    ELSE _merge_at_path(body, Keyword(s) \o s.path, Members(s.keys))
<1>1. /\ phase = "parse" /\ read \in Nat /\ read' = r /\ r \in Lines /\ r \in Nat /\ document \in Documents
      /\ UNCHANGED <<document, phase>> /\ 1..read \subseteq Lines /\ Lines = 1..Len(document.lines)
      /\ Len(document.lines) \in Nat
  <2>1. Len(document.lines) \in Nat
    BY GivenLines DEF TypeInv
  <2> QED BY <2>1 DEF TypeInv, _parse_block, Lines
<1>2. \/ s.closes /\ document.idiom = "brace" /\ body' = Empty /\ tree' = _merge_at_path(tree, s.block, child)
      \/ ~(s.closes /\ document.idiom = "brace") /\ body' = child /\ tree' = tree
  BY <1>1 DEF _parse_block
<1>3. tree = Woven(Outer, closed) /\ body = Woven(Inner, inside)
  BY <1>1 DEF ParseInv
<1>4. document.idiom = "set" => Taken = {}
  <2> SUFFICES ASSUME document.idiom = "set"
               PROVE  Taken = {}
    OBVIOUS
  <2>1. \A n \in Lines : Line(n).verb \notin {"set", "delete"}
    BY <1>1, IdiomTold DEF _parse_block
  <2> QED BY <2>1 DEF Taken
<1>5. Open(read) \subseteq 1..read
  BY DEF Open
<1>6. child = Woven(Inner, now) /\ TreeOver(Labels, child)
  <2>1. CASE s.verb = "#" \/ document.idiom = "set"
    <3>1. r \notin Taken
      BY <1>4, <2>1 DEF Taken
    <3>2. now = inside
      BY <3>1
    <3> QED BY <1>3, <2>1, <3>2 DEF TypeInv
  <2>2. CASE ~(s.verb = "#" \/ document.idiom = "set")
    <3>1. r \in Taken
      BY <1>1, <2>2 DEF Taken
    <3>2. now = inside \cup {r}
      BY <3>1
    <3>3. child = _deep_merge(body, Inner[r])
      BY <1>1, <2>2 DEF _merge_at_path, Inner
    <3>4. TreeOver(Labels, Inner[r])
      BY <1>1, AddedTrees
    <3>5. Woven(Inner, {r}) = Inner[r]
      BY <1>1, <3>4, WeaveOne
    <3>6. inside \subseteq Nat /\ {r} \subseteq Nat /\ \A m \in inside, n \in {r} : m < n
      BY <1>1, <1>5
    <3>7. _deep_merge(Woven(Inner, inside), Woven(Inner, {r})) = Woven(Inner, inside \cup {r})
      <4> HIDE DEF inside
      <4> QED BY <3>6, WeaveMore
    <3>8. TreeOver(Labels, body)
      BY DEF TypeInv
    <3>9. TreeOver(Labels, _deep_merge(body, Inner[r]))
      BY <3>4, <3>8, MergeIsTree
    <3> HIDE DEF child, inside, now
    <3> QED BY <1>3, <3>2, <3>3, <3>5, <3>7, <3>9
  <2> QED BY <2>1, <2>2
<1>7. Taken' = Taken /\ Inner' = Inner /\ Outer' = Outer /\ Open(read)' = Open(r)
  BY <1>1 DEF Taken, Inner, Outer, Open, Lines, Line
<1> HIDE DEF child
<1>8. CASE s.closes /\ document.idiom = "brace"
  <2>1. body' = Empty /\ tree' = _merge_at_path(tree, s.block, child)
    BY <1>2, <1>8
  <2>2. Open(r) = {}
    BY <1>1, <1>8 DEF Open
  <2>3. \A n \in now : Line(n).block = s.block
    <3>1. \A m \in Open(read) : Line(m).block = s.block
      BY <1>1 DEF ParseInv
    <3> QED BY <3>1
  <2>4. now # {}
    <3>1. PICK m \in 1..r : Together(document.lines, m, r) /\ document.lines[m].verb # "#"
      BY <1>1, <1>8, DocumentsAssumption DEF Line
    <3>2. m \in Lines /\ m \in 1..r /\ Line(m).verb # "#" /\ \A k \in m..r-1 : ~Line(k).closes
      BY <1>1, <3>1 DEF Together, Line
    <3>3. m \in Taken
      BY <1>8, <3>2 DEF Taken
    <3>4. m = r \/ m \in Open(read)
      <4> SUFFICES ASSUME m # r
                   PROVE  m \in Open(read)
        OBVIOUS
      <4>1. m \in 1..read /\ m..read = m..r-1
        BY <1>1, <3>2
      <4> QED BY <1>8, <3>2, <4>1 DEF Open
    <3> QED BY <3>3, <3>4
  <2>5. At(s.block, child) = Woven(Outer, now)
    <3>1. now \subseteq Nat /\ now \subseteq Lines
      BY <1>1, <1>5
    <3>2. s.block \in Seq(Labels)
      BY <1>1, GivenLines
    <3>3. \A n \in now : TreeOver(Labels, Inner[n]) /\ Outer[n] = At(s.block, Inner[n])
      <4> TAKE n \in now
      <4>1. n \in Lines
        BY <3>1
      <4>2. Outer[n] = At(Line(n).block, Inner[n])
        BY <4>1 DEF Outer
      <4> QED BY <1>1, <2>3, <4>1, <4>2, AddedTrees
    <3>4. TreeOver(Labels, Woven(Inner, now))
      BY <1>6
    <3>5. At(s.block, Woven(Inner, now)) = Woven(Outer, now)
      <4>1. Puts(Labels, Outer, Inner, now, s.block)
        BY <2>4, <3>1, <3>2, <3>3, <3>4 DEF Puts
      <4> HIDE DEF now, s
      <4> QED BY <4>1, WovenAt
    <3> QED BY <1>6, <3>5
  <2>6. _deep_merge(Woven(Outer, closed), Woven(Outer, now)) = Woven(Outer, closed \cup now)
    <3>1. closed \subseteq Nat /\ now \subseteq Nat
      BY <1>1, <1>5
    <3>2. \A m \in closed, n \in now : m < n
      <4> TAKE m \in closed, n \in now
      <4>1. m \in 1..read /\ m \notin Open(read) /\ (n = r \/ n \in Open(read))
        OBVIOUS
      <4>2. CASE n = r
        BY <1>1, <4>1, <4>2
      <4>3. CASE n \in Open(read)
        <5>1. n \in 1..read /\ \A k \in n..read : ~Line(k).closes
          BY <4>3 DEF Open
        <5>2. ~(n <= m)
          <6> SUFFICES ASSUME n <= m
                       PROVE  FALSE
            OBVIOUS
          <6>1. \A k \in m..read : ~Line(k).closes
            BY <1>1, <4>1, <5>1
          <6> QED BY <1>8, <4>1, <6>1 DEF Open
        <5> QED BY <1>1, <4>1, <5>1, <5>2
      <4> QED BY <4>1, <4>2, <4>3
    <3> HIDE DEF closed, now
    <3> QED BY <3>1, <3>2, WeaveMore
  <2>7. closed \cup now = Taken \intersect (1..r)
    BY <1>1, <1>5
  <2>8. tree' = Woven(Outer, Taken \intersect (1..r))
    <3>1. tree' = _deep_merge(tree, At(s.block, child))
      BY <2>1 DEF _merge_at_path
    <3> HIDE DEF closed, now
    <3> QED BY <1>3, <2>5, <2>6, <2>7, <3>1
  <2>9. Woven(Inner, {}) = Empty
    BY WeaveNone
  <2> QED BY <1>1, <1>7, <2>1, <2>2, <2>8, <2>9 DEF ParseInv
<1>9. CASE ~s.closes /\ document.idiom = "brace"
  <2>1. body' = child /\ tree' = tree
    BY <1>2, <1>9
  <2>2. Open(r) = Open(read) \cup {r}
    <3>1. ASSUME NEW m \in 1..read
          PROVE  m \in Open(r) <=> m \in Open(read)
      <4>1. m..r = (m..read) \cup {r}
        BY <1>1
      <4> QED BY <1>1, <1>9, <4>1 DEF Open
    <3>2. r \in Open(r)
      BY <1>1, <1>9 DEF Open
    <3>3. 1..r = (1..read) \cup {r} /\ Open(r) \subseteq 1..r
      BY <1>1 DEF Open
    <3> QED BY <1>5, <3>1, <3>2, <3>3
  <2>3. (1..r) \ Open(r) = (1..read) \ Open(read)
    BY <1>1, <2>2
  <2>4. r < Len(document.lines) /\ s.block = Line(r + 1).block
    <3>1. r < Len(document.lines) /\ Together(document.lines, r, r + 1)
      BY <1>1, <1>9, DocumentsAssumption DEF Line
    <3> QED BY <3>1 DEF Together, Line
  <2>5. \A m \in Open(r) : r < Len(document.lines) /\ Line(m).block = Line(r + 1).block
    <3>1. \A m \in Open(read) : Line(m).block = s.block
      BY <1>1 DEF ParseInv
    <3> QED BY <2>2, <2>4, <3>1
  <2>6. \A m : Line(m)' = Line(m)
    BY <1>1 DEF Line
  <2> QED BY <1>1, <1>3, <1>6, <1>7, <2>1, <2>2, <2>3, <2>5, <2>6 DEF ParseInv
<1>10. CASE document.idiom = "set"
  <2>1. body' = child /\ tree' = tree
    BY <1>2, <1>10
  <2>2. Open(r) = {}
    BY <1>10 DEF Open
  <2>3. closed = {} /\ inside = {} /\ now = {} /\ Taken \intersect ((1..r) \ Open(r)) = {}
    BY <1>4, <1>10
  <2> QED BY <1>1, <1>3, <1>6, <1>7, <2>1, <2>2, <2>3 DEF ParseInv
<1>11. document.idiom \in {"set", "brace"}
  BY <1>1, GivenLines
<1> QED BY <1>8, <1>9, <1>10, <1>11

LEMMA ParseStep ==
  ASSUME TypeInv, ParseInv, [Next]_vars
  PROVE  ParseInv'
<1>1. CASE parse_junos_config
  <2>1. phase = "parse" /\ phase' = "expand" /\ parsed' = tree /\ read = Len(document.lines) /\ document' = document
    BY <1>1 DEF parse_junos_config
  <2>2. Open(read) = {}
    <3>1. \A m \in Open(read) : read < Len(document.lines)
      BY <2>1 DEF ParseInv
    <3> QED BY <2>1, <3>1, GivenLines DEF TypeInv
  <2>3. Taken \intersect ((1..read) \ Open(read)) = Taken
    BY <2>1, <2>2 DEF Taken, Lines
  <2>4. parsed' = Woven(Outer, Taken)
    BY <2>1, <2>3 DEF ParseInv
  <2>5. Taken' = Taken /\ Outer' = Outer
    BY <2>1 DEF Taken, Inner, Outer, Lines, Line
  <2> QED BY <2>1, <2>4, <2>5 DEF ParseInv
<1>2. CASE _expand_node \/ InheritGroup \/ _fill \/ ReturnFill \/ ReturnTree \/ _collect_unrecognized_blocks
  <2>1. phase # "parse" /\ phase' # "parse" /\ UNCHANGED <<document, parsed>>
    BY <1>2 DEF TypeInv, _expand_node, InheritGroup, _fill, ReturnFill, ReturnTree, _collect_unrecognized_blocks
  <2>2. Taken' = Taken /\ Outer' = Outer
    BY <2>1 DEF Taken, Inner, Outer, Lines, Line
  <2> QED BY <2>1, <2>2 DEF ParseInv
<1>3. CASE UNCHANGED vars
  BY <1>3 DEF vars, ParseInv, Taken, Inner, Outer, Open, Lines, Line
<1> QED BY <1>1, <1>2, <1>3, ParseSetStyle, ParseBlock DEF Next

LEMMA ParseInvariant == Spec => [](TypeInv /\ ParseInv)
<1>1. Init => TypeInv /\ ParseInv
  BY TypeInit, ParseInit
<1>2. TypeInv /\ ParseInv /\ [Next]_vars => (TypeInv /\ ParseInv)'
  BY TypeStep, ParseStep
<1> QED BY <1>1, <1>2, PTL DEF Spec

(* What a statement of a value adds is what it says.                       *)
LEMMA AddsWhatIsSaid ==
  ASSUME document \in Documents, NEW n \in Lines, Line(n).verb = "set"
  PROVE  Outer[n] = Said(n)
<1>1. Line(n).block \in Seq(Labels) /\ Line(n).path \in Seq(Labels)
  BY GivenLines
<1>2. Keyword(Line(n)) \o Line(n).path = Line(n).path
  <2>1. Keyword(Line(n)) = <<>>
    BY DEF Keyword, BRACE_STATEMENT_TAGS
  <2> QED BY <1>1, <2>1, ConcatEmptySeq
<1>3. Inner[n] = At(Line(n).path, Members(Line(n).keys))
  BY <1>2 DEF Inner
<1>4. TreeOver(Labels, Members(Line(n).keys))
  BY AddedTrees
<1>5. At(Line(n).block, At(Line(n).path, Members(Line(n).keys))) = Said(n)
  BY <1>1, <1>4, AtAt DEF Said
<1> QED BY <1>3, <1>5 DEF Outer

(***************************************************************************)
(* Both renderings of a configuration are one tree, keys in one order,     *)
(* whatever the statements and however they are spread over blocks: each   *)
(* parser merges what a statement says behind what is there, the brace     *)
(* parser into the dict of the block first.                                *)
(***************************************************************************)
THEOREM RenderingsConvergeHolds == Spec => []RenderingsConverge
<1>1. TypeInv /\ ParseInv => RenderingsConverge
  <2> SUFFICES ASSUME TypeInv, ParseInv, phase # "parse", \A n \in Lines : Line(n).verb \in {"set", "#"}
               PROVE  parsed = Written
    BY DEF RenderingsConverge
  <2> DEFINE w == Woven(Outer, Taken)
             S == {n \in Lines : Line(n).verb = "set"}
  <2>1. parsed = w
    BY DEF ParseInv
  <2>2. Taken = S
    BY DEF Taken
  <2>3. \A n \in S : Outer[n] = Said(n)
    BY AddsWhatIsSaid DEF TypeInv
  <2>4. S \subseteq Nat
    BY GivenLines DEF TypeInv
  <2>5. w.nodes = UNION {Said(n).nodes : n \in S}
    BY <2>2, <2>3, WovenIs
  <2>6. \A p : FirstIn(Outer, Taken, p) = Saying(p)
    <3> TAKE p
    <3>1. {n \in Taken : p \in Outer[n].nodes} = {n \in Lines : Line(n).verb = "set" /\ p \in Said(n).nodes}
      BY <2>2, <2>3
    <3> QED BY <3>1 DEF FirstIn, Saying
  <2>7. \A p \in w.nodes : Saying(p) \in S
    BY <2>2, <2>4, <2>6, FirstInIs
  <2> DEFINE V == [nodes |-> w.nodes,
                   earlier |-> {o \in w.nodes \X w.nodes :
                      /\ Siblings(o[1], o[2])
                      /\ \/ Saying(o[1]) < Saying(o[2])
                         \/ Saying(o[1]) = Saying(o[2]) /\ o \in Said(Saying(o[1])).earlier}]
  <2>8. Written = V
    BY <2>5 DEF Written
  <2>9. \A p, q : <<p, q>> \in w.earlier <=> p \in w.nodes /\ q \in w.nodes /\ Siblings(p, q) /\ Leads(Outer, Taken, p, q)
    BY WovenIs
  <2>10. \A p, q \in w.nodes : Leads(Outer, Taken, p, q) <=>
            \/ Saying(p) < Saying(q)
            \/ Saying(p) = Saying(q) /\ <<p, q>> \in Said(Saying(p)).earlier
    BY <2>3, <2>6, <2>7 DEF Leads
  <2>11. w = [nodes |-> w.nodes, earlier |-> w.earlier] /\ w.earlier \subseteq w.nodes \X w.nodes
    BY WovenShape
  <2> HIDE DEF w
  <2>12. \A p, q : <<p, q>> \in V.earlier <=> <<p, q>> \in w.earlier
    <3> TAKE p, q
    <3>1. <<p, q>> \in V.earlier <=>
            /\ p \in w.nodes /\ q \in w.nodes /\ Siblings(p, q)
            /\ \/ Saying(p) < Saying(q)
               \/ Saying(p) = Saying(q) /\ <<p, q>> \in Said(Saying(p)).earlier
      OBVIOUS
    <3> QED BY <2>9, <2>10, <3>1
  <2>13. V = [nodes |-> V.nodes, earlier |-> V.earlier] /\ V.earlier \subseteq w.nodes \X w.nodes /\ V.nodes = w.nodes
    OBVIOUS
  <2> HIDE DEF V
  <2>14. w = V
    BY <2>11, <2>12, <2>13, SameTree
  <2> QED BY <2>1, <2>8, <2>14
<1> QED BY <1>1, ParseInvariant, PTL

-----------------------------------------------------------------------------
(* What the tree cannot hold is disclosed. *)

DisclosureInv == phase = "done" => disclosed = unsupported_lines

LEMMA DisclosureInvariant == Spec => []DisclosureInv
<1>1. Init => DisclosureInv
  BY DEF Init, DisclosureInv
<1>2. TypeInv /\ DisclosureInv /\ [Next]_vars => DisclosureInv'
  <2> SUFFICES ASSUME TypeInv, DisclosureInv, [Next]_vars, phase' = "done"
               PROVE  disclosed' = unsupported_lines'
    BY DEF DisclosureInv
  <2>1. document' = document
    BY DEF Next, vars, _parse_set_style, _parse_block, parse_junos_config, _expand_node, InheritGroup, _fill, ReturnFill, ReturnTree,
           _collect_unrecognized_blocks
  <2>2. unsupported_lines' = unsupported_lines
    BY <2>1 DEF unsupported_lines, _is_set_style, SetLines, BraceLines, Opens, Lines, Line, _classify_set_line
  <2>3. disclosed' = unsupported_lines
    <3>1. CASE _collect_unrecognized_blocks
      BY <3>1 DEF _collect_unrecognized_blocks
    <3>2. CASE ~_collect_unrecognized_blocks
      BY <3>2 DEF DisclosureInv, Next, vars, _parse_set_style, _parse_block, parse_junos_config, _expand_node, InheritGroup, _fill,
                  ReturnFill, ReturnTree
    <3> QED BY <3>1, <3>2
  <2> QED BY <2>2, <2>3
<1> QED BY <1>1, <1>2, ParseInvariant, PTL DEF Spec

(* A path that statements name and that is in the tree was stated by one:  *)
(* what a tagged statement adds below its block is under the tag.          *)
LEMMA NamedIsStated ==
  ASSUME document \in Documents, NEW p \in Seq(Names), p # <<>>, NEW n \in Taken, p \in Outer[n].nodes
  PROVE  Stated(p)
<1> DEFINE s == Line(n)
<1>1. n \in Lines /\ s.verb # "#" /\ (document.idiom = "set" => s.verb = "set")
  BY DEF Taken
<1>2. CASE s.verb = "set"
  <2>1. p \in Said(n).nodes
    BY <1>1, <1>2, AddsWhatIsSaid
  <2> QED BY <1>1, <1>2, <2>1 DEF Stated
<1>3. CASE s.verb # "set"
  <2>1. document.idiom = "brace" /\ s.verb \in BRACE_STATEMENT_TAGS
    <3>1. document.idiom = "brace"
      BY <1>1, <1>3, GivenLines
    <3>2. s.verb # "delete"
      BY <1>1, <3>1, DocumentsAssumption DEF Lines, Line
    <3>3. s.verb \in {"set", "delete", "#"} \cup BRACE_STATEMENT_TAGS
      BY <1>1, GivenLines
    <3> QED BY <1>1, <1>3, <3>1, <3>2, <3>3
  <2>2. s.block \in Seq(Names) /\ s.block \in Seq(Labels) /\ s.path \in Seq(Labels)
    BY <1>1, GivenLines
  <2> DEFINE b == s.block
             k == <<s.verb>> \o s.path
             m == Members(s.keys)
  <2>3. k \in Seq(Labels) /\ k # <<>> /\ k[1] = s.verb /\ Len(k) \in Nat \ {0}
    <3>1. <<s.verb>> \in Seq(Labels) /\ Len(<<s.verb>>) = 1 /\ <<s.verb>>[1] = s.verb
      <4>1. s.verb \in Labels
        BY <2>1 DEF Labels
      <4> QED BY <4>1
    <3>2. Len(s.path) \in Nat
      BY <2>2, LenProperties
    <3> DEFINE t == <<s.verb>>
    <3> HIDE DEF t
    <3>3. t \o s.path \in Seq(Labels) /\ Len(t \o s.path) = 1 + Len(s.path) /\ (t \o s.path)[1] = s.verb
      BY <2>2, <3>1, <3>2, ConcatProperties DEF t
    <3>4. t \o s.path # <<>>
      BY <3>2, <3>3, EmptySeq
    <3> QED BY <3>2, <3>3, <3>4 DEF t
  <2>4. Outer[n] = At(b, At(k, m)) /\ TreeOver(Labels, m)
    <3>1. Keyword(s) = <<s.verb>>
      BY <2>1 DEF Keyword
    <3> QED BY <1>1, <3>1, AddedTrees DEF Outer, Inner
  <2>5. At(b, At(k, m)) = At(b \o k, m)
    <3> HIDE DEF k, m, b
    <3>1. b \in Seq(Labels)
      BY <2>2 DEF b
    <3> QED BY <3>1, <2>3, <2>4, AtAt
  <2>6. NodesOn(b \o k) = NodesOn(b) \cup {b \o q : q \in NodesOn(k)} /\ b \o k \in Seq(Labels)
    <3>1. b \in Seq(Labels)
      BY <2>2
    <3> HIDE DEF k, b
    <3>2. k \in Seq(Labels)
      BY <2>3
    <3>3. NodesOn(b \o k) = NodesOn(b) \cup {b \o q : q \in NodesOn(k)}
      BY <3>1, <3>2, NodesOnConcat
    <3>4. b \o k \in Seq(Labels)
      BY <3>1, <3>2, ConcatProperties
    <3> QED BY <3>3, <3>4
  <2>7. (Len(b) \in Nat /\ p[Len(b) + 1] = s.verb /\ Len(b) + 1 \in 1..Len(p)) \/ p \in NodesOn(b)
    <3>0. Len(b) \in Nat /\ Len(k) \in Nat \ {0}
      BY <2>2, <2>3, LenProperties
    <3>1. At(b \o k, m).nodes = NodesOn(b \o k) \cup {(b \o k) \o q : q \in m.nodes}
      <4> HIDE DEF k, m, b
      <4>1. IsAt(Labels, b \o k, m, At(b \o k, m))
        BY <2>4, <2>6, AtPath
      <4> QED BY <4>1 DEF IsAt
    <3>2. p \in NodesOn(b) \/ (\E q \in NodesOn(k) : p = b \o q) \/ (\E q \in m.nodes : p = (b \o k) \o q)
      BY <2>4, <2>5, <2>6, <3>1
    <3> HIDE DEF b, k, m
    <3>9. b \in Seq(Labels)
      BY <2>2 DEF b
    <3>3. ASSUME NEW q \in NodesOn(k), p = b \o q
          PROVE  p[Len(b) + 1] = s.verb /\ Len(b) + 1 \in 1..Len(p)
      <4>1. q \in Seq(Labels) /\ Len(q) \in 1..Len(k) /\ q = SubSeq(k, 1, Len(q))
        BY <2>3, NodesAbove
      <4>2. q[1] = s.verb
        <5>1. \A i \in 1..Len(q) : k[i] \in Labels
          BY <2>3, <3>0, <4>1, ElementOfSeq
        <5>2. \A i \in 1..Len(q) - 1 + 1 : SubSeq(k, 1, Len(q))[i] = k[1 + i - 1]
          BY <3>0, <4>1, <5>1, SubSeqProperties
        <5>3. 1 \in 1..Len(q) - 1 + 1
          BY <3>0, <4>1
        <5> DEFINE z == SubSeq(k, 1, Len(q))
        <5>4. z[1] = k[1]
          BY <5>2, <5>3
        <5> HIDE DEF z
        <5>5. q = z
          BY <4>1 DEF z
        <5> QED BY <2>3, <5>4, <5>5
      <4>3. /\ Len(b \o q) = Len(b) + Len(q)
            /\ \A i \in 1..Len(b) + Len(q) : (b \o q)[i] = IF i <= Len(b) THEN b[i] ELSE q[i - Len(b)]
        BY <3>9, <4>1, ConcatProperties
      <4>4. Len(b) + 1 \in 1..Len(b) + Len(q) /\ ~(Len(b) + 1 <= Len(b)) /\ Len(b) + 1 - Len(b) = 1
        BY <3>0, <4>1
      <4> QED BY <3>3, <4>2, <4>3, <4>4
    <3>4. ASSUME NEW q \in m.nodes, p = (b \o k) \o q
          PROVE  p[Len(b) + 1] = s.verb /\ Len(b) + 1 \in 1..Len(p)
      <4>1. q \in Seq(Labels) /\ Len(q) \in Nat
        <5>1. q \in Seq(Labels)
          BY <2>4 DEF TreeOver, Shape
        <5> QED BY <5>1, LenProperties
      <4>2. /\ Len(b \o k) = Len(b) + Len(k)
            /\ \A i \in 1..Len(b) + Len(k) : (b \o k)[i] = IF i <= Len(b) THEN b[i] ELSE k[i - Len(b)]
        BY <2>3, <3>9, ConcatProperties
      <4> DEFINE a == b \o k
      <4> HIDE DEF a
      <4>3. /\ Len(a \o q) = Len(a) + Len(q)
            /\ \A i \in 1..Len(a) + Len(q) : (a \o q)[i] = IF i <= Len(a) THEN a[i] ELSE q[i - Len(a)]
        BY <2>6, <4>1, ConcatProperties DEF a
      <4>4. Len(a) = Len(b) + Len(k)
        BY <4>2 DEF a
      <4>5. /\ Len(b) + 1 \in 1..Len(a) + Len(q) /\ Len(b) + 1 <= Len(a)
            /\ Len(b) + 1 \in 1..Len(b) + Len(k) /\ ~(Len(b) + 1 <= Len(b)) /\ Len(b) + 1 - Len(b) = 1
        BY <3>0, <4>1, <4>4
      <4>6. a[Len(b) + 1] = s.verb
        BY <2>3, <4>2, <4>5 DEF a
      <4>7. p = a \o q
        BY <3>4 DEF a
      <4> QED BY <4>3, <4>5, <4>6, <4>7
    <3> QED BY <3>0, <3>2, <3>3, <3>4
  <2>8. p \in NodesOn(b)
    <3> SUFFICES ASSUME Len(b) \in Nat, p[Len(b) + 1] = s.verb, Len(b) + 1 \in 1..Len(p)
                 PROVE  FALSE
      BY <2>7
    <3>1. p[Len(b) + 1] \in Names
      BY ElementOfSeq
    <3> QED BY <2>1, <3>1, NamesAssumption
  <2> QED BY <1>1, <2>1, <2>8 DEF Stated
<1> QED BY <1>2, <1>3

(***************************************************************************)
(* What changes the configuration is disclosed and never read as the value *)
(* it names; every other statement is in the tree and is not disclosed.    *)
(* The scan that discloses tells the rendering by itself, from the same    *)
(* count of lines, and agrees with the parser's own reading line by line.  *)
(***************************************************************************)
THEOREM ChangesAreDisclosedHolds == Spec => []ChangesAreDisclosed
<1>1. TypeInv /\ ParseInv /\ DisclosureInv => ChangesAreDisclosed
  <2> SUFFICES ASSUME TypeInv, ParseInv, DisclosureInv, phase = "done", NEW n \in Lines
               PROVE  LET named == {Line(n).block \o Line(n).path \o <<k>> : k \in ToSet(Line(n).keys)}
                      IN  CASE Line(n).verb = "#" -> n \notin disclosed
                            [] Line(n).verb = "set" -> n \notin disclosed /\ named \subseteq parsed.nodes
                            [] OTHER -> n \in disclosed /\ \A p \in named : Has(parsed, p) => Stated(p)
    BY DEF ChangesAreDisclosed
  <2> DEFINE s == Line(n)
             base == s.block \o s.path
             named == {s.block \o s.path \o <<k>> : k \in ToSet(s.keys)}
  <2>1. disclosed = unsupported_lines /\ parsed = Woven(Outer, Taken) /\ document \in Documents
    BY DEF TypeInv, ParseInv, DisclosureInv
  <2>2. document.idiom \in {"set", "brace"} /\ s.verb \in {"set", "delete", "#"} \cup BRACE_STATEMENT_TAGS
    BY <2>1, GivenLines
  <2>3. /\ document.idiom = "set" => s.verb \notin BRACE_STATEMENT_TAGS
        /\ document.idiom = "brace" => s.verb # "delete"
    BY <2>1, DocumentsAssumption DEF Lines, Line
  <2>4. {"set", "delete", "#"} \intersect BRACE_STATEMENT_TAGS = {}
    BY DEF BRACE_STATEMENT_TAGS
  <2>5. _is_set_style <=> document.idiom = "set" /\ \E m \in Lines : Line(m).verb \in {"set", "delete"}
    BY <2>1, IdiomTold
  <2>6. n \in disclosed <=> IF _is_set_style THEN document.idiom = "brace" \/ _classify_set_line(s) = "unsupported"
                            ELSE s.verb \in BRACE_STATEMENT_TAGS
    BY <2>1 DEF unsupported_lines
  <2>7. n \in disclosed <=> s.verb \notin {"#", "set"}
    <3>1. CASE s.verb = "#"
      BY <2>2, <2>4, <2>5, <2>6, <3>1 DEF _classify_set_line
    <3>2. CASE s.verb = "set"
      BY <2>2, <2>4, <2>5, <2>6, <3>2 DEF _classify_set_line
    <3>3. CASE s.verb = "delete"
      BY <2>2, <2>3, <2>4, <2>5, <2>6, <3>3 DEF _classify_set_line
    <3>4. CASE s.verb \in BRACE_STATEMENT_TAGS
      BY <2>2, <2>3, <2>4, <2>5, <2>6, <3>4
    <3> QED BY <2>2, <3>1, <3>2, <3>3, <3>4
  <2>8. /\ s.block \in Seq(Names) /\ s.path \in Seq(Names) /\ s.keys \in Seq(Names)
        /\ s.block \in Seq(Labels) /\ s.path \in Seq(Labels) /\ s.keys \in Seq(Labels)
    BY <2>1, GivenLines
  <2>9. base \in Seq(Names) /\ base \in Seq(Labels)
    BY <2>8, ConcatProperties
  <2>10. \A p \in named : \E i \in 1..Len(s.keys) : p = base \o <<s.keys[i]>> /\ s.keys[i] \in Names
    <3>1. DOMAIN s.keys = 1..Len(s.keys)
      BY <2>8, LenProperties
    <3>2. \A i \in 1..Len(s.keys) : s.keys[i] \in Names
      BY <2>8, ElementOfSeq
    <3> QED BY <3>1, <3>2 DEF ToSet
  <2>11. ASSUME s.verb = "set"
         PROVE  named \subseteq parsed.nodes
    <3>1. n \in Taken /\ Outer[n] = Said(n)
      BY <2>1, <2>11, AddsWhatIsSaid DEF Taken
    <3>2. Outer[n].nodes \subseteq parsed.nodes
      BY <2>1, <3>1, WovenIs
    <3> DEFINE m == Members(s.keys)
    <3>3. TreeOver(Labels, m) /\ m.nodes = {<<s.keys[i]>> : i \in 1..Len(s.keys)}
      BY <2>8, MembersAreTree
    <3>4. Said(n).nodes = NodesOn(base) \cup {base \o q : q \in m.nodes}
      <4>1. IsAt(Labels, base, m, At(base, m))
        <5> HIDE DEF base, m
        <5> QED BY <2>9, <3>3, AtPath
      <4> QED BY <4>1 DEF IsAt, Said
    <3>5. \A p \in named : p \in Said(n).nodes
      <4> TAKE p \in named
      <4>1. PICK i \in 1..Len(s.keys) : p = base \o <<s.keys[i]>>
        BY <2>10
      <4>2. <<s.keys[i]>> \in m.nodes
        BY <3>3
      <4> QED BY <3>4, <4>1, <4>2
    <3> QED BY <3>1, <3>2, <3>5
  <2>12. ASSUME NEW p \in named, Has(parsed, p)
         PROVE  Stated(p)
    <3>1. p \in Seq(Names) /\ p # <<>>
      <4>1. PICK i \in 1..Len(s.keys) : p = base \o <<s.keys[i]>> /\ s.keys[i] \in Names
        BY <2>10
      <4> DEFINE k == <<s.keys[i]>>
      <4>2. k \in Seq(Names) /\ k # <<>>
        BY <4>1
      <4> HIDE DEF k, base
      <4> QED BY <2>9, <4>1, <4>2, FrontConcat DEF k
    <3>2. p \in parsed.nodes
      BY <2>12, <3>1 DEF Has
    <3>3. PICK m \in Taken : p \in Outer[m].nodes
      BY <2>1, <3>2, WovenIs
    <3> QED BY <2>1, <3>1, <3>3, NamedIsStated
  <2> HIDE DEF named
  <2>13. (CASE s.verb = "#" -> n \notin disclosed
            [] s.verb = "set" -> n \notin disclosed /\ named \subseteq parsed.nodes
            [] OTHER -> n \in disclosed /\ \A p \in named : Has(parsed, p) => Stated(p))
    BY <2>7, <2>11, <2>12
  <2> QED BY <2>13 DEF named
<1> QED BY <1>1, ParseInvariant, DisclosureInvariant, PTL

-----------------------------------------------------------------------------
(* The beginnings of a path.                                               *)
LEMMA Initial ==
  ASSUME NEW S, NEW p \in Seq(S), NEW n \in 0..Len(p)
  PROVE  /\ SubSeq(p, 1, n) \in Seq(S) /\ Len(SubSeq(p, 1, n)) = n
         /\ \A i \in 1..n : SubSeq(p, 1, n)[i] = p[i]
<1>1. Len(p) \in Nat
  BY LenProperties
<1>2. \A i \in 1..n : p[i] \in S
  BY <1>1, ElementOfSeq
<1> QED BY <1>1, <1>2, SubSeqProperties

LEMMA PrefixIs ==
  ASSUME NEW S, NEW s \in Seq(S), NEW t \in Seq(S)
  PROVE  /\ IsPrefix(s, t) <=> Len(s) <= Len(t) /\ \A i \in 1..Len(s) : s[i] = t[i]
         /\ IsPrefix(s, t) <=> Len(s) <= Len(t) /\ SubSeq(t, 1, Len(s)) = s
<1>1. Len(s) \in Nat /\ Len(t) \in Nat /\ SubSeq(s, 1, Len(s)) = s
  BY LenProperties, SubSeqFull
<1>2. IsPrefix(s, t) <=> Len(s) <= Len(t) /\ SubSeq(t, 1, Len(s)) = s
  BY <1>1 DEF IsPrefix
<1>3. ASSUME Len(s) <= Len(t)
      PROVE  SubSeq(t, 1, Len(s)) = s <=> \A i \in 1..Len(s) : s[i] = t[i]
  <2> DEFINE u == SubSeq(t, 1, Len(s))
  <2>1. u \in Seq(S) /\ Len(u) = Len(s) /\ \A i \in 1..Len(s) : u[i] = t[i]
    BY <1>1, <1>3, Initial
  <2> HIDE DEF u
  <2>2. (\A i \in 1..Len(s) : s[i] = t[i]) => u = s
    BY <2>1, SeqEqual
  <2>3. u = s => \A i \in 1..Len(s) : s[i] = t[i]
    BY <2>1
  <2> QED BY <2>2, <2>3 DEF u
<1> QED BY <1>2, <1>3

LEMMA InitialPrefix ==
  ASSUME NEW S, NEW p \in Seq(S), NEW n \in 0..Len(p)
  PROVE  IsPrefix(SubSeq(p, 1, n), p)
<1> DEFINE q == SubSeq(p, 1, n)
<1>1. q \in Seq(S) /\ Len(q) = n /\ \A i \in 1..n : q[i] = p[i]
  BY Initial
<1>2. Len(q) <= Len(p)
  BY <1>1, LenProperties
<1> HIDE DEF q
<1>3. IsPrefix(q, p)
  BY <1>1, <1>2, PrefixIs
<1> QED BY <1>3 DEF q

LEMMA PrefixTransitive ==
  ASSUME NEW S, NEW s \in Seq(S), NEW t \in Seq(S), NEW u \in Seq(S), IsPrefix(s, t), IsPrefix(t, u)
  PROVE  IsPrefix(s, u)
<1>1. /\ Len(s) \in Nat /\ Len(t) \in Nat /\ Len(u) \in Nat
      /\ Len(s) <= Len(t) /\ \A i \in 1..Len(s) : s[i] = t[i]
      /\ Len(t) <= Len(u) /\ \A i \in 1..Len(t) : t[i] = u[i]
  BY PrefixIs, LenProperties
<1>2. Len(s) <= Len(u) /\ \A i \in 1..Len(s) : s[i] = u[i]
  BY <1>1
<1> QED BY <1>2, PrefixIs

(* Two beginnings of a path: the shorter is one of the longer.             *)
LEMMA PrefixesOfOne ==
  ASSUME NEW S, NEW s \in Seq(S), NEW t \in Seq(S), NEW u \in Seq(S), IsPrefix(s, u), IsPrefix(t, u), Len(s) <= Len(t)
  PROVE  IsPrefix(s, t) /\ (Len(s) = Len(t) => s = t)
<1>1. /\ Len(s) \in Nat /\ Len(t) \in Nat /\ Len(u) \in Nat
      /\ Len(s) <= Len(u) /\ \A i \in 1..Len(s) : s[i] = u[i]
      /\ Len(t) <= Len(u) /\ \A i \in 1..Len(t) : t[i] = u[i]
  BY PrefixIs, LenProperties
<1>2. \A i \in 1..Len(s) : s[i] = t[i]
  BY <1>1
<1>3. IsPrefix(s, t)
  BY <1>2, PrefixIs
<1>4. Len(s) = Len(t) => s = t
  BY <1>2, SeqEqual
<1> QED BY <1>3, <1>4

(* A path and one key more.                                                *)
LEMMA PrefixAppend ==
  ASSUME NEW S, NEW p \in Seq(S), NEW q \in Seq(S), NEW k \in S
  PROVE  /\ IsPrefix(p, Append(p, k))
         /\ IsPrefix(Append(p, k), q) <=> IsPrefix(p, q) /\ Len(p) < Len(q) /\ q[Len(p) + 1] = k
         /\ IsPrefix(q, Append(p, k)) <=> IsPrefix(q, p) \/ q = Append(p, k)
<1> DEFINE a == Append(p, k)
<1>1. /\ a \in Seq(S) /\ Len(a) = Len(p) + 1 /\ Len(p) \in Nat /\ Len(q) \in Nat
      /\ \A i \in 1..Len(p) : a[i] = p[i]
  BY AppendProperties, LenProperties
<1>2. a[Len(p) + 1] = k
  BY AppendProperties
<1> HIDE DEF a
<1>3. IsPrefix(p, a)
  BY <1>1, PrefixIs
<1>4. IsPrefix(a, q) <=> IsPrefix(p, q) /\ Len(p) < Len(q) /\ q[Len(p) + 1] = k
  <2>1. IsPrefix(a, q) <=> Len(a) <= Len(q) /\ \A i \in 1..Len(a) : a[i] = q[i]
    BY <1>1, PrefixIs
  <2>2. IsPrefix(p, q) <=> Len(p) <= Len(q) /\ \A i \in 1..Len(p) : p[i] = q[i]
    BY PrefixIs
  <2>3. (\A i \in 1..Len(a) : a[i] = q[i]) <=> (\A i \in 1..Len(p) : p[i] = q[i]) /\ q[Len(p) + 1] = k
    BY <1>1, <1>2
  <2>4. Len(a) <= Len(q) <=> Len(p) <= Len(q) /\ Len(p) < Len(q)
    BY <1>1
  <2> QED BY <2>1, <2>2, <2>3, <2>4
<1>5. IsPrefix(q, p) => IsPrefix(q, a)
  BY <1>1, <1>3, PrefixTransitive
<1>6. IsPrefix(a, a)
  BY <1>1, PrefixIs
<1>7. IsPrefix(q, a) /\ q # a => IsPrefix(q, p)
  <2> HAVE IsPrefix(q, a) /\ q # a
  <2>1. Len(q) <= Len(a) /\ \A i \in 1..Len(q) : q[i] = a[i]
    BY <1>1, PrefixIs
  <2>2. Len(q) # Len(a)
    BY <1>1, <2>1, SeqEqual
  <2>3. Len(q) <= Len(p) /\ \A i \in 1..Len(q) : q[i] = p[i]
    BY <1>1, <2>1, <2>2
  <2> QED BY <2>3, PrefixIs
<1> QED BY <1>3, <1>4, <1>5, <1>6, <1>7 DEF a

(* A node has the nodes on its path, and each the key that leads on.       *)
LEMMA NodesOnItsPath ==
  ASSUME NEW S, NEW t, TreeOver(S, t), NEW p \in Seq(S), Has(t, p), NEW q \in Seq(S), IsPrefix(q, p)
  PROVE  Has(t, q)
<1>1. t.nodes \subseteq Seq(S) /\ \A r \in t.nodes : r # <<>> /\ Has(t, Front(r))
  BY PairByPair DEF TreeOver, Shape
<1>2. Len(p) \in Nat /\ Len(q) \in Nat /\ Len(q) <= Len(p) /\ SubSeq(p, 1, Len(q)) = q /\ SubSeq(p, 1, Len(p)) = p
  BY LenProperties, PrefixIs, SubSeqFull
<1> DEFINE lost == {m \in Nat : m <= Len(p) /\ ~Has(t, SubSeq(p, 1, Len(p) - m))}
<1>3. SUFFICES ASSUME lost # {}
               PROVE  FALSE
  <2>1. Len(p) - Len(q) \in Nat /\ Len(p) - Len(q) <= Len(p) /\ Len(p) - (Len(p) - Len(q)) = Len(q)
    BY <1>2
  <2> QED BY <1>2, <2>1
<1>4. PICK m \in lost : \A n \in lost : m <= n
  <2>1. lost \in SUBSET Nat
    OBVIOUS
  <2> HIDE DEF lost
  <2> QED BY <1>3, <2>1, LeastElement
<1>5. m \in Nat /\ m <= Len(p) /\ ~Has(t, SubSeq(p, 1, Len(p) - m))
  OBVIOUS
<1>6. m # 0
  <2> SUFFICES ASSUME m = 0
               PROVE  FALSE
    OBVIOUS
  <2>1. Len(p) - m = Len(p)
    BY <1>2
  <2>2. SubSeq(p, 1, Len(p) - m) = p
    BY <1>2, <2>1
  <2> QED BY <1>5, <2>2
<1> DEFINE n == Len(p) - m
           r == SubSeq(p, 1, n + 1)
           s == SubSeq(p, 1, n)
<1>7. n \in 0..Len(p) /\ n + 1 \in 0..Len(p)
  BY <1>2, <1>5, <1>6
<1>8. Has(t, r)
  <2>1. m - 1 \in Nat /\ m - 1 <= Len(p) /\ ~(m <= m - 1) /\ Len(p) - (m - 1) = n + 1
    BY <1>2, <1>5, <1>6
  <2>2. m - 1 \notin lost
    BY <1>4, <2>1
  <2> QED BY <2>1, <2>2
<1>9. r \in Seq(S) /\ Len(r) = n + 1 /\ s \in Seq(S) /\ Len(s) = n /\ (\A i \in 1..n+1 : r[i] = p[i]) /\ (\A i \in 1..n : s[i] = p[i])
  BY <1>7, Initial
<1> HIDE DEF r, s
<1>10. r # <<>> /\ Front(r) = s
  <2>1. r # <<>>
    BY <1>7, <1>9
  <2>2. Len(Front(r)) = Len(r) - 1 /\ Front(r) \in Seq(S) /\ \A i \in 1..Len(r)-1 : Front(r)[i] = r[i]
    BY <1>9, <2>1, Cut
  <2>3. Len(Front(r)) = Len(s) /\ \A i \in 1..Len(Front(r)) : Front(r)[i] = s[i]
    BY <1>7, <1>9, <2>2
  <2> QED BY <1>9, <2>1, <2>2, <2>3, SeqEqual
<1>11. Has(t, s)
  BY <1>1, <1>8, <1>10 DEF Has
<1> QED BY <1>5, <1>11 DEF s

LEMMA KeyOnItsPath ==
  ASSUME NEW S, NEW t, TreeOver(S, t), NEW p \in Seq(S), Has(t, p), NEW q \in Seq(S), IsPrefix(q, p), Len(q) < Len(p)
  PROVE  p[Len(q) + 1] \in Keys(t, q)
<1>1. Len(p) \in Nat /\ Len(q) \in Nat /\ p[Len(q) + 1] \in S
  BY LenProperties, ElementOfSeq
<1>2. IsPrefix(Append(q, p[Len(q) + 1]), p) /\ Append(q, p[Len(q) + 1]) \in Seq(S) /\ Append(q, p[Len(q) + 1]) # <<>>
  BY <1>1, PrefixAppend, AppendProperties
<1>3. Has(t, Append(q, p[Len(q) + 1]))
  BY <1>2, NodesOnItsPath
<1> QED BY <1>1, <1>2, <1>3, KeysOf DEF Has

(* A node with keys is there.                                              *)
LEMMA KeysOfNode ==
  ASSUME NEW S, NEW t, TreeOver(S, t), NEW p \in Seq(S), Keys(t, p) # {}
  PROVE  Has(t, p)
<1>1. PICK k \in Keys(t, p) : TRUE
  OBVIOUS
<1>2. k \in S /\ Append(p, k) \in t.nodes
  BY KeysOf
<1>3. Front(Append(p, k)) = p
  BY <1>2, FrontAppend
<1> QED BY <1>2, <1>3, PairByPair DEF TreeOver

(* What the first of some keys is.                                         *)
LEMMA FirstIs ==
  ASSUME NEW S, NEW t, TreeOver(S, t), NEW p \in Seq(S), NEW keys, keys \subseteq Keys(t, p),
         NEW k \in keys, \A l \in keys \ {k} : <<Append(p, k), Append(p, l)>> \in t.earlier
  PROVE  First(t, p, keys) = k
<1> DEFINE f == First(t, p, keys)
<1>1. f \in keys /\ \A l \in keys \ {f} : <<Append(p, f), Append(p, l)>> \in t.earlier
  BY FirstIsFirst
<1>2. \A x, y : <<x, y>> \in t.earlier => <<y, x>> \notin t.earlier
  BY PairByPair DEF TreeOver, Ordered
<1> HIDE DEF f
<1>3. f = k
  BY <1>1, <1>2
<1> QED BY <1>3 DEF f

(* What a tree had first stays first when it grows.                        *)
LEMMA StaysFirst ==
  ASSUME NEW S, NEW t, TreeOver(S, t), NEW u, TreeOver(S, u), Extends(t, u), NEW p \in Seq(S),
         NEW keys, keys \subseteq Keys(t, p), keys # {}, NEW more, keys \subseteq more, more \subseteq Keys(u, p),
         more \intersect Keys(t, p) \subseteq keys
  PROVE  First(u, p, more) = First(t, p, keys)
<1> DEFINE f == First(t, p, keys)
<1>1. f \in keys /\ \A l \in keys \ {f} : <<Append(p, f), Append(p, l)>> \in t.earlier
  BY FirstIsFirst
<1> HIDE DEF f
<1>2. \A l \in more \ {f} : <<Append(p, f), Append(p, l)>> \in u.earlier
  <2> TAKE l \in more \ {f}
  <2> DEFINE x == Append(p, f)
             y == Append(p, l)
  <2>1. x \in t.nodes /\ y \in u.nodes /\ l \in S /\ f \in S
    BY <1>1, KeysOf
  <2>2. Siblings(x, y) /\ x # y
    BY <2>1, FrontAppend DEF Siblings
  <2>3. y \in t.nodes => l \in keys
    BY <2>1, KeysOf
  <2>4. y \in t.nodes => <<x, y>> \in t.earlier
    BY <1>1, <2>3
  <2> HIDE DEF x, y
  <2>5. <<x, y>> \in u.earlier
    BY <2>1, <2>2, <2>4 DEF Extends
  <2> QED BY <2>5 DEF x, y
<1>3. First(u, p, more) = f
  BY <1>1, <1>2, FirstIs
<1> QED BY <1>3 DEF f

-----------------------------------------------------------------------------
(* Planting *)

(* What planting the subtree at `from` as the key of a node does: below    *)
(* that key everything is as it is below `from`, the node itself gets that *)
(* key, and nothing else changes.                                          *)
LEMMA PlantedNodes ==
  ASSUME NEW S, NEW t, TreeOver(S, t), NEW from \in Seq(S), Has(t, from),
         NEW target \in Seq(S), Has(t, target), NEW key \in S, ~Has(t, Append(target, key))
  PROVE  LET to == Append(target, key)
             u == Planted(t, from, to)
         IN  /\ TreeOver(S, u) /\ Extends(t, u)
             /\ \A q \in Seq(S) : q \in u.nodes <=>
                  q \in t.nodes \/ q = to \/ \E x \in Seq(S) : x # <<>> /\ q = to \o x /\ from \o x \in t.nodes
             /\ \A x, y \in Seq(S) : x # <<>> /\ y # <<>> /\ <<from \o x, from \o y>> \in t.earlier =>
                  <<to \o x, to \o y>> \in u.earlier
             /\ \A x \in Seq(S) : to \o x \notin t.nodes
<1> DEFINE to == Append(target, key)
           v == Subtree(t, from)
           a == At(to, v)
           u == _deep_merge(t, a)
<1>1. to \in Seq(S) /\ to # <<>> /\ IsPrefix(target, to)
  BY AppendProperties, PrefixAppend
<1>2. TreeOver(S, v) /\ IsBelow(S, t, from, v)
  BY SubtreeBelow, SubtreeIsTree
<1>3. v.nodes \subseteq Seq(S) /\ \A x \in v.nodes : x # <<>>
  BY <1>2 DEF TreeOver, Shape, IsBelow
<1> HIDE DEF v
<1>4. TreeOver(S, a) /\ IsAt(S, to, v, a)
  <2> HIDE DEF to
  <2> QED BY <1>1, <1>2, AtPath, AtIsTree
<1> HIDE DEF a
<1>5. /\ u.nodes = t.nodes \cup a.nodes
      /\ \A p, q : <<p, q>> \in a.earlier /\ p \in a.nodes \ t.nodes /\ q \in a.nodes \ t.nodes => <<p, q>> \in u.earlier
  BY Merged
<1>6. TreeOver(S, u)
  BY <1>4, MergeIsTree
<1>7. Extends(t, u)
  <2>1. Extends(t, t)
    BY DEF Extends
  <2> QED BY <2>1, MergeExtends
<1>8. u = Planted(t, from, to)
  BY DEF Planted, _merge_at_path, v, a
<1> HIDE DEF u
<1>9. ~Has(t, to)
  OBVIOUS
<1>10. \A x \in Seq(S) : to \o x \notin t.nodes
  <2> SUFFICES ASSUME NEW x \in Seq(S), to \o x \in t.nodes
               PROVE  FALSE
    OBVIOUS
  <2> HIDE DEF to
  <2>1. to \o x \in Seq(S) /\ IsPrefix(to, to \o x)
    <3>1. CASE x = <<>>
      <4>1. to \o x = to /\ IsPrefix(to, to)
        BY <1>1, <3>1, ConcatEmptySeq, PrefixIs
      <4> QED BY <1>1, <4>1
    <3>2. CASE x # <<>>
      BY <1>1, <3>2, PrefixOfConcat, ConcatProperties
    <3> QED BY <3>1, <3>2
  <2>2. Has(t, to \o x)
    BY DEF Has
  <2> QED BY <1>1, <1>9, <2>1, <2>2, NodesOnItsPath
<1>11. \A q \in NodesOn(to) : q = to \/ q \in t.nodes
  <2> SUFFICES ASSUME NEW q \in NodesOn(to), q # to
               PROVE  q \in t.nodes
    OBVIOUS
  <2>1. q \in Seq(S) /\ q # <<>> /\ Len(q) \in 1..Len(to) /\ q = SubSeq(to, 1, Len(q))
    BY <1>1, NodesAbove
  <2>2. Len(q) <= Len(to)
    <3> HIDE DEF to
    <3> QED BY <1>1, <2>1, LenProperties
  <2>3. IsPrefix(q, to)
    BY <1>1, <2>1, <2>2, PrefixIs
  <2>4. IsPrefix(q, target)
    BY <2>1, <2>3, PrefixAppend
  <2>5. Has(t, q)
    BY <2>1, <2>4, NodesOnItsPath
  <2> QED BY <2>1, <2>5 DEF Has
<1>12. to \in NodesOn(to)
  <2> HIDE DEF to
  <2> QED BY <1>1, NodesOnPath
<1>13. a.nodes = NodesOn(to) \cup {to \o x : x \in v.nodes}
  BY <1>4 DEF IsAt
<1>14. \A x \in Seq(S) : x # <<>> => (x \in v.nodes <=> from \o x \in t.nodes)
  BY <1>2 DEF IsBelow
<1> HIDE DEF to
<1>15. ASSUME NEW q \in Seq(S)
       PROVE  q \in u.nodes <=> q \in t.nodes \/ q = to \/ \E x \in Seq(S) : x # <<>> /\ q = to \o x /\ from \o x \in t.nodes
  <2>1. q \in a.nodes <=> q \in NodesOn(to) \/ \E x \in v.nodes : q = to \o x
    BY <1>13
  <2>2. (\E x \in v.nodes : q = to \o x) <=> \E x \in Seq(S) : x # <<>> /\ q = to \o x /\ from \o x \in t.nodes
    BY <1>3, <1>14
  <2> QED BY <1>5, <1>11, <1>12, <2>1, <2>2
<1>16. ASSUME NEW x \in Seq(S), NEW y \in Seq(S), x # <<>>, y # <<>>, <<from \o x, from \o y>> \in t.earlier
       PROVE  <<to \o x, to \o y>> \in u.earlier
  <2>1. from \o x \in t.nodes /\ from \o y \in t.nodes
    BY <1>16, PairByPair DEF TreeOver, Ordered
  <2>2. x \in v.nodes /\ y \in v.nodes
    BY <1>14, <1>16, <2>1
  <2>3. <<x, y>> \in v.earlier
    BY <1>2, <1>16, <2>2 DEF IsBelow
  <2>4. <<to \o x, to \o y>> \in a.earlier
    BY <1>4, <2>3 DEF IsAt
  <2>5. to \o x \in a.nodes /\ to \o y \in a.nodes
    BY <1>13, <2>2
  <2> QED BY <1>5, <1>10, <2>4, <2>5
<1> QED BY <1>6, <1>7, <1>8, <1>10, <1>15, <1>16 DEF to

LEMMA ConcatAppend ==
  ASSUME NEW S, NEW p \in Seq(S), NEW x \in Seq(S), NEW k \in S
  PROVE  p \o Append(x, k) = Append(p \o x, k)
<1>1. <<k>> \in Seq(S) /\ p \o x \in Seq(S)
  BY ConcatProperties
<1>2. Append(x, k) = x \o <<k>> /\ Append(p \o x, k) = (p \o x) \o <<k>>
  BY <1>1, AppendIsConcat
<1>3. (p \o x) \o <<k>> = p \o (x \o <<k>>)
  BY <1>1, ConcatAssociative
<1> QED BY <1>2, <1>3

LEMMA PlantedKeys ==
  ASSUME NEW S, NEW t, TreeOver(S, t), NEW from \in Seq(S), Has(t, from),
         NEW target \in Seq(S), Has(t, target), NEW key \in S, ~Has(t, Append(target, key))
  PROVE  LET to == Append(target, key)
             u == Planted(t, from, to)
         IN  /\ \A x \in Seq(S) :
                  /\ Keys(u, to \o x) = Keys(t, from \o x)
                  /\ \A keys : keys \subseteq Keys(t, from \o x) /\ keys # {} =>
                       First(u, to \o x, keys) = First(t, from \o x, keys)
             /\ \A q \in Seq(S) : ~IsPrefix(to, q) => Keys(u, q) = Keys(t, q) \cup (IF q = target THEN {key} ELSE {})
<1> DEFINE to == Append(target, key)
           u == Planted(t, from, to)
<1>1. /\ TreeOver(S, u)
      /\ \A q \in Seq(S) : q \in u.nodes <=>
           q \in t.nodes \/ q = to \/ \E x \in Seq(S) : x # <<>> /\ q = to \o x /\ from \o x \in t.nodes
      /\ \A x, y \in Seq(S) : x # <<>> /\ y # <<>> /\ <<from \o x, from \o y>> \in t.earlier =>
           <<to \o x, to \o y>> \in u.earlier
      /\ \A x \in Seq(S) : to \o x \notin t.nodes
  BY PlantedNodes, ZenonT(60)
<1>2. to \in Seq(S)
  BY AppendProperties
<1>3. \A q \in Seq(S), k \in S : Append(q, k) = to <=> q = target /\ k = key
  BY AppendInjective
<1> HIDE DEF to, u
<1>4. ASSUME NEW x \in Seq(S)
      PROVE  Keys(u, to \o x) = Keys(t, from \o x)
  <2>1. to \o x \in Seq(S) /\ from \o x \in Seq(S)
    BY <1>2, ConcatProperties
  <2>2. ASSUME NEW k \in S
        PROVE  Append(to \o x, k) \in u.nodes <=> Append(from \o x, k) \in t.nodes
    <3> DEFINE z == Append(x, k)
    <3>1. z \in Seq(S) /\ z # <<>>
      BY AppendProperties
    <3>2. to \o z = Append(to \o x, k) /\ from \o z = Append(from \o x, k)
      BY <1>2, ConcatAppend
    <3> HIDE DEF z
    <3>3. to \o z \in Seq(S) /\ to \o z \notin t.nodes /\ to \o z # to
      BY <1>1, <1>2, <3>1, ConcatProperties, ConcatEqualIffEmpty
    <3>4. \A y \in Seq(S) : to \o z = to \o y => z = y
      BY <1>2, <3>1, Cancel
    <3>5. to \o z \in u.nodes <=> from \o z \in t.nodes
      BY <1>1, <3>1, <3>3, <3>4
    <3> QED BY <3>2, <3>5
  <2>3. \A k : k \in Keys(u, to \o x) <=> k \in S /\ Append(to \o x, k) \in u.nodes
    BY <1>1, <2>1, KeysOf
  <2>4. \A k : k \in Keys(t, from \o x) <=> k \in S /\ Append(from \o x, k) \in t.nodes
    BY <2>1, KeysOf
  <2> QED BY <2>2, <2>3, <2>4
<1>5. ASSUME NEW x \in Seq(S), NEW keys, keys \subseteq Keys(t, from \o x), keys # {}
      PROVE  First(u, to \o x, keys) = First(t, from \o x, keys)
  <2>1. to \o x \in Seq(S) /\ from \o x \in Seq(S)
    BY <1>2, ConcatProperties
  <2>2. keys \subseteq S
    BY <1>5, <2>1, KeysOf
  <2>3. \A k \in S : Append(x, k) \in Seq(S) /\ Append(x, k) # <<>> /\ to \o Append(x, k) = Append(to \o x, k) /\ from \o Append(x, k) = Append(from \o x, k)
    <3> TAKE k \in S
    <3>1. Append(x, k) \in Seq(S) /\ Append(x, k) # <<>>
      BY AppendProperties
    <3>2. to \o Append(x, k) = Append(to \o x, k)
      BY <1>2, ConcatAppend
    <3>3. from \o Append(x, k) = Append(from \o x, k)
      BY ConcatAppend
    <3> QED BY <3>1, <3>2, <3>3
  <2>4. \A k, l \in keys : <<Append(from \o x, k), Append(from \o x, l)>> \in t.earlier => <<Append(to \o x, k), Append(to \o x, l)>> \in u.earlier
    <3> TAKE k, l \in keys
    <3> HAVE <<Append(from \o x, k), Append(from \o x, l)>> \in t.earlier
    <3>1. k \in S /\ l \in S
      BY <2>2
    <3>2. <<from \o Append(x, k), from \o Append(x, l)>> \in t.earlier
      BY <2>3, <3>1
    <3>3. <<to \o Append(x, k), to \o Append(x, l)>> \in u.earlier
      BY <1>1, <2>3, <3>1, <3>2
    <3> QED BY <2>3, <3>1, <3>3
  <2>5. keys \subseteq Keys(u, to \o x)
    BY <1>4, <1>5
  <2> DEFINE a == to \o x
             b == from \o x
  <2>6. /\ a \in Seq(S) /\ b \in Seq(S) /\ keys \subseteq Keys(t, b) /\ keys \subseteq Keys(u, a)
        /\ \A k, l \in keys : <<Append(b, k), Append(b, l)>> \in t.earlier => <<Append(a, k), Append(a, l)>> \in u.earlier
    BY <1>5, <2>1, <2>4, <2>5
  <2> HIDE DEF a, b
  <2>7. TreeOver(S, u) /\ keys # {}
    BY <1>1, <1>5
  <2> DEFINE f == First(t, b, keys)
  <2>8. f \in keys /\ \A l \in keys \ {f} : <<Append(b, f), Append(b, l)>> \in t.earlier
    BY <2>6, <2>7, FirstIsFirst
  <2> HIDE DEF f
  <2>9. \A l \in keys \ {f} : <<Append(a, f), Append(a, l)>> \in u.earlier
    BY <2>6, <2>8
  <2>10. First(u, a, keys) = f
    BY <2>6, <2>7, <2>8, <2>9, FirstIs, SMTT(30)
  <2> QED BY <2>10 DEF a, b, f
<1>6. ASSUME NEW q \in Seq(S), ~IsPrefix(to, q)
      PROVE  Keys(u, q) = Keys(t, q) \cup (IF q = target THEN {key} ELSE {})
  <2>1. ASSUME NEW k \in S
        PROVE  Append(q, k) \in u.nodes <=> Append(q, k) \in t.nodes \/ (q = target /\ k = key)
    <3>1. Append(q, k) \in Seq(S) /\ Front(Append(q, k)) = q
      BY FrontAppend
    <3>2. ASSUME NEW x \in Seq(S), x # <<>>, Append(q, k) = to \o x
          PROVE  FALSE
      <4>1. Front(to \o x) = to \o Front(x) /\ Front(x) \in Seq(S)
        <5>1. Front(x) \in Seq(S)
          BY <3>2, Cut
        <5>2. Front(to \o x) = to \o Front(x)
          BY <1>2, <3>2, FrontConcat
        <5> QED BY <5>1, <5>2
      <4>2. q = to \o Front(x)
        BY <3>1, <3>2, <4>1
      <4>3. IsPrefix(to, q)
        <5>1. CASE Front(x) = <<>>
          <6>1. q = to
            BY <1>2, <4>2, <5>1, ConcatEmptySeq
          <6> QED BY <1>2, <6>1, PrefixIs
        <5>2. CASE Front(x) # <<>>
          BY <1>2, <4>1, <4>2, <5>2, PrefixOfConcat
        <5> QED BY <5>1, <5>2
      <4> QED BY <1>6, <4>3
    <3>3. Append(q, k) \in u.nodes <=> Append(q, k) \in t.nodes \/ Append(q, k) = to
      BY <1>1, <3>1, <3>2
    <3>4. Append(q, k) = to <=> q = target /\ k = key
      BY <1>3
    <3> QED BY <3>3, <3>4
  <2>2. \A k : k \in Keys(u, q) <=> k \in S /\ Append(q, k) \in u.nodes
    BY <1>1, KeysOf
  <2>3. \A k : k \in Keys(t, q) <=> k \in S /\ Append(q, k) \in t.nodes
    BY KeysOf
  <2>4. \A k : k \in Keys(u, q) <=> k \in Keys(t, q) \/ (q = target /\ k = key)
    BY <2>1, <2>2, <2>3
  <2>5. CASE q = target
    BY <2>4, <2>5
  <2>6. CASE q # target
    BY <2>4, <2>6
  <2> QED BY <2>5, <2>6
<1> QED BY <1>4, <1>5, <1>6 DEF u, to

-----------------------------------------------------------------------------
(* A settled configuration *)

Words == Labels \cup Controls \cup {"groups"}

\* The groups are being inherited, or have been.
Stage == TypeInv /\ phase # "parse" /\ Extends(parsed, tree) /\ Settled

LEMMA MoreWords ==
  ASSUME NEW S, NEW T, S \subseteq T, NEW t, TreeOver(S, t)
  PROVE  TreeOver(T, t)
<1>1. \A p \in Seq(S) : p \in Seq(T)
  BY SeqMonotonic
<1>2. Seq(S) \subseteq Seq(T) /\ Seq(S) \X Seq(S) \subseteq Seq(T) \X Seq(T)
  BY <1>1
<1>3. t \in Shape(T)
  BY <1>2 DEF TreeOver, Shape
<1> QED BY <1>3 DEF TreeOver

LEMMA Worded ==
  ASSUME TypeInv
  PROVE  /\ TreeOver(Words, tree) /\ TreeOver(Words, parsed)
         /\ tree.nodes \subseteq Seq(Words) /\ parsed.nodes \subseteq Seq(Words)
         /\ (\A p \in tree.nodes : p # <<>>) /\ (\A p \in parsed.nodes : p # <<>>)
         /\ pending \subseteq Seq(Words) /\ \A i \in inherits : i = <<i[1], i[2]>> /\ i[1] \in Seq(Words) /\ i[2] \in Words
         /\ Len(calls) \in Nat
         /\ \A n \in 1..Len(calls) :
              /\ calls[n].target \in Seq(Words) /\ calls[n].src \in Seq(Words) /\ calls[n].group \in Words
              /\ calls[n].wildcard \in BOOLEAN /\ Has(tree, calls[n].target) /\ Has(tree, calls[n].src)
              /\ calls[n].keys \subseteq Keys(tree, IF calls[n].wildcard THEN calls[n].target ELSE calls[n].src)
         /\ Wildcards \subseteq Words /\ Controls \subseteq Words /\ "groups" \in Words
         /\ \A w \in Wildcards : w \notin Controls /\ w # "groups"
         /\ <<>> \in Seq(Words)
<1>1. Labels \subseteq Words
  BY DEF Words
<1>2. \A p \in Seq(Labels) : p \in Seq(Words)
  BY <1>1, SeqMonotonic
<1>3. TreeOver(Words, tree) /\ TreeOver(Words, parsed)
  BY <1>1, MoreWords DEF TypeInv
<1>4. /\ tree.nodes \subseteq Seq(Words) /\ parsed.nodes \subseteq Seq(Words)
      /\ (\A p \in tree.nodes : p # <<>>) /\ (\A p \in parsed.nodes : p # <<>>)
  BY <1>3, PairByPair DEF TreeOver, Shape
<1>5. pending \subseteq Seq(Words) /\ \A i \in inherits : i = <<i[1], i[2]>> /\ i[1] \in Seq(Words) /\ i[2] \in Words
  BY <1>1, <1>2 DEF TypeInv
<1>6. Len(calls) \in Nat /\ \A n \in 1..Len(calls) : calls[n] \in Frames(tree)
  BY ElementOfSeq, LenProperties DEF TypeInv
<1>7. \A n \in 1..Len(calls) :
        /\ calls[n].target \in Seq(Words) /\ calls[n].src \in Seq(Words) /\ calls[n].group \in Words
        /\ calls[n].wildcard \in BOOLEAN /\ Has(tree, calls[n].target) /\ Has(tree, calls[n].src)
        /\ calls[n].keys \subseteq Keys(tree, IF calls[n].wildcard THEN calls[n].target ELSE calls[n].src)
  BY <1>1, <1>2, <1>6 DEF Frames
<1>8. /\ Wildcards \subseteq Words /\ Controls \subseteq Words /\ "groups" \in Words
      /\ \A w \in Wildcards : w \notin Controls /\ w # "groups"
  BY NamesAssumption DEF Words, Labels
<1> QED BY <1>3, <1>4, <1>5, <1>6, <1>7, <1>8, EmptySeq

LEMMA OfGroup ==
  ASSUME NEW S, NEW r \in Seq(S), NEW g \in S, "groups" \in S
  PROVE  IsPrefix(<<"groups", g>>, r) <=> Len(r) >= 2 /\ r[1] = "groups" /\ r[2] = g
<1> DEFINE s == <<"groups", g>>
<1>1. s \in Seq(S) /\ Len(s) = 2 /\ s[1] = "groups" /\ s[2] = g /\ Len(r) \in Nat
  BY LenProperties
<1> HIDE DEF s
<1>2. IsPrefix(s, r) <=> Len(s) <= Len(r) /\ \A i \in 1..Len(s) : s[i] = r[i]
  BY <1>1, PrefixIs
<1>3. 1..Len(s) = {1, 2}
  BY <1>1
<1>4. IsPrefix(s, r) <=> Len(r) >= 2 /\ r[1] = "groups" /\ r[2] = g
  BY <1>1, <1>2, <1>3
<1> QED BY <1>4 DEF s

(* The groups and the exceptions are those that were written.              *)
LEMMA AsWritten ==
  ASSUME Stage, NEW p \in Seq(Words), \/ p # <<>> /\ p[1] = "groups"
                                      \/ p # <<>> /\ p[Len(p)] = "apply-groups-except"
  PROVE  /\ Keys(tree, p) = Keys(parsed, p)
         /\ p[1] = "groups" => (Has(tree, p) <=> Has(parsed, p))
         /\ \A keys : keys \subseteq Keys(parsed, p) /\ keys # {} => First(tree, p, keys) = First(parsed, p, keys)
<1>1. TreeOver(Words, tree) /\ TreeOver(Words, parsed) /\ Extends(parsed, tree)
  BY Worded DEF Stage
<1>2. parsed.nodes \subseteq tree.nodes
  BY <1>1 DEF Extends
<1>3. \A q \in tree.nodes : q[1] = "groups" \/ (Len(q) > 1 /\ q[Len(q) - 1] = "apply-groups-except") => Has(parsed, q)
  BY DEF Stage, Settled
<1>4. ASSUME NEW k \in Words
      PROVE  Append(p, k) \in tree.nodes <=> Append(p, k) \in parsed.nodes
  <2> DEFINE q == Append(p, k)
  <2>1. q # <<>> /\ Len(q) = Len(p) + 1 /\ (\A i \in 1..Len(p) : q[i] = p[i])
    BY AppendProperties
  <2>2. Len(p) \in Nat \ {0}
    BY EmptySeq
  <2> HIDE DEF q
  <2>3. q[1] = p[1] /\ q[Len(q) - 1] = p[Len(p)] /\ Len(q) > 1
    BY <2>1, <2>2
  <2>4. q \in tree.nodes => Has(parsed, q)
    BY <1>3, <2>3
  <2> QED BY <1>2, <2>1, <2>4 DEF q, Has
<1>5. Keys(tree, p) = Keys(parsed, p)
  <2>1. \A k : k \in Keys(tree, p) <=> k \in Words /\ Append(p, k) \in tree.nodes
    BY <1>1, KeysOf
  <2>2. \A k : k \in Keys(parsed, p) <=> k \in Words /\ Append(p, k) \in parsed.nodes
    BY <1>1, KeysOf
  <2> QED BY <1>4, <2>1, <2>2
<1>6. p[1] = "groups" => (Has(tree, p) <=> Has(parsed, p))
  BY <1>2, <1>3 DEF Has
<1>7. ASSUME NEW keys, keys \subseteq Keys(parsed, p), keys # {}
      PROVE  First(tree, p, keys) = First(parsed, p, keys)
  <2>1. keys \subseteq Keys(tree, p) /\ keys \intersect Keys(parsed, p) \subseteq keys
    BY <1>5, <1>7
  <2> QED BY <1>1, <1>7, <2>1, StaysFirst
<1> QED BY <1>5, <1>6, <1>7

LEMMA SameBeginning ==
  ASSUME NEW S, NEW q \in Seq(S), NEW p \in Seq(S), IsPrefix(q, p), NEW i \in 0..Len(q)
  PROVE  SubSeq(q, 1, i) = SubSeq(p, 1, i)
<1>1. Len(q) \in Nat /\ Len(p) \in Nat /\ Len(q) <= Len(p) /\ \A j \in 1..Len(q) : q[j] = p[j]
  BY PrefixIs, LenProperties
<1> DEFINE u == SubSeq(q, 1, i)
           v == SubSeq(p, 1, i)
<1>2. u \in Seq(S) /\ Len(u) = i /\ \A j \in 1..i : u[j] = q[j]
  BY Initial
<1>3. i \in 0..Len(p)
  BY <1>1
<1>4. v \in Seq(S) /\ Len(v) = i /\ \A j \in 1..i : v[j] = p[j]
  BY <1>3, Initial
<1> HIDE DEF u, v
<1>5. \A j \in 1..i : u[j] = v[j]
  BY <1>1, <1>2, <1>4
<1>6. u = v
  BY <1>2, <1>4, <1>5, SeqEqual
<1> QED BY <1>6 DEF u, v

(* The beginnings of paths that stand for each other.                      *)
LEMMA CoversBeginning ==
  ASSUME NEW r \in Seq(Words), NEW p \in Seq(Words), Covers(r, p), NEW q \in Seq(Words), IsPrefix(q, p)
  PROVE  Covers(SubSeq(r, 1, Len(q) + 2), q)
<1>1. /\ Len(r) = Len(p) + 2 /\ Len(p) \in Nat /\ Len(q) \in Nat /\ Len(q) <= Len(p)
      /\ \A i \in 1..Len(q) : q[i] = p[i]
  BY PrefixIs, LenProperties DEF Covers
<1> DEFINE s == SubSeq(r, 1, Len(q) + 2)
<1>2. Len(s) = Len(q) + 2 /\ \A i \in 1..Len(q) + 2 : s[i] = r[i]
  BY <1>1, Initial
<1> HIDE DEF s
<1>3. ASSUME NEW i \in 1..Len(q)
      PROVE  s[i + 2] = q[i] \/ (s[i + 2] \in Wildcards /\ q[i] \in Matches[s[i + 2]] /\ Has(parsed, SubSeq(q, 1, i)))
  <2>1. i \in 1..Len(p) /\ i + 2 \in 1..Len(q) + 2 /\ i \in 0..Len(q)
    BY <1>1
  <2>2. r[i + 2] = p[i] \/ (r[i + 2] \in Wildcards /\ p[i] \in Matches[r[i + 2]] /\ Has(parsed, SubSeq(p, 1, i)))
    BY <2>1 DEF Covers
  <2>3. SubSeq(q, 1, i) = SubSeq(p, 1, i)
    BY <2>1, SameBeginning
  <2>4. s[i + 2] = r[i + 2] /\ q[i] = p[i]
    BY <1>1, <1>2, <2>1
  <2> QED BY <2>2, <2>3, <2>4
<1>4. Covers(s, q)
  BY <1>2, <1>3 DEF Covers
<1> QED BY <1>4 DEF s

LEMMA CoversOneMore ==
  ASSUME NEW r \in Seq(Words), NEW p \in Seq(Words), Covers(r, p), NEW w \in Words, NEW k \in Words,
         w = k \/ (w \in Wildcards /\ k \in Matches[w] /\ Has(parsed, Append(p, k)))
  PROVE  Covers(Append(r, w), Append(p, k))
<1> DEFINE s == Append(r, w)
           q == Append(p, k)
<1>1. Len(r) = Len(p) + 2 /\ Len(p) \in Nat
  BY LenProperties DEF Covers
<1>2. s \in Seq(Words) /\ Len(s) = Len(p) + 3 /\ s[Len(p) + 3] = w /\ \A i \in 1..Len(p) + 2 : s[i] = r[i]
  BY <1>1, AppendProperties
<1>3. q \in Seq(Words) /\ Len(q) = Len(p) + 1 /\ q[Len(p) + 1] = k /\ (\A i \in 1..Len(p) : q[i] = p[i]) /\ IsPrefix(p, q)
  BY <1>1, AppendProperties, PrefixAppend
<1>4. w = k \/ (w \in Wildcards /\ k \in Matches[w] /\ Has(parsed, q))
  OBVIOUS
<1> HIDE DEF s, q
<1>5. ASSUME NEW i \in 1..Len(q)
      PROVE  s[i + 2] = q[i] \/ (s[i + 2] \in Wildcards /\ q[i] \in Matches[s[i + 2]] /\ Has(parsed, SubSeq(q, 1, i)))
  <2>1. CASE i = Len(p) + 1
    <3>1. s[i + 2] = w /\ q[i] = k
      BY <1>1, <1>2, <1>3, <2>1
    <3>2. SubSeq(q, 1, i) = q
      BY <1>3, <2>1, SubSeqFull
    <3> QED BY <1>4, <3>1, <3>2
  <2>2. CASE i # Len(p) + 1
    <3>1. i \in 1..Len(p) /\ i + 2 \in 1..Len(p) + 2 /\ i \in 0..Len(p)
      BY <1>1, <1>3, <2>2
    <3>2. SubSeq(p, 1, i) = SubSeq(q, 1, i)
      BY <1>3, <3>1, SameBeginning
    <3>3. s[i + 2] = r[i + 2] /\ q[i] = p[i]
      BY <1>2, <1>3, <3>1
    <3>4. r[i + 2] = p[i] \/ (r[i + 2] \in Wildcards /\ p[i] \in Matches[r[i + 2]] /\ Has(parsed, SubSeq(p, 1, i)))
      BY <3>1 DEF Covers
    <3> QED BY <3>2, <3>3, <3>4
  <2> QED BY <2>1, <2>2
<1>6. Covers(s, q)
  BY <1>1, <1>2, <1>3, <1>5 DEF Covers
<1> QED BY <1>6 DEF s, q

(* One node of a group at most stands for a node of the configuration.     *)
LEMMA OneCovers ==
  ASSUME Stage, NEW g \in Words, NEW r \in Seq(Words), NEW s \in Seq(Words), Has(parsed, r), Has(parsed, s),
         IsPrefix(<<"groups", g>>, r), IsPrefix(<<"groups", g>>, s),
         NEW p \in Seq(Words), Has(tree, p), Covers(r, p), Covers(s, p)
  PROVE  r = s
<1>1. "groups" \in Words
  BY Worded DEF Stage
<1>2. /\ Len(r) >= 2 /\ r[1] = "groups" /\ r[2] = g /\ Len(s) >= 2 /\ s[1] = "groups" /\ s[2] = g
      /\ Len(r) = Len(p) + 2 /\ Len(s) = Len(p) + 2 /\ Len(p) \in Nat
  BY <1>1, OfGroup, LenProperties DEF Covers
<1>3. CASE p = <<>>
  <2>1. Len(p) = 0
    BY <1>3
  <2>2. Len(r) = Len(s) /\ \A i \in 1..Len(r) : r[i] = s[i]
    BY <1>2, <2>1
  <2> QED BY <2>2, SeqEqual
<1>4. CASE p # <<>>
  <2>1. Len(p) > 0
    BY <1>2, <1>4, EmptySeq
  <2>2. r # <<>> /\ s # <<>>
    BY <1>2
  <2>3. r \in parsed.nodes /\ s \in parsed.nodes /\ p \in tree.nodes /\ Len(r) > 2 /\ Len(s) > 2
    BY <1>2, <1>4, <2>1, <2>2 DEF Has
  <2>4. \A x, y \in {x \in parsed.nodes : x[1] = "groups" /\ Len(x) > 2} : x # y /\ x[2] = y[2] =>
          ~\E q \in tree.nodes : Covers(x, q) /\ Covers(y, q)
    BY DEF Stage, Settled
  <2> QED BY <1>2, <2>3, <2>4
<1> QED BY <1>3, <1>4

(* The key of a group's node that stands for a key.                        *)
Stands(w, key) == w = key \/ (w \in Wildcards /\ key \in Matches[w])

LEMMA StandingIs ==
  ASSUME NEW S, NEW t, TreeOver(S, t), NEW node \in Seq(S), NEW key
  PROVE  /\ \A w \in Standing(t, node, key) : w \in Keys(t, node) /\ Stands(w, key)
         /\ \A w \in Keys(t, node) : Stands(w, key) /\ (\A v \in Keys(t, node) : Stands(v, key) => v = w) =>
              w \in Standing(t, node, key)
<1> DEFINE matching == {w \in Keys(t, node) \intersect Wildcards : key \in Matches[w]}
<1>1. Standing(t, node, key) = IF key \in Keys(t, node) THEN {key}
                               ELSE IF matching # {} THEN {First(t, node, matching)} ELSE {}
  BY DEF Standing
<1>2. matching # {} => First(t, node, matching) \in matching
  <2> HAVE matching # {}
  <2>1. matching \subseteq Keys(t, node)
    OBVIOUS
  <2> HIDE DEF matching
  <2> QED BY <2>1, FirstIsFirst
<1>3. \A w : w \in matching <=> w \in Keys(t, node) /\ w \in Wildcards /\ key \in Matches[w]
  OBVIOUS
<1> HIDE DEF matching
<1>4. ASSUME NEW w \in Standing(t, node, key)
      PROVE  w \in Keys(t, node) /\ Stands(w, key)
  BY <1>1, <1>2, <1>3 DEF Stands
<1>5. ASSUME NEW w \in Keys(t, node), Stands(w, key), \A v \in Keys(t, node) : Stands(v, key) => v = w
      PROVE  w \in Standing(t, node, key)
  <2>1. CASE key \in Keys(t, node)
    <3>1. key = w
      BY <1>5, <2>1 DEF Stands
    <3> QED BY <1>1, <2>1, <3>1
  <2>2. CASE key \notin Keys(t, node)
    <3>1. w \in matching
      BY <1>3, <1>5, <2>2 DEF Stands
    <3>2. First(t, node, matching) = w
      BY <1>2, <1>3, <1>5, <3>1 DEF Stands
    <3> QED BY <1>1, <2>2, <3>1, <3>2
  <2> QED BY <2>1, <2>2
<1> QED BY <1>4, <1>5

LEMMA DescendCovers ==
  ASSUME Stage, NEW level \in Seq(Words), Has(parsed, level), NEW g \in Words, NEW r \in _descend(tree, g, level)
  PROVE  r \in Seq(Words) /\ Has(parsed, r) /\ IsPrefix(<<"groups", g>>, r) /\ Covers(r, level)
<1>1. /\ TreeOver(Words, tree) /\ TreeOver(Words, parsed) /\ tree.nodes \subseteq Seq(Words)
      /\ "groups" \in Words
  BY Worded DEF Stage
<1>2. /\ Len(r) = Len(level) + 2 /\ IsPrefix(<<"groups", g>>, r) /\ r \in tree.nodes
      /\ \A n \in 1..Len(level) : r[n + 2] \in Standing(tree, SubSeq(r, 1, n + 1), level[n])
  <2>1. /\ r \in tree.nodes \cup {<<"groups", g>>} /\ Has(tree, <<"groups", g>>)
        /\ Len(r) = Len(level) + 2 /\ IsPrefix(<<"groups", g>>, r)
        /\ \A n \in 1..Len(level) : r[n + 2] \in Standing(tree, SubSeq(r, 1, n + 1), level[n])
    BY DEF _descend
  <2>2. <<"groups", g>> # <<>>
    OBVIOUS
  <2>3. r \in tree.nodes
    BY <2>1, <2>2 DEF Has
  <2> QED BY <2>1, <2>3
<1>3. r \in Seq(Words) /\ Len(level) \in Nat
  BY <1>1, <1>2, LenProperties
<1>4. r[1] = "groups" /\ r # <<>>
  BY <1>1, <1>2, <1>3, OfGroup
<1>5. Has(parsed, r)
  BY <1>2, <1>3, <1>4, AsWritten DEF Has
<1>6. ASSUME NEW i \in 1..Len(level)
      PROVE  r[i + 2] = level[i] \/ (r[i + 2] \in Wildcards /\ level[i] \in Matches[r[i + 2]] /\ Has(parsed, SubSeq(level, 1, i)))
  <2>1. i \in 0..Len(level) /\ i + 1 \in 0..Len(r)
    BY <1>2, <1>3
  <2>2. SubSeq(r, 1, i + 1) \in Seq(Words)
    BY <1>3, <2>1, Initial
  <2>3. Stands(r[i + 2], level[i])
    BY <1>1, <1>2, <2>2, StandingIs
  <2>4. Has(parsed, SubSeq(level, 1, i))
    BY <1>1, <2>1, Initial, InitialPrefix, NodesOnItsPath
  <2> QED BY <2>3, <2>4 DEF Stands
<1>7. Covers(r, level)
  BY <1>2, <1>6 DEF Covers
<1> QED BY <1>2, <1>3, <1>5, <1>7

LEMMA DescendIs ==
  ASSUME Stage, NEW level \in Seq(Words), Has(parsed, level), NEW g \in Words,
         NEW r \in Seq(Words), Has(parsed, r), IsPrefix(<<"groups", g>>, r), Covers(r, level)
  PROVE  _descend(tree, g, level) = {r}
<1>1. /\ TreeOver(Words, tree) /\ TreeOver(Words, parsed) /\ "groups" \in Words /\ Extends(parsed, tree)
  BY Worded DEF Stage
<1>2. parsed.nodes \subseteq tree.nodes
  BY <1>1 DEF Extends
<1>3. Has(tree, level) /\ Has(tree, r)
  BY <1>2 DEF Has
<1>4. Len(r) >= 2 /\ r[1] = "groups" /\ r[2] = g /\ Len(level) \in Nat /\ Len(r) = Len(level) + 2 /\ r # <<>>
  BY <1>1, OfGroup, LenProperties DEF Covers
<1>5. \A s \in _descend(tree, g, level) : s = r
  <2> TAKE s \in _descend(tree, g, level)
  <2>1. s \in Seq(Words) /\ Has(parsed, s) /\ IsPrefix(<<"groups", g>>, s) /\ Covers(s, level)
    BY DescendCovers
  <2> QED BY <1>3, <2>1, OneCovers
<1>6. ASSUME NEW n \in 1..Len(level)
      PROVE  r[n + 2] \in Standing(tree, SubSeq(r, 1, n + 1), level[n])
  <2> DEFINE node == SubSeq(r, 1, n + 1)
             above == SubSeq(level, 1, n - 1)
             upto == SubSeq(level, 1, n)
  <2>1. /\ n + 1 \in 0..Len(r) /\ n - 1 \in 0..Len(level) /\ n \in 0..Len(level) /\ n + 2 \in 1..Len(r)
        /\ n - 1 + 2 = n + 1 /\ n - 1 + 1 = n
    BY <1>4
  <2>2. node \in Seq(Words) /\ Len(node) = n + 1 /\ IsPrefix(node, r) /\ \A i \in 1..n+1 : node[i] = r[i]
    BY <2>1, Initial, InitialPrefix
  <2>3. above \in Seq(Words) /\ Len(above) = n - 1 /\ IsPrefix(above, level)
    BY <2>1, Initial, InitialPrefix
  <2>4. upto \in Seq(Words) /\ Len(upto) = n /\ IsPrefix(upto, level)
    BY <2>1, Initial, InitialPrefix
  <2>5. r[n + 2] \in Words /\ level[n] \in Words
    BY <2>1, ElementOfSeq
  <2>6. Covers(node, above)
    <3>1. Covers(SubSeq(r, 1, Len(above) + 2), above)
      BY <2>3, CoversBeginning
    <3>2. Len(above) + 2 = n + 1
      BY <2>1, <2>3
    <3> QED BY <3>1, <3>2
  <2>7. Append(above, level[n]) = upto
    <3> DEFINE a == Append(above, level[n])
    <3>1. a \in Seq(Words) /\ Len(a) = n /\ (\A i \in 1..n-1 : a[i] = above[i]) /\ a[n] = level[n]
      BY <2>1, <2>3, <2>5, AppendProperties
    <3>2. (\A i \in 1..n-1 : above[i] = level[i]) /\ \A i \in 1..n : upto[i] = level[i]
      BY <2>1, Initial
    <3> HIDE DEF a, above, upto
    <3>3. \A i \in 1..n : a[i] = upto[i]
      <4> TAKE i \in 1..n
      <4>1. i = n \/ i \in 1..n-1
        BY <1>4
      <4> QED BY <3>1, <3>2, <4>1
    <3>4. a = upto
      BY <2>4, <3>1, <3>3, SeqEqual
    <3> QED BY <3>4 DEF a
  <2>8. Has(parsed, upto) /\ Has(tree, upto)
    BY <1>1, <1>3, <2>4, NodesOnItsPath
  <2> HIDE DEF node, above, upto
  <2>9. node # <<>> /\ node[1] = "groups" /\ node[2] = g
    <3>1. Len(node) > 0 /\ 1 \in 1..n+1 /\ 2 \in 1..n+1
      BY <1>4, <2>1, <2>2
    <3> QED BY <1>4, <2>2, <3>1
  <2>10. Keys(tree, node) = Keys(parsed, node)
    BY <2>2, <2>9, AsWritten
  <2>11. r[n + 2] \in Keys(tree, node)
    <3>1. Len(node) < Len(r) /\ Len(node) + 1 = n + 2
      BY <1>4, <2>1, <2>2
    <3>2. r[Len(node) + 1] \in Keys(tree, node)
      BY <1>1, <1>3, <2>2, <3>1, KeyOnItsPath
    <3> QED BY <3>1, <3>2
  <2>12. Stands(r[n + 2], level[n])
    BY DEF Covers, Stands
  <2>13. ASSUME NEW v \in Keys(tree, node), Stands(v, level[n])
         PROVE  /\ v \in Words /\ Append(node, v) \in Seq(Words) /\ Has(parsed, Append(node, v))
                /\ IsPrefix(<<"groups", g>>, Append(node, v)) /\ Covers(Append(node, v), upto)
    <3>1. v \in Words /\ Append(node, v) \in parsed.nodes
      BY <1>1, <2>2, <2>10, KeysOf
    <3> DEFINE a == Append(node, v)
    <3>2. a \in Seq(Words) /\ Len(a) = Len(node) + 1 /\ \A i \in 1..Len(node) : a[i] = node[i]
      BY <2>2, <3>1, AppendProperties
    <3>3. Covers(a, upto)
      <4>1. v = level[n] \/ (v \in Wildcards /\ level[n] \in Matches[v] /\ Has(parsed, Append(above, level[n])))
        BY <2>7, <2>8, <2>13 DEF Stands
      <4>2. Covers(a, Append(above, level[n]))
        BY <2>2, <2>3, <2>5, <2>6, <3>1, <4>1, CoversOneMore
      <4> QED BY <2>7, <4>2
    <3> HIDE DEF a
    <3>4. Len(a) >= 2 /\ a[1] = "groups" /\ a[2] = g
      <4>1. 1 \in 1..Len(node) /\ 2 \in 1..Len(node) /\ Len(node) \in Nat
        BY <2>1, <2>2
      <4> QED BY <2>9, <3>2, <4>1
    <3>5. IsPrefix(<<"groups", g>>, a)
      BY <1>1, <3>2, <3>4, OfGroup
    <3> QED BY <3>1, <3>2, <3>3, <3>5 DEF Has, a
  <2>14. ASSUME NEW v \in Keys(tree, node), Stands(v, level[n])
         PROVE  v = r[n + 2]
    <3> DEFINE a == Append(node, v)
               b == Append(node, r[n + 2])
    <3>1. a \in Seq(Words) /\ Has(parsed, a) /\ IsPrefix(<<"groups", g>>, a) /\ Covers(a, upto) /\ v \in Words
      BY <2>13, <2>14
    <3>2. b \in Seq(Words) /\ Has(parsed, b) /\ IsPrefix(<<"groups", g>>, b) /\ Covers(b, upto)
      BY <2>11, <2>12, <2>13
    <3> HIDE DEF a, b
    <3>3. a = b
      BY <2>4, <2>8, <3>1, <3>2, OneCovers
    <3> QED BY <2>2, <2>5, <3>1, <3>3, AppendInjective DEF a, b
  <2>15. r[n + 2] \in Standing(tree, node, level[n])
    BY <1>1, <2>2, <2>11, <2>12, <2>14, StandingIs
  <2> QED BY <2>15 DEF node
<1>7. r \in _descend(tree, g, level)
  <2>1. Has(tree, <<"groups", g>>)
    <3>1. <<"groups", g>> \in Seq(Words)
      BY <1>1
    <3> QED BY <1>1, <1>3, <3>1, NodesOnItsPath
  <2>2. r \in tree.nodes
    BY <1>3, <1>4 DEF Has
  <2> QED BY <1>4, <1>6, <2>1, <2>2 DEF _descend
<1> QED BY <1>5, <1>7

-----------------------------------------------------------------------------
(* Who has had his turn *)

\* A level and one of its groups whose turn has come, and whose turn it is.
Reached(level, g) == level \notin pending /\ <<level, g>> \notin inherits
Turn(level, g) == calls # <<>> /\ calls[1].target = level /\ calls[1].group = g

\* Node r of group g has a value for p, inherited at a level.
Contributes(level, g, r, p) ==
  level \in Levels(parsed) /\ g \in Applied(parsed, level) /\ r \in Reaching(p, level, g) /\ Values(parsed, r) # {}

\* Nothing that contributes to p comes before.
Foremost(level, g, p) == \A other, h, s : Contributes(other, h, s, p) => ~Before(other, h, level, g)

TurnInv ==
  /\ pending \subseteq Levels(parsed)
  /\ \A level \in pending, other \in Levels(parsed) : IsPrefix(other, level) => other \in pending
  /\ \A level \in pending : Keys(tree, Append(level, "apply-groups")) = Keys(parsed, Append(level, "apply-groups"))
  /\ \A i, j \in inherits : i[1] = j[1]
  /\ \A i \in inherits :
       /\ i[1] \in Levels(parsed) /\ i[2] \in Applied(parsed, i[1]) /\ i[1] \notin pending
       /\ \A other \in Levels(parsed) : IsPrefix(other, i[1]) /\ other # i[1] => other \in pending
       /\ \A h \in Applied(parsed, i[1]) : <<i[1], h>> \notin inherits =>
            <<i[1] \o <<"apply-groups", h>>, i[1] \o <<"apply-groups", i[2]>>>> \in parsed.earlier
  /\ calls # <<>> =>
       /\ calls[1].target \in Levels(parsed) /\ calls[1].group \in Applied(parsed, calls[1].target)
       /\ ~calls[1].wildcard /\ Reached(calls[1].target, calls[1].group)
       /\ \A i \in inherits : i[1] = calls[1].target

\* A call of the turn of `level` and g stands on a node of the group that covers
\* its target.
CallInv(c, level, g) ==
  LET n == Len(c.target)
  IN  /\ c.group = g /\ IsPrefix(level, c.target)
      /\ Has(parsed, c.src) /\ IsPrefix(<<"groups", g>>, c.src)
      /\ Len(c.src) = n + 2 + (IF c.wildcard THEN 1 ELSE 0)
      /\ Covers(SubSeq(c.src, 1, n + 2), c.target)
      /\ c.wildcard => Last(c.src) \in Wildcards /\ c.keys \subseteq Matches[Last(c.src)]
      /\ \A i \in Len(level)..n : g \notin Keys(parsed, Append(SubSeq(c.target, 1, i), "apply-groups-except"))

\* Call d is about a key that call c has visited.
Within(c, d) ==
  /\ IsPrefix(c.target, d.target) /\ IsPrefix(c.src, d.src)
  /\ IF c.wildcard THEN Len(c.target) < Len(d.target) /\ d.target[Len(c.target) + 1] \notin c.keys
     ELSE Len(c.src) < Len(d.src) /\ d.src[Len(c.src) + 1] \notin c.keys

CallsInv ==
  /\ \A n \in 1..Len(calls) : CallInv(calls[n], calls[1].target, calls[1].group)
  /\ \A m, n \in 1..Len(calls) : m < n => Within(calls[m], calls[n])

\* A value that p has inherited is of a group that has had its turn.
OriginInv ==
  \A p \in Seq(Words) : Plain(p) /\ Values(tree, p) # {} /\ Values(parsed, p) = {} =>
    \E level, g, r : Contributes(level, g, r, p) /\ Reached(level, g)

\* p has in t the value of node r of a group; or call c is on its way to p.
Won(t, p, r) == Values(t, p) # {} /\ First(t, p, Values(t, p)) = First(parsed, r, Values(parsed, r))
Owes(c, p, r) ==
  /\ IsPrefix(c.target, p) /\ IsPrefix(c.src, r)
  /\ IF c.wildcard THEN Len(c.target) < Len(p) /\ p[Len(c.target) + 1] \in c.keys
     ELSE \/ Len(c.target) < Len(p) /\ r[Len(c.target) + 3] \in c.keys
          \/ c.target = p /\ Values(parsed, r) \subseteq c.keys

\* What comes first for p gives p its value in its turn.
WinInv ==
  \A p \in Seq(Words) : \A level, g, r :
    Plain(p) /\ Values(parsed, p) = {} /\ Contributes(level, g, r, p) /\ Foremost(level, g, p) /\ Reached(level, g) =>
      \/ Won(tree, p, r)
      \/ Turn(level, g) /\ Values(tree, p) = {} /\ \E n \in 1..Len(calls) : Owes(calls[n], p, r)

PrecedenceInv == phase # "parse" /\ Settled => TurnInv /\ CallsInv /\ OriginInv /\ WinInv

LEMMA LevelsAre ==
  ASSUME TypeInv, NEW level \in Levels(parsed)
  PROVE  /\ level \in Seq(Words) /\ Len(level) \in Nat /\ Has(parsed, level)
         /\ \A i \in 1..Len(level) : level[i] \notin Controls
         /\ Applied(parsed, level) \subseteq Words
<1>1. /\ TreeOver(Words, parsed) /\ parsed.nodes \subseteq Seq(Words) /\ <<>> \in Seq(Words)
      /\ Controls \subseteq Words
  BY Worded
<1>2. /\ level \in parsed.nodes \cup {<<>>} /\ \A i \in 1..Len(level) : level[i] \notin Controls
  BY DEF Levels
<1>3. level \in Seq(Words) /\ Has(parsed, level)
  BY <1>1, <1>2 DEF Has
<1>4. Append(level, "apply-groups") \in Seq(Words)
  BY <1>1, <1>3, AppendProperties DEF Controls
<1>5. Keys(parsed, Append(level, "apply-groups")) \subseteq Words
  BY <1>1, <1>4, KeysOf
<1> QED BY <1>2, <1>3, <1>5, LenProperties DEF Applied

LEMMA ReachingIs ==
  ASSUME TypeInv, NEW level, NEW g, NEW r, NEW p \in Seq(Words), Contributes(level, g, r, p)
  PROVE  /\ level \in Levels(parsed) /\ g \in Applied(parsed, level) /\ g \in Words /\ level \in Seq(Words)
         /\ IsPrefix(level, p) /\ Values(parsed, r) # {}
         /\ \A n \in Len(level)..Len(p) : g \notin Keys(parsed, Append(SubSeq(p, 1, n), "apply-groups-except"))
         /\ r \in Seq(Words) /\ r # <<>> /\ Has(parsed, r) /\ IsPrefix(<<"groups", g>>, r) /\ Covers(r, p)
         /\ Len(r) \in Nat /\ Len(p) \in Nat /\ Len(r) = Len(p) + 2
         /\ r[1] = "groups"
<1>1. /\ level \in Levels(parsed) /\ g \in Applied(parsed, level) /\ Values(parsed, r) # {}
      /\ IsPrefix(level, p)
      /\ \A n \in Len(level)..Len(p) : g \notin Keys(parsed, Append(SubSeq(p, 1, n), "apply-groups-except"))
      /\ r \in parsed.nodes /\ IsPrefix(<<"groups", g>>, r) /\ Covers(r, p)
  BY DEF Contributes, Reaching
<1>2. level \in Seq(Words) /\ g \in Words
  BY <1>1, LevelsAre
<1>3. r \in Seq(Words) /\ r # <<>> /\ Has(parsed, r) /\ "groups" \in Words
  BY <1>1, Worded DEF Has
<1>4. Len(r) \in Nat /\ Len(p) \in Nat /\ Len(r) = Len(p) + 2
  BY <1>1, <1>3, LenProperties DEF Covers
<1>5. r[1] = "groups"
  BY <1>1, <1>2, <1>3, OfGroup
<1> QED BY <1>1, <1>2, <1>3, <1>4, <1>5

LEMMA TwoMore ==
  ASSUME NEW S, NEW p \in Seq(S), NEW k \in S, NEW l \in S
  PROVE  p \o <<k, l>> = Append(Append(p, k), l)
<1>1. <<k>> \in Seq(S) /\ Append(<<k>>, l) = <<k, l>>
  <2> DEFINE a == Append(<<k>>, l)
             b == <<k, l>>
  <2>1. <<k>> \in Seq(S) /\ Len(<<k>>) = 1 /\ <<k>>[1] = k
    OBVIOUS
  <2>2. a \in Seq(S) /\ Len(a) = 2 /\ a[1] = k /\ a[2] = l
    BY <2>1, AppendProperties
  <2>3. b \in Seq(S) /\ Len(b) = 2 /\ b[1] = k /\ b[2] = l
    OBVIOUS
  <2> HIDE DEF a, b
  <2>4. \A i \in 1..Len(a) : a[i] = b[i]
    BY <2>2, <2>3
  <2>5. a = b
    BY <2>2, <2>3, <2>4, SeqEqual
  <2> QED BY <2>1, <2>5 DEF a, b
<1>2. p \o Append(<<k>>, l) = Append(p \o <<k>>, l)
  BY <1>1, ConcatAppend
<1>3. p \o <<k>> = Append(p, k)
  BY AppendIsConcat
<1> QED BY <1>1, <1>2, <1>3

(* Once a group that contributes to p has had its turn, so has the one that *)
(* comes first.                                                             *)
LEMMA FirstInTurn ==
  ASSUME TypeInv, TurnInv, NEW p \in Seq(Words), NEW level, NEW g, NEW r, NEW other, NEW h, NEW s,
         Contributes(level, g, r, p), Foremost(level, g, p), Contributes(other, h, s, p), Reached(other, h)
  PROVE  Reached(level, g)
<1>1. /\ level \in Levels(parsed) /\ g \in Applied(parsed, level) /\ level \in Seq(Words) /\ IsPrefix(level, p)
      /\ Len(level) \in Nat
  BY ReachingIs, LevelsAre
<1>2. /\ other \in Levels(parsed) /\ h \in Applied(parsed, other) /\ other \in Seq(Words) /\ IsPrefix(other, p)
      /\ Len(other) \in Nat
  BY ReachingIs, LevelsAre
<1>3. ~Before(other, h, level, g)
  BY DEF Foremost
<1>4. Len(other) <= Len(level)
  BY <1>1, <1>2, <1>3 DEF Before
<1>5. IsPrefix(other, level) /\ (Len(other) = Len(level) => other = level)
  BY <1>1, <1>2, <1>4, PrefixesOfOne
<1>6. level \notin pending
  BY <1>2, <1>5 DEF TurnInv, Reached
<1>7. SUFFICES ASSUME <<level, g>> \in inherits
               PROVE  FALSE
  BY <1>6 DEF Reached
<1>8. /\ \A o \in Levels(parsed) : IsPrefix(o, level) /\ o # level => o \in pending
      /\ \A k \in Applied(parsed, level) : <<level, k>> \notin inherits =>
            <<level \o <<"apply-groups", k>>, level \o <<"apply-groups", g>>>> \in parsed.earlier
  BY <1>7 DEF TurnInv
<1>9. other = level
  BY <1>2, <1>5, <1>8 DEF Reached
<1>10. <<level \o <<"apply-groups", h>>, level \o <<"apply-groups", g>>>> \in parsed.earlier
  BY <1>2, <1>8, <1>9 DEF Reached
<1> QED BY <1>3, <1>9, <1>10 DEF Before

-----------------------------------------------------------------------------
(* The steps *)

LEMMA SameContributes ==
  ASSUME UNCHANGED parsed
  PROVE  /\ \A level, g, r, p : Contributes(level, g, r, p)' <=> Contributes(level, g, r, p)
         /\ \A level, g, p : Foremost(level, g, p)' <=> Foremost(level, g, p)
         /\ \A c, level, g : CallInv(c, level, g)' <=> CallInv(c, level, g)
<1>1. \A r, p : Covers(r, p)' <=> Covers(r, p)
  BY DEF Covers
<1>2. ASSUME NEW level, NEW g, NEW r, NEW p
      PROVE  r \in Reaching(p, level, g)' <=> r \in Reaching(p, level, g)
  BY <1>1 DEF Reaching
<1>3. \A level, g, r, p : Contributes(level, g, r, p)' <=> Contributes(level, g, r, p)
  BY <1>2 DEF Contributes
<1>4. \A other, h, level, g : Before(other, h, level, g)' <=> Before(other, h, level, g)
  BY DEF Before
<1>5. \A level, g, p : Foremost(level, g, p)' <=> Foremost(level, g, p)
  BY <1>3, <1>4 DEF Foremost
<1>6. \A c, level, g : CallInv(c, level, g)' <=> CallInv(c, level, g)
  BY <1>1, ZenonT(60) DEF CallInv
<1> QED BY <1>3, <1>5, <1>6

LEMMA StillSettled ==
  ASSUME UNCHANGED parsed, tree.nodes \subseteq tree'.nodes, Settled'
  PROVE  Settled
<1>1. \A r, p : Covers(r, p)' <=> Covers(r, p)
  BY DEF Covers
<1>2. /\ \A w \in Wildcards, p \in tree'.nodes :
           Last(p) \in Matches[w] /\ p[1] # "groups" /\ w \in UNION {ToSet(r) : r \in parsed.nodes} => Has(parsed, p)
      /\ \A r, s \in {r \in parsed.nodes : r[1] = "groups" /\ Len(r) > 2} : r # s /\ r[2] = s[2] =>
           ~\E p \in tree'.nodes : Covers(r, p) /\ Covers(s, p)
      /\ \A p \in tree'.nodes :
           p[1] = "groups" \/ (Len(p) > 1 /\ p[Len(p) - 1] = "apply-groups-except") => Has(parsed, p)
  BY <1>1 DEF Settled
<1>3. \A w \in Wildcards, p \in tree.nodes :
        Last(p) \in Matches[w] /\ p[1] # "groups" /\ w \in UNION {ToSet(r) : r \in parsed.nodes} => Has(parsed, p)
  BY <1>2
<1>4. \A r, s \in {r \in parsed.nodes : r[1] = "groups" /\ Len(r) > 2} : r # s /\ r[2] = s[2] =>
        ~\E p \in tree.nodes : Covers(r, p) /\ Covers(s, p)
  BY <1>2
<1>5. \A p \in tree.nodes :
        p[1] = "groups" \/ (Len(p) > 1 /\ p[Len(p) - 1] = "apply-groups-except") => Has(parsed, p)
  BY <1>2
<1> QED BY <1>3, <1>4, <1>5 DEF Settled

(* Before the first turn there is nothing but what was written.            *)
LEMMA PrecedenceParsed ==
  ASSUME TypeInv, parse_junos_config
  PROVE  TurnInv' /\ CallsInv' /\ OriginInv' /\ WinInv'
<1>1. /\ parsed' = tree /\ tree' = tree /\ inherits' = {} /\ calls' = <<>>
      /\ pending' = IF Keys(tree, <<"groups">>) = {} THEN {} ELSE Levels(tree)
  BY DEF TypeInv, parse_junos_config
<1>2. TypeInv'
  BY TypeParsed
<1>3. TurnInv'
  <2>1. pending' \subseteq Levels(parsed') /\ \A other \in Levels(parsed') : pending' # {} => other \in pending'
    BY <1>1
  <2> QED BY <1>1, <2>1 DEF TurnInv
<1>4. CallsInv'
  BY <1>1 DEF CallsInv
<1>5. OriginInv'
  BY <1>1 DEF OriginInv
<1>6. ASSUME NEW p \in Seq(Words), NEW level, NEW g, NEW r, Contributes(level, g, r, p)', Reached(level, g)'
      PROVE  FALSE
  <2>2. TreeOver(Words, tree) /\ tree.nodes \subseteq Seq(Words) /\ <<>> \in Seq(Words) /\ Controls \subseteq Words /\ "groups" \in Words
    BY Worded
  <2>3. r \in tree.nodes /\ IsPrefix(<<"groups", g>>, r) /\ level \in Levels(tree) /\ g \in Applied(tree, level)
    BY <1>1, <1>6 DEF Contributes, Reaching
  <2>4. level \in Seq(Words) /\ "apply-groups" \in Words
    BY <2>2, <2>3 DEF Levels, Controls
  <2>5. g \in Words
    <3>1. Append(level, "apply-groups") \in Seq(Words)
      BY <2>4, AppendProperties
    <3>2. Keys(tree, Append(level, "apply-groups")) \subseteq Words
      BY <2>2, <3>1, KeysOf
    <3> QED BY <2>3, <3>2 DEF Applied
  <2> DEFINE s == <<"groups">>
  <2>6. s \in Seq(Words) /\ Len(s) = 1 /\ s[1] = "groups"
    BY <2>2
  <2>7. r \in Seq(Words) /\ Len(r) >= 2 /\ r[1] = "groups" /\ r[2] = g /\ Len(r) \in Nat
    BY <2>2, <2>3, <2>5, OfGroup, LenProperties
  <2>8. Keys(tree, s) # {}
    <3> HIDE DEF s
    <3>1. IsPrefix(s, r)
      BY <2>6, <2>7, PrefixIs
    <3>2. Has(tree, r)
      BY <2>3 DEF Has
    <3>3. Len(s) < Len(r) /\ s \in Seq(Words) /\ r \in Seq(Words) /\ TreeOver(Words, tree)
      BY <2>2, <2>6, <2>7
    <3>4. r[Len(s) + 1] \in Keys(tree, s)
      BY <3>1, <3>2, <3>3, KeyOnItsPath
    <3> QED BY <3>4
  <2>9. level \in pending'
    BY <1>1, <2>3, <2>8
  <2> QED BY <1>6, <2>9 DEF Reached
<1> QED BY <1>3, <1>4, <1>5, <1>6 DEF WinInv

(* The next level to be visited: none of its groups has had its turn.      *)
LEMMA PrecedenceExpand ==
  ASSUME Stage, _expand_node, TurnInv, CallsInv, OriginInv, WinInv
  PROVE  TurnInv' /\ CallsInv' /\ OriginInv' /\ WinInv'
<1>1. TypeInv
  BY DEF Stage
<1>2. PICK level \in pending :
        /\ \A q \in pending : IsPrefix(level, q) => q = level
        /\ pending' = pending \ {level}
        /\ inherits' = {level} \X Applied(tree, level)
  BY DEF _expand_node, InPostOrder
<1>3. inherits = {} /\ calls = <<>> /\ calls' = <<>> /\ UNCHANGED <<parsed, tree>>
  BY DEF _expand_node
<1>4. level \in Levels(parsed) /\ level \in Seq(Words) /\ Has(parsed, level)
  BY <1>1, LevelsAre DEF TurnInv
<1>5. Applied(tree, level) = Applied(parsed, level)
  <2>1. Keys(tree, Append(level, "apply-groups")) = Keys(parsed, Append(level, "apply-groups"))
    BY DEF TurnInv
  <2> DEFINE e == Append(level, "apply-groups-except")
  <2>2. Controls \subseteq Words
    BY <1>1, Worded
  <2>3. e \in Seq(Words) /\ e # <<>> /\ e[Len(e)] = "apply-groups-except"
    BY <1>4, <2>2, AppendProperties DEF Controls
  <2> HIDE DEF e
  <2>4. Keys(tree, e) = Keys(parsed, e)
    BY <2>3, AsWritten
  <2> QED BY <2>1, <2>4 DEF Applied, e
<1>6. \A h : <<level, h>> \in inherits' <=> h \in Applied(parsed, level)
  BY <1>2, <1>5
<1>7. \A other, h : h \in Applied(parsed, other) => (Reached(other, h)' <=> Reached(other, h))
  <2> TAKE other, h
  <2> HAVE h \in Applied(parsed, other)
  <2>1. CASE other = level
    BY <1>2, <1>6, <2>1 DEF Reached
  <2>2. CASE other # level
    BY <1>2, <1>3, <2>2 DEF Reached
  <2> QED BY <2>1, <2>2
<1>8. TurnInv'
  <2>1. pending' \subseteq Levels(parsed')
    BY <1>2, <1>3 DEF TurnInv
  <2>2. \A q \in pending', other \in Levels(parsed') : IsPrefix(other, q) => other \in pending'
    BY <1>2, <1>3 DEF TurnInv
  <2>3. \A q \in pending' : Keys(tree', Append(q, "apply-groups")) = Keys(parsed', Append(q, "apply-groups"))
    BY <1>2, <1>3 DEF TurnInv
  <2>4. \A i \in inherits' : i[1] = level /\ i[2] \in Applied(parsed, level) /\ i = <<level, i[2]>>
    BY <1>2, <1>5
  <2>5. \A i \in inherits' :
          /\ i[1] \in Levels(parsed') /\ i[2] \in Applied(parsed', i[1]) /\ i[1] \notin pending'
          /\ \A other \in Levels(parsed') : IsPrefix(other, i[1]) /\ other # i[1] => other \in pending'
          /\ \A h \in Applied(parsed', i[1]) : <<i[1], h>> \notin inherits' =>
               <<i[1] \o <<"apply-groups", h>>, i[1] \o <<"apply-groups", i[2]>>>> \in parsed'.earlier
    <3> TAKE i \in inherits'
    <3>1. i[1] = level /\ i[2] \in Applied(parsed, level)
      BY <2>4
    <3>2. \A other \in Levels(parsed) : IsPrefix(other, level) /\ other # level => other \in pending'
      BY <1>2 DEF TurnInv
    <3> QED BY <1>2, <1>3, <1>4, <1>6, <3>1, <3>2
  <2>6. \A i, j \in inherits' : i[1] = j[1]
    BY <2>4
  <2> QED BY <1>3, <2>1, <2>2, <2>3, <2>5, <2>6 DEF TurnInv
<1>9. CallsInv'
  BY <1>3 DEF CallsInv
<1>10. /\ \A l, g, r, p : Contributes(l, g, r, p)' <=> Contributes(l, g, r, p)
       /\ \A l, g, p : Foremost(l, g, p)' <=> Foremost(l, g, p)
  BY <1>3, SameContributes
<1>11. \A l, g, r, p : Contributes(l, g, r, p) => (Reached(l, g)' <=> Reached(l, g))
  BY <1>7 DEF Contributes
<1>12. OriginInv'
  BY <1>3, <1>10, <1>11 DEF OriginInv
<1>13. WinInv'
  <2> SUFFICES ASSUME NEW p \in Seq(Words), NEW l, NEW g, NEW r,
                      Plain(p), Values(parsed, p) = {}, Contributes(l, g, r, p), Foremost(l, g, p), Reached(l, g)
               PROVE  Won(tree, p, r)'
    BY <1>3, <1>10, <1>11 DEF WinInv
  <2>1. Won(tree, p, r)
    BY <1>3 DEF WinInv, Turn
  <2> QED BY <1>3, <2>1 DEF Won
<1> QED BY <1>8, <1>9, <1>12, <1>13

LEMMA PrecedenceReturn ==
  ASSUME Stage, ReturnFill, TurnInv, CallsInv, OriginInv, WinInv
  PROVE  TurnInv' /\ CallsInv' /\ OriginInv' /\ WinInv'
<1>1. calls # <<>> /\ Last(calls).keys = {} /\ calls' = Front(calls) /\ UNCHANGED <<pending, inherits, parsed, tree>>
  BY DEF ReturnFill
<1>2. calls \in Seq(Frames(tree))
  BY DEF Stage, TypeInv
<1>3. /\ Len(calls) \in Nat \ {0} /\ calls' \in Seq(Frames(tree)) /\ Len(calls') = Len(calls) - 1
      /\ \A n \in 1..Len(calls)-1 : calls'[n] = calls[n]
  BY <1>1, <1>2, Cut
<1>4. 1..Len(calls') \subseteq 1..Len(calls) /\ \A n \in 1..Len(calls') : calls'[n] = calls[n]
  BY <1>3
<1>5. calls' # <<>> => calls'[1] = calls[1] /\ 1 \in 1..Len(calls')
  <2> HAVE calls' # <<>>
  <2>1. Len(calls') \in Nat \ {0}
    BY <1>3, EmptySeq
  <2> QED BY <1>4, <2>1
<1>6. TurnInv'
  BY <1>1, <1>5 DEF TurnInv, Reached
<1>7. /\ \A l, g, r, p : Contributes(l, g, r, p)' <=> Contributes(l, g, r, p)
      /\ \A l, g, p : Foremost(l, g, p)' <=> Foremost(l, g, p)
      /\ \A c, l, g : CallInv(c, l, g)' <=> CallInv(c, l, g)
  BY <1>1, SameContributes
<1>8. \A l, g : Reached(l, g)' <=> Reached(l, g)
  BY <1>1 DEF Reached
<1>9. CallsInv'
  <2> SUFFICES ASSUME calls' # <<>>
               PROVE  CallsInv'
    <3>1. calls' = <<>> => CallsInv'
      BY DEF CallsInv
    <3> QED BY <3>1
  <2>1. \A n \in 1..Len(calls') : CallInv(calls'[n], calls'[1].target, calls'[1].group)
    BY <1>4, <1>5 DEF CallsInv
  <2>2. \A n \in 1..Len(calls') : CallInv(calls[n], calls[1].target, calls[1].group)'
    BY <1>4, <1>5, <1>7, <2>1
  <2>3. \A m, n \in 1..Len(calls') : m < n => Within(calls'[m], calls'[n])
    BY <1>4 DEF CallsInv
  <2> QED BY <2>2, <2>3 DEF CallsInv
<1>10. OriginInv'
  BY <1>1, <1>7, <1>8 DEF OriginInv
<1>11. WinInv'
  <2> SUFFICES ASSUME NEW p \in Seq(Words), NEW l, NEW g, NEW r,
                      Plain(p), Values(parsed, p) = {}, Contributes(l, g, r, p), Foremost(l, g, p), Reached(l, g)
               PROVE  (Won(tree, p, r) \/ (Turn(l, g) /\ Values(tree, p) = {} /\ \E n \in 1..Len(calls) : Owes(calls[n], p, r)))'
    BY <1>1, <1>7, <1>8 DEF WinInv
  <2>1. CASE Won(tree, p, r)
    BY <1>1, <2>1 DEF Won
  <2>2. CASE Turn(l, g) /\ Values(tree, p) = {} /\ \E n \in 1..Len(calls) : Owes(calls[n], p, r)
    <3>1. PICK n \in 1..Len(calls) : Owes(calls[n], p, r)
      BY <2>2
    <3>2. Values(parsed, r) # {}
      BY DEF Contributes
    <3>3. n # Len(calls)
      BY <1>1, <3>1, <3>2 DEF Owes, Last
    <3>4. n \in 1..Len(calls')
      BY <1>3, <3>3
    <3>5. calls' # <<>>
      BY <1>3, <3>4
    <3>6. Turn(l, g)'
      BY <1>5, <2>2, <3>5 DEF Turn
    <3>7. Owes(calls[n], p, r)'
      BY <1>1, <1>4, <3>1, <3>4 DEF Owes
    <3> QED BY <1>1, <2>2, <3>4, <3>6, <3>7
  <2>3. Won(tree, p, r) \/ (Turn(l, g) /\ Values(tree, p) = {} /\ \E n \in 1..Len(calls) : Owes(calls[n], p, r))
    BY DEF WinInv
  <2> QED BY <2>1, <2>2, <2>3
<1> QED BY <1>6, <1>9, <1>10, <1>11

(* A call that is yet to visit every key of a node on the way to r.        *)
LEMMA BeginsToOwe ==
  ASSUME TypeInv, NEW p \in Seq(Words), NEW level, NEW g, NEW r, Contributes(level, g, r, p), NEW c, c.wildcard = FALSE,
         c.target \in Seq(Words), c.src \in Seq(Words), IsPrefix(c.target, p), IsPrefix(c.src, r),
         Len(c.src) = Len(c.target) + 2, c.keys = Keys(parsed, c.src)
  PROVE  Owes(c, p, r)
<1> DEFINE t == c.target
           s == c.src
<1>1. /\ TreeOver(Words, parsed) /\ r \in Seq(Words) /\ Has(parsed, r) /\ Len(r) \in Nat /\ Len(p) \in Nat
      /\ Len(r) = Len(p) + 2
  BY Worded, ReachingIs
<1>2. /\ t \in Seq(Words) /\ s \in Seq(Words) /\ IsPrefix(t, p) /\ IsPrefix(s, r) /\ Len(t) \in Nat /\ Len(s) = Len(t) + 2
      /\ c.keys = Keys(parsed, s) /\ ~c.wildcard
  BY LenProperties
<1> HIDE DEF t, s
<1>3. Len(t) <= Len(p)
  BY <1>2, PrefixIs
<1>4. CASE Len(t) < Len(p)
  <2>1. Len(s) < Len(r) /\ Len(s) + 1 = Len(t) + 3
    BY <1>1, <1>2, <1>4
  <2>2. r[Len(s) + 1] \in Keys(parsed, s)
    BY <1>1, <1>2, <2>1, KeyOnItsPath
  <2>3. r[Len(t) + 3] \in c.keys
    BY <1>2, <2>1, <2>2
  <2> QED BY <1>2, <1>4, <2>3 DEF Owes, t, s
<1>5. CASE ~(Len(t) < Len(p))
  <2>1. Len(t) = Len(p) /\ Len(s) = Len(r)
    BY <1>1, <1>2, <1>3, <1>5
  <2>2. IsPrefix(p, p) /\ IsPrefix(r, r)
    BY <1>1, PrefixIs
  <2>3. t = p
    BY <1>2, <2>1, <2>2, PrefixesOfOne
  <2>4. s = r
    BY <1>1, <1>2, <2>1, <2>2, PrefixesOfOne
  <2>5. Values(parsed, r) \subseteq c.keys
    BY <1>2, <2>4 DEF Values
  <2> QED BY <1>2, <2>3, <2>5 DEF Owes, t, s
<1> QED BY <1>4, <1>5

(* The turn of a group begins: it owes every node that its part covers.    *)
LEMMA PrecedenceInherit ==
  ASSUME Stage, InheritGroup, TurnInv, CallsInv, OriginInv, WinInv
  PROVE  TurnInv' /\ CallsInv' /\ OriginInv' /\ WinInv'
<1>0. /\ TypeInv /\ TreeOver(Words, tree) /\ TreeOver(Words, parsed) /\ Extends(parsed, tree)
      /\ Controls \subseteq Words
      /\ \A i \in inherits : i = <<i[1], i[2]>> /\ i[1] \in Seq(Words) /\ i[2] \in Words
  BY Worded DEF Stage
<1>1. PICK i \in inherits :
        /\ i[2] = First(tree, Append(i[1], "apply-groups"), {j[2] : j \in inherits})
        /\ inherits' = inherits \ {i}
        /\ calls' = IF _descend(tree, i[2], i[1]) = {} THEN <<>>
                    ELSE Call(tree, i[1], CHOOSE r \in _descend(tree, i[2], i[1]) : TRUE, i[2])
  BY DEF InheritGroup
<1>2. calls = <<>> /\ UNCHANGED <<pending, parsed, tree>>
  BY DEF InheritGroup
<1> DEFINE level == i[1]
           g == i[2]
<1>3. /\ level \in Levels(parsed) /\ g \in Applied(parsed, level) /\ level \notin pending
      /\ level \in Seq(Words) /\ g \in Words /\ Has(parsed, level) /\ Len(level) \in Nat
      /\ i = <<level, g>>
  BY <1>0, <1>1, LevelsAre DEF TurnInv
<1> HIDE DEF level, g
<1>4. /\ inherits' = inherits \ {<<level, g>>} /\ <<level, g>> \in inherits
      /\ g = First(tree, Append(level, "apply-groups"), {j[2] : j \in inherits})
      /\ calls' = IF _descend(tree, g, level) = {} THEN <<>>
                  ELSE Call(tree, level, CHOOSE r \in _descend(tree, g, level) : TRUE, g)
  BY <1>1, <1>3 DEF level, g
<1>5. \A j \in inherits : j[1] = level /\ j = <<level, j[2]>> /\ j[2] \in Applied(parsed, level)
  <2> TAKE j \in inherits
  <2>1. j[1] = i[1]
    BY DEF TurnInv
  <2>2. j[2] \in Applied(parsed, j[1])
    BY DEF TurnInv
  <2> QED BY <1>0, <2>1, <2>2 DEF level
<1>6. g \notin Keys(parsed, Append(level, "apply-groups-except")) /\ ~OptedOut(tree, level, g)
  <2> DEFINE e == Append(level, "apply-groups-except")
  <2>1. e \in Seq(Words) /\ e # <<>> /\ e[Len(e)] = "apply-groups-except"
    BY <1>0, <1>3, AppendProperties DEF Controls
  <2>2. g \notin Keys(parsed, e)
    BY <1>3 DEF Applied
  <2> HIDE DEF e
  <2>3. Keys(tree, e) = Keys(parsed, e)
    BY <2>1, AsWritten
  <2> QED BY <2>2, <2>3 DEF OptedOut, e
<1> DEFINE call(r) == [target |-> level, src |-> r, group |-> g, wildcard |-> FALSE, keys |-> Keys(tree, r)]
<1>7. \/ _descend(tree, g, level) = {} /\ calls' = <<>>
      \/ \E r \in _descend(tree, g, level) : calls' = <<call(r)>>
  <2>1. CASE _descend(tree, g, level) = {}
    BY <1>4, <2>1
  <2>2. CASE _descend(tree, g, level) # {}
    <3> DEFINE r == CHOOSE r \in _descend(tree, g, level) : TRUE
    <3>1. r \in _descend(tree, g, level) /\ calls' = Call(tree, level, r, g)
      BY <1>4, <2>2
    <3> HIDE DEF r
    <3>2. calls' = <<call(r)>>
      BY <1>6, <3>1 DEF Call
    <3> QED BY <3>1, <3>2
  <2> QED BY <2>1, <2>2
<1>8. ASSUME NEW h \in Applied(parsed, level), <<level, h>> \notin inherits', NEW j \in inherits'
      PROVE  <<level \o <<"apply-groups", h>>, level \o <<"apply-groups", j[2]>>>> \in parsed.earlier
  <2>1. j \in inherits /\ j[1] = level /\ j[2] \in Applied(parsed, level) /\ j[2] # g
    BY <1>4, <1>5, <1>8
  <2>2. CASE <<level, h>> \notin inherits
    BY <2>1, <2>2 DEF TurnInv
  <2>3. CASE <<level, h>> \in inherits
    <3>1. h = g
      BY <1>4, <1>8, <2>3
    <3> DEFINE a == Append(level, "apply-groups")
               keys == {k[2] : k \in inherits}
               x == Append(a, g)
               y == Append(a, j[2])
    <3>2. a \in Seq(Words) /\ "apply-groups" \in Words
      BY <1>0, <1>3, AppendProperties DEF Controls
    <3>3. \A k \in Applied(parsed, level) : k \in Keys(parsed, a)
      BY DEF Applied
    <3>4. level \o <<"apply-groups", g>> = x /\ level \o <<"apply-groups", j[2]>> = y /\ j[2] \in Words
      <4>1. j[2] \in Words
        BY <1>0, <2>1
      <4> QED BY <1>3, <3>2, <4>1, TwoMore
    <3>5. g \in keys /\ j[2] \in keys /\ keys \subseteq Keys(parsed, a)
      <4>1. \A k \in inherits : k[2] \in Keys(parsed, a)
        BY <1>5, <3>3
      <4>2. <<level, g>>[2] = g
        OBVIOUS
      <4> QED BY <1>4, <2>1, <4>1, <4>2
    <3>6. g = First(tree, a, keys)
      BY <1>4
    <3> HIDE DEF a, keys
    <3>7. parsed.nodes \subseteq tree.nodes
      BY <1>0 DEF Extends
    <3>8. Keys(parsed, a) \subseteq Keys(tree, a)
      BY <3>7, Grown
    <3>9. <<x, y>> \in tree.earlier
      BY <1>0, <2>1, <3>2, <3>5, <3>6, <3>8, FirstIsFirst
    <3>10. x \in parsed.nodes /\ y \in parsed.nodes
      BY <1>0, <3>2, <3>5, KeysOf
    <3>11. Siblings(x, y) /\ x # y
      BY <1>3, <2>1, <3>2, <3>4, FrontAppend DEF Siblings
    <3> HIDE DEF x, y
    <3>12. <<x, y>> \in parsed.earlier
      BY <1>0, <3>7, <3>9, <3>10, <3>11 DEF Extends
    <3> QED BY <3>1, <3>4, <3>12
  <2> QED BY <2>2, <2>3
<1>9. Reached(level, g)'
  BY <1>2, <1>3, <1>4 DEF Reached
<1>10. TurnInv'
  <2>1. /\ pending' \subseteq Levels(parsed')
        /\ \A q \in pending', other \in Levels(parsed') : IsPrefix(other, q) => other \in pending'
        /\ \A q \in pending' : Keys(tree', Append(q, "apply-groups")) = Keys(parsed', Append(q, "apply-groups"))
    BY <1>2 DEF TurnInv
  <2>2. \A j \in inherits' :
          /\ j[1] \in Levels(parsed') /\ j[2] \in Applied(parsed', j[1]) /\ j[1] \notin pending'
          /\ \A other \in Levels(parsed') : IsPrefix(other, j[1]) /\ other # j[1] => other \in pending'
          /\ \A h \in Applied(parsed', j[1]) : <<j[1], h>> \notin inherits' =>
               <<j[1] \o <<"apply-groups", h>>, j[1] \o <<"apply-groups", j[2]>>>> \in parsed'.earlier
    <3> TAKE j \in inherits'
    <3>1. j \in inherits /\ j[1] = level /\ j[2] \in Applied(parsed, level)
      BY <1>4, <1>5
    <3>2. \A other \in Levels(parsed) : IsPrefix(other, level) /\ other # level => other \in pending
      BY <3>1 DEF TurnInv
    <3> QED BY <1>2, <1>3, <1>8, <3>1, <3>2
  <2>3. \A j, k \in inherits' : j[1] = k[1]
    BY <1>4, <1>5
  <2>4. calls' # <<>> =>
          /\ calls'[1].target \in Levels(parsed') /\ calls'[1].group \in Applied(parsed', calls'[1].target)
          /\ ~calls'[1].wildcard /\ Reached(level, g)' /\ calls'[1].target = level /\ calls'[1].group = g
          /\ \A j \in inherits' : j[1] = calls'[1].target
    <3> SUFFICES ASSUME NEW r \in _descend(tree, g, level), calls' = <<call(r)>>
                 PROVE  /\ calls'[1].target = level /\ calls'[1].group = g /\ calls'[1].wildcard = FALSE
                        /\ \A j \in inherits' : j[1] = level
      BY <1>2, <1>3, <1>7, <1>9
    <3>1. \A j \in inherits' : j[1] = level
      BY <1>4, <1>5
    <3> QED BY <3>1
  <2>5. calls' # <<>> => Reached(calls[1].target, calls[1].group)'
    BY <1>2, <2>4 DEF Reached
  <2> QED BY <2>1, <2>2, <2>3, <2>4, <2>5 DEF TurnInv
<1>11. /\ \A l, h, r, p : Contributes(l, h, r, p)' <=> Contributes(l, h, r, p)
       /\ \A l, h, p : Foremost(l, h, p)' <=> Foremost(l, h, p)
       /\ \A c, l, h : CallInv(c, l, h)' <=> CallInv(c, l, h)
  BY <1>2, SameContributes
<1>12. ASSUME NEW r \in _descend(tree, g, level)
       PROVE  CallInv(call(r), level, g)
  <2>1. r \in Seq(Words) /\ Has(parsed, r) /\ IsPrefix(<<"groups", g>>, r) /\ Covers(r, level)
    BY <1>3, DescendCovers DEF Stage
  <2>2. Len(r) = Len(level) + 2 /\ SubSeq(r, 1, Len(level) + 2) = r
    <3>1. Len(r) = Len(level) + 2
      BY <2>1 DEF Covers
    <3> QED BY <2>1, <3>1, SubSeqFull
  <2>3. IsPrefix(level, level) /\ SubSeq(level, 1, Len(level)) = level
    BY <1>3, PrefixIs, SubSeqFull
  <2>4. \A n \in Len(level)..Len(level) : g \notin Keys(parsed, Append(SubSeq(level, 1, n), "apply-groups-except"))
    <3> TAKE n \in Len(level)..Len(level)
    <3>1. n = Len(level)
      BY <1>3
    <3>2. SubSeq(level, 1, n) = level
      BY <2>3, <3>1
    <3> QED BY <1>6, <3>2
  <2> DEFINE c == call(r)
  <2>5. c.target = level /\ c.src = r /\ c.group = g /\ c.wildcard = FALSE
    OBVIOUS
  <2> HIDE DEF c, call
  <2>6. Len(c.src) = Len(c.target) + 2 + (IF c.wildcard THEN 1 ELSE 0)
    BY <1>3, <2>2, <2>5
  <2>7. SubSeq(c.src, 1, Len(c.target) + 2) = r
    BY <2>2, <2>5
  <2>8. CallInv(c, level, g)
    BY <2>1, <2>3, <2>4, <2>5, <2>6, <2>7 DEF CallInv
  <2> QED BY <2>8 DEF c
<1>13. CallsInv'
  <2>1. CASE calls' = <<>>
    BY <2>1 DEF CallsInv
  <2>2. ASSUME NEW r \in _descend(tree, g, level), calls' = <<call(r)>>
        PROVE  CallsInv'
    <3>1. CallInv(call(r), level, g)
      BY <1>12
    <3>2. Len(calls') = 1 /\ calls'[1] = call(r) /\ calls'[1].target = level /\ calls'[1].group = g
      BY <2>2
    <3> HIDE DEF call
    <3>3. \A n \in 1..Len(calls') : CallInv(calls'[n], calls'[1].target, calls'[1].group)
      BY <3>1, <3>2
    <3>4. \A n \in 1..Len(calls') : CallInv(calls[n], calls[1].target, calls[1].group)'
      BY <1>2, <3>3 DEF CallInv, Covers
    <3>5. \A m, n \in 1..Len(calls') : ~(m < n)
      BY <3>2
    <3> QED BY <3>4, <3>5 DEF CallsInv
  <2> QED BY <1>7, <2>1, <2>2
<1>14. \A l, h : Reached(l, h) => Reached(l, h)'
  BY <1>2, <1>4 DEF Reached
<1>15. OriginInv'
  BY <1>2, <1>11, <1>14 DEF OriginInv
<1>16. WinInv'
  <2> SUFFICES ASSUME NEW p \in Seq(Words), NEW l, NEW h, NEW r,
                      Plain(p), Values(parsed, p) = {}, Contributes(l, h, r, p), Foremost(l, h, p), Reached(l, h)'
               PROVE  (Won(tree, p, r) \/ (Turn(l, h) /\ Values(tree, p) = {} /\ \E n \in 1..Len(calls) : Owes(calls[n], p, r)))'
    BY <1>2, <1>11 DEF WinInv
  <2>1. CASE Reached(l, h)
    <3>1. Won(tree, p, r)
      BY <1>2, <2>1 DEF WinInv, Turn
    <3> QED BY <1>2, <3>1 DEF Won
  <2>2. CASE ~Reached(l, h)
    <3>1. l = level /\ h = g
      <4>1. l \notin pending /\ <<l, h>> \notin inherits' /\ <<l, h>> \in inherits
        BY <1>2, <2>2 DEF Reached
      <4> QED BY <1>4, <4>1
    <3>2. Values(tree, p) = {}
      <4> SUFFICES ASSUME Values(tree, p) # {}
                   PROVE  FALSE
        OBVIOUS
      <4>1. PICK o, k, s : Contributes(o, k, s, p) /\ Reached(o, k)
        BY DEF OriginInv
      <4> QED BY <1>0, <2>2, <4>1, FirstInTurn
    <3>3. /\ IsPrefix(level, p) /\ Values(parsed, r) # {}
          /\ r \in Seq(Words) /\ Has(parsed, r) /\ IsPrefix(<<"groups", g>>, r) /\ Covers(r, p)
          /\ Len(r) \in Nat /\ Len(p) \in Nat /\ Len(r) = Len(p) + 2 /\ r[1] = "groups" /\ r # <<>>
      BY <1>0, <3>1, ReachingIs
    <3>4. Len(level) <= Len(p)
      BY <1>3, <3>3, PrefixIs
    <3> DEFINE s == SubSeq(r, 1, Len(level) + 2)
    <3>5. Covers(s, level)
      BY <1>3, <3>3, CoversBeginning
    <3>6. s \in Seq(Words) /\ Len(s) = Len(level) + 2 /\ IsPrefix(s, r) /\ \A n \in 1..Len(level) + 2 : s[n] = r[n]
      <4>1. Len(level) + 2 \in 0..Len(r)
        BY <1>3, <3>3, <3>4
      <4> QED BY <3>3, <4>1, Initial, InitialPrefix
    <3> HIDE DEF s
    <3>7. Has(parsed, s)
      BY <1>0, <3>3, <3>6, NodesOnItsPath
    <3>8. IsPrefix(<<"groups", g>>, s) /\ s # <<>> /\ s[1] = "groups"
      <4>1. "groups" \in Words
        BY <1>0, Worded
      <4>2. Len(r) >= 2 /\ r[1] = "groups" /\ r[2] = g
        BY <1>3, <3>3, <4>1, OfGroup
      <4>3. Len(s) >= 2 /\ s[1] = "groups" /\ s[2] = g
        <5>1. 1 \in 1..Len(level) + 2 /\ 2 \in 1..Len(level) + 2
          BY <1>3
        <5> QED BY <1>3, <3>6, <4>2, <5>1
      <4>4. s # <<>>
        BY <4>3
      <4> QED BY <1>3, <3>6, <4>1, <4>3, <4>4, OfGroup
    <3>9. _descend(tree, g, level) = {s}
      BY <1>3, <3>5, <3>6, <3>7, <3>8, DescendIs
    <3>10. calls' = <<call(s)>>
      BY <1>7, <3>9
    <3>11. Turn(l, h)'
      BY <3>1, <3>10 DEF Turn
    <3>12. Keys(tree, s) = Keys(parsed, s)
      BY <3>6, <3>8, AsWritten
    <3> DEFINE c == call(s)
    <3>13. c.target = level /\ c.src = s /\ c.wildcard = FALSE /\ c.keys = Keys(parsed, s)
      BY <3>12
    <3>14. calls' = <<c>>
      BY <3>10
    <3> HIDE DEF c, call
    <3>15. Owes(c, p, r)
      BY <1>0, <1>3, <3>1, <3>3, <3>6, <3>13, BeginsToOwe
    <3>16. 1 \in 1..Len(calls') /\ calls'[1] = c
      BY <3>14
    <3>17. Owes(calls[1], p, r)'
      BY <1>2, <3>15, <3>16 DEF Owes
    <3> QED BY <1>2, <3>2, <3>11, <3>16, <3>17
  <2> QED BY <2>1, <2>2
<1> QED BY <1>10, <1>13, <1>15, <1>16

\* Whose turn it is.
Level == calls[1].target
Group == calls[1].group

\* The innermost call once it has visited its key.
Kept == [Top EXCEPT !.keys = @ \ {Visited}]

LEMMA FillFacts ==
  ASSUME Stage, calls # <<>>, Top.keys # {}, TurnInv, CallsInv
  PROVE  /\ Len(calls) \in Nat \ {0} /\ Top = calls[Len(calls)] /\ Len(Top.target) \in Nat
         /\ Top.target \in Seq(Words) /\ Top.src \in Seq(Words) /\ Top.wildcard \in BOOLEAN
         /\ Visited \in Words /\ Visited \in Top.keys /\ To \in Seq(Words) /\ From \in Seq(Words)
         /\ Level \in Levels(parsed) /\ Level \in Seq(Words) /\ Group \in Words /\ Group \in Applied(parsed, Level)
         /\ Reached(Level, Group)
         /\ CallInv(Top, Level, Group)
         /\ Top.src # <<>> /\ Top.src[1] = "groups" /\ Keys(tree, Top.src) = Keys(parsed, Top.src)
         /\ Has(tree, Top.target) /\ Has(tree, From) /\ Has(parsed, From) /\ From # <<>> /\ From[1] = "groups"
         /\ IsPrefix(<<"groups", Group>>, From)
         /\ Top.wildcard => Has(tree, To) /\ From = Top.src /\ Visited \in Matches[Last(Top.src)]
         /\ ~Top.wildcard => Top.keys \subseteq Keys(parsed, Top.src) /\ From = Append(Top.src, Visited)
<1>1. TypeInv /\ calls \in Seq(Frames(tree))
  BY DEF Stage, TypeInv
<1>2. /\ Top \in Frames(tree) /\ Visited \in Labels /\ Visited \in Top.keys /\ To \in Seq(Labels) /\ From \in Seq(Labels)
      /\ Has(tree, Top.target) /\ Has(tree, From) /\ (Top.wildcard => Has(tree, To))
  BY <1>1, FillTyped
<1>3. \A q \in Seq(Labels) : q \in Seq(Words)
  BY SeqMonotonic DEF Words
<1>4. Len(calls) \in Nat \ {0} /\ Top = calls[Len(calls)]
  BY <1>1, EmptySeq DEF Top, Last
<1>5. /\ Len(calls) \in 1..Len(calls) /\ 1 \in 1..Len(calls) /\ "groups" \in Words /\ Visited \in Words
      /\ Top.target \in Seq(Words) /\ Top.src \in Seq(Words) /\ Top.wildcard \in BOOLEAN
      /\ To \in Seq(Words) /\ From \in Seq(Words)
      /\ Top.keys \subseteq Keys(tree, IF Top.wildcard THEN Top.target ELSE Top.src)
  <2>1. Len(calls) \in 1..Len(calls) /\ 1 \in 1..Len(calls)
    BY <1>4
  <2>2. /\ Top.target \in Seq(Words) /\ Top.src \in Seq(Words) /\ Top.wildcard \in BOOLEAN
        /\ Top.keys \subseteq Keys(tree, IF Top.wildcard THEN Top.target ELSE Top.src)
    BY <1>1, <1>4, <2>1, Worded
  <2>3. "groups" \in Words /\ Visited \in Words
    BY <1>2 DEF Words
  <2>4. To \in Seq(Words) /\ From \in Seq(Words)
    BY <1>2, <1>3
  <2> QED BY <2>1, <2>2, <2>3, <2>4
<1>6. CallInv(Top, Level, Group)
  BY <1>4, <1>5 DEF CallsInv, Level, Group
<1>7. Level \in Levels(parsed) /\ Group \in Applied(parsed, Level) /\ Reached(Level, Group)
  BY DEF TurnInv, Level, Group
<1>8. Level \in Seq(Words) /\ Group \in Words
  BY <1>1, <1>7, LevelsAre
<1>9. Has(parsed, Top.src) /\ IsPrefix(<<"groups", Group>>, Top.src)
  BY <1>6 DEF CallInv
<1>10. Len(Top.src) >= 2 /\ Top.src[1] = "groups" /\ Top.src[2] = Group /\ Top.src # <<>>
  BY <1>5, <1>8, <1>9, OfGroup
<1>11. Keys(tree, Top.src) = Keys(parsed, Top.src)
  BY <1>5, <1>10, AsWritten
<1>12. IsPrefix(Top.src, From) /\ From # <<>> /\ From[1] = "groups" /\ IsPrefix(<<"groups", Group>>, From)
  <2>1. CASE Top.wildcard
    <3>1. From = Top.src /\ IsPrefix(Top.src, Top.src)
      BY <1>5, <2>1, PrefixIs DEF From
    <3> QED BY <1>9, <1>10, <3>1
  <2>2. CASE ~Top.wildcard
    <3>1. From = Append(Top.src, Visited)
      BY <2>2 DEF From
    <3>2. IsPrefix(Top.src, From) /\ From # <<>> /\ \A i \in 1..Len(Top.src) : From[i] = Top.src[i]
      BY <1>5, <3>1, PrefixAppend, AppendProperties
    <3>3. <<"groups", Group>> \in Seq(Words)
      BY <1>5, <1>8
    <3>4. IsPrefix(<<"groups", Group>>, From)
      BY <1>5, <1>9, <3>2, <3>3, PrefixTransitive
    <3>5. From[1] = "groups"
      BY <1>5, <1>8, <3>4, OfGroup
    <3> QED BY <3>2, <3>4, <3>5
  <2> QED BY <2>1, <2>2
<1>13. Has(parsed, From)
  BY <1>2, <1>5, <1>12, AsWritten
<1>14. Top.wildcard => From = Top.src /\ Visited \in Matches[Last(Top.src)]
  BY <1>2, <1>6 DEF CallInv, From
<1>15. ~Top.wildcard => Top.keys \subseteq Keys(parsed, Top.src) /\ From = Append(Top.src, Visited)
  BY <1>5, <1>11 DEF From
<1>16. Len(Top.target) \in Nat
  BY <1>5, LenProperties
<1> QED BY <1>2, <1>4, <1>5, <1>6, <1>7, <1>8, <1>10, <1>11, <1>12, <1>13, <1>14, <1>15, <1>16

LEMMA KeptIs ==
  ASSUME Stage, calls # <<>>, Top.keys # {}
  PROVE  /\ Kept.target = Top.target /\ Kept.src = Top.src /\ Kept.group = Top.group /\ Kept.wildcard = Top.wildcard
         /\ Kept.keys = Top.keys \ {Visited}
         /\ Remaining \in Seq(Frames(tree)) /\ Len(Remaining) = Len(calls) /\ Remaining[Len(calls)] = Kept
         /\ \A n \in 1..Len(calls)-1 : Remaining[n] = calls[n]
<1>1. TypeInv /\ calls \in Seq(Frames(tree))
  BY DEF Stage, TypeInv
<1>2. Top \in Frames(tree) /\ Remaining \in Seq(Frames(tree))
  BY <1>1, FillTyped
<1>3. Front(calls) \in Seq(Frames(tree)) /\ Len(Front(calls)) = Len(calls) - 1 /\ Len(calls) \in Nat \ {0}
      /\ \A n \in 1..Len(calls)-1 : Front(calls)[n] = calls[n]
  BY <1>1, Cut
<1>4. /\ Kept.target = Top.target /\ Kept.src = Top.src /\ Kept.group = Top.group /\ Kept.wildcard = Top.wildcard
      /\ Kept.keys = Top.keys \ {Visited}
  BY <1>2 DEF Kept, Frames
<1>5. Remaining = Append(Front(calls), Kept)
  BY DEF Remaining, Kept
<1>6. Kept \in Frames(tree)
  <2>1. Top = Last(calls) /\ Kept \in [target : Seq(Labels), src : Seq(Labels), group : Labels, wildcard : BOOLEAN, keys : SUBSET Labels]
    BY <1>2 DEF Kept, Frames, Top
  <2> QED BY <1>2, <1>4, <2>1 DEF Frames
<1> HIDE DEF Kept
<1>7. /\ Len(Append(Front(calls), Kept)) = Len(calls) - 1 + 1 /\ Append(Front(calls), Kept)[Len(calls) - 1 + 1] = Kept
      /\ \A n \in 1..Len(calls)-1 : Append(Front(calls), Kept)[n] = Front(calls)[n]
  BY <1>3, <1>6, AppendProperties
<1>8. Len(calls) - 1 + 1 = Len(calls)
  BY <1>3
<1> QED BY <1>2, <1>3, <1>4, <1>5, <1>7, <1>8

(* The calls after a key has been visited, with or without one more call   *)
(* that is about this key.                                                 *)
LEMMA CallsStep ==
  ASSUME Stage, calls # <<>>, Top.keys # {}, TurnInv, CallsInv, UNCHANGED parsed,
         \/ calls' = Remaining
         \/ \E d \in Frames(tree) :
              /\ calls' = Remaining \o <<d>>
              /\ CallInv(d, Level, Group)
              /\ Within(Kept, d)
  PROVE  /\ CallsInv'
         /\ calls' # <<>> /\ calls'[1].target = Level /\ calls'[1].group = Group /\ calls'[1].wildcard = calls[1].wildcard
         /\ Len(calls) <= Len(calls') /\ calls'[Len(calls)] = Kept /\ \A n \in 1..Len(calls)-1 : calls'[n] = calls[n]
<1> DEFINE N == Len(calls)
<1>1. /\ N \in Nat \ {0} /\ Top = calls[N] /\ CallInv(Top, Level, Group)
  BY FillFacts
<1>2. /\ Kept.target = Top.target /\ Kept.src = Top.src /\ Kept.group = Top.group /\ Kept.wildcard = Top.wildcard
      /\ Kept.keys = Top.keys \ {Visited}
      /\ Remaining \in Seq(Frames(tree)) /\ Len(Remaining) = N /\ Remaining[N] = Kept
      /\ \A n \in 1..N-1 : Remaining[n] = calls[n]
  BY KeptIs
<1>3. /\ \A n \in 1..N : calls[n].target \in Seq(Words) /\ calls[n].src \in Seq(Words)
      /\ \A n \in 1..N : CallInv(calls[n], Level, Group)
      /\ \A m, n \in 1..N : m < n => Within(calls[m], calls[n])
  BY Worded DEF Stage, CallsInv, Level, Group
<1> HIDE DEF N
<1>4. CallInv(Kept, Level, Group)
  <2>1. Kept.wildcard => Kept.keys \subseteq Matches[Last(Kept.src)]
    BY <1>1, <1>2 DEF CallInv
  <2> QED BY <1>1, <1>2, <2>1 DEF CallInv
<1>5. \A m \in 1..N-1 : Within(calls[m], Kept)
  <2> TAKE m \in 1..N-1
  <2>1. Within(calls[m], Top)
    BY <1>1, <1>3
  <2> QED BY <1>2, <2>1 DEF Within
<1>6. \A n \in 1..N : /\ Remaining[n].target = calls[n].target /\ Remaining[n].src = calls[n].src
                      /\ Remaining[n].group = calls[n].group /\ Remaining[n].wildcard = calls[n].wildcard
                      /\ CallInv(Remaining[n], Level, Group)
  <2> TAKE n \in 1..N
  <2>1. CASE n = N
    BY <1>1, <1>2, <1>4, <2>1
  <2>2. CASE n # N
    <3>1. n \in 1..N-1
      BY <1>1, <2>2
    <3> QED BY <1>2, <1>3, <3>1
  <2> QED BY <2>1, <2>2
<1>7. \A m, n \in 1..N : m < n => Within(Remaining[m], Remaining[n])
  <2> TAKE m, n \in 1..N
  <2> HAVE m < n
  <2>1. m \in 1..N-1 /\ Remaining[m] = calls[m]
    BY <1>1, <1>2
  <2>2. CASE n = N
    BY <1>2, <1>5, <2>1, <2>2
  <2>3. CASE n # N
    <3>1. n \in 1..N-1
      BY <1>1, <2>3
    <3> QED BY <1>2, <1>3, <2>1, <3>1
  <2> QED BY <2>2, <2>3
<1>8. \A c, l, h : CallInv(c, l, h)' <=> CallInv(c, l, h)
  BY SameContributes
<1>9. SUFFICES /\ \A n \in 1..Len(calls') : CallInv(calls'[n], Level, Group)
               /\ \A m, n \in 1..Len(calls') : m < n => Within(calls'[m], calls'[n])
               /\ N \in 1..Len(calls') /\ N <= Len(calls') /\ \A n \in 1..N : calls'[n] = Remaining[n]
  <2>1. 1 \in 1..N /\ N \in 1..N
    BY <1>1
  <2>2. calls'[1].target = Level /\ calls'[1].group = Group /\ calls'[1].wildcard = calls[1].wildcard
    BY <1>6, <1>9, <2>1 DEF Level, Group
  <2>3. \A n \in 1..Len(calls') : CallInv(calls[n], calls[1].target, calls[1].group)'
    BY <1>9, <2>2 DEF CallInv, Covers
  <2>4. CallsInv'
    BY <1>9, <2>3 DEF CallsInv
  <2>5. calls' # <<>>
    BY <1>9
  <2>6. calls'[N] = Kept /\ \A n \in 1..N-1 : calls'[n] = calls[n]
    BY <1>1, <1>2, <1>9
  <2> QED BY <1>9, <2>2, <2>4, <2>5, <2>6 DEF N
<1>10. CASE calls' = Remaining
  BY <1>1, <1>2, <1>6, <1>7, <1>10
<1>11. CASE \E d \in Frames(tree) :
              /\ calls' = Remaining \o <<d>>
              /\ CallInv(d, Level, Group)
              /\ Within(Kept, d)
  <2>1. PICK d \in Frames(tree) : /\ calls' = Remaining \o <<d>> /\ CallInv(d, Level, Group) /\ Within(Kept, d)
    BY <1>11
  <2>2. d.target \in Seq(Words) /\ d.src \in Seq(Words)
    <3>1. \A q \in Seq(Labels) : q \in Seq(Words)
      BY SeqMonotonic DEF Words
    <3> QED BY <3>1 DEF Frames
  <2>3. calls' = Append(Remaining, d)
    BY <1>2, <2>1, AppendIsConcat
  <2>4. Len(calls') = N + 1 /\ calls'[N + 1] = d /\ \A n \in 1..N : calls'[n] = Remaining[n]
    BY <1>2, <2>3, AppendProperties
  <2>5. ASSUME NEW m \in 1..N
        PROVE  Within(Remaining[m], d)
    <3>1. CASE m = N
      BY <1>2, <2>1, <3>1
    <3>2. CASE m # N
      <4>1. m \in 1..N-1 /\ Remaining[m] = calls[m]
        BY <1>1, <1>2, <3>2
      <4> DEFINE c == calls[m]
      <4>2. Within(c, Kept) /\ c.target \in Seq(Words) /\ c.src \in Seq(Words) /\ Kept.target \in Seq(Words) /\ Kept.src \in Seq(Words)
        BY <1>1, <1>2, <1>3, <1>5, <4>1
      <4> HIDE DEF c
      <4>3. IsPrefix(c.target, Kept.target) /\ IsPrefix(Kept.target, d.target) /\ IsPrefix(c.src, Kept.src) /\ IsPrefix(Kept.src, d.src)
        BY <2>1, <4>2 DEF Within
      <4>4. IsPrefix(c.target, d.target) /\ IsPrefix(c.src, d.src)
        BY <2>2, <4>2, <4>3, PrefixTransitive
      <4>5. /\ Len(c.target) \in Nat /\ Len(Kept.target) \in Nat /\ Len(d.target) \in Nat
            /\ Len(c.src) \in Nat /\ Len(Kept.src) \in Nat /\ Len(d.src) \in Nat
        BY <2>2, <4>2, LenProperties
      <4>6. /\ Len(Kept.target) <= Len(d.target) /\ \A i \in 1..Len(Kept.target) : Kept.target[i] = d.target[i]
            /\ Len(Kept.src) <= Len(d.src) /\ \A i \in 1..Len(Kept.src) : Kept.src[i] = d.src[i]
        BY <2>2, <4>2, <4>3, PrefixIs
      <4>7. CASE c.wildcard
        <5>1. Len(c.target) < Len(Kept.target) /\ Kept.target[Len(c.target) + 1] \notin c.keys
          BY <4>2, <4>7 DEF Within
        <5>2. Len(c.target) < Len(d.target) /\ d.target[Len(c.target) + 1] \notin c.keys
          BY <4>5, <4>6, <5>1
        <5> QED BY <4>1, <4>4, <4>7, <5>2 DEF Within, c
      <4>8. CASE ~c.wildcard
        <5>1. Len(c.src) < Len(Kept.src) /\ Kept.src[Len(c.src) + 1] \notin c.keys
          BY <4>2, <4>8 DEF Within
        <5>2. Len(c.src) < Len(d.src) /\ d.src[Len(c.src) + 1] \notin c.keys
          BY <4>5, <4>6, <5>1, SMTT(30)
        <5> QED BY <4>1, <4>4, <4>8, <5>2 DEF Within, c
      <4> QED BY <4>7, <4>8
    <3> QED BY <3>1, <3>2
  <2>6. \A n \in 1..Len(calls') : CallInv(calls'[n], Level, Group)
    <3> TAKE n \in 1..Len(calls')
    <3>1. n \in 1..N \/ n = N + 1
      BY <1>1, <2>4
    <3> QED BY <1>6, <2>1, <2>4, <3>1
  <2>7. \A m, n \in 1..Len(calls') : m < n => Within(calls'[m], calls'[n])
    <3> TAKE m, n \in 1..Len(calls')
    <3> HAVE m < n
    <3>1. m \in 1..N /\ (n \in 1..N \/ n = N + 1)
      BY <1>1, <2>4
    <3> QED BY <1>7, <2>4, <2>5, <3>1
  <2>8. N \in 1..Len(calls') /\ N <= Len(calls')
    BY <1>1, <2>4
  <2> QED BY <2>4, <2>6, <2>7, <2>8
<1> QED BY <1>10, <1>11

\* The loop and the call that a step of _fill may push.
Loop == [target |-> Top.target, src |-> From, group |-> Top.group, wildcard |-> TRUE,
         keys |-> Keys(tree, Top.target) \intersect Matches[Last(From)]]
Descent == [target |-> To, src |-> From, group |-> Top.group, wildcard |-> FALSE, keys |-> Keys(tree, From)]

LEMMA FillIs ==
  ASSUME _fill
  PROVE  /\ calls # <<>> /\ Top.keys # {}
         /\ UNCHANGED <<document, phase, read, body, parsed, pending, inherits, disclosed>>
         /\ \/ ~Top.wildcard /\ Visited \in Controls /\ calls' = Remaining /\ tree' = tree
            \/ ~Top.wildcard /\ Visited \in Wildcards /\ calls' = Remaining \o <<Loop>> /\ tree' = tree
            \/ /\ Top.wildcard \/ (Visited \notin Controls \cup Wildcards /\ Has(tree, To))
               /\ \/ OptedOut(tree, To, Top.group) /\ calls' = Remaining \o <<>>
                  \/ ~OptedOut(tree, To, Top.group) /\ calls' = Remaining \o <<Descent>>
               /\ tree' = tree
            \/ /\ ~Top.wildcard /\ Visited \notin Controls \cup Wildcards /\ ~Has(tree, To)
               /\ calls' = Remaining /\ tree' = Planted(tree, From, To)
<1>1. /\ calls # <<>> /\ Top.keys # {}
      /\ UNCHANGED <<document, phase, read, body, parsed, pending, inherits, disclosed>>
      /\ \/ ~Top.wildcard /\ Visited \in Controls /\ calls' = Remaining /\ tree' = tree
         \/ ~Top.wildcard /\ Visited \in Wildcards /\ calls' = Remaining \o WildcardLoop(tree, Top.target, From, Top.group) /\ tree' = tree
         \/ /\ Top.wildcard \/ (Visited \notin Controls \cup Wildcards /\ Has(tree, To))
            /\ calls' = Remaining \o Call(tree, To, From, Top.group) /\ tree' = tree
         \/ /\ ~Top.wildcard /\ Visited \notin Controls \cup Wildcards /\ ~Has(tree, To)
            /\ calls' = Remaining /\ tree' = Planted(tree, From, To)
  BY DEF _fill, Top, Visited, To, From, Remaining
<1>2. WildcardLoop(tree, Top.target, From, Top.group) = <<Loop>>
  BY DEF WildcardLoop, Loop
<1>3. Call(tree, To, From, Top.group) = IF OptedOut(tree, To, Top.group) THEN <<>> ELSE <<Descent>>
  BY DEF Call, Descent
<1> QED BY <1>1, <1>2, <1>3

LEMMA LoopCovers ==
  ASSUME Stage, calls # <<>>, Top.keys # {}, TurnInv, CallsInv, ~Top.wildcard, Visited \in Wildcards
  PROVE  /\ Loop.target = Top.target /\ Loop.src = From /\ Loop.wildcard = TRUE
         /\ Loop.keys = Keys(tree, Top.target) \intersect Matches[Visited]
         /\ CallInv(Loop, Level, Group) /\ Within(Kept, Loop)
<1>1. /\ Len(Top.target) \in Nat /\ Top.target \in Seq(Words) /\ Top.src \in Seq(Words) /\ Visited \in Words
      /\ CallInv(Top, Level, Group) /\ Has(parsed, From) /\ IsPrefix(<<"groups", Group>>, From)
      /\ From = Append(Top.src, Visited) /\ From \in Seq(Words)
  BY FillFacts
<1>2. Last(From) = Visited /\ From # <<>> /\ Len(From) = Len(Top.src) + 1 /\ IsPrefix(Top.src, From) /\ From[Len(Top.src) + 1] = Visited
  BY <1>1, FrontAppend, AppendProperties, PrefixAppend
<1>3. /\ Loop.target = Top.target /\ Loop.src = From /\ Loop.group = Top.group /\ Loop.wildcard = TRUE
      /\ Loop.keys = Keys(tree, Top.target) \intersect Matches[Visited]
  BY <1>2 DEF Loop
<1>4. /\ Top.group = Group /\ IsPrefix(Level, Top.target) /\ Len(Top.src) = Len(Top.target) + 2
      /\ Covers(SubSeq(Top.src, 1, Len(Top.target) + 2), Top.target)
      /\ \A i \in Len(Level)..Len(Top.target) : Group \notin Keys(parsed, Append(SubSeq(Top.target, 1, i), "apply-groups-except"))
  BY <1>1 DEF CallInv
<1>5. SubSeq(From, 1, Len(Top.target) + 2) = SubSeq(Top.src, 1, Len(Top.target) + 2)
  <2>1. Len(Top.target) + 2 \in 0..Len(Top.src)
    BY <1>1, <1>4
  <2> QED BY <1>1, <1>2, <2>1, SameBeginning
<1> HIDE DEF Loop
<1>6. CallInv(Loop, Level, Group)
  <2>1. Len(Loop.src) = Len(Loop.target) + 2 + (IF Loop.wildcard THEN 1 ELSE 0)
    BY <1>1, <1>2, <1>3, <1>4
  <2>2. Last(Loop.src) \in Wildcards /\ Loop.keys \subseteq Matches[Last(Loop.src)]
    BY <1>2, <1>3
  <2>3. Covers(SubSeq(Loop.src, 1, Len(Loop.target) + 2), Loop.target)
    BY <1>3, <1>4, <1>5
  <2> QED BY <1>1, <1>3, <1>4, <2>1, <2>2, <2>3 DEF CallInv
<1>7. Within(Kept, Loop)
  <2>1. Kept.target = Top.target /\ Kept.src = Top.src /\ Kept.wildcard = Top.wildcard /\ Kept.keys = Top.keys \ {Visited}
    BY KeptIs
  <2>2. IsPrefix(Top.target, Top.target)
    BY <1>1, PrefixIs
  <2>3. Len(Top.src) < Len(From)
    BY <1>1, <1>2, <1>4
  <2> QED BY <1>2, <1>3, <2>1, <2>2, <2>3 DEF Within
<1> QED BY <1>3, <1>6, <1>7

LEMMA InnerCovers ==
  ASSUME Stage, calls # <<>>, Top.keys # {}, TurnInv, CallsInv,
         Top.wildcard \/ (Visited \notin Controls \cup Wildcards /\ Has(tree, To))
  PROVE  /\ Descent.target = To /\ Descent.src = From /\ Descent.wildcard = FALSE /\ Descent.keys = Keys(parsed, From)
         /\ Len(From) = Len(To) + 2
         /\ ~OptedOut(tree, To, Group) => CallInv(Descent, Level, Group) /\ Within(Kept, Descent)
<1>0. TypeInv /\ TreeOver(Words, tree) /\ TreeOver(Words, parsed) /\ Controls \subseteq Words
  BY Worded DEF Stage
<1>1. /\ Len(Top.target) \in Nat /\ Top.target \in Seq(Words) /\ Top.src \in Seq(Words) /\ Visited \in Words
      /\ Top.wildcard \in BOOLEAN /\ Top.src # <<>>
      /\ CallInv(Top, Level, Group) /\ Has(tree, From) /\ Has(parsed, From) /\ IsPrefix(<<"groups", Group>>, From)
      /\ From # <<>> /\ From[1] = "groups" /\ From \in Seq(Words) /\ To \in Seq(Words) /\ Has(tree, To)
      /\ Level \in Seq(Words) /\ Len(Level) \in Nat
      /\ Top.wildcard => From = Top.src /\ Visited \in Matches[Last(Top.src)]
      /\ ~Top.wildcard => From = Append(Top.src, Visited)
  BY FillFacts, LenProperties
<1>2. Keys(tree, From) = Keys(parsed, From)
  BY <1>1, AsWritten
<1>3. /\ Descent.target = To /\ Descent.src = From /\ Descent.group = Top.group /\ Descent.wildcard = FALSE
      /\ Descent.keys = Keys(parsed, From)
  BY <1>2 DEF Descent
<1>4. /\ Top.group = Group /\ IsPrefix(Level, Top.target)
      /\ Len(Top.src) = Len(Top.target) + 2 + (IF Top.wildcard THEN 1 ELSE 0)
      /\ Covers(SubSeq(Top.src, 1, Len(Top.target) + 2), Top.target)
      /\ (Top.wildcard => Last(Top.src) \in Wildcards)
      /\ \A i \in Len(Level)..Len(Top.target) : Group \notin Keys(parsed, Append(SubSeq(Top.target, 1, i), "apply-groups-except"))
  BY <1>1 DEF CallInv
<1>5. /\ Len(To) = Len(Top.target) + 1 /\ To[Len(Top.target) + 1] = Visited /\ IsPrefix(Top.target, To)
      /\ To # <<>> /\ Last(To) = Visited /\ To \in tree.nodes
  <2>1. /\ Len(To) = Len(Top.target) + 1 /\ To[Len(Top.target) + 1] = Visited /\ IsPrefix(Top.target, To) /\ To # <<>>
    <3> DEFINE t == Top.target
               u == To
    <3>1. t \in Seq(Words) /\ Visited \in Words /\ u = Append(t, Visited)
      BY <1>1 DEF To
    <3> HIDE DEF t, u
    <3>2. Len(u) = Len(t) + 1 /\ u[Len(t) + 1] = Visited /\ IsPrefix(t, u) /\ u # <<>>
      BY <3>1, AppendProperties, PrefixAppend
    <3> QED BY <3>2 DEF t, u
  <2>2. Last(To) = Visited
    BY <1>1, FrontAppend DEF To
  <2> QED BY <1>1, <2>1, <2>2 DEF Has
<1>6. Len(From) = Len(To) + 2
  <2>1. CASE Top.wildcard
    BY <1>1, <1>4, <1>5, <2>1
  <2>2. CASE ~Top.wildcard
    <3>1. Len(From) = Len(Top.src) + 1
      BY <1>1, <2>2, AppendProperties
    <3> QED BY <1>1, <1>4, <1>5, <2>2, <3>1
  <2> QED BY <2>1, <2>2
<1>7. Covers(From, To)
  <2>1. CASE Top.wildcard
    <3> DEFINE b == Front(Top.src)
               w == Last(Top.src)
    <3>1. b \in Seq(Words) /\ w \in Words /\ Top.src = Append(b, w)
      BY <1>1, Cut
    <3>2. b = SubSeq(Top.src, 1, Len(Top.target) + 2)
      <4>1. Len(Top.src) - 1 = Len(Top.target) + 2
        BY <1>1, <1>4, <2>1
      <4> QED BY <4>1 DEF Front
    <3>3. w \in Wildcards /\ Visited \in Matches[w]
      BY <1>1, <1>4, <2>1
    <3>4. w \in UNION {ToSet(r) : r \in parsed.nodes}
      <4>1. Top.src \in parsed.nodes
        BY <1>1, <2>1 DEF Has
      <4>2. w \in ToSet(Top.src)
        <5>1. Len(Top.src) \in DOMAIN Top.src
          BY <1>1, EmptySeq, LenProperties
        <5> QED BY <5>1 DEF ToSet, Last
      <4> QED BY <4>1, <4>2
    <3>5. Has(parsed, To)
      <4>1. CASE To[1] = "groups"
        BY <1>1, <1>5, <4>1, AsWritten
      <4>2. CASE To[1] # "groups"
        BY <1>5, <3>3, <3>4, <4>2 DEF Stage, Settled
      <4> QED BY <4>1, <4>2
    <3> HIDE DEF b, w
    <3>6. Covers(b, Top.target)
      BY <1>4, <3>2
    <3>7. Covers(Append(b, w), Append(Top.target, Visited))
      BY <1>1, <3>1, <3>3, <3>5, <3>6, CoversOneMore DEF To
    <3> QED BY <1>1, <2>1, <3>1, <3>7 DEF To
  <2>2. CASE ~Top.wildcard
    <3>1. SubSeq(Top.src, 1, Len(Top.target) + 2) = Top.src
      BY <1>1, <1>4, <2>2, SubSeqFull
    <3>2. Covers(Top.src, Top.target)
      BY <1>4, <3>1
    <3>3. Covers(Append(Top.src, Visited), Append(Top.target, Visited))
      BY <1>1, <3>2, CoversOneMore
    <3> QED BY <1>1, <2>2, <3>3 DEF To
  <2> QED BY <2>1, <2>2
<1>8. ASSUME ~OptedOut(tree, To, Group)
      PROVE  CallInv(Descent, Level, Group) /\ Within(Kept, Descent)
  <2>1. Group \notin Keys(parsed, Append(To, "apply-groups-except"))
    <3> DEFINE e == Append(To, "apply-groups-except")
    <3>1. e \in Seq(Words) /\ e # <<>> /\ e[Len(e)] = "apply-groups-except"
      BY <1>0, <1>1, AppendProperties DEF Controls
    <3>2. Group \notin Keys(tree, e)
      BY <1>8 DEF OptedOut
    <3> HIDE DEF e
    <3>3. Keys(tree, e) = Keys(parsed, e)
      BY <3>1, AsWritten
    <3> QED BY <3>2, <3>3 DEF e
  <2>2. \A i \in Len(Level)..Len(To) : Group \notin Keys(parsed, Append(SubSeq(To, 1, i), "apply-groups-except"))
    <3> TAKE i \in Len(Level)..Len(To)
    <3>1. CASE i = Len(To)
      <4>1. SubSeq(To, 1, i) = To
        BY <1>1, <3>1, SubSeqFull
      <4> QED BY <2>1, <4>1
    <3>2. CASE i # Len(To)
      <4>1. i \in Len(Level)..Len(Top.target) /\ i \in 0..Len(Top.target)
        BY <1>1, <1>5, <3>2
      <4>2. SubSeq(Top.target, 1, i) = SubSeq(To, 1, i)
        BY <1>1, <1>5, <4>1, SameBeginning
      <4>3. Group \notin Keys(parsed, Append(SubSeq(Top.target, 1, i), "apply-groups-except"))
        BY <1>4, <4>1
      <4> QED BY <4>2, <4>3
    <3> QED BY <3>1, <3>2
  <2>3. IsPrefix(Level, To)
    BY <1>1, <1>4, <1>5, PrefixTransitive
  <2>4. SubSeq(From, 1, Len(To) + 2) = From
    BY <1>1, <1>6, SubSeqFull
  <2> HIDE DEF Descent
  <2>5. CallInv(Descent, Level, Group)
    <3>1. Len(Descent.src) = Len(Descent.target) + 2 + (IF Descent.wildcard THEN 1 ELSE 0)
      <4>1. Len(From) = Len(To) + 2 + 0 /\ ~Descent.wildcard
        BY <1>1, <1>3, <1>5, <1>6
      <4> QED BY <1>3, <4>1
    <3>2. Covers(SubSeq(Descent.src, 1, Len(Descent.target) + 2), Descent.target)
      BY <1>3, <1>7, <2>4
    <3> QED BY <1>1, <1>3, <1>4, <2>2, <2>3, <3>1, <3>2 DEF CallInv
  <2>6. Within(Kept, Descent)
    <3>1. Kept.target = Top.target /\ Kept.src = Top.src /\ Kept.wildcard = Top.wildcard /\ Kept.keys = Top.keys \ {Visited}
      BY KeptIs
    <3>2. CASE Top.wildcard
      <4>1. IsPrefix(Top.src, From)
        BY <1>1, <3>2, PrefixIs
      <4>2. Len(Top.target) < Len(To)
        BY <1>1, <1>5
      <4> QED BY <1>3, <1>5, <3>1, <3>2, <4>1, <4>2 DEF Within
    <3>3. CASE ~Top.wildcard
      <4>1. IsPrefix(Top.src, From) /\ Len(From) = Len(Top.src) + 1 /\ From[Len(Top.src) + 1] = Visited
        <5> DEFINE t == Top.src
                   u == From
        <5>1. t \in Seq(Words) /\ Visited \in Words /\ u = Append(t, Visited)
          BY <1>1, <3>3
        <5> HIDE DEF t, u
        <5>2. IsPrefix(t, u) /\ Len(u) = Len(t) + 1 /\ u[Len(t) + 1] = Visited
          BY <5>1, AppendProperties, PrefixAppend
        <5> QED BY <5>2 DEF t, u
      <4>2. Len(Top.src) < Len(From)
        BY <1>1, <4>1, LenProperties
      <4> QED BY <1>3, <1>5, <3>1, <3>3, <4>1, <4>2 DEF Within
    <3> QED BY <3>2, <3>3
  <2> QED BY <2>5, <2>6
<1> QED BY <1>3, <1>6, <1>8

(* What the innermost call owes, after it has visited a key.               *)
LEMMA StillOwed ==
  ASSUME Stage, calls # <<>>, Top.keys # {}, TurnInv, CallsInv,
         NEW p \in Seq(Words), Plain(p), NEW r, Contributes(Level, Group, r, p), Owes(Top, p, r)
  PROVE  \/ Owes(Kept, p, r)
         \/ Top.wildcard /\ IsPrefix(To, p) /\ IsPrefix(From, r)
         \/ ~Top.wildcard /\ Visited \in Wildcards /\ Owes(Loop, p, r)
         \/ ~Top.wildcard /\ Visited \notin Controls \cup Wildcards /\ IsPrefix(To, p) /\ IsPrefix(From, r)
         \/ ~Top.wildcard /\ Visited \notin Controls \cup Wildcards /\ Top.target = p /\ Top.src = r /\ Visited \in Values(parsed, r)
<1>0. TypeInv /\ TreeOver(Words, tree) /\ Extends(parsed, tree) /\ \A w \in Wildcards : w \notin Controls
  BY Worded DEF Stage
<1>1. /\ Len(Top.target) \in Nat /\ Top.target \in Seq(Words) /\ Top.src \in Seq(Words) /\ Visited \in Words
      /\ Top.wildcard \in BOOLEAN /\ CallInv(Top, Level, Group) /\ From \in Seq(Words)
      /\ Top.wildcard => From = Top.src
      /\ ~Top.wildcard => From = Append(Top.src, Visited)
  BY FillFacts
<1>2. /\ Kept.target = Top.target /\ Kept.src = Top.src /\ Kept.wildcard = Top.wildcard /\ Kept.keys = Top.keys \ {Visited}
  BY KeptIs
<1>3. /\ r \in Seq(Words) /\ Has(parsed, r) /\ Covers(r, p) /\ Len(r) \in Nat /\ Len(p) \in Nat /\ Len(r) = Len(p) + 2
  BY <1>0, ReachingIs
<1>4. IsPrefix(Top.target, p) /\ IsPrefix(Top.src, r)
  BY DEF Owes
<1> DEFINE t == Top.target
           s == Top.src
           n == Len(t)
<1>5. /\ t \in Seq(Words) /\ s \in Seq(Words) /\ n \in Nat /\ IsPrefix(t, p) /\ IsPrefix(s, r) /\ To = Append(t, Visited)
      /\ Len(s) = n + 2 + (IF Top.wildcard THEN 1 ELSE 0)
  BY <1>1, <1>4 DEF CallInv, To
<1> HIDE DEF t, s
<1>6. CASE Top.wildcard
  <2>1. n < Len(p) /\ p[n + 1] \in Top.keys
    BY <1>6 DEF Owes, t
  <2>2. CASE p[n + 1] = Visited
    <3>1. IsPrefix(To, p)
      BY <1>1, <1>5, <2>1, <2>2, PrefixAppend
    <3> QED BY <1>1, <1>4, <1>6, <3>1
  <2>3. CASE p[n + 1] # Visited
    <3>1. p[Len(Kept.target) + 1] \in Kept.keys /\ Len(Kept.target) < Len(p)
      BY <1>2, <2>1, <2>3 DEF t
    <3> QED BY <1>2, <1>4, <1>6, <3>1 DEF Owes
  <2> QED BY <2>2, <2>3
<1>7. CASE ~Top.wildcard
  <2>0. Len(s) = n + 2
    BY <1>5, <1>7
  <2>1. CASE n < Len(p) /\ r[n + 3] \in Top.keys
    <3>1. CASE r[n + 3] # Visited
      <4>1. Len(Kept.target) < Len(p) /\ r[Len(Kept.target) + 3] \in Kept.keys
        BY <1>2, <2>1, <3>1 DEF t
      <4> QED BY <1>2, <1>4, <1>7, <4>1 DEF Owes
    <3>2. CASE r[n + 3] = Visited
      <4>1. Len(s) < Len(r) /\ Len(s) + 1 = n + 3 /\ n + 1 \in 1..Len(p) /\ n + 1 + 2 = n + 3
        BY <1>3, <1>5, <2>0, <2>1
      <4>2. IsPrefix(From, r)
        <5>1. From = Append(s, Visited)
          BY <1>1, <1>7 DEF s
        <5> QED BY <1>1, <1>3, <1>5, <3>2, <4>1, <5>1, PrefixAppend
      <4>3. \/ Visited = p[n + 1]
            \/ Visited \in Wildcards /\ p[n + 1] \in Matches[Visited] /\ Has(parsed, SubSeq(p, 1, n + 1))
        BY <1>3, <3>2, <4>1 DEF Covers
      <4>4. CASE Visited = p[n + 1]
        <5>1. IsPrefix(To, p)
          BY <1>1, <1>5, <2>1, <4>4, PrefixAppend
        <5>2. Visited \notin Controls \cup Wildcards
          BY <4>1, <4>4 DEF Plain
        <5> QED BY <1>7, <4>2, <5>1, <5>2
      <4>5. CASE Visited \in Wildcards /\ p[n + 1] \in Matches[Visited] /\ Has(parsed, SubSeq(p, 1, n + 1))
        <5> DEFINE q == SubSeq(p, 1, n + 1)
        <5>1. q \in Seq(Words) /\ Len(q) = n + 1 /\ q[n + 1] = p[n + 1] /\ IsPrefix(q, p)
          <6>1. n + 1 \in 0..Len(p) /\ n + 1 \in 1..n + 1
            BY <1>5, <4>1
          <6> QED BY <6>1, Initial, InitialPrefix
        <5>2. Has(tree, q)
          BY <1>0, <4>5 DEF Has, Extends
        <5> HIDE DEF q
        <5>3. IsPrefix(t, q)
          BY <1>5, <5>1, PrefixesOfOne
        <5>4. n < Len(q)
          BY <1>5, <5>1
        <5>5. p[n + 1] \in Keys(tree, t)
          BY <1>0, <1>5, <5>1, <5>2, <5>3, <5>4, KeyOnItsPath
        <5>6. /\ Loop.target = t /\ Loop.src = From /\ Loop.wildcard = TRUE /\ Loop.keys = Keys(tree, t) \intersect Matches[Visited]
          BY <1>7, <4>5, LoopCovers DEF t
        <5> HIDE DEF Loop
        <5>7. Owes(Loop, p, r)
          BY <1>5, <2>1, <4>2, <4>5, <5>5, <5>6 DEF Owes
        <5> QED BY <1>7, <4>5, <5>7
      <4> QED BY <4>3, <4>4, <4>5
    <3> QED BY <3>1, <3>2
  <2>2. CASE t = p /\ Values(parsed, r) \subseteq Top.keys
    <3>1. CASE Visited \notin Values(parsed, r)
      <4>1. Kept.target = p /\ Values(parsed, r) \subseteq Kept.keys
        BY <1>2, <2>2, <3>1 DEF t
      <4> QED BY <1>2, <1>4, <1>7, <4>1 DEF Owes
    <3>2. CASE Visited \in Values(parsed, r)
      <4>1. Len(s) = Len(r) /\ IsPrefix(r, r)
        BY <1>3, <2>0, <2>2, PrefixIs
      <4>2. s = r
        BY <1>3, <1>5, <4>1, PrefixesOfOne
      <4>3. Visited \notin Controls \cup Wildcards
        BY <3>2 DEF Values
      <4> QED BY <1>7, <2>2, <3>2, <4>2, <4>3 DEF t, s
    <3> QED BY <3>1, <3>2
  <2> QED BY <1>7, <2>1, <2>2 DEF Owes, t
<1> QED BY <1>1, <1>6, <1>7

(* A group that reaches p is not opted out of on the way.                  *)
LEMMA NotOptedOut ==
  ASSUME Stage, NEW p \in Seq(Words), NEW level, NEW g, NEW r, Contributes(level, g, r, p),
         NEW q \in Seq(Words), IsPrefix(level, q), IsPrefix(q, p)
  PROVE  ~OptedOut(tree, q, g)
<1>1. TypeInv /\ Controls \subseteq Words
  BY Worded DEF Stage
<1>2. /\ level \in Seq(Words) /\ Len(p) \in Nat
      /\ \A n \in Len(level)..Len(p) : g \notin Keys(parsed, Append(SubSeq(p, 1, n), "apply-groups-except"))
  BY <1>1, ReachingIs
<1>3. Len(level) \in Nat /\ Len(q) \in Nat /\ Len(level) <= Len(q) /\ Len(q) <= Len(p) /\ SubSeq(p, 1, Len(q)) = q
  BY <1>2, PrefixIs, LenProperties
<1>4. Len(q) \in Len(level)..Len(p)
  BY <1>2, <1>3
<1>5. g \notin Keys(parsed, Append(q, "apply-groups-except"))
  BY <1>2, <1>3, <1>4
<1> DEFINE e == Append(q, "apply-groups-except")
<1>6. e \in Seq(Words) /\ e # <<>> /\ e[Len(e)] = "apply-groups-except"
  BY <1>1, AppendProperties DEF Controls
<1> HIDE DEF e
<1>7. Keys(tree, e) = Keys(parsed, e)
  BY <1>6, AsWritten
<1> QED BY <1>5, <1>7 DEF OptedOut, e

(* The turn goes on. *)
LEMMA FillTurns ==
  ASSUME TurnInv, calls # <<>>, UNCHANGED <<parsed, pending, inherits>>,
         calls' # <<>>, calls'[1].target = Level, calls'[1].group = Group, calls'[1].wildcard = calls[1].wildcard,
         \A q \in pending : Keys(tree', Append(q, "apply-groups")) = Keys(tree, Append(q, "apply-groups"))
  PROVE  /\ TurnInv'
         /\ \A l, g : Reached(l, g)' <=> Reached(l, g)
         /\ \A l, g : Turn(l, g)' <=> Turn(l, g)
         /\ \A l, g : Turn(l, g) <=> l = Level /\ g = Group
<1>1. \A l, g : Reached(l, g)' <=> Reached(l, g)
  BY DEF Reached
<1>2. \A l, g : Turn(l, g)' <=> l = Level /\ g = Group
  BY DEF Turn
<1>3. \A l, g : Turn(l, g) <=> l = Level /\ g = Group
  BY DEF Turn, Level, Group
<1>4. /\ pending' \subseteq Levels(parsed')
      /\ \A level \in pending', other \in Levels(parsed') : IsPrefix(other, level) => other \in pending'
      /\ \A level \in pending' : Keys(tree', Append(level, "apply-groups")) = Keys(parsed', Append(level, "apply-groups"))
  BY DEF TurnInv
<1>5. /\ \A i, j \in inherits' : i[1] = j[1]
      /\ \A i \in inherits' :
       /\ i[1] \in Levels(parsed') /\ i[2] \in Applied(parsed', i[1]) /\ i[1] \notin pending'
       /\ \A other \in Levels(parsed') : IsPrefix(other, i[1]) /\ other # i[1] => other \in pending'
       /\ \A h \in Applied(parsed', i[1]) : <<i[1], h>> \notin inherits' =>
            <<i[1] \o <<"apply-groups", h>>, i[1] \o <<"apply-groups", i[2]>>>> \in parsed'.earlier
  BY DEF TurnInv
<1>6. /\ calls'[1].target \in Levels(parsed') /\ calls'[1].group \in Applied(parsed', calls'[1].target)
      /\ ~calls'[1].wildcard
      /\ \A i \in inherits' : i[1] = calls'[1].target
  BY DEF TurnInv, Level, Group
<1>7. Reached(calls[1].target, calls[1].group)'
  BY DEF TurnInv, Reached, Level, Group
<1>8. TurnInv'
  BY <1>4, <1>5, <1>6, <1>7 DEF TurnInv
<1> QED BY <1>1, <1>2, <1>3, <1>8

(* A step of _fill that plants nothing: what the call owed is left to the  *)
(* rest of its loop or to the call it makes.                               *)
LEMMA PrecedenceVisit ==
  ASSUME Stage, _fill, TurnInv, CallsInv, OriginInv, WinInv,
         Top.wildcard \/ Visited \in Controls \cup Wildcards \/ Has(tree, To)
  PROVE  TurnInv' /\ CallsInv' /\ OriginInv' /\ WinInv'
<1>0. /\ TypeInv /\ TreeOver(Words, tree) /\ (\A w \in Wildcards : w \notin Controls)
      /\ calls # <<>> /\ Top.keys # {} /\ UNCHANGED <<parsed, pending, inherits>>
  BY Worded, FillIs DEF Stage
<1>1. /\ Len(calls) \in Nat \ {0} /\ Top = calls[Len(calls)] /\ Len(Top.target) \in Nat
      /\ Top.target \in Seq(Words) /\ Top.src \in Seq(Words) /\ Top.wildcard \in BOOLEAN
      /\ Visited \in Words /\ To \in Seq(Words) /\ From \in Seq(Words) /\ Level \in Seq(Words)
      /\ CallInv(Top, Level, Group) /\ (Top.wildcard => Has(tree, To))
  BY <1>0, FillFacts
<1>2. /\ Top.target \in Seq(Labels) /\ Top.group \in Labels /\ To \in Seq(Labels) /\ From \in Seq(Labels)
      /\ Has(tree, Top.target) /\ Has(tree, From) /\ TreeOver(Labels, tree)
  BY <1>0, FillTyped DEF TypeInv
<1>3. Top.group = Group /\ IsPrefix(Level, Top.target)
  BY <1>1 DEF CallInv
<1> DEFINE looping == ~Top.wildcard /\ Visited \in Wildcards
           inner == Top.wildcard \/ (Visited \notin Controls \cup Wildcards /\ Has(tree, To))
<1>4. /\ tree' = tree
      /\ \/ ~looping /\ ~inner /\ calls' = Remaining
         \/ looping /\ calls' = Remaining \o <<Loop>>
         \/ inner /\ OptedOut(tree, To, Group) /\ calls' = Remaining
         \/ inner /\ ~OptedOut(tree, To, Group) /\ calls' = Remaining \o <<Descent>>
  <2>1. Remaining \o <<>> = Remaining
    <3>1. Remaining \in Seq(Frames(tree))
      BY <1>0, KeptIs
    <3> QED BY <3>1, ConcatEmptySeq
  <2> QED BY <1>0, <1>3, <2>1, FillIs
<1>5. looping => Loop \in Frames(tree) /\ CallInv(Loop, Level, Group) /\ Within(Kept, Loop)
  <2> HAVE looping
  <2>1. Keys(tree, Top.target) \subseteq Labels
    BY <1>2, KeysOf
  <2>2. Loop \in Frames(tree)
    BY <1>2, <2>1 DEF Loop, Frames
  <2> QED BY <1>0, <2>2, LoopCovers
<1>6. inner => /\ Descent \in Frames(tree) /\ Len(From) = Len(To) + 2
               /\ Descent.target = To /\ Descent.src = From /\ Descent.wildcard = FALSE /\ Descent.keys = Keys(parsed, From)
               /\ (~OptedOut(tree, To, Group) => CallInv(Descent, Level, Group) /\ Within(Kept, Descent))
  <2> HAVE inner
  <2>1. Keys(tree, From) \subseteq Labels
    BY <1>2, KeysOf
  <2>2. Has(tree, To)
    BY <1>1
  <2>3. Descent \in Frames(tree)
    BY <1>2, <2>1, <2>2 DEF Descent, Frames
  <2> QED BY <1>0, <2>3, InnerCovers
<1> HIDE DEF looping, inner
<1>7. \/ calls' = Remaining
      \/ \E d \in Frames(tree) : calls' = Remaining \o <<d>> /\ CallInv(d, Level, Group) /\ Within(Kept, d)
  BY <1>4, <1>5, <1>6
<1>8. /\ CallsInv'
      /\ calls' # <<>> /\ calls'[1].target = Level /\ calls'[1].group = Group /\ calls'[1].wildcard = calls[1].wildcard
      /\ Len(calls) <= Len(calls') /\ calls'[Len(calls)] = Kept /\ \A n \in 1..Len(calls)-1 : calls'[n] = calls[n]
  BY <1>0, <1>7, CallsStep
<1>9. /\ TurnInv'
      /\ \A l, g : Reached(l, g)' <=> Reached(l, g)
      /\ \A l, g : Turn(l, g)' <=> Turn(l, g)
      /\ \A l, g : Turn(l, g) <=> l = Level /\ g = Group
  BY <1>0, <1>4, <1>8, FillTurns
<1>10. /\ \A l, g, r, p : Contributes(l, g, r, p)' <=> Contributes(l, g, r, p)
       /\ \A l, g, p : Foremost(l, g, p)' <=> Foremost(l, g, p)
  BY <1>0, SameContributes
<1>11. OriginInv'
  BY <1>0, <1>4, <1>9, <1>10 DEF OriginInv
<1>12. Len(calls') \in Nat
  <2>1. TypeInv'
    BY <1>0, TypeFill
  <2> QED BY <2>1, LenProperties DEF TypeInv
<1>13. \A d : calls' = Remaining \o <<d>> /\ d \in Frames(tree) => Len(calls) + 1 \in 1..Len(calls') /\ calls'[Len(calls) + 1] = d
  <2> TAKE d
  <2> HAVE calls' = Remaining \o <<d>> /\ d \in Frames(tree)
  <2>1. Remaining \in Seq(Frames(tree)) /\ Len(Remaining) = Len(calls)
    BY <1>0, KeptIs
  <2>2. calls' = Append(Remaining, d)
    BY <2>1, AppendIsConcat
  <2>3. Len(calls') = Len(calls) + 1 /\ calls'[Len(calls) + 1] = d
    BY <2>1, <2>2, AppendProperties
  <2> QED BY <1>1, <2>3
<1>14. ASSUME NEW p \in Seq(Words), Plain(p), NEW r, Contributes(Level, Group, r, p), Values(tree, p) = {},
              Owes(Top, p, r)
       PROVE  \E n \in 1..Len(calls') : Owes(calls'[n], p, r)
  <2>1. r \in Seq(Words)
    BY <1>0, <1>14, ReachingIs
  <2>2. ASSUME inner, IsPrefix(To, p), IsPrefix(From, r)
        PROVE  \E n \in 1..Len(calls') : Owes(calls'[n], p, r)
    <3>1. IsPrefix(Level, To)
      <4>1. IsPrefix(Top.target, To)
        BY <1>1, PrefixAppend DEF To
      <4> QED BY <1>1, <1>3, <4>1, PrefixTransitive
    <3>2. ~OptedOut(tree, To, Group)
      BY <1>1, <1>14, <2>2, <3>1, NotOptedOut
    <3>3. calls' = Remaining \o <<Descent>>
      <4>1. ~looping
        BY <1>0, <2>2 DEF looping, inner
      <4> QED BY <1>4, <2>2, <3>2, <4>1
    <3> DEFINE d == Descent
    <3>4. d.wildcard = FALSE /\ d.target \in Seq(Words) /\ d.src \in Seq(Words) /\ IsPrefix(d.target, p) /\ IsPrefix(d.src, r)
          /\ Len(d.src) = Len(d.target) + 2 /\ d.keys = Keys(parsed, d.src)
      BY <1>1, <1>6, <2>2
    <3>5. Len(calls) + 1 \in 1..Len(calls') /\ calls'[Len(calls) + 1] = d
      BY <1>6, <1>13, <2>2, <3>3
    <3> HIDE DEF d
    <3>6. Owes(d, p, r)
      BY <1>0, <1>14, <3>4, BeginsToOwe
    <3> QED BY <3>5, <3>6
  <2>3. CASE Owes(Kept, p, r)
    <3>1. Len(calls) \in 1..Len(calls')
      BY <1>1, <1>8, <1>12
    <3> QED BY <1>8, <2>3, <3>1
  <2>4. CASE Top.wildcard /\ IsPrefix(To, p) /\ IsPrefix(From, r)
    BY <2>2, <2>4 DEF inner
  <2>5. CASE looping /\ Owes(Loop, p, r)
    <3>1. calls' = Remaining \o <<Loop>>
      <4>1. ~inner
        BY <1>0, <2>5 DEF looping, inner
      <4> QED BY <1>4, <2>5, <4>1
    <3>2. Len(calls) + 1 \in 1..Len(calls') /\ calls'[Len(calls) + 1] = Loop
      BY <1>5, <1>13, <2>5, <3>1
    <3> QED BY <2>5, <3>2
  <2>6. CASE ~Top.wildcard /\ Visited \notin Controls \cup Wildcards /\ IsPrefix(To, p) /\ IsPrefix(From, r)
    BY <2>2, <2>6 DEF inner
  <2>7. CASE Visited \notin Controls \cup Wildcards /\ Top.target = p /\ ~Top.wildcard
    <3>1. Has(tree, To)
      BY <2>7
    <3>2. Append(p, Visited) \in tree.nodes
      <4>0. Visited \in Words
        BY <1>1
      <4>1. Append(p, Visited) # <<>>
        BY <4>0, AppendProperties
      <4> QED BY <2>7, <3>1, <4>1 DEF Has, To
    <3>3. Visited \in Keys(tree, p)
      BY <1>0, <1>1, <3>2, KeysOf
    <3>4. Visited \in Values(tree, p)
      BY <2>7, <3>3 DEF Values
    <3> QED BY <1>14, <3>4
  <2>8. \/ Owes(Kept, p, r)
        \/ Top.wildcard /\ IsPrefix(To, p) /\ IsPrefix(From, r)
        \/ ~Top.wildcard /\ Visited \in Wildcards /\ Owes(Loop, p, r)
        \/ ~Top.wildcard /\ Visited \notin Controls \cup Wildcards /\ IsPrefix(To, p) /\ IsPrefix(From, r)
        \/ ~Top.wildcard /\ Visited \notin Controls \cup Wildcards /\ Top.target = p /\ Top.src = r /\ Visited \in Values(parsed, r)
    BY <1>0, <1>14, StillOwed
  <2>9. \/ Owes(Kept, p, r)
        \/ Top.wildcard /\ IsPrefix(To, p) /\ IsPrefix(From, r)
        \/ looping /\ Owes(Loop, p, r)
        \/ ~Top.wildcard /\ Visited \notin Controls \cup Wildcards /\ IsPrefix(To, p) /\ IsPrefix(From, r)
        \/ Visited \notin Controls \cup Wildcards /\ Top.target = p /\ ~Top.wildcard
    BY <2>8 DEF looping
  <2> QED BY <2>3, <2>4, <2>5, <2>6, <2>7, <2>9
<1>15. WinInv'
  <2> SUFFICES ASSUME NEW p \in Seq(Words), NEW l, NEW g, NEW r,
                      Plain(p), Values(parsed, p) = {}, Contributes(l, g, r, p), Foremost(l, g, p), Reached(l, g)
               PROVE  (Won(tree, p, r) \/ (Turn(l, g) /\ Values(tree, p) = {} /\ \E n \in 1..Len(calls) : Owes(calls[n], p, r)))'
    BY <1>0, <1>9, <1>10 DEF WinInv
  <2>1. CASE Won(tree, p, r)
    BY <1>0, <1>4, <2>1 DEF Won
  <2>2. CASE Turn(l, g) /\ Values(tree, p) = {} /\ \E n \in 1..Len(calls) : Owes(calls[n], p, r)
    <3>1. PICK n \in 1..Len(calls) : Owes(calls[n], p, r)
      BY <2>2
    <3>2. \E m \in 1..Len(calls') : Owes(calls'[m], p, r)
      <4>1. CASE n = Len(calls)
        <5>1. Owes(Top, p, r) /\ l = Level /\ g = Group
          BY <1>1, <1>9, <2>2, <3>1, <4>1
        <5> QED BY <1>14, <2>2, <5>1
      <4>2. CASE n # Len(calls)
        <5>1. n \in 1..Len(calls)-1 /\ n \in 1..Len(calls')
          BY <1>1, <1>8, <1>12, <4>2
        <5> QED BY <1>8, <3>1, <5>1
      <4> QED BY <4>1, <4>2
    <3>3. PICK m \in 1..Len(calls') : Owes(calls'[m], p, r)
      BY <3>2
    <3>4. Owes(calls[m], p, r)'
      BY <1>0, <3>3 DEF Owes
    <3>5. Turn(l, g)' /\ Values(tree, p)' = {}
      BY <1>4, <1>9, <2>2
    <3> QED BY <3>4, <3>5
  <2>3. Won(tree, p, r) \/ (Turn(l, g) /\ Values(tree, p) = {} /\ \E n \in 1..Len(calls) : Owes(calls[n], p, r))
    BY DEF WinInv
  <2> QED BY <2>1, <2>2, <2>3
<1> QED BY <1>8, <1>9, <1>11, <1>15

LEMMA ConcatIs ==
  ASSUME NEW S, NEW p \in Seq(S), NEW x \in Seq(S)
  PROVE  /\ p \o x \in Seq(S) /\ Len(p \o x) = Len(p) + Len(x) /\ Len(p) \in Nat /\ Len(x) \in Nat
         /\ \A i \in 1..Len(p) : (p \o x)[i] = p[i]
         /\ \A i \in Len(p)+1..Len(p)+Len(x) : (p \o x)[i] = x[i - Len(p)]
         /\ IsPrefix(p, p \o x)
<1> DEFINE q == p \o x
<1>1. /\ Len(p) \in Nat /\ Len(x) \in Nat /\ q \in Seq(S) /\ Len(q) = Len(p) + Len(x)
      /\ \A i \in 1..Len(p) + Len(x) : q[i] = IF i <= Len(p) THEN p[i] ELSE x[i - Len(p)]
  BY ConcatProperties, LenProperties
<1> HIDE DEF q
<1>2. /\ \A i \in 1..Len(p) : q[i] = p[i]
      /\ \A i \in Len(p)+1..Len(p)+Len(x) : q[i] = x[i - Len(p)]
  BY <1>1
<1>3. IsPrefix(p, q)
  <2>1. Len(p) <= Len(q)
    BY <1>1
  <2> QED BY <1>1, <1>2, <2>1, PrefixIs
<1> QED BY <1>1, <1>2, <1>3 DEF q

LEMMA BelowIs ==
  ASSUME NEW S, NEW p \in Seq(S), NEW q \in Seq(S), IsPrefix(p, q)
  PROVE  \E x \in Seq(S) : q = p \o x
<1>1. CASE q = p
  <2>1. <<>> \in Seq(S) /\ p \o <<>> = p
    BY EmptySeq, ConcatEmptySeq
  <2> QED BY <1>1, <2>1
<1>2. CASE q # p
  <2> DEFINE x == SubSeq(q, Len(p) + 1, Len(q))
  <2>1. x \in Seq(S) \ {<<>>} /\ q = p \o x
    BY <1>2, Remainder
  <2> HIDE DEF x
  <2> QED BY <2>1
<1> QED BY <1>1, <1>2

\* The step of _fill plants what it visits.
Planting == calls # <<>> /\ Top.keys # {} /\ ~Top.wildcard /\ Visited \notin Controls \cup Wildcards /\ ~Has(tree, To)

(* What is planted, where and for whom.                                    *)
LEMMA PlantingIs ==
  ASSUME Stage, Planting, TurnInv, CallsInv
  PROVE  /\ Top.target \in Seq(Words) /\ Top.src \in Seq(Words) /\ To \in Seq(Words) /\ From \in Seq(Words) /\ Visited \in Words
         /\ Len(Top.target) \in Nat /\ Len(Top.src) = Len(Top.target) + 2 /\ Len(To) = Len(Top.target) + 1 /\ Len(From) = Len(Top.target) + 3
         /\ To = Append(Top.target, Visited) /\ From = Append(Top.src, Visited)
         /\ IsPrefix(Top.target, To) /\ IsPrefix(Top.src, From)
         /\ Covers(Top.src, Top.target) /\ Has(parsed, Top.src) /\ Has(tree, Top.target)
         /\ IsPrefix(<<"groups", Group>>, Top.src) /\ IsPrefix(<<"groups", Group>>, From) /\ Has(parsed, From) /\ Has(tree, From)
         /\ From # <<>> /\ From[1] = "groups"
         /\ Visited \in Values(parsed, Top.src)
         /\ IsPrefix(Level, Top.target) /\ Level \in Levels(parsed) /\ Level \in Seq(Words) /\ Group \in Applied(parsed, Level) /\ Group \in Words
         /\ Reached(Level, Group)
         /\ \A i \in Len(Level)..Len(Top.target) : Group \notin Keys(parsed, Append(SubSeq(Top.target, 1, i), "apply-groups-except"))
<1>1. calls # <<>> /\ Top.keys # {} /\ ~Top.wildcard /\ Visited \notin Controls \cup Wildcards
  BY DEF Planting
<1>2. /\ Top.target \in Seq(Words) /\ Top.src \in Seq(Words) /\ To \in Seq(Words) /\ From \in Seq(Words) /\ Visited \in Words
      /\ Len(Top.target) \in Nat /\ CallInv(Top, Level, Group)
      /\ Has(tree, Top.target) /\ Has(tree, From) /\ Has(parsed, From) /\ From # <<>> /\ From[1] = "groups"
      /\ IsPrefix(<<"groups", Group>>, From)
      /\ Visited \in Top.keys /\ Top.keys \subseteq Keys(parsed, Top.src) /\ From = Append(Top.src, Visited)
      /\ Level \in Levels(parsed) /\ Level \in Seq(Words) /\ Group \in Applied(parsed, Level) /\ Group \in Words
      /\ Reached(Level, Group)
  BY <1>1, FillFacts
<1>3. /\ IsPrefix(Level, Top.target) /\ Has(parsed, Top.src) /\ IsPrefix(<<"groups", Group>>, Top.src)
      /\ Len(Top.src) = Len(Top.target) + 2
      /\ Covers(SubSeq(Top.src, 1, Len(Top.target) + 2), Top.target)
      /\ \A i \in Len(Level)..Len(Top.target) : Group \notin Keys(parsed, Append(SubSeq(Top.target, 1, i), "apply-groups-except"))
  BY <1>1, <1>2 DEF CallInv
<1>4. SubSeq(Top.src, 1, Len(Top.target) + 2) = Top.src
  BY <1>2, <1>3, SubSeqFull
<1>5. To = Append(Top.target, Visited)
  BY DEF To
<1> DEFINE t == Top.target
           s == Top.src
<1>6. t \in Seq(Words) /\ s \in Seq(Words) /\ Visited \in Words /\ To = Append(t, Visited) /\ From = Append(s, Visited)
      /\ Len(t) \in Nat /\ Len(s) = Len(t) + 2
  BY <1>2, <1>3, <1>5
<1> HIDE DEF t, s
<1>7. Len(To) = Len(t) + 1 /\ Len(From) = Len(s) + 1 /\ IsPrefix(t, To) /\ IsPrefix(s, From)
  BY <1>6, AppendProperties, PrefixAppend
<1>8. Len(From) = Len(t) + 3
  BY <1>6, <1>7
<1>9. Visited \in Values(parsed, Top.src)
  BY <1>1, <1>2 DEF Values
<1> QED BY <1>2, <1>3, <1>4, <1>5, <1>7, <1>8, <1>9 DEF t, s

(* Nothing was written below the planted node.                             *)
LEMMA PlantedIsNew ==
  ASSUME Stage, Planting, NEW q \in Seq(Words), IsPrefix(To, q), To \in Seq(Words)
  PROVE  ~Has(parsed, q) /\ ~Has(tree, q)
<1>1. ~Has(tree, To)
  BY DEF Planting
<1>2. TreeOver(Words, tree) /\ TreeOver(Words, parsed) /\ Extends(parsed, tree)
  BY Worded DEF Stage
<1>3. ~Has(parsed, To)
  BY <1>1, <1>2 DEF Has, Extends
<1> QED BY <1>1, <1>2, <1>3, NodesOnItsPath

(* The group's subtree covers the planted one, and nothing else of the     *)
(* group covers it or its node.                                            *)
LEMMA PlantedIsCovered ==
  ASSUME Stage, Planting, TurnInv, CallsInv, NEW x \in Seq(Words)
  PROVE  Covers(From \o x, To \o x)
<1>1. /\ Top.target \in Seq(Words) /\ Top.src \in Seq(Words) /\ To \in Seq(Words) /\ From \in Seq(Words) /\ Visited \in Words
      /\ Len(Top.target) \in Nat /\ Len(To) = Len(Top.target) + 1 /\ Len(From) = Len(Top.target) + 3
      /\ To = Append(Top.target, Visited) /\ From = Append(Top.src, Visited) /\ Covers(Top.src, Top.target)
  BY PlantingIs
<1>2. Covers(From, To)
  <2>1. Covers(Append(Top.src, Visited), Append(Top.target, Visited))
    BY <1>1, CoversOneMore
  <2> QED BY <1>1, <2>1
<1> DEFINE n == Len(To)
           p == To \o x
           r == From \o x
<1>3. /\ n \in Nat /\ Len(From) = n + 2 /\ Len(x) \in Nat
      /\ p \in Seq(Words) /\ Len(p) = n + Len(x) /\ (\A i \in 1..n : p[i] = To[i]) /\ (\A i \in n+1..n+Len(x) : p[i] = x[i - n])
      /\ IsPrefix(To, p)
  <2>1. To \in Seq(Words) /\ Len(To) = Len(Top.target) + 1 /\ Len(From) = Len(Top.target) + 3 /\ Len(Top.target) \in Nat
    BY <1>1
  <2>2. /\ p \in Seq(Words) /\ Len(p) = n + Len(x) /\ n \in Nat /\ Len(x) \in Nat
        /\ (\A i \in 1..n : p[i] = To[i]) /\ (\A i \in n+1..n+Len(x) : p[i] = x[i - n])
        /\ IsPrefix(To, p)
    <3> HIDE DEF r
    <3> QED BY <2>1, ConcatIs
  <2>3. Len(From) = n + 2
    BY <2>1
  <2> QED BY <2>2, <2>3
<1>4. /\ r \in Seq(Words) /\ Len(r) = Len(From) + Len(x) /\ (\A i \in 1..Len(From) : r[i] = From[i])
      /\ (\A i \in Len(From)+1..Len(From)+Len(x) : r[i] = x[i - Len(From)])
  <2>1. From \in Seq(Words)
    BY <1>1
  <2> HIDE DEF n, p
  <2> QED BY <2>1, ConcatIs
<1> HIDE DEF n, p, r
<1>5. ASSUME NEW i \in 1..Len(p)
      PROVE  r[i + 2] = p[i] \/ (r[i + 2] \in Wildcards /\ p[i] \in Matches[r[i + 2]] /\ Has(parsed, SubSeq(p, 1, i)))
  <2>1. CASE i <= n
    <3>1. i \in 1..n /\ i + 2 \in 1..Len(From) /\ i \in 0..Len(To)
      BY <1>3, <2>1 DEF n
    <3>2. From[i + 2] = To[i] \/ (From[i + 2] \in Wildcards /\ To[i] \in Matches[From[i + 2]] /\ Has(parsed, SubSeq(To, 1, i)))
      BY <1>2, <3>1 DEF Covers, n
    <3>3. SubSeq(To, 1, i) = SubSeq(p, 1, i)
      BY <1>1, <1>3, <3>1, SameBeginning
    <3>4. r[i + 2] = From[i + 2] /\ p[i] = To[i]
      BY <1>3, <1>4, <3>1
    <3> QED BY <3>2, <3>3, <3>4
  <2>2. CASE ~(i <= n)
    <3>1. i \in n+1..n+Len(x) /\ i + 2 \in Len(From)+1..Len(From)+Len(x) /\ i + 2 - Len(From) = i - n
      BY <1>3, <2>2
    <3>2. p[i] = x[i - n] /\ r[i + 2] = x[i + 2 - Len(From)]
      BY <1>3, <1>4, <3>1
    <3> QED BY <3>1, <3>2
  <2> QED BY <2>1, <2>2
<1>6. Len(r) = Len(p) + 2
  BY <1>3, <1>4
<1>7. Covers(r, p)
  BY <1>5, <1>6 DEF Covers
<1> QED BY <1>7 DEF r, p

LEMMA OnlyPlanted ==
  ASSUME Stage, Planting, TurnInv, CallsInv, NEW p \in Seq(Words), NEW r, Contributes(Level, Group, r, p),
         IsPrefix(Top.target, p)
  PROVE  /\ IsPrefix(Top.src, r)
         /\ p = Top.target => r = Top.src
         /\ \A x \in Seq(Words) : p = To \o x => r = From \o x
<1>0. TypeInv /\ TreeOver(Words, parsed)
  BY Worded DEF Stage
<1>1. /\ Top.target \in Seq(Words) /\ Top.src \in Seq(Words) /\ To \in Seq(Words) /\ From \in Seq(Words) /\ Visited \in Words
      /\ Len(Top.target) \in Nat /\ Len(Top.src) = Len(Top.target) + 2 /\ Len(To) = Len(Top.target) + 1 /\ Len(From) = Len(Top.target) + 3
      /\ To = Append(Top.target, Visited) /\ From = Append(Top.src, Visited) /\ Covers(Top.src, Top.target)
      /\ Has(parsed, Top.src) /\ IsPrefix(<<"groups", Group>>, Top.src) /\ Has(tree, Top.target) /\ Group \in Words
  BY PlantingIs
<1>2. /\ r \in Seq(Words) /\ Has(parsed, r) /\ IsPrefix(<<"groups", Group>>, r) /\ Covers(r, p)
      /\ Len(r) \in Nat /\ Len(p) \in Nat /\ Len(r) = Len(p) + 2
  BY <1>0, ReachingIs
<1> DEFINE t == Top.target
           s == Top.src
           n == Len(t)
<1>3. /\ t \in Seq(Words) /\ s \in Seq(Words) /\ n \in Nat /\ Len(s) = n + 2 /\ IsPrefix(t, p) /\ Covers(s, t) /\ Has(tree, t)
      /\ Has(parsed, s) /\ IsPrefix(<<"groups", Group>>, s)
      /\ To = Append(t, Visited) /\ From = Append(s, Visited) /\ Len(To) = n + 1 /\ Len(From) = n + 3
  BY <1>1
<1> HIDE DEF t, s
<1> DEFINE b == SubSeq(r, 1, n + 2)
<1>4. n <= Len(p) /\ n + 2 \in 0..Len(r)
  BY <1>2, <1>3, PrefixIs
<1>5. b \in Seq(Words) /\ Len(b) = n + 2 /\ IsPrefix(b, r) /\ Covers(b, t)
  BY <1>2, <1>3, <1>4, Initial, InitialPrefix, CoversBeginning
<1> HIDE DEF b
<1>6. Has(parsed, b) /\ IsPrefix(<<"groups", Group>>, b)
  <2>1. "groups" \in Words
    BY DEF Words
  <2>2. <<"groups", Group>> \in Seq(Words) /\ Len(<<"groups", Group>>) = 2
    BY <1>1, <2>1
  <2> DEFINE g == <<"groups", Group>>
  <2>3. g \in Seq(Words) /\ Len(g) = 2 /\ IsPrefix(g, r)
    BY <1>2, <2>2
  <2> HIDE DEF g
  <2>4. Len(g) <= Len(b)
    BY <1>3, <1>5, <2>3
  <2>5. IsPrefix(g, b)
    BY <1>2, <1>5, <2>3, <2>4, PrefixesOfOne
  <2>6. Has(parsed, b)
    BY <1>0, <1>2, <1>5, NodesOnItsPath
  <2> QED BY <2>5, <2>6 DEF g
<1>7. b = s
  BY <1>1, <1>3, <1>5, <1>6, OneCovers
<1>8. IsPrefix(s, r)
  BY <1>5, <1>7
<1>9. ASSUME p = t
      PROVE  r = s
  <2>1. Len(s) = Len(r) /\ IsPrefix(r, r)
    BY <1>2, <1>3, <1>9, PrefixIs
  <2> QED BY <1>2, <1>3, <1>8, <2>1, PrefixesOfOne
<1>10. ASSUME NEW x \in Seq(Words), p = To \o x
       PROVE  r = From \o x
  <2> DEFINE q == From \o x
  <2>1. /\ Len(p) = n + 1 + Len(x) /\ Len(x) \in Nat /\ (\A i \in 1..n+1 : p[i] = To[i]) /\ IsPrefix(To, p)
        /\ \A i \in n+2..n+1+Len(x) : p[i] = x[i - (n + 1)]
    <3> HIDE DEF q
    <3>1. To \in Seq(Words)
      BY <1>1
    <3>2. /\ Len(p) = Len(To) + Len(x) /\ Len(x) \in Nat /\ (\A i \in 1..Len(To) : p[i] = To[i]) /\ IsPrefix(To, p)
          /\ \A i \in Len(To)+1..Len(To)+Len(x) : p[i] = x[i - Len(To)]
      BY <1>10, <3>1, ConcatIs
    <3> QED BY <1>3, <3>2
  <2>2. /\ q \in Seq(Words) /\ Len(q) = n + 3 + Len(x) /\ (\A i \in 1..n+3 : q[i] = From[i])
        /\ \A i \in n+4..n+3+Len(x) : q[i] = x[i - (n + 3)]
    <3>1. From \in Seq(Words)
      BY <1>1
    <3>2. /\ q \in Seq(Words) /\ Len(q) = Len(From) + Len(x) /\ (\A i \in 1..Len(From) : q[i] = From[i]) /\ Len(x) \in Nat
          /\ \A i \in Len(From)+1..Len(From)+Len(x) : q[i] = x[i - Len(From)]
      BY <3>1, ConcatIs
    <3> HIDE DEF q
    <3> QED BY <1>3, <3>2
  <2> HIDE DEF q
  <2>3. To[n + 1] = Visited /\ From[n + 3] = Visited /\ \A i \in 1..n+2 : From[i] = s[i]
    <3>1. To[n + 1] = Visited
      BY <1>1, <1>3, AppendProperties
    <3>2. From[Len(s) + 1] = Visited /\ \A i \in 1..Len(s) : From[i] = s[i]
      BY <1>1, <1>3, AppendProperties
    <3>3. Len(s) + 1 = n + 3
      BY <1>3
    <3> QED BY <1>3, <3>1, <3>2, <3>3
  <2>4. ASSUME NEW i \in n+1..Len(p)
        PROVE  r[i + 2] = p[i]
    <3>1. i \in 1..Len(p) /\ i \in 0..Len(p) /\ Len(To) <= i
      BY <1>2, <1>3, <2>1
    <3> DEFINE c == SubSeq(p, 1, i)
    <3>2. c \in Seq(Words) /\ Len(c) = i /\ IsPrefix(c, p)
      BY <3>1, Initial, InitialPrefix
    <3> HIDE DEF c
    <3>3. IsPrefix(To, c)
      BY <1>1, <2>1, <3>1, <3>2, PrefixesOfOne
    <3>4. ~Has(parsed, c)
      BY <1>1, <3>2, <3>3, PlantedIsNew
    <3> QED BY <1>2, <3>1, <3>4 DEF Covers, c
  <2>5. \A i \in 1..n+2 : r[i] = s[i]
    <3>1. \A i \in 1..Len(s) : s[i] = r[i]
      BY <1>2, <1>3, <1>8, PrefixIs
    <3> QED BY <1>3, <3>1
  <2>6. ASSUME NEW i \in 1..Len(q)
        PROVE  r[i] = q[i]
    <3>1. CASE i <= n + 2
      <4>1. i \in 1..n+2 /\ i \in 1..n+3
        BY <1>3, <3>1
      <4> QED BY <2>2, <2>3, <2>5, <4>1
    <3>2. CASE i = n + 3
      <4>1. n + 1 \in n+1..Len(p) /\ n + 1 + 2 = n + 3 /\ n + 1 \in 1..n+1 /\ n + 3 \in 1..n+3
        BY <1>3, <2>1
      <4>2. r[n + 3] = p[n + 1]
        BY <2>4, <4>1
      <4>3. p[n + 1] = To[n + 1] /\ q[n + 3] = From[n + 3]
        BY <2>1, <2>2, <4>1
      <4> QED BY <2>3, <3>2, <4>2, <4>3
    <3>3. CASE i > n + 3
      <4>1. i - 2 \in n+1..Len(p) /\ i - 2 + 2 = i /\ i - 2 \in n+2..n+1+Len(x) /\ i \in n+4..n+3+Len(x) /\ i - 2 - (n + 1) = i - (n + 3)
        BY <1>3, <2>1, <2>2, <3>3
      <4>2. r[i] = p[i - 2]
        BY <2>4, <4>1
      <4>3. p[i - 2] = x[i - (n + 3)] /\ q[i] = x[i - (n + 3)]
        BY <2>1, <2>2, <4>1
      <4> QED BY <4>2, <4>3
    <3> QED BY <1>3, <2>2, <3>1, <3>2, <3>3
  <2>7. Len(r) = Len(q)
    BY <1>2, <1>3, <2>1, <2>2
  <2>8. r = q
    BY <1>2, <2>2, <2>6, <2>7, SeqEqual
  <2> QED BY <2>8 DEF q
<1> QED BY <1>8, <1>9, <1>10 DEF t, s

(* The values of the tree after planting. *)
LEMMA PlantedValues ==
  ASSUME Stage, Planting, TurnInv, CallsInv, NEW u, u = Planted(tree, From, To)
  PROVE  /\ TreeOver(Words, u) /\ Extends(tree, u)
         /\ \A x \in Seq(Words) :
              /\ Values(u, To \o x) = Values(parsed, From \o x)
              /\ Values(parsed, From \o x) # {} =>
                   First(u, To \o x, Values(parsed, From \o x)) = First(parsed, From \o x, Values(parsed, From \o x))
         /\ \A q \in Seq(Words) : ~IsPrefix(To, q) /\ q # Top.target => Keys(u, q) = Keys(tree, q)
         /\ Values(u, Top.target) = Values(tree, Top.target) \cup {Visited}
<1>1. /\ Top.target \in Seq(Words) /\ To \in Seq(Words) /\ From \in Seq(Words) /\ Visited \in Words
      /\ Len(Top.target) \in Nat /\ Len(To) = Len(Top.target) + 1
      /\ To = Append(Top.target, Visited) /\ Has(tree, Top.target) /\ Has(tree, From) /\ From # <<>> /\ From[1] = "groups"
      /\ Visited \notin Controls \cup Wildcards /\ ~Has(tree, To)
  BY PlantingIs DEF Planting
<1>2. TreeOver(Words, tree) /\ TypeInv
  BY Worded DEF Stage
<1> DEFINE t == Top.target
           f == From
           k == Visited
<1>3. /\ t \in Seq(Words) /\ f \in Seq(Words) /\ k \in Words /\ To = Append(t, k) /\ Has(tree, t) /\ Has(tree, f)
      /\ ~Has(tree, Append(t, k)) /\ u = Planted(tree, f, Append(t, k))
  BY <1>1
<1> HIDE DEF t, f, k
<1>4. TreeOver(Words, u) /\ Extends(tree, u)
  BY <1>2, <1>3, PlantedNodes
<1>5. /\ \A x \in Seq(Words) :
                  /\ Keys(u, To \o x) = Keys(tree, f \o x)
                  /\ \A keys : keys \subseteq Keys(tree, f \o x) /\ keys # {} =>
                       First(u, To \o x, keys) = First(tree, f \o x, keys)
      /\ \A q \in Seq(Words) : ~IsPrefix(To, q) => Keys(u, q) = Keys(tree, q) \cup (IF q = t THEN {k} ELSE {})
  BY <1>2, <1>3, PlantedKeys
<1>6. ASSUME NEW x \in Seq(Words)
      PROVE  /\ Values(u, To \o x) = Values(parsed, From \o x)
             /\ Values(parsed, From \o x) # {} =>
                   First(u, To \o x, Values(parsed, From \o x)) = First(parsed, From \o x, Values(parsed, From \o x))
  <2> DEFINE r == From \o x
  <2>1. r \in Seq(Words) /\ r # <<>> /\ r[1] = "groups"
    <3>1. /\ r \in Seq(Words) /\ Len(r) = Len(From) + Len(x) /\ Len(From) \in Nat /\ Len(x) \in Nat
          /\ \A i \in 1..Len(From) : r[i] = From[i]
      <4>1. From \in Seq(Words)
        BY <1>1
      <4> QED BY <4>1, ConcatIs
    <3>2. Len(From) > 0
      BY <1>1, <3>1, EmptySeq
    <3> HIDE DEF r
    <3>3. r[1] = "groups"
      <4>1. 1 \in 1..Len(From)
        BY <3>1, <3>2
      <4>2. r[1] = From[1]
        BY <3>1, <4>1
      <4> QED BY <1>1, <4>2
    <3>4. Len(r) > 0
      BY <3>1, <3>2
    <3> QED BY <3>1, <3>3, <3>4, EmptySeq
  <2>2. Keys(u, To \o x) = Keys(tree, r)
    BY <1>5 DEF f
  <2> HIDE DEF r
  <2>3. /\ Keys(tree, r) = Keys(parsed, r)
        /\ \A keys : keys \subseteq Keys(parsed, r) /\ keys # {} => First(tree, r, keys) = First(parsed, r, keys)
    BY <2>1, AsWritten
  <2>4. Values(u, To \o x) = Values(parsed, r)
    BY <2>2, <2>3 DEF Values
  <2>5. ASSUME Values(parsed, r) # {}
        PROVE  First(u, To \o x, Values(parsed, r)) = First(parsed, r, Values(parsed, r))
    <3> DEFINE keys == Values(parsed, r)
    <3>1. keys # {} /\ keys \subseteq Keys(parsed, r)
      BY <2>5 DEF Values
    <3> HIDE DEF keys
    <3>2. First(u, To \o x, keys) = First(tree, r, keys)
      BY <1>5, <2>3, <3>1 DEF f, r
    <3>3. First(tree, r, keys) = First(parsed, r, keys)
      BY <2>3, <3>1
    <3> QED BY <3>2, <3>3 DEF keys
  <2> QED BY <2>4, <2>5 DEF r
<1>7. ASSUME NEW q \in Seq(Words), ~IsPrefix(To, q), q # Top.target
      PROVE  Keys(u, q) = Keys(tree, q)
  BY <1>5, <1>7 DEF t
<1>8. Values(u, Top.target) = Values(tree, Top.target) \cup {Visited}
  <2>1. ~IsPrefix(To, t)
    <3>1. ~(Len(To) <= Len(t)) /\ To \in Seq(Words) /\ t \in Seq(Words)
      BY <1>1, <1>3 DEF t
    <3> QED BY <3>1, PrefixIs
  <2>2. Keys(u, t) = Keys(tree, t) \cup {k}
    BY <1>3, <1>5, <2>1
  <2> QED BY <1>1, <2>2 DEF Values, t, k
<1> QED BY <1>4, <1>6, <1>7, <1>8

(* The turn contributes what it plants. *)
LEMMA PlantedContributes ==
  ASSUME Stage, Planting, TurnInv, CallsInv
  PROVE  /\ Contributes(Level, Group, Top.src, Top.target)
         /\ \A x \in Seq(Words) : Values(parsed, From \o x) # {} => Contributes(Level, Group, From \o x, To \o x)
<1>1. /\ Top.target \in Seq(Words) /\ Top.src \in Seq(Words) /\ To \in Seq(Words) /\ From \in Seq(Words) /\ Visited \in Words
      /\ Len(Top.target) \in Nat /\ Len(To) = Len(Top.target) + 1 /\ IsPrefix(Top.target, To)
      /\ Covers(Top.src, Top.target) /\ Has(parsed, Top.src) /\ IsPrefix(<<"groups", Group>>, Top.src)
      /\ IsPrefix(<<"groups", Group>>, From) /\ Visited \in Values(parsed, Top.src)
      /\ IsPrefix(Level, Top.target) /\ Level \in Levels(parsed) /\ Level \in Seq(Words) /\ Group \in Applied(parsed, Level) /\ Group \in Words
      /\ \A i \in Len(Level)..Len(Top.target) : Group \notin Keys(parsed, Append(SubSeq(Top.target, 1, i), "apply-groups-except"))
  BY PlantingIs
<1>2. TreeOver(Words, parsed) /\ "groups" \in Words /\ Controls \subseteq Words
  BY Worded DEF Stage
<1>3. <<"groups", Group>> \in Seq(Words) /\ <<"groups", Group>> # <<>>
  BY <1>1, <1>2
<1>4. Len(Level) \in Nat
  BY <1>1, LenProperties
<1>5. Contributes(Level, Group, Top.src, Top.target)
  <2>1. Top.src \in parsed.nodes
    <3>1. Top.src # <<>>
      BY <1>1, <1>2, OfGroup
    <3> QED BY <1>1, <3>1 DEF Has
  <2>2. Top.src \in Reaching(Top.target, Level, Group)
    BY <1>1, <2>1 DEF Reaching
  <2> QED BY <1>1, <2>2 DEF Contributes
<1>6. ASSUME NEW x \in Seq(Words), Values(parsed, From \o x) # {}
      PROVE  Contributes(Level, Group, From \o x, To \o x)
  <2> DEFINE r == From \o x
             p == To \o x
  <2>1. r \in Seq(Words) /\ IsPrefix(From, r)
    <3>1. From \in Seq(Words)
      BY <1>1
    <3> QED BY <3>1, ConcatIs
  <2>2. p \in Seq(Words) /\ IsPrefix(To, p) /\ Len(p) \in Nat
    <3>1. To \in Seq(Words)
      BY <1>1
    <3> QED BY <3>1, ConcatIs, LenProperties
  <2>3. Covers(r, p)
    BY PlantedIsCovered
  <2>4. Values(parsed, r) # {}
    BY <1>6
  <2> HIDE DEF r, p
  <2> DEFINE g == <<"groups", Group>>
  <2>5. g \in Seq(Words) /\ g # <<>> /\ IsPrefix(g, From)
    BY <1>1, <1>3
  <2>6. IsPrefix(g, r)
    <3> HIDE DEF g
    <3> QED BY <1>1, <2>1, <2>5, PrefixTransitive
  <2>7. r \in parsed.nodes
    <3>1. Has(parsed, r)
      <4>1. Keys(parsed, r) # {}
        BY <2>4 DEF Values
      <4> QED BY <1>2, <2>1, <4>1, KeysOfNode
    <3>2. r # <<>>
      BY <1>1, <1>2, <2>1, <2>6, OfGroup
    <3> QED BY <3>1, <3>2 DEF Has
  <2>8. IsPrefix(Top.target, p)
    BY <1>1, <2>2, PrefixTransitive
  <2>9. IsPrefix(Level, p)
    BY <1>1, <2>2, <2>8, PrefixTransitive
  <2>10. \A i \in Len(Level)..Len(p) : Group \notin Keys(parsed, Append(SubSeq(p, 1, i), "apply-groups-except"))
    <3> TAKE i \in Len(Level)..Len(p)
    <3>1. CASE i <= Len(Top.target)
      <4>1. i \in Len(Level)..Len(Top.target) /\ i \in 0..Len(Top.target)
        BY <1>1, <1>4, <3>1
      <4>2. SubSeq(Top.target, 1, i) = SubSeq(p, 1, i)
        BY <1>1, <2>2, <2>8, <4>1, SameBeginning
      <4> QED BY <1>1, <4>1, <4>2
    <3>2. CASE ~(i <= Len(Top.target))
      <4> DEFINE c == SubSeq(p, 1, i)
                 e == Append(c, "apply-groups-except")
      <4>1. i \in 0..Len(p) /\ Len(To) <= i
        BY <1>1, <1>4, <2>2, <3>2
      <4>2. c \in Seq(Words) /\ Len(c) = i /\ IsPrefix(c, p)
        BY <2>2, <4>1, Initial, InitialPrefix
      <4> HIDE DEF c
      <4>3. IsPrefix(To, c)
        BY <1>1, <2>2, <4>1, <4>2, PrefixesOfOne
      <4>4. e \in Seq(Words) /\ IsPrefix(c, e)
        BY <1>2, <4>2, AppendProperties, PrefixAppend DEF Controls
      <4> HIDE DEF e
      <4>5. IsPrefix(To, e)
        BY <1>1, <4>2, <4>3, <4>4, PrefixTransitive
      <4>6. ~Has(parsed, e)
        BY <1>1, <4>4, <4>5, PlantedIsNew
      <4>7. Keys(parsed, e) = {}
        BY <1>2, <4>4, <4>6, KeysOfNode
      <4> QED BY <4>7 DEF e, c
    <3> QED BY <3>1, <3>2
  <2>11. r \in Reaching(p, Level, Group)
    BY <1>1, <2>3, <2>6, <2>7, <2>9, <2>10 DEF Reaching
  <2> QED BY <1>1, <2>4, <2>11 DEF Contributes, r, p
<1> QED BY <1>5, <1>6

(* Only the innermost call is on its way to what is planted or its node.   *)
LEMMA InnermostOwes ==
  ASSUME Stage, Planting, TurnInv, CallsInv, NEW p \in Seq(Words), NEW r, Contributes(Level, Group, r, p),
         IsPrefix(Top.target, p), NEW n \in 1..Len(calls), Owes(calls[n], p, r)
  PROVE  n = Len(calls)
<1>0. TypeInv /\ calls # <<>> /\ Top.keys # {} /\ ~Top.wildcard
  BY DEF Stage, Planting
<1>1. /\ Top.target \in Seq(Words) /\ Top.src \in Seq(Words) /\ Len(Top.target) \in Nat /\ Len(Top.src) = Len(Top.target) + 2
  BY PlantingIs
<1>2. r \in Seq(Words) /\ IsPrefix(Top.src, r)
  BY <1>0, ReachingIs, OnlyPlanted
<1>3. Len(calls) \in Nat \ {0} /\ Top = calls[Len(calls)]
  BY <1>0, FillFacts
<1>4. SUFFICES ASSUME n # Len(calls)
               PROVE  FALSE
  OBVIOUS
<1> DEFINE c == calls[n]
           t == Top.target
           s == Top.src
<1>5. n < Len(calls) /\ Len(calls) \in 1..Len(calls)
  BY <1>3, <1>4
<1>6. Within(c, Top) /\ Len(c.src) = Len(c.target) + 2 + (IF c.wildcard THEN 1 ELSE 0) /\ Owes(c, p, r)
      /\ c.target \in Seq(Words) /\ c.src \in Seq(Words) /\ c.wildcard \in BOOLEAN
  BY <1>0, <1>3, <1>5, Worded DEF CallsInv, CallInv
<1>7. /\ t \in Seq(Words) /\ s \in Seq(Words) /\ Len(t) \in Nat /\ Len(s) = Len(t) + 2 /\ IsPrefix(t, p) /\ IsPrefix(s, r)
      /\ IsPrefix(c.target, t) /\ IsPrefix(c.src, s)
      /\ c.wildcard => Len(c.target) < Len(t) /\ t[Len(c.target) + 1] \notin c.keys
      /\ ~c.wildcard => Len(c.src) < Len(s) /\ s[Len(c.src) + 1] \notin c.keys
  BY <1>1, <1>2, <1>6 DEF Within
<1> HIDE DEF c, t, s
<1>8. /\ Len(c.target) \in Nat /\ Len(p) \in Nat /\ Len(t) <= Len(p) /\ \A i \in 1..Len(t) : t[i] = p[i]
      /\ Len(s) <= Len(r) /\ \A i \in 1..Len(s) : s[i] = r[i]
  BY <1>2, <1>6, <1>7, PrefixIs, LenProperties
<1>9. CASE c.wildcard
  <2>1. p[Len(c.target) + 1] \in c.keys
    BY <1>6, <1>9 DEF Owes
  <2>2. Len(c.target) + 1 \in 1..Len(t)
    BY <1>7, <1>8, <1>9
  <2> QED BY <1>7, <1>8, <1>9, <2>1, <2>2
<1>10. CASE ~c.wildcard
  <2>1. Len(c.src) = Len(c.target) + 2
    BY <1>6, <1>8, <1>10
  <2>2. Len(c.target) < Len(t) /\ Len(c.src) + 1 = Len(c.target) + 3 /\ Len(c.src) + 1 \in 1..Len(s)
    BY <1>7, <1>8, <1>10, <2>1
  <2>3. c.target # p
    BY <1>8, <2>2
  <2>4. r[Len(c.target) + 3] \in c.keys
    BY <1>6, <1>10, <2>3 DEF Owes
  <2>5. r[Len(c.src) + 1] \in c.keys /\ s[Len(c.src) + 1] = r[Len(c.src) + 1]
    BY <1>8, <2>2, <2>4
  <2> QED BY <1>7, <1>10, <2>5
<1> QED BY <1>6, <1>9, <1>10

(* A value that the innermost call owes and plants is the first that its   *)
(* group has.                                                              *)
LEMMA FirstPlanted ==
  ASSUME Stage, Planting, TurnInv, CallsInv, Values(parsed, Top.src) \subseteq Top.keys
  PROVE  First(parsed, Top.src, Values(parsed, Top.src)) = Visited
<1>0. TypeInv /\ TreeOver(Words, tree) /\ calls # <<>> /\ Top.keys # {} /\ ~Top.wildcard
  BY Worded DEF Stage, Planting
<1>1. /\ Top.src \in Seq(Words) /\ Top.src # <<>> /\ Top.src[1] = "groups" /\ Keys(tree, Top.src) = Keys(parsed, Top.src)
      /\ Top.keys \subseteq Keys(parsed, Top.src)
  BY <1>0, FillFacts
<1>2. Visited \in Values(parsed, Top.src)
  BY PlantingIs
<1> DEFINE s == Top.src
           values == Values(parsed, s)
           keys == Top.keys
<1>3. /\ s \in Seq(Words) /\ s # <<>> /\ s[1] = "groups" /\ keys \subseteq Keys(tree, s) /\ keys # {}
      /\ values \subseteq keys /\ values \subseteq Keys(parsed, s) /\ values \subseteq Keys(tree, s) /\ Visited \in values
  BY <1>0, <1>1, <1>2 DEF Values
<1>4. Visited = First(tree, s, keys)
  BY <1>0 DEF Visited
<1> HIDE DEF s, values, keys
<1>5. \A l \in keys \ {Visited} : <<Append(s, Visited), Append(s, l)>> \in tree.earlier
  BY <1>0, <1>3, <1>4, FirstIsFirst
<1>6. First(tree, s, values) = Visited
  <2> DEFINE k == Visited
  <2>1. k \in values /\ \A l \in values \ {k} : <<Append(s, k), Append(s, l)>> \in tree.earlier
    BY <1>3, <1>5
  <2> HIDE DEF k
  <2>2. First(tree, s, values) = k
    BY <1>0, <1>3, <2>1, FirstIs
  <2> QED BY <2>2 DEF k
<1>7. First(tree, s, values) = First(parsed, s, values)
  <2>1. values # {}
    BY <1>3
  <2> QED BY <1>3, <2>1, AsWritten
<1> QED BY <1>6, <1>7 DEF values, s

(* A step of _fill that plants: it does so for the group whose turn it is, *)
(* below its level, and gives what comes first the value it owes.          *)
LEMMA PrecedencePlant ==
  ASSUME Stage, _fill, TurnInv, CallsInv, OriginInv, WinInv,
         ~(Top.wildcard \/ Visited \in Controls \cup Wildcards \/ Has(tree, To))
  PROVE  TurnInv' /\ CallsInv' /\ OriginInv' /\ WinInv'
<1>0. /\ TypeInv /\ TreeOver(Words, tree) /\ Controls \subseteq Words /\ (\A w \in Wildcards : w \notin Controls)
      /\ calls # <<>> /\ Top.keys # {} /\ UNCHANGED <<parsed, pending, inherits>> /\ Planting
  BY Worded, FillIs DEF Stage, Planting
<1>1. calls' = Remaining /\ tree' = Planted(tree, From, To)
  BY <1>0, FillIs DEF Planting
<1>2. /\ Top.target \in Seq(Words) /\ Top.src \in Seq(Words) /\ To \in Seq(Words) /\ From \in Seq(Words) /\ Visited \in Words
      /\ Len(Top.target) \in Nat /\ Len(To) = Len(Top.target) + 1 /\ To = Append(Top.target, Visited) /\ IsPrefix(Top.target, To)
      /\ IsPrefix(Level, Top.target) /\ Level \in Levels(parsed) /\ Level \in Seq(Words)
      /\ Reached(Level, Group)
  BY <1>0, PlantingIs
<1>3. /\ TreeOver(Words, tree') /\ Extends(tree, tree')
      /\ \A x \in Seq(Words) :
           /\ Values(tree', To \o x) = Values(parsed, From \o x)
           /\ Values(parsed, From \o x) # {} =>
                First(tree', To \o x, Values(parsed, From \o x)) = First(parsed, From \o x, Values(parsed, From \o x))
      /\ \A q \in Seq(Words) : ~IsPrefix(To, q) /\ q # Top.target => Keys(tree', q) = Keys(tree, q)
      /\ Values(tree', Top.target) = Values(tree, Top.target) \cup {Visited}
  <2> DEFINE u == tree'
  <2>1. u = Planted(tree, From, To)
    BY <1>1
  <2> HIDE DEF u
  <2>2. /\ TreeOver(Words, u) /\ Extends(tree, u)
        /\ \A x \in Seq(Words) :
             /\ Values(u, To \o x) = Values(parsed, From \o x)
             /\ Values(parsed, From \o x) # {} =>
                  First(u, To \o x, Values(parsed, From \o x)) = First(parsed, From \o x, Values(parsed, From \o x))
        /\ \A q \in Seq(Words) : ~IsPrefix(To, q) /\ q # Top.target => Keys(u, q) = Keys(tree, q)
        /\ Values(u, Top.target) = Values(tree, Top.target) \cup {Visited}
    BY <1>0, <2>1, PlantedValues
  <2> QED BY <2>2 DEF u
<1>4. /\ CallsInv'
      /\ calls' # <<>> /\ calls'[1].target = Level /\ calls'[1].group = Group /\ calls'[1].wildcard = calls[1].wildcard
      /\ Len(calls) <= Len(calls') /\ calls'[Len(calls)] = Kept /\ \A n \in 1..Len(calls)-1 : calls'[n] = calls[n]
  BY <1>0, <1>1, CallsStep
<1>5. ASSUME NEW level \in pending
      PROVE  Keys(tree', Append(level, "apply-groups")) = Keys(tree, Append(level, "apply-groups"))
  <2> DEFINE q == Append(level, "apply-groups")
  <2>1. level \in Seq(Words) /\ level \in Levels(parsed)
    BY <1>0, Worded DEF TurnInv
  <2>2. q \in Seq(Words)
    BY <1>0, <2>1, AppendProperties DEF Controls
  <2>3. ~IsPrefix(Level, level)
    BY <1>2 DEF TurnInv, Reached
  <2>4. Level # q
    <3> SUFFICES ASSUME Level = q
                 PROVE  FALSE
      OBVIOUS
    <3>1. \A i \in 1..Len(q) : q[i] \notin Controls
      BY <1>2 DEF Levels
    <3>2. Len(q) = Len(level) + 1 /\ q[Len(level) + 1] = "apply-groups" /\ Len(level) \in Nat
      <4>1. "apply-groups" \in Words
        BY <1>0 DEF Controls
      <4> QED BY <2>1, <4>1, AppendProperties, LenProperties
    <3> HIDE DEF q
    <3>3. "apply-groups" \notin Controls
      BY <3>1, <3>2
    <3> QED BY <3>3 DEF Controls
  <2>5. ~IsPrefix(Level, q)
    <3>1. "apply-groups" \in Words
      BY <1>0 DEF Controls
    <3> QED BY <1>2, <2>1, <2>3, <2>4, <3>1, PrefixAppend
  <2> HIDE DEF q
  <2>6. q # Top.target
    BY <1>2, <2>5
  <2>7. ~IsPrefix(To, q)
    <3> SUFFICES ASSUME IsPrefix(To, q)
                 PROVE  FALSE
      OBVIOUS
    <3>1. IsPrefix(Level, To)
      BY <1>2, PrefixTransitive
    <3>2. IsPrefix(Level, q)
      BY <1>2, <2>2, <3>1, PrefixTransitive
    <3> QED BY <2>5, <3>2
  <2>8. Keys(tree', q) = Keys(tree, q)
    BY <1>3, <2>2, <2>6, <2>7
  <2> QED BY <2>8 DEF q
<1>6. /\ TurnInv'
      /\ \A l, g : Reached(l, g)' <=> Reached(l, g)
      /\ \A l, g : Turn(l, g)' <=> Turn(l, g)
      /\ \A l, g : Turn(l, g) <=> l = Level /\ g = Group
  BY <1>0, <1>4, <1>5, FillTurns
<1>7. /\ \A l, g, r, p : Contributes(l, g, r, p)' <=> Contributes(l, g, r, p)
      /\ \A l, g, p : Foremost(l, g, p)' <=> Foremost(l, g, p)
  BY <1>0, SameContributes
<1>8. /\ Contributes(Level, Group, Top.src, Top.target)
      /\ \A x \in Seq(Words) : Values(parsed, From \o x) # {} => Contributes(Level, Group, From \o x, To \o x)
  BY <1>0, PlantedContributes
<1>9. OriginInv'
  <2> SUFFICES ASSUME NEW p \in Seq(Words), Plain(p), Values(tree', p) # {}, Values(parsed, p) = {}
               PROVE  \E l, g, r : Contributes(l, g, r, p) /\ Reached(l, g)
    BY <1>0, <1>6, <1>7 DEF OriginInv
  <2>1. CASE IsPrefix(To, p)
    <3>1. PICK x \in Seq(Words) : p = To \o x
      <4>1. To \in Seq(Words)
        BY <1>2
      <4> QED BY <2>1, <4>1, BelowIs
    <3>2. Values(parsed, From \o x) # {}
      BY <1>3, <3>1
    <3>3. Contributes(Level, Group, From \o x, p)
      BY <1>8, <3>1, <3>2
    <3> QED BY <1>2, <3>3
  <2>2. CASE p = Top.target
    BY <1>2, <1>8, <2>2
  <2>3. CASE ~IsPrefix(To, p) /\ p # Top.target
    <3>1. Values(tree, p) # {}
      BY <1>3, <2>3 DEF Values
    <3> QED BY <3>1 DEF OriginInv
  <2> QED BY <2>1, <2>2, <2>3
<1>10. Len(calls') = Len(calls) /\ Len(calls) \in Nat \ {0} /\ Top = calls[Len(calls)]
  BY <1>0, <1>1, KeptIs, FillFacts
<1>11. ASSUME NEW p \in Seq(Words), Plain(p), NEW r, Contributes(Level, Group, r, p), Values(tree, p) = {},
              NEW n \in 1..Len(calls), Owes(calls[n], p, r)
       PROVE  Won(tree', p, r) \/ (Values(tree', p) = {} /\ \E m \in 1..Len(calls') : Owes(calls'[m], p, r))
  <2>1. Values(parsed, r) # {}
    BY <1>11 DEF Contributes
  <2>2. ASSUME IsPrefix(To, p)
        PROVE  Won(tree', p, r)
    <3>1. PICK x \in Seq(Words) : p = To \o x
      <4>1. To \in Seq(Words)
        BY <1>2
      <4> QED BY <2>2, <4>1, BelowIs
    <3>2. IsPrefix(Top.target, p)
      BY <1>2, <2>2, PrefixTransitive
    <3>3. r = From \o x
      BY <1>0, <1>11, <3>1, <3>2, OnlyPlanted
    <3> QED BY <1>3, <2>1, <3>1, <3>3 DEF Won
  <2>3. ASSUME p = Top.target
        PROVE  Won(tree', p, r)
    <3>1. IsPrefix(Top.target, p)
      BY <1>2, <2>3, PrefixIs
    <3>2. r = Top.src
      BY <1>0, <1>11, <2>3, <3>1, OnlyPlanted
    <3>3. Owes(Top, p, r)
      BY <1>0, <1>10, <1>11, <3>1, InnermostOwes
    <3>4. Values(parsed, Top.src) \subseteq Top.keys
      <4>1. ~(Len(Top.target) < Len(p))
        BY <1>2, <2>3
      <4> QED BY <1>0, <3>2, <3>3, <4>1 DEF Owes, Planting
    <3>5. First(parsed, r, Values(parsed, r)) = Visited
      BY <1>0, <3>2, <3>4, FirstPlanted
    <3>6. Values(tree', p) = {Visited}
      BY <1>3, <1>11, <2>3
    <3>7. First(tree', p, {Visited}) = Visited
      <4>1. First(tree', p, {Visited}) \in {Visited}
        <5> DEFINE u == tree'
                   k == Visited
        <5>1. TreeOver(Words, u) /\ {k} \subseteq Keys(u, p) /\ {k} # {}
          BY <1>3, <3>6 DEF Values
        <5> HIDE DEF u, k
        <5>2. First(u, p, {k}) \in {k}
          BY <5>1, FirstIsFirst
        <5> QED BY <5>2 DEF u, k
      <4> QED BY <4>1
    <3> QED BY <3>5, <3>6, <3>7 DEF Won
  <2>4. ASSUME ~IsPrefix(To, p), p # Top.target
        PROVE  Values(tree', p) = {} /\ \E m \in 1..Len(calls') : Owes(calls'[m], p, r)
    <3>1. Values(tree', p) = {}
      BY <1>3, <1>11, <2>4 DEF Values
    <3>2. CASE n = Len(calls)
      <4>1. Owes(Top, p, r)
        BY <1>10, <1>11, <3>2
      <4>2. Owes(Kept, p, r)
        BY <1>0, <1>11, <2>4, <4>1, StillOwed DEF Planting
      <4>3. Len(calls) \in 1..Len(calls')
        BY <1>10
      <4> QED BY <1>4, <3>1, <4>2, <4>3
    <3>3. CASE n # Len(calls)
      <4>1. n \in 1..Len(calls)-1 /\ n \in 1..Len(calls')
        BY <1>10, <3>3
      <4> QED BY <1>4, <1>11, <3>1, <4>1
    <3> QED BY <3>2, <3>3
  <2> QED BY <2>2, <2>3, <2>4
<1>12. WinInv'
  <2> SUFFICES ASSUME NEW p \in Seq(Words), NEW l, NEW g, NEW r,
                      Plain(p), Values(parsed, p) = {}, Contributes(l, g, r, p), Foremost(l, g, p), Reached(l, g)
               PROVE  (Won(tree, p, r) \/ (Turn(l, g) /\ Values(tree, p) = {} /\ \E n \in 1..Len(calls) : Owes(calls[n], p, r)))'
    BY <1>0, <1>6, <1>7 DEF WinInv
  <2>1. CASE Won(tree, p, r)
    <3> DEFINE u == tree'
               keys == Values(tree, p)
               more == Values(u, p)
    <3>1. TreeOver(Words, tree) /\ TreeOver(Words, u) /\ Extends(tree, u)
      BY <1>0, <1>3
    <3>2. Keys(tree, p) \subseteq Keys(u, p)
      <4>1. tree.nodes \subseteq u.nodes
        BY <3>1 DEF Extends
      <4> HIDE DEF u
      <4> QED BY <4>1, Grown
    <3>3. /\ keys \subseteq Keys(tree, p) /\ keys # {} /\ keys \subseteq more /\ more \subseteq Keys(u, p)
          /\ more \intersect Keys(tree, p) \subseteq keys
      BY <2>1, <3>2 DEF Values, Won
    <3>4. First(tree, p, keys) = First(parsed, r, Values(parsed, r))
      BY <2>1 DEF Won
    <3> HIDE DEF u, keys, more
    <3>5. First(u, p, more) = First(tree, p, keys)
      BY <3>1, <3>3, StaysFirst
    <3>6. more # {} /\ First(u, p, more) = First(parsed, r, Values(parsed, r))
      BY <3>3, <3>4, <3>5
    <3> QED BY <1>0, <3>6 DEF Won, u, more
  <2>2. CASE Turn(l, g) /\ Values(tree, p) = {} /\ \E n \in 1..Len(calls) : Owes(calls[n], p, r)
    <3>1. l = Level /\ g = Group
      BY <1>6, <2>2
    <3>2. Won(tree', p, r) \/ (Values(tree', p) = {} /\ \E m \in 1..Len(calls') : Owes(calls'[m], p, r))
      BY <1>11, <2>2, <3>1
    <3>3. CASE Won(tree', p, r)
      BY <1>0, <3>3 DEF Won
    <3>4. CASE Values(tree', p) = {} /\ \E m \in 1..Len(calls') : Owes(calls'[m], p, r)
      <4>1. PICK m \in 1..Len(calls') : Owes(calls'[m], p, r)
        BY <3>4
      <4>2. Owes(calls[m], p, r)'
        BY <1>0, <4>1 DEF Owes
      <4>3. Turn(l, g)' /\ Values(tree, p)' = {}
        BY <1>6, <2>2, <3>4
      <4> QED BY <4>2, <4>3
    <3> QED BY <3>2, <3>3, <3>4
  <2>3. Won(tree, p, r) \/ (Turn(l, g) /\ Values(tree, p) = {} /\ \E n \in 1..Len(calls) : Owes(calls[n], p, r))
    BY DEF WinInv
  <2> QED BY <2>1, <2>2, <2>3
<1> QED BY <1>4, <1>6, <1>9, <1>12

LEMMA PrecedenceRest ==
  ASSUME TurnInv, CallsInv, OriginInv, WinInv, UNCHANGED <<parsed, tree, pending, inherits, calls>>
  PROVE  TurnInv' /\ CallsInv' /\ OriginInv' /\ WinInv'
<1>1. /\ \A l, g, r, p : Contributes(l, g, r, p)' <=> Contributes(l, g, r, p)
      /\ \A l, g, p : Foremost(l, g, p)' <=> Foremost(l, g, p)
      /\ \A c, l, g : CallInv(c, l, g)' <=> CallInv(c, l, g)
  BY SameContributes
<1>2. \A l, g : (Reached(l, g)' <=> Reached(l, g)) /\ (Turn(l, g)' <=> Turn(l, g))
  BY DEF Reached, Turn
<1>3. TurnInv'
  BY DEF TurnInv, Reached
<1>4. CallsInv'
  <2>1. \A n \in 1..Len(calls') : CallInv(calls[n], calls[1].target, calls[1].group)'
    <3> TAKE n \in 1..Len(calls')
    <3>1. CallInv(calls'[n], calls'[1].target, calls'[1].group)
      BY DEF CallsInv
    <3> QED BY <3>1 DEF CallInv, Covers
  <2>2. \A m, n \in 1..Len(calls') : m < n => Within(calls'[m], calls'[n])
    BY DEF CallsInv
  <2> QED BY <2>1, <2>2 DEF CallsInv
<1>5. OriginInv'
  BY <1>1, <1>2 DEF OriginInv
<1>6. WinInv'
  <2> SUFFICES ASSUME NEW p \in Seq(Words), NEW l, NEW g, NEW r,
                      Plain(p), Values(parsed, p) = {}, Contributes(l, g, r, p), Foremost(l, g, p), Reached(l, g)
               PROVE  (Won(tree, p, r) \/ (Turn(l, g) /\ Values(tree, p) = {} /\ \E n \in 1..Len(calls) : Owes(calls[n], p, r)))'
    BY <1>1, <1>2 DEF WinInv
  <2>1. Won(tree, p, r) \/ (Turn(l, g) /\ Values(tree, p) = {} /\ \E n \in 1..Len(calls) : Owes(calls[n], p, r))
    BY DEF WinInv
  <2>2. Won(tree, p, r)' <=> Won(tree, p, r)
    BY DEF Won
  <2>3. ASSUME NEW n \in 1..Len(calls), Owes(calls[n], p, r)
        PROVE  Owes(calls[n], p, r)'
    <3>1. Owes(calls'[n], p, r)
      BY <2>3
    <3> QED BY <3>1 DEF Owes
  <2> QED BY <1>2, <2>1, <2>2, <2>3
<1> QED BY <1>3, <1>4, <1>5, <1>6

\* Once the tree is returned every level has been visited.
Finished == phase \in {"collect", "done"} => pending = {} /\ inherits = {} /\ calls = <<>>

LEMMA FinishedStep ==
  ASSUME TypeInv, Finished, [Next]_vars
  PROVE  Finished'
<1>1. CASE _parse_set_style \/ _parse_block \/ parse_junos_config
  BY <1>1 DEF _parse_set_style, _parse_block, parse_junos_config, Finished
<1>2. CASE _expand_node \/ InheritGroup
  BY <1>2 DEF _expand_node, InheritGroup, Finished
<1>3. CASE _fill \/ ReturnFill
  <2>1. phase \notin {"collect", "done"} /\ phase' = phase
    BY <1>3 DEF _fill, ReturnFill, Finished
  <2> QED BY <2>1 DEF Finished
<1>4. CASE ReturnTree \/ _collect_unrecognized_blocks
  BY <1>4 DEF ReturnTree, _collect_unrecognized_blocks, Finished
<1>5. CASE UNCHANGED vars
  BY <1>5 DEF vars, Finished
<1> QED BY <1>1, <1>2, <1>3, <1>4, <1>5 DEF Next

LEMMA PrecedenceStep ==
  ASSUME TypeInv, LocalFirst, PrecedenceInv, [Next]_vars
  PROVE  PrecedenceInv'
<1>1. SUFFICES ASSUME phase' # "parse", Settled'
               PROVE  TurnInv' /\ CallsInv' /\ OriginInv' /\ WinInv'
  BY DEF PrecedenceInv
<1>2. CASE _parse_set_style \/ _parse_block
  BY <1>1, <1>2 DEF _parse_set_style, _parse_block
<1>3. CASE parse_junos_config
  BY <1>3, PrecedenceParsed
<1>4. ASSUME phase # "parse", UNCHANGED parsed, tree.nodes \subseteq tree'.nodes
      PROVE  Stage /\ TurnInv /\ CallsInv /\ OriginInv /\ WinInv
  <2>1. Settled
    BY <1>1, <1>4, StillSettled
  <2>2. Extends(parsed, tree)
    BY <1>4 DEF LocalFirst, Extends
  <2> QED BY <1>4, <2>1, <2>2 DEF Stage, PrecedenceInv
<1>5. CASE _expand_node
  <2>1. phase # "parse" /\ UNCHANGED parsed /\ tree.nodes \subseteq tree'.nodes
    BY <1>5 DEF _expand_node
  <2> QED BY <1>4, <1>5, <2>1, PrecedenceExpand
<1>6. CASE InheritGroup
  <2>1. phase # "parse" /\ UNCHANGED parsed /\ tree.nodes \subseteq tree'.nodes
    BY <1>6 DEF InheritGroup
  <2> QED BY <1>4, <1>6, <2>1, PrecedenceInherit
<1>7. CASE ReturnFill
  <2>1. phase # "parse" /\ UNCHANGED parsed /\ tree.nodes \subseteq tree'.nodes
    BY <1>7 DEF ReturnFill, TypeInv
  <2> QED BY <1>4, <1>7, <2>1, PrecedenceReturn
<1>8. CASE _fill
  <2>1. phase # "parse" /\ UNCHANGED parsed
    BY <1>8 DEF _fill, TypeInv
  <2>2. tree.nodes \subseteq tree'.nodes
    <3>1. tree' = tree \/ tree' = Planted(tree, From, To)
      BY <1>8, FillIs
    <3>2. Extends(tree, tree) /\ TreeOver(Labels, tree)
      BY DEF Extends, TypeInv
    <3>3. Extends(tree, Planted(tree, From, To))
      BY <3>2, MergeExtends DEF Planted, _merge_at_path
    <3> QED BY <3>1, <3>2, <3>3 DEF Extends
  <2> QED BY <1>4, <1>8, <2>1, <2>2, PrecedenceVisit, PrecedencePlant
<1>9. CASE ReturnTree \/ _collect_unrecognized_blocks
  <2>1. phase # "parse" /\ UNCHANGED <<parsed, tree, pending, inherits, calls>>
    BY <1>9 DEF ReturnTree, _collect_unrecognized_blocks
  <2> QED BY <1>4, <2>1, PrecedenceRest
<1>10. CASE UNCHANGED vars
  <2>1. phase # "parse" /\ UNCHANGED <<parsed, tree, pending, inherits, calls>>
    BY <1>1, <1>10 DEF vars
  <2> QED BY <1>4, <2>1, PrecedenceRest
<1> QED BY <1>2, <1>3, <1>5, <1>6, <1>7, <1>8, <1>9, <1>10 DEF Next

LEMMA PrecedenceImplies ==
  ASSUME TypeInv, Finished, PrecedenceInv
  PROVE  ValueByPrecedence
<1> SUFFICES ASSUME phase = "done", Settled, NEW p \in tree.nodes, Plain(p), Values(parsed, p) = {},
                    NEW level \in Levels(parsed), NEW g \in Applied(parsed, level), NEW r \in Reaching(p, level, g),
                    Values(parsed, r) # {},
                    \A other \in Levels(parsed) : \A h \in Applied(parsed, other) :
                      Before(other, h, level, g) => \A s \in Reaching(p, other, h) : Values(parsed, s) = {}
             PROVE  First(tree, p, Values(tree, p)) = First(parsed, r, Values(parsed, r))
  BY DEF ValueByPrecedence
<1>1. p \in Seq(Words)
  BY Worded
<1>2. Contributes(level, g, r, p)
  BY DEF Contributes
<1>3. Foremost(level, g, p)
  BY DEF Contributes, Foremost
<1>4. Reached(level, g) /\ calls = <<>>
  BY DEF Finished, Reached
<1>5. WinInv
  BY DEF PrecedenceInv
<1>6. Won(tree, p, r)
  BY <1>1, <1>2, <1>3, <1>4, <1>5 DEF WinInv, Turn
<1> QED BY <1>6 DEF Won

(***************************************************************************)
(* Rules 1, 2 and 3 for any groups: a statement that was not written takes *)
(* its first value from the innermost level that inherits one for it, and  *)
(* there from the group named first.  Children are visited before their    *)
(* parents and nothing inherited is ever replaced, so the group that comes *)
(* first has its turn while the value is still missing.                    *)
(***************************************************************************)
THEOREM ValueByPrecedenceHolds == Spec => []ValueByPrecedence
<1>1. Spec => []TypeInv
  BY TypeInit, TypeStep, PTL DEF Spec
<1>2. Init => Finished /\ PrecedenceInv
  BY DEF Init, Finished, PrecedenceInv
<1>3. TypeInv /\ Finished /\ [Next]_vars => Finished'
  BY FinishedStep
<1>4. TypeInv /\ LocalFirst /\ PrecedenceInv /\ [Next]_vars => PrecedenceInv'
  BY PrecedenceStep
<1>5. TypeInv /\ Finished /\ PrecedenceInv => ValueByPrecedence
  BY PrecedenceImplies
<1> QED BY <1>1, <1>2, <1>3, <1>4, <1>5, LocalFirstHolds, PTL DEF Spec
=============================================================================
