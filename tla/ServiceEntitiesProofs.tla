----------------------- MODULE ServiceEntitiesProofs -----------------------
(***************************************************************************)
(* Proofs about module ServiceEntities: for any entities, any facts and    *)
(* scripts of any length, replaying the operations and merging the legacy  *)
(* deletion strings leave the entities the device has, and tracks and      *)
(* applets with the attributes it gives them.                              *)
(*                                                                         *)
(* Both consumers look at an entity through two sets of line numbers, of   *)
(* the lines that set it and of those that delete it.  A line of a script  *)
(* adds the highest number yet to one of the two, or moves the only        *)
(* setting line up, or leaves both alone.  That is the whole argument for  *)
(* presence (NewestSet, NewestDelete); the attributes of a block need the  *)
(* set operations themselves (BlockIs).                                    *)
(***************************************************************************)
EXTENDS ServiceEntities, TLAPS

SetLines(e) ==
    {op.line : op \in {set \in native_ops : set.entity = e /\ set.verb = "SET"}}

DeleteLines(e) ==
    {op.line : op \in {del \in entity_ops : del.entity = e}}

(* What the two consumers conclude from the lines.                         *)
Survives(had, sets, deletes) ==
    \/ had /\ deletes = {}
    \/ \E s \in sets : \A d \in deletes : d <= s

Merged(had, sets, deletes) ==
    /\ had \/ sets # {}
    /\ \A d \in deletes : \E s \in sets : s > d

Had(e) == baseline[e] # {}

ReadLines == 1..line

Shape ==
    /\ baseline \in [Entities -> SUBSET Facts]
    /\ device \in [Entities -> SUBSET Facts]
    /\ line \in 0..MaxLines
    /\ operations \in [Slas -> [value : SUBSET Facts, line : ReadLines \union {NoLine}]]
    /\ schedules \in [Slas -> SUBSET Facts]
    /\ schedule_line \in [Slas -> ReadLines \union {NoLine}]
    /\ reactions \in [Slas -> SUBSET Facts]
    /\ objects \subseteq [verb : {"SET"}, entity : Blocks,
                          value : SUBSET Facts, line : ReadLines]
    /\ banner_text \in [Banners -> SUBSET Facts]
    /\ banner_line \in [Banners -> ReadLines \union {NoLine}]
    /\ entity_ops \subseteq [verb : {"DELETE"}, entity : Entities,
                             value : {{}}, line : ReadLines]

(* Every operation says something.                                         *)
Says ==
    /\ \A e \in Slas : operations[e].line # NoLine => operations[e].value # {}
    /\ \A e \in Slas : schedule_line[e] # NoLine => schedules[e] # {}
    /\ \A op \in objects : op.value # {}
    /\ \A e \in Banners : banner_text[e] # {} <=> banner_line[e] # NoLine

PresenceIs ==
    \A e \in Entities :
        /\ device[e] # {} <=> Survives(Had(e), SetLines(e), DeleteLines(e))
        /\ device[e] # {} <=> Merged(Had(e), SetLines(e), DeleteLines(e))

BlockIs ==
    \A e \in Blocks : \A f \in Facts :
        f \in device[e] <=>
            \/ f \in baseline[e] /\ DeleteLines(e) = {}
            \/ \E op \in objects :
                  /\ op.entity = e /\ f \in op.value
                  /\ \A d \in DeleteLines(e) : d <= op.line

(* The inductive invariant.  The properties alone are not inductive: they  *)
(* do not say that the lines read so far bound the operations' lines.      *)
IInv == Shape /\ Says /\ PresenceIs /\ BlockIs

SettingLinesAre ==
    /\ \A e \in Slas : SetLines(e) =
          IF SlaLine(e) # NoLine THEN {SlaLine(e)} ELSE {}
    /\ \A e \in Blocks : SetLines(e) =
          {op.line : op \in {set \in objects : set.entity = e}}
    /\ \A e \in Banners : SetLines(e) =
          IF banner_text[e] # {} THEN {banner_line[e]} ELSE {}

(* Where each kind of entity is set.                                       *)
LEMMA SettingLines == Shape => SettingLinesAre
<1> SUFFICES ASSUME Shape PROVE SettingLinesAre
  OBVIOUS
<1> USE ServiceAssumption DEF Shape, NoLine
<1>1. \A op \in entity_ops : op.verb = "DELETE"
  OBVIOUS
<1>2. \A op \in objects : op.verb = "SET" /\ op.entity \in Blocks
  OBVIOUS
<1>3. \A op \in SlaOps : op.verb = "SET" /\ op.entity \in Slas /\ op.line = SlaLine(op.entity)
                         /\ SlaLine(op.entity) # NoLine
  BY DEF SlaOps, Op
<1>4. \A op \in BannerOps : op.verb = "SET" /\ op.entity \in Banners
                            /\ op.line = banner_line[op.entity]
                            /\ banner_text[op.entity] # {}
  BY DEF BannerOps, Op
<1>5. ASSUME NEW e \in Slas
      PROVE  SetLines(e) = IF SlaLine(e) # NoLine THEN {SlaLine(e)} ELSE {}
  <2>1. {set \in native_ops : set.entity = e /\ set.verb = "SET"} =
            {op \in SlaOps : op.entity = e}
    BY <1>1, <1>2, <1>3, <1>4 DEF native_ops
  <2>2. SlaLine(e) # NoLine => \E op \in SlaOps : op.entity = e
    <3> HIDE DEF Shape, NoLine
    <3> DEFINE value == operations[e].value \union schedules[e] \union reactions[e]
    <3>1. ASSUME SlaLine(e) # NoLine
          PROVE  Op("SET", e, value, SlaLine(e)) \in SlaOps
      BY <3>1 DEF SlaOps
    <3>2. Op("SET", e, value, SlaLine(e)).entity = e
      BY DEF Op
    <3>3. QED
      BY <3>1, <3>2
  <2>3. SetLines(e) = {op.line : op \in {o \in SlaOps : o.entity = e}}
    BY <2>1 DEF SetLines
  <2>4. \A op \in {o \in SlaOps : o.entity = e} : op.line = SlaLine(e) /\ SlaLine(e) # NoLine
    BY <1>3
  <2> HIDE DEF Shape, NoLine
  <2>5. CASE SlaLine(e) # NoLine
    BY <2>2, <2>3, <2>4, <2>5
  <2>6. CASE SlaLine(e) = NoLine
    BY <2>3, <2>4, <2>6
  <2>7. QED
    BY <2>5, <2>6
<1>6. ASSUME NEW e \in Blocks
      PROVE  SetLines(e) = {op.line : op \in {set \in objects : set.entity = e}}
  <2>1. {set \in native_ops : set.entity = e /\ set.verb = "SET"} =
            {op \in objects : op.entity = e}
    BY <1>1, <1>2, <1>3, <1>4 DEF native_ops
  <2>2. QED
    BY <2>1 DEF SetLines
<1>7. ASSUME NEW e \in Banners
      PROVE  SetLines(e) = IF banner_text[e] # {} THEN {banner_line[e]} ELSE {}
  <2>1. {set \in native_ops : set.entity = e /\ set.verb = "SET"} =
            {op \in BannerOps : op.entity = e}
    BY <1>1, <1>2, <1>3, <1>4 DEF native_ops
  <2>2. banner_text[e] # {} => \E op \in BannerOps : op.entity = e
    <3> HIDE DEF Shape, NoLine
    <3>1. ASSUME banner_text[e] # {}
          PROVE  Op("SET", e, banner_text[e], banner_line[e]) \in BannerOps
      BY <3>1 DEF BannerOps
    <3>2. Op("SET", e, banner_text[e], banner_line[e]).entity = e
      BY DEF Op
    <3>3. QED
      BY <3>1, <3>2
  <2>3. SetLines(e) = {op.line : op \in {o \in BannerOps : o.entity = e}}
    BY <2>1 DEF SetLines
  <2>4. \A op \in {o \in BannerOps : o.entity = e} :
          op.line = banner_line[e] /\ banner_text[e] # {}
    BY <1>4
  <2> HIDE DEF Shape, NoLine
  <2>5. CASE banner_text[e] # {}
    BY <2>2, <2>3, <2>4, <2>5
  <2>6. CASE banner_text[e] = {}
    BY <2>3, <2>4, <2>6
  <2>7. QED
    BY <2>5, <2>6
<1>8. QED
  BY <1>5, <1>6, <1>7 DEF SettingLinesAre

(* The lines of an entity have been read.                                  *)
LEMMA LinesRead ==
    Shape /\ Says =>
        \A e \in Entities :
            SetLines(e) \subseteq ReadLines /\ DeleteLines(e) \subseteq ReadLines
<1> SUFFICES ASSUME Shape, Says, NEW e \in Entities
             PROVE  SetLines(e) \subseteq ReadLines /\ DeleteLines(e) \subseteq ReadLines
  OBVIOUS
<1>1. DeleteLines(e) \subseteq ReadLines
  BY DEF DeleteLines, Shape
<1>2. CASE e \in Slas
  BY <1>1, <1>2, SettingLines DEF SettingLinesAre, Shape, SlaLine
<1>3. CASE e \in Blocks
  BY <1>1, <1>3, SettingLines DEF SettingLinesAre, Shape
<1>4. CASE e \in Banners
  BY <1>1, <1>4, SettingLines DEF SettingLinesAre, Shape, Says
<1>5. QED
  BY <1>2, <1>3, <1>4 DEF Entities

(* A setting line later than all others leaves the entity there, whether   *)
(* it joins the earlier ones or takes their place.                         *)
LEMMA NewestSet ==
    ASSUME NEW n \in Nat, NEW had \in BOOLEAN,
           NEW sets \in SUBSET (1..n + 1), NEW deletes \in SUBSET (1..n),
           n + 1 \in sets
    PROVE  Survives(had, sets, deletes) /\ Merged(had, sets, deletes)
<1>1. \A d \in deletes : d <= n + 1 /\ n + 1 > d
  OBVIOUS
<1>2. QED
  BY <1>1 DEF Survives, Merged

(* A deleting line later than all others takes it away.                    *)
LEMMA NewestDelete ==
    ASSUME NEW n \in Nat, NEW had \in BOOLEAN,
           NEW sets \in SUBSET (1..n), NEW deletes \in SUBSET (1..n + 1),
           n + 1 \in deletes
    PROVE  ~Survives(had, sets, deletes) /\ ~Merged(had, sets, deletes)
<1>1. \A s \in sets : ~(n + 1 <= s) /\ ~(s > n + 1)
  OBVIOUS
<1>2. QED
  BY <1>1 DEF Survives, Merged

(* Every operation stands on one of the lines of its entity, and a setting *)
(* one says something.                                                     *)
LEMMA OpFacts ==
    ASSUME Shape, Says
    PROVE  /\ \A op \in native_ops :
                \/ /\ op.verb = "SET" /\ op.value # {} /\ op.value \subseteq Facts
                   /\ op.line \in SetLines(op.entity)
                \/ op.verb = "DELETE" /\ op.line \in DeleteLines(op.entity)
           /\ \A e : \A s \in SetLines(e) : \E op \in native_ops :
                op.entity = e /\ op.verb = "SET" /\ op.line = s
           /\ \A e : \A d \in DeleteLines(e) : \E op \in native_ops :
                op.entity = e /\ op.verb = "DELETE" /\ op.line = d
<1>1. ASSUME NEW op \in SlaOps
      PROVE  op.verb = "SET" /\ op.value # {} /\ op.value \subseteq Facts
  <2>1. PICK e \in Slas :
          /\ SlaLine(e) # NoLine
          /\ op = Op("SET", e, operations[e].value \union schedules[e] \union reactions[e],
                     SlaLine(e))
    BY DEF SlaOps
  <2>2. operations[e].value # {} \/ schedules[e] # {}
    BY <2>1 DEF SlaLine, Says
  <2>3. /\ operations[e].value \subseteq Facts
        /\ schedules[e] \subseteq Facts /\ reactions[e] \subseteq Facts
    BY DEF Shape
  <2>4. op.verb = "SET" /\ op.value = operations[e].value \union schedules[e] \union reactions[e]
    BY <2>1 DEF Op
  <2>5. QED
    BY <2>2, <2>3, <2>4
<1>2. ASSUME NEW op \in BannerOps
      PROVE  op.verb = "SET" /\ op.value # {} /\ op.value \subseteq Facts
  BY DEF BannerOps, Op, Shape
<1>3. ASSUME NEW op \in objects
      PROVE  op.verb = "SET" /\ op.value # {} /\ op.value \subseteq Facts
  BY DEF Shape, Says
<1>4. \A op \in entity_ops : op.verb = "DELETE" /\ op.line \in DeleteLines(op.entity)
  BY DEF Shape, DeleteLines
<1>5. \A op \in native_ops : op.verb = "SET" => op.line \in SetLines(op.entity)
  BY DEF SetLines
<1>6. ASSUME NEW e, NEW s \in SetLines(e)
      PROVE  \E op \in native_ops : op.entity = e /\ op.verb = "SET" /\ op.line = s
  BY DEF SetLines
<1>7. ASSUME NEW e, NEW d \in DeleteLines(e)
      PROVE  \E op \in native_ops : op.entity = e /\ op.verb = "DELETE" /\ op.line = d
  BY <1>4 DEF DeleteLines, native_ops
<1>8. \A op \in native_ops :
        \/ /\ op.verb = "SET" /\ op.value # {} /\ op.value \subseteq Facts
           /\ op.line \in SetLines(op.entity)
        \/ op.verb = "DELETE" /\ op.line \in DeleteLines(op.entity)
  BY <1>1, <1>2, <1>3, <1>4, <1>5 DEF native_ops
<1>9. QED
  BY <1>6, <1>7, <1>8

(* The replay leaves an entity exactly when it survives by its lines.      *)
LEMMA ReplaySurvives ==
    ASSUME Shape, Says, NEW e \in Entities
    PROVE  Replay(native_ops, baseline, e) # {} <=>
             Survives(Had(e), SetLines(e), DeleteLines(e))
<1>1. SetLines(e) \subseteq Nat /\ DeleteLines(e) \subseteq Nat
  BY LinesRead DEF ReadLines
<1>2. baseline[e] \subseteq Facts
  BY DEF Shape
<1>3. ASSUME e \notin Blocks, NEW s \in SetLines(e), NEW t \in SetLines(e)
      PROVE  s = t
  <2>1. e \in Slas \/ e \in Banners
    BY <1>3 DEF Entities
  <2>2. QED
    BY <1>3, <2>1, SettingLines DEF SettingLinesAre
<1>4. ASSUME NEW f \in Replay(native_ops, baseline, e)
      PROVE  Survives(Had(e), SetLines(e), DeleteLines(e))
  <2>1. CASE f \in baseline[e] /\ \A op \in native_ops : op.entity = e => Keeps(op)
    <3>1. DeleteLines(e) = {}
      BY <2>1, OpFacts DEF Keeps
    <3>2. QED
      BY <2>1, <3>1 DEF Survives, Had
  <2>2. CASE ~(f \in baseline[e] /\ \A op \in native_ops : op.entity = e => Keeps(op))
    <3>1. PICK op \in native_ops :
            /\ op.entity = e /\ op.verb = "SET"
            /\ \A other \in native_ops :
                  (other.entity = e /\ other.line > op.line) => Keeps(other)
      BY <1>4, <2>2 DEF Replay
    <3>2. op.line \in SetLines(e)
      BY <3>1, OpFacts
    <3>3. \A d \in DeleteLines(e) : ~(d > op.line)
      BY <3>1, OpFacts DEF Keeps
    <3>4. \A d \in DeleteLines(e) : d <= op.line
      BY <1>1, <3>2, <3>3
    <3>5. QED
      BY <3>2, <3>4 DEF Survives
  <2>3. QED
    BY <2>1, <2>2
<1>5. ASSUME NEW s \in SetLines(e), \A d \in DeleteLines(e) : d <= s
      PROVE  Replay(native_ops, baseline, e) # {}
  <2>1. PICK op \in native_ops : op.entity = e /\ op.verb = "SET" /\ op.line = s
    BY OpFacts
  <2>2. PICK f \in Facts : f \in op.value
    BY <2>1, OpFacts
  <2>3. ASSUME NEW other \in native_ops, other.entity = e, other.line > op.line
        PROVE  Keeps(other)
    <3>1. other.line \notin DeleteLines(e)
      BY <1>1, <1>5, <2>1, <2>3
    <3>2. other.verb = "SET" /\ other.line \in SetLines(e)
      BY <2>3, <3>1, OpFacts
    <3>3. e \in Blocks
      BY <1>1, <1>3, <1>5, <2>1, <2>3, <3>2
    <3>4. QED
      BY <2>3, <3>2, <3>3 DEF Keeps, Merges
  <2>4. f \in Replay(native_ops, baseline, e)
    BY <2>1, <2>2, <2>3 DEF Replay
  <2>5. QED
    BY <2>4
<1>6. ASSUME Had(e), DeleteLines(e) = {}
      PROVE  Replay(native_ops, baseline, e) # {}
  <2>1. CASE SetLines(e) # {}
    BY <1>5, <1>6, <2>1
  <2>2. CASE SetLines(e) = {}
    <3>1. \A op \in native_ops : op.entity # e
      BY <1>6, <2>2, OpFacts
    <3>2. PICK f \in Facts : f \in baseline[e]
      BY <1>2, <1>6 DEF Had
    <3>3. f \in Replay(native_ops, baseline, e)
      BY <3>1, <3>2 DEF Replay
    <3>4. QED
      BY <3>3
  <2>3. QED
    BY <2>1, <2>2
<1>7. QED
  BY <1>4, <1>5, <1>6 DEF Survives

(* The legacy consumer keeps it exactly when the merge of its lines does.  *)
LEMMA LegacyMerged ==
    ASSUME Shape, Says, NEW e \in Entities
    PROVE  LegacyPresent(e) <=> Merged(Had(e), SetLines(e), DeleteLines(e))
<1>1. e \in set_fields <=> SetLines(e) # {}
  <2>1. e \in set_fields <=> \E op \in native_ops : op.entity = e /\ op.verb = "SET"
    BY DEF set_fields
  <2>2. QED
    BY <2>1 DEF SetLines
<1>2. e \in no_commands <=> \E d \in DeleteLines(e) : \A s \in SetLines(e) : ~(s > d)
  <2>1. e \in no_commands <=>
          \E del \in native_ops :
              /\ del.entity = e /\ del.verb = "DELETE"
              /\ \A set \in native_ops :
                    (set.verb = "SET" /\ set.entity = del.entity) => ~(set.line > del.line)
    BY DEF no_commands
  <2>2. ASSUME NEW d \in Int
        PROVE  (\A set \in native_ops :
                   (set.verb = "SET" /\ set.entity = e) => ~(set.line > d))
               <=> \A s \in SetLines(e) : ~(s > d)
    BY DEF SetLines
  <2>3. DeleteLines(e) \subseteq Int
    BY LinesRead DEF ReadLines
  <2>4. QED
    BY <2>1, <2>2, <2>3, OpFacts
<1>3. QED
  BY <1>1, <1>2 DEF LegacyPresent, Merged, Had

(* The same after a step.                                                  *)
LEMMA LinesAfter ==
    /\ Shape' => SettingLinesAre'
    /\ Shape' /\ Says' =>
          \A e \in Entities :
              SetLines(e)' \subseteq ReadLines' /\ DeleteLines(e)' \subseteq ReadLines'
<1>1. Shape' => SettingLinesAre'
  BY SettingLines, PTL
<1>2. (Shape /\ Says =>
          \A e \in Entities :
              SetLines(e) \subseteq ReadLines /\ DeleteLines(e) \subseteq ReadLines)'
  BY LinesRead, PTL
<1>3. QED
  BY <1>1, <1>2

(* What a line does to the line numbers and the presence of an entity.     *)
Untouched(e) ==
    /\ SetLines(e)' = SetLines(e) /\ DeleteLines(e)' = DeleteLines(e)
    /\ device'[e] # {} <=> device[e] # {}

IsSet(e) ==
    /\ line' \in SetLines(e)' /\ DeleteLines(e)' = DeleteLines(e)
    /\ device'[e] # {}

IsDeleted(e) ==
    /\ SetLines(e)' = SetLines(e) /\ line' \in DeleteLines(e)'
    /\ device'[e] = {}

(* A line that does one of the three keeps the presence of every entity.   *)
LEMMA PresenceStep ==
    ASSUME IInv, Shape', Says', NextLine,
           \A e \in Entities : Untouched(e) \/ IsSet(e) \/ IsDeleted(e)
    PROVE  PresenceIs'
<1>1. SUFFICES ASSUME NEW e \in Entities
               PROVE  /\ device'[e] # {} <=>
                            Survives(Had(e)', SetLines(e)', DeleteLines(e)')
                      /\ device'[e] # {} <=>
                            Merged(Had(e)', SetLines(e)', DeleteLines(e)')
  BY DEF PresenceIs, Survives, Merged
<1>2. line \in Nat /\ line' = line + 1 /\ Had(e)' = Had(e)
  BY DEF IInv, Shape, NextLine, Had
<1>3. SetLines(e) \subseteq 1..line /\ DeleteLines(e) \subseteq 1..line
  BY LinesRead DEF IInv, ReadLines
<1>4. SetLines(e)' \subseteq 1..line + 1 /\ DeleteLines(e)' \subseteq 1..line + 1
  BY <1>2, LinesAfter DEF ReadLines
<1>5. Had(e) \in BOOLEAN
  BY DEF Had
<1>6. CASE Untouched(e)
  BY <1>2, <1>6 DEF Untouched, IInv, PresenceIs
<1>7. CASE IsSet(e)
  <2>1. /\ Survives(Had(e), SetLines(e)', DeleteLines(e))
        /\ Merged(Had(e), SetLines(e)', DeleteLines(e))
    BY <1>2, <1>3, <1>4, <1>5, <1>7, NewestSet DEF IsSet
  <2>2. QED
    BY <1>2, <1>7, <2>1 DEF IsSet
<1>8. CASE IsDeleted(e)
  <2>1. /\ ~Survives(Had(e), SetLines(e), DeleteLines(e)')
        /\ ~Merged(Had(e), SetLines(e), DeleteLines(e)')
    BY <1>2, <1>3, <1>4, <1>5, <1>8, NewestDelete DEF IsDeleted
  <2>2. QED
    BY <1>2, <1>8, <2>1 DEF IsDeleted
<1>9. QED
  BY <1>6, <1>7, <1>8

(* A line adds its number to those read.                                   *)
LEMMA NextLineReads ==
    ASSUME Shape, NextLine
    PROVE  /\ line \in Nat /\ line' = line + 1 /\ line' \in 0..MaxLines
           /\ ReadLines \subseteq ReadLines' /\ line' \in ReadLines'
           /\ baseline' = baseline /\ line' # NoLine
<1>1. line \in Nat /\ line' = line + 1 /\ line < MaxLines /\ MaxLines \in Nat
  BY ServiceAssumption DEF Shape, NextLine
<1>2. QED
  BY <1>1 DEF Shape, NextLine, ReadLines, NoLine

(* What every step must establish.                                         *)
Kept ==
    /\ Shape' /\ Says'
    /\ \A e \in Entities : Untouched(e) \/ IsSet(e) \/ IsDeleted(e)

(* `ip sla <id>`: the operation moves to this line.                        *)
LEMMA DefineSlaStep ==
    ASSUME IInv, NEW sla \in Slas, NEW fact \in Facts, DefineSla(sla, fact)
    PROVE  Kept /\ BlockIs'
<1> USE DEF IInv
<1>1. /\ line \in Nat /\ line' = line + 1 /\ line' \in 0..MaxLines
      /\ ReadLines \subseteq ReadLines' /\ line' \in ReadLines'
      /\ baseline' = baseline /\ line' # NoLine
  BY NextLineReads DEF DefineSla
<1>2. /\ device' = [device EXCEPT ![sla] = {fact}]
      /\ operations' = [operations EXCEPT ![sla] = [value |-> {fact}, line |-> line']]
      /\ UNCHANGED <<schedules, schedule_line, reactions, objects, banner_text,
                     banner_line, entity_ops>>
  BY DEF DefineSla
<1>3. sla \in Entities /\ sla \notin Blocks /\ sla \notin Banners
  BY ServiceAssumption DEF Entities
<1>4. Shape'
  BY <1>1, <1>2, <1>3 DEF Shape
<1>5. Says'
  BY <1>2 DEF Shape, Says
<1>6. SettingLinesAre /\ SettingLinesAre'
  BY <1>4, SettingLines, LinesAfter
<1>7. \A e \in Entities : DeleteLines(e)' = DeleteLines(e)
  BY <1>2 DEF DeleteLines
<1>8. IsSet(sla)
  <2>1. SlaLine(sla)' = line'
    BY <1>1, <1>2 DEF SlaLine, Shape
  <2>2. line' \in SetLines(sla)'
    BY <1>1, <1>6, <2>1 DEF SettingLinesAre
  <2>3. QED
    BY <1>2, <1>3, <1>7, <2>2 DEF IsSet, Shape
<1>9. ASSUME NEW e \in Entities, e # sla
      PROVE  Untouched(e)
  <2>1. device'[e] = device[e]
    BY <1>2, <1>9 DEF Shape
  <2>2. e \in Slas => SlaLine(e)' = SlaLine(e)
    BY <1>2, <1>9 DEF SlaLine, Shape
  <2>3. SetLines(e)' = SetLines(e)
    BY <1>2, <1>6, <2>2 DEF SettingLinesAre, Entities
  <2>4. QED
    BY <1>7, <2>1, <2>3 DEF Untouched
<1>10. BlockIs'
  BY <1>1, <1>2, <1>3, <1>7 DEF BlockIs, Entities, Shape
<1>11. QED
  BY <1>4, <1>5, <1>8, <1>9, <1>10 DEF Kept

(* `ip sla schedule <id>`: it sets an operation of type "unknown" unless   *)
(* the id has one already.                                                 *)
LEMMA ScheduleSlaStep ==
    ASSUME IInv, NEW sla \in Slas, NEW fact \in Facts, ScheduleSla(sla, fact)
    PROVE  Kept /\ BlockIs'
<1> USE DEF IInv
<1>1. /\ line \in Nat /\ line' = line + 1 /\ line' \in 0..MaxLines
      /\ ReadLines \subseteq ReadLines' /\ line' \in ReadLines'
      /\ baseline' = baseline /\ line' # NoLine
  BY NextLineReads DEF ScheduleSla
<1>2. /\ device[sla] # {}
      /\ device' = [device EXCEPT ![sla] = (@ \ Schedules) \union {fact}]
      /\ schedules' = [schedules EXCEPT ![sla] = {fact}]
      /\ schedule_line' =
            [schedule_line EXCEPT ![sla] = IF @ = NoLine THEN line' ELSE @]
      /\ UNCHANGED <<operations, reactions, objects, banner_text, banner_line,
                     entity_ops>>
  BY DEF ScheduleSla
<1>3. sla \in Entities /\ sla \notin Blocks /\ sla \notin Banners
  BY ServiceAssumption DEF Entities
<1>4. Shape'
  BY <1>1, <1>2, <1>3 DEF Shape
<1>5. Says'
  BY <1>2 DEF Shape, Says
<1>6. SettingLinesAre /\ SettingLinesAre'
  BY <1>4, SettingLines, LinesAfter
<1>7. \A e \in Entities : DeleteLines(e)' = DeleteLines(e)
  BY <1>2 DEF DeleteLines
<1>8. device'[sla] # {}
  BY <1>2, <1>3 DEF Shape
<1>9. Untouched(sla) \/ IsSet(sla)
  <2>1. CASE SlaLine(sla) # NoLine
    <3>1. SlaLine(sla)' = SlaLine(sla)
      BY <1>2, <2>1 DEF SlaLine, Shape
    <3>2. SetLines(sla)' = SetLines(sla)
      BY <1>6, <3>1 DEF SettingLinesAre
    <3>3. QED
      BY <1>2, <1>3, <1>7, <1>8, <3>2 DEF Untouched
  <2>2. CASE SlaLine(sla) = NoLine
    <3>1. SlaLine(sla)' = line'
      BY <1>2, <2>2 DEF SlaLine, Shape
    <3>2. line' \in SetLines(sla)'
      BY <1>1, <1>6, <3>1 DEF SettingLinesAre
    <3>3. QED
      BY <1>3, <1>7, <1>8, <3>2 DEF IsSet
  <2>3. QED
    BY <2>1, <2>2
<1>10. ASSUME NEW e \in Entities, e # sla
       PROVE  Untouched(e)
  <2>1. device'[e] = device[e]
    BY <1>2, <1>10 DEF Shape
  <2>2. e \in Slas => SlaLine(e)' = SlaLine(e)
    BY <1>2, <1>10 DEF SlaLine, Shape
  <2>3. SetLines(e)' = SetLines(e)
    BY <1>2, <1>6, <2>2 DEF SettingLinesAre, Entities
  <2>4. QED
    BY <1>7, <2>1, <2>3 DEF Untouched
<1>11. BlockIs'
  BY <1>1, <1>2, <1>3, <1>7 DEF BlockIs, Entities, Shape
<1>12. QED
  BY <1>4, <1>5, <1>9, <1>10, <1>11 DEF Kept

(* `ip sla reaction-configuration <id>`: no operation moves.               *)
LEMMA ReactSlaStep ==
    ASSUME IInv, NEW sla \in Slas, NEW fact \in Facts, ReactSla(sla, fact)
    PROVE  Kept /\ BlockIs'
<1> USE DEF IInv
<1>1. /\ line \in Nat /\ line' = line + 1 /\ line' \in 0..MaxLines
      /\ ReadLines \subseteq ReadLines' /\ line' \in ReadLines'
      /\ baseline' = baseline /\ line' # NoLine
  BY NextLineReads DEF ReactSla
<1>2. /\ device[sla] # {}
      /\ device' = [device EXCEPT ![sla] = @ \union {fact}]
      /\ reactions' = [reactions EXCEPT ![sla] = @ \union {fact}]
      /\ UNCHANGED <<operations, schedules, schedule_line, objects, banner_text,
                     banner_line, entity_ops>>
  BY DEF ReactSla
<1>3. sla \in Entities /\ sla \notin Blocks /\ sla \notin Banners
  BY ServiceAssumption DEF Entities
<1>4. Shape'
  BY <1>1, <1>2, <1>3 DEF Shape
<1>5. Says'
  BY <1>2 DEF Shape, Says
<1>6. SettingLinesAre /\ SettingLinesAre'
  BY <1>4, SettingLines, LinesAfter
<1>7. \A e \in Slas : SlaLine(e)' = SlaLine(e)
  BY <1>2 DEF SlaLine
<1>8. \A e \in Entities : DeleteLines(e)' = DeleteLines(e) /\ SetLines(e)' = SetLines(e)
  BY <1>2, <1>6, <1>7 DEF DeleteLines, SettingLinesAre, Entities
<1>9. \A e \in Entities : device'[e] # {} <=> device[e] # {}
  BY <1>2, <1>3 DEF Shape
<1>10. BlockIs'
  BY <1>1, <1>2, <1>3, <1>8 DEF BlockIs, Entities, Shape
<1>11. QED
  BY <1>4, <1>5, <1>8, <1>9, <1>10 DEF Kept, Untouched

(* A block adds the newest operation to those of its entity.               *)
LEMMA DefineBlockStep ==
    ASSUME IInv, NEW block \in Blocks, NEW fact \in Facts, DefineBlock(block, fact)
    PROVE  Kept /\ BlockIs'
<1> USE DEF IInv
<1> DEFINE new == Op("SET", block, {fact}, line')
<1>1. /\ line \in Nat /\ line' = line + 1 /\ line' \in 0..MaxLines
      /\ ReadLines \subseteq ReadLines' /\ line' \in ReadLines'
      /\ baseline' = baseline /\ line' # NoLine
  BY NextLineReads DEF DefineBlock
<1>2. /\ device' = [device EXCEPT ![block] = @ \union {fact}]
      /\ objects' = objects \union {new}
      /\ UNCHANGED <<operations, schedules, schedule_line, reactions, banner_text,
                     banner_line, entity_ops>>
  BY DEF DefineBlock
<1>3. block \in Entities /\ block \notin Slas /\ block \notin Banners
  BY ServiceAssumption DEF Entities
<1>4. /\ new.verb = "SET" /\ new.entity = block /\ new.value = {fact} /\ new.line = line'
      /\ new \in [verb : {"SET"}, entity : Blocks, value : SUBSET Facts, line : ReadLines']
  BY <1>1 DEF Op
<1> HIDE DEF new
<1>5. Shape'
  BY <1>1, <1>2, <1>3, <1>4 DEF Shape
<1>6. Says'
  BY <1>2, <1>4 DEF Shape, Says
<1>7. SettingLinesAre /\ SettingLinesAre'
  BY <1>5, SettingLines, LinesAfter
<1>8. \A e \in Entities : DeleteLines(e)' = DeleteLines(e)
  BY <1>2 DEF DeleteLines
<1>9. IsSet(block)
  <2>1. line' \in SetLines(block)'
    BY <1>2, <1>4, <1>7 DEF SettingLinesAre
  <2>2. device'[block] # {}
    BY <1>2, <1>3 DEF Shape
  <2>3. QED
    BY <1>3, <1>8, <2>1, <2>2 DEF IsSet
<1>10. ASSUME NEW e \in Entities, e # block
       PROVE  Untouched(e)
  <2>1. device'[e] = device[e]
    BY <1>2, <1>10 DEF Shape
  <2>2. {set \in objects' : set.entity = e} = {set \in objects : set.entity = e}
    BY <1>2, <1>4, <1>10
  <2>3. \A s \in Slas : SlaLine(s)' = SlaLine(s)
    BY <1>2 DEF SlaLine
  <2>4. SetLines(e)' = SetLines(e)
    BY <1>2, <1>7, <2>2, <2>3 DEF SettingLinesAre, Entities
  <2>5. QED
    BY <1>8, <2>1, <2>4 DEF Untouched
<1>11. BlockIs'
  <2>1. SUFFICES ASSUME NEW e \in Blocks, NEW f \in Facts
                 PROVE  f \in device'[e] <=>
                          \/ f \in baseline[e] /\ DeleteLines(e) = {}
                          \/ \E op \in objects' :
                                /\ op.entity = e /\ f \in op.value
                                /\ \A d \in DeleteLines(e) : d <= op.line
    BY <1>1, <1>8 DEF BlockIs, Entities
  <2>2. f \in device[e] <=>
          \/ f \in baseline[e] /\ DeleteLines(e) = {}
          \/ \E op \in objects :
                /\ op.entity = e /\ f \in op.value
                /\ \A d \in DeleteLines(e) : d <= op.line
    BY DEF BlockIs
  <2>3. CASE e # block
    BY <1>2, <1>3, <1>4, <2>2, <2>3 DEF Shape, Entities
  <2>4. CASE e = block
    <3>1. \A d \in DeleteLines(e) : d <= new.line
      <4>1. DeleteLines(e) \subseteq 1..line
        BY <1>3, <2>4, LinesRead DEF ReadLines
      <4>2. QED
        BY <1>1, <1>4, <4>1
    <3>2. f \in device'[e] <=> f \in device[e] \/ f = fact
      BY <1>2, <1>3, <2>4 DEF Shape
    <3>3. QED
      BY <1>2, <1>4, <2>2, <2>4, <3>1, <3>2
  <2>5. QED
    BY <2>3, <2>4
<1>12. QED
  BY <1>5, <1>6, <1>9, <1>10, <1>11 DEF Kept

(* A banner moves to this line.                                            *)
LEMMA DefineBannerStep ==
    ASSUME IInv, NEW banner \in Banners, NEW fact \in Facts, DefineBanner(banner, fact)
    PROVE  Kept /\ BlockIs'
<1> USE DEF IInv
<1>1. /\ line \in Nat /\ line' = line + 1 /\ line' \in 0..MaxLines
      /\ ReadLines \subseteq ReadLines' /\ line' \in ReadLines'
      /\ baseline' = baseline /\ line' # NoLine
  BY NextLineReads DEF DefineBanner
<1>2. /\ device' = [device EXCEPT ![banner] = {fact}]
      /\ banner_text' =
            [banner_text EXCEPT ![banner] = IF @ = {} THEN {fact} ELSE @]
      /\ banner_line' = [banner_line EXCEPT ![banner] = line']
      /\ UNCHANGED <<operations, schedules, schedule_line, reactions, objects,
                     entity_ops>>
  BY DEF DefineBanner
<1>3. banner \in Entities /\ banner \notin Slas /\ banner \notin Blocks
  BY ServiceAssumption DEF Entities
<1>4. Shape'
  BY <1>1, <1>2, <1>3 DEF Shape
<1>5. Says'
  BY <1>1, <1>2 DEF Shape, Says
<1>6. SettingLinesAre /\ SettingLinesAre'
  BY <1>4, SettingLines, LinesAfter
<1>7. \A e \in Entities : DeleteLines(e)' = DeleteLines(e)
  BY <1>2 DEF DeleteLines
<1>8. IsSet(banner)
  <2>1. banner_text'[banner] # {} /\ banner_line'[banner] = line'
    BY <1>2 DEF Shape
  <2>2. line' \in SetLines(banner)'
    BY <1>6, <2>1 DEF SettingLinesAre
  <2>3. QED
    BY <1>2, <1>3, <1>7, <2>2 DEF IsSet, Shape
<1>9. ASSUME NEW e \in Entities, e # banner
      PROVE  Untouched(e)
  <2>1. device'[e] = device[e]
    BY <1>2, <1>9 DEF Shape
  <2>2. \A s \in Slas : SlaLine(s)' = SlaLine(s)
    BY <1>2 DEF SlaLine
  <2>3. e \in Banners => banner_text'[e] = banner_text[e] /\ banner_line'[e] = banner_line[e]
    BY <1>2, <1>9 DEF Shape
  <2>4. SetLines(e)' = SetLines(e)
    BY <1>2, <1>6, <2>2, <2>3 DEF SettingLinesAre, Entities
  <2>5. QED
    BY <1>7, <2>1, <2>4 DEF Untouched
<1>10. BlockIs'
  BY <1>1, <1>2, <1>3, <1>7 DEF BlockIs, Entities, Shape
<1>11. QED
  BY <1>4, <1>5, <1>8, <1>9, <1>10 DEF Kept

(* A removal is the newest deletion of its entity.                         *)
LEMMA RemoveStep ==
    ASSUME IInv, NEW entity \in Entities, Remove(entity)
    PROVE  Kept /\ BlockIs'
<1> USE DEF IInv
<1> DEFINE new == Op("DELETE", entity, {}, line')
<1>1. /\ line \in Nat /\ line' = line + 1 /\ line' \in 0..MaxLines
      /\ ReadLines \subseteq ReadLines' /\ line' \in ReadLines'
      /\ baseline' = baseline /\ line' # NoLine
  BY NextLineReads DEF Remove
<1>2. /\ device' = [device EXCEPT ![entity] = {}]
      /\ entity_ops' = entity_ops \union {new}
      /\ UNCHANGED <<operations, schedules, schedule_line, reactions, objects,
                     banner_text, banner_line>>
  BY DEF Remove
<1>3. /\ new.entity = entity /\ new.line = line'
      /\ new \in [verb : {"DELETE"}, entity : Entities, value : {{}}, line : ReadLines']
  BY <1>1 DEF Op
<1> HIDE DEF new
<1>4. Shape'
  BY <1>1, <1>2, <1>3 DEF Shape
<1>5. Says'
  BY <1>2 DEF Says
<1>6. SettingLinesAre /\ SettingLinesAre'
  BY <1>4, SettingLines, LinesAfter
<1>7. \A s \in Slas : SlaLine(s)' = SlaLine(s)
  BY <1>2 DEF SlaLine
<1>8. \A e \in Entities : SetLines(e)' = SetLines(e)
  BY <1>2, <1>6, <1>7 DEF SettingLinesAre, Entities
<1>9. IsDeleted(entity)
  <2>1. line' \in DeleteLines(entity)'
    BY <1>2, <1>3 DEF DeleteLines
  <2>2. QED
    BY <1>2, <1>8, <2>1 DEF IsDeleted, Shape
<1>10. ASSUME NEW e \in Entities, e # entity
       PROVE  DeleteLines(e)' = DeleteLines(e) /\ device'[e] = device[e]
  <2>1. {del \in entity_ops' : del.entity = e} = {del \in entity_ops : del.entity = e}
    BY <1>2, <1>3, <1>10
  <2>2. QED
    BY <1>2, <1>10, <2>1 DEF DeleteLines, Shape
<1>11. BlockIs'
  <2>1. ASSUME NEW e \in Blocks, NEW f \in Facts, e # entity
        PROVE  f \in device'[e] <=>
                 \/ f \in baseline'[e] /\ DeleteLines(e)' = {}
                 \/ \E op \in objects' :
                       /\ op.entity = e /\ f \in op.value
                       /\ \A d \in DeleteLines(e)' : d <= op.line
    <3>1. e \in Entities
      BY DEF Entities
    <3>2. QED
      BY <1>1, <1>2, <1>10, <2>1, <3>1 DEF BlockIs
  <2>2. ASSUME NEW e \in Blocks, NEW f \in Facts, e = entity
        PROVE  /\ f \notin device'[e]
               /\ DeleteLines(e)' # {}
               /\ \A op \in objects' :
                     ~\A d \in DeleteLines(e)' : d <= op.line
    <3>1. line' \in DeleteLines(e)'
      BY <1>9, <2>2 DEF IsDeleted
    <3>2. \A op \in objects' : op.line \in 1..line
      BY <1>2 DEF Shape, ReadLines
    <3>3. \A op \in objects' : ~(line' <= op.line)
      BY <1>1, <3>2
    <3>4. QED
      BY <1>9, <2>2, <3>1, <3>3 DEF IsDeleted
  <2>3. QED
    BY <2>1, <2>2 DEF BlockIs
<1>12. QED
  BY <1>4, <1>5, <1>8, <1>9, <1>10 , <1>11 DEF Kept, Untouched

(* Before the first line every entity is what the baseline says.           *)
LEMMA InitInv == Init => IInv
<1> SUFFICES ASSUME Init PROVE IInv
  OBVIOUS
<1>1. Shape
  BY ServiceAssumption DEF Init, Shape
<1>2. Says
  BY DEF Init, Says
<1>3. \A e \in Slas : SlaLine(e) = NoLine
  BY DEF Init, SlaLine
<1>4. \A e \in Entities : SetLines(e) = {} /\ DeleteLines(e) = {}
  BY <1>1, <1>3, SettingLines DEF SettingLinesAre, Init, DeleteLines, Entities
<1>5. PresenceIs
  BY <1>4 DEF PresenceIs, Survives, Merged, Had, Init
<1>6. BlockIs
  BY <1>4 DEF BlockIs, Init, Entities
<1>7. QED
  BY <1>1, <1>2, <1>5, <1>6 DEF IInv

(* Every line of a script keeps the invariant.                             *)
LEMMA NextInv == IInv /\ [Next]_vars => IInv'
<1> SUFFICES ASSUME IInv, [Next]_vars PROVE IInv'
  OBVIOUS
<1>1. ASSUME Kept, BlockIs', NextLine PROVE IInv'
  BY <1>1, PresenceStep DEF Kept, IInv
<1>2. CASE UNCHANGED vars
  <2>1. UNCHANGED <<baseline, device, line, operations, schedules, schedule_line,
                    reactions, objects, banner_text, banner_line, entity_ops>>
    BY <1>2 DEF vars, parserVars
  <2>2. Shape' /\ Says'
    <3>1. ReadLines' = ReadLines
      BY <2>1 DEF ReadLines
    <3>2. QED
      BY <2>1, <3>1 DEF IInv, Shape, Says
  <2>3. native_ops' = native_ops
    BY <2>1 DEF native_ops, SlaOps, BannerOps, SlaLine
  <2>4. \A e \in Entities : /\ SetLines(e)' = SetLines(e)
                            /\ DeleteLines(e)' = DeleteLines(e)
                            /\ Had(e)' = Had(e)
    BY <2>1, <2>3 DEF SetLines, DeleteLines, Had
  <2>5. PresenceIs'
    BY <2>1, <2>4 DEF IInv, PresenceIs
  <2>6. BlockIs'
    BY <2>1, <2>4 DEF IInv, BlockIs, Entities
  <2>7. QED
    BY <2>2, <2>5, <2>6 DEF IInv
<1>3. ASSUME NEW e \in Slas, NEW fact \in Facts, DefineSla(e, fact)
      PROVE  IInv'
  BY <1>1, <1>3, DefineSlaStep DEF DefineSla
<1>4. ASSUME NEW e \in Slas, NEW fact \in Facts, ReactSla(e, fact)
      PROVE  IInv'
  BY <1>1, <1>4, ReactSlaStep DEF ReactSla
<1>5. ASSUME NEW e \in Slas, NEW fact \in Schedules, ScheduleSla(e, fact)
      PROVE  IInv'
  BY <1>1, <1>5, ScheduleSlaStep, ServiceAssumption DEF ScheduleSla
<1>6. ASSUME NEW e \in Blocks, NEW fact \in Facts, DefineBlock(e, fact)
      PROVE  IInv'
  BY <1>1, <1>6, DefineBlockStep DEF DefineBlock
<1>7. ASSUME NEW e \in Banners, NEW fact \in Facts, DefineBanner(e, fact)
      PROVE  IInv'
  BY <1>1, <1>7, DefineBannerStep DEF DefineBanner
<1>8. ASSUME NEW e \in Entities, Remove(e)
      PROVE  IInv'
  BY <1>1, <1>8, RemoveStep DEF Remove
<1>9. QED
  BY <1>2, <1>3, <1>4, <1>5, <1>6, <1>7, <1>8 DEF Next

(* The inductive invariant holds of every script.                          *)
THEOREM InvariantHolds == Spec => []IInv
<1>1. QED
  BY InitInv, NextInv, PTL DEF Spec

(* The state is well typed, and every operation stands on a line of the    *)
(* script.                                                                 *)
THEOREM TypeCorrect == Spec => []TypeOK
<1>1. ASSUME IInv PROVE TypeOK
  <2>1. Shape /\ MaxLines \in Nat /\ line \in 0..MaxLines
    BY <1>1, ServiceAssumption DEF IInv, Shape
  <2>2. ReadLines \subseteq 1..MaxLines /\ ReadLines \union {NoLine} \subseteq Int
    BY <2>1 DEF ReadLines, NoLine
  <2>3. objects \subseteq Ops /\ entity_ops \subseteq Ops
    BY <2>1, <2>2 DEF Shape, Ops, Entities
  <2>4. /\ operations \in [Slas -> [value : SUBSET Facts, line : Int]]
        /\ schedule_line \in [Slas -> Int] /\ banner_line \in [Banners -> Int]
    BY <2>1, <2>2 DEF Shape
  <2>5. QED
    BY <2>1, <2>3, <2>4 DEF Shape, TypeOK
<1>2. QED
  BY <1>1, InvariantHolds, PTL

(* Replaying the operations in line order leaves exactly the entities the  *)
(* device has after the script.                                            *)
THEOREM PresenceCorrect == Spec => []ReplayedPresence
<1>1. ASSUME IInv PROVE ReplayedPresence
  BY <1>1, ReplaySurvives DEF IInv, PresenceIs, ReplayedPresence
<1>2. QED
  BY <1>1, InvariantHolds, PTL

(* The legacy consumer, which deletes after adding, has the same entities. *)
THEOREM LegacyCorrect == Spec => []LegacyMergeAgrees
<1>1. ASSUME IInv PROVE LegacyMergeAgrees
  BY <1>1, LegacyMerged DEF IInv, PresenceIs, LegacyMergeAgrees
<1>2. QED
  BY <1>1, InvariantHolds, PTL

(* Tracks and applets have the attributes the device gives them.           *)
THEOREM BlocksCorrect == Spec => []ReplayedBlocks
<1>1. ASSUME IInv PROVE ReplayedBlocks
  <2>1. SUFFICES ASSUME NEW e \in Blocks
                 PROVE  Replay(native_ops, baseline, e) = device[e]
    BY DEF ReplayedBlocks
  <2>2. e \in Entities /\ device[e] \subseteq Facts /\ e \notin Slas /\ e \notin Banners
    BY <1>1, ServiceAssumption DEF IInv, Shape, Entities
  <2>3. /\ \A op \in native_ops : op.entity = e =>
              op.verb = "DELETE" \/ (op.verb = "SET" /\ op \in objects)
        /\ objects \subseteq native_ops
        /\ \A op \in objects : op.verb = "SET" /\ op.line \in Nat
    <3>1. \A op \in SlaOps : op.entity \in Slas
      BY DEF SlaOps, Op
    <3>2. \A op \in BannerOps : op.entity \in Banners
      BY DEF BannerOps, Op
    <3>3. QED
      BY <1>1, <2>2, <3>1, <3>2 DEF IInv, Shape, native_ops, ReadLines
  <2>4. DeleteLines(e) \subseteq Nat
    BY <1>1, <2>2, LinesRead DEF IInv, ReadLines
  <2>5. \A op \in native_ops : op.entity = e => (Keeps(op) <=> op.verb = "SET")
    BY DEF Keeps, Merges
  <2>6. (\A op \in native_ops : op.entity = e => Keeps(op)) <=> DeleteLines(e) = {}
    BY <1>1, <2>5, OpFacts DEF IInv
  <2>7. ASSUME NEW op \in objects
        PROVE  (\A other \in native_ops :
                   (other.entity = e /\ other.line > op.line) => Keeps(other))
               <=> \A d \in DeleteLines(e) : d <= op.line
    <3>1. ASSUME \A other \in native_ops :
                    (other.entity = e /\ other.line > op.line) => Keeps(other),
                 NEW d \in DeleteLines(e)
          PROVE  d <= op.line
      <4>1. PICK del \in native_ops : del.entity = e /\ del.verb = "DELETE" /\ del.line = d
        BY <1>1, OpFacts DEF IInv
      <4>2. ~(d > op.line)
        BY <2>5, <3>1, <4>1
      <4>3. QED
        BY <2>3, <2>4, <4>2
    <3>2. ASSUME \A d \in DeleteLines(e) : d <= op.line,
                 NEW other \in native_ops, other.entity = e, other.line > op.line
          PROVE  Keeps(other)
      <4>1. other.line \notin DeleteLines(e)
        BY <2>3, <2>4, <3>2
      <4>2. other.verb = "SET"
        BY <1>1, <3>2, <4>1, OpFacts DEF IInv
      <4>3. QED
        BY <2>5, <3>2, <4>2
    <3>3. QED
      BY <3>1, <3>2
  <2>8. ASSUME NEW f \in Facts
        PROVE  f \in Replay(native_ops, baseline, e) <=> f \in device[e]
    <3>1. f \in Replay(native_ops, baseline, e) <=>
            \/ f \in baseline[e] /\ DeleteLines(e) = {}
            \/ \E op \in native_ops :
                  /\ op.entity = e /\ op.verb = "SET" /\ f \in op.value
                  /\ \A other \in native_ops :
                        (other.entity = e /\ other.line > op.line) => Keeps(other)
      BY <2>6 DEF Replay
    <3>2. f \in Replay(native_ops, baseline, e) <=>
            \/ f \in baseline[e] /\ DeleteLines(e) = {}
            \/ \E op \in objects :
                  /\ op.entity = e /\ f \in op.value
                  /\ \A d \in DeleteLines(e) : d <= op.line
      BY <2>3, <2>7, <3>1
    <3>3. QED
      BY <1>1, <3>2 DEF IInv, BlockIs
  <2>9. QED
    BY <2>2, <2>8 DEF Replay
<1>2. QED
  BY <1>1, InvariantHolds, PTL
=============================================================================
