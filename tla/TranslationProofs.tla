------------------------- MODULE TranslationProofs -------------------------
(***************************************************************************)
(* Type correctness of Translation, that its dictionary is emptied and     *)
(* never holds the translation of another word, that the screen says it is *)
(* being translated only while it is, and that a tap served alone          *)
(* translates what it has collected: for any texts, words, taps, limit,    *)
(* and either way of translating.                                          *)
(***************************************************************************)
EXTENDS Translation, FiniteSetTheorems, TLAPS

Item == {Own(w) : w \in Words} \cup {Empty}
Value == Target \cup {Empty}

(* What can be shown is told apart by its kind. *)
LEMMA OwnIsNot == ASSUME NEW w PROVE Own(w) # Empty /\ Own(w) # Absent
<1>1. Own(w).is = "own" /\ Empty.is = "empty" /\ Absent.is = "nil"
  BY DEF Own, Empty, Absent
<1> QED BY <1>1

LEMMA TranslatedIsNot == ASSUME NEW w PROVE Translated(w) # Empty /\ Translated(w) # Absent /\ Empty # Absent
<1>1. Translated(w).is = "translation" /\ Empty.is = "empty" /\ Absent.is = "nil"
  BY DEF Translated, Empty, Absent
<1> QED BY <1>1

(* A word is answered by its translation, a blank by a blank. *)
LEMMA AnswerOf ==
  /\ Answer(Empty) = Empty
  /\ \A w : Answer(Own(w)) = Translated(w)
<1>1. Answer(Empty) = Empty BY DEF Answer
<1>2. ASSUME NEW w PROVE Answer(Own(w)) = Translated(w)
  <2>1. Own(w) # Empty BY OwnIsNot
  <2>2. Own(w).word = w BY DEF Own
  <2> QED BY <2>1, <2>2 DEF Answer
<1> QED BY <1>1, <1>2

LEMMA AnswerType == ASSUME NEW item \in Item PROVE Answer(item) \in Value
BY AnswerOf DEF Item, Value, Target

(* The words that are copied are all words of the dictionary, and some. *)
LEMMA CopiedWords ==
  ASSUME Keys # {}, NEW ws \in [1 .. Cardinality(Keys) -> Keys]
  PROVE  ws \in Seq(Words) /\ Len(ws) \in Nat \ {0}
<1>1. Keys \subseteq Words BY DEF Keys
<1>2. IsFiniteSet(Keys) BY <1>1, TranslationAssumption, FS_Subset
<1>3. Cardinality(Keys) \in Nat BY <1>2, FS_CardinalityType
<1>4. Cardinality(Keys) # 0 BY <1>2, FS_EmptySet
<1>5. ws \in Seq(Words) /\ Len(ws) = Cardinality(Keys)
  BY <1>1, <1>3
<1> QED BY <1>3, <1>4, <1>5
-----------------------------------------------------------------------------
(* Types.                                                                  *)

(* Constants, the values of a text, and the threads. *)
LEMMA Constants ==
  /\ Title \in Texts /\ NoText \notin Texts
  /\ \A x \in Texts : Says[x] \subseteq Words
  /\ Requests \subseteq Thread /\ Main \in Thread /\ Main \notin Requests
  /\ \A t \in Thread : t # Main => t \in Requests
  /\ Nobody \notin Requests
  /\ MaxItems \in Nat \ {0}
BY TranslationAssumption DEF Thread

LEMMA ValuesShown ==
  /\ Value \subseteq Shown /\ Absent \in Shown
  /\ \A w \in Words : Own(w) \in Shown
BY DEF Value, Shown

LEMMA EntryType ==
  ASSUME TypeOK, NEW x \in Texts
  PROVE  Entry(x) \in Shown
<1>1. translatedDic[src[x]] \in Value \cup {Absent} BY DEF TypeOK, Value
<1> QED BY <1>1, ValuesShown DEF Entry

(* The word a batch is at, and the batch with one item more. *)
LEMMA BatchSet == Batch = [from : Nat \ {0}, items : Seq(Item)]
BY DEF Batch, Item

LEMMA CursorType ==
  ASSUME TypeOK, NEW r \in Requests
  PROVE  /\ itemArray[r] \in Batch
         /\ itemArray[r].from \in Nat \ {0} /\ itemArray[r].items \in Seq(Item)
         /\ At(r) \in Nat \ {0}
<1>1. itemArray[r] \in Batch BY DEF TypeOK
<1>2. itemArray[r].from \in Nat \ {0} /\ itemArray[r].items \in Seq(Item)
  BY <1>1, BatchSet
<1> QED BY <1>1, <1>2 DEF At

LEMMA ItemsReplaced ==
  ASSUME NEW A, NEW B, NEW b \in [from : A, items : B], NEW c
  PROVE  [b EXCEPT !.items = c] = [from |-> b.from, items |-> c]
OBVIOUS

LEMMA AddingType ==
  ASSUME TypeOK, NEW r \in Requests, NEW item \in Item
  PROVE  /\ Adding(r, item) \in Batch
         /\ Adding(r, item).from = itemArray[r].from
         /\ Adding(r, item).items = Append(itemArray[r].items, item)
<1>1. itemArray[r] \in [from : Nat \ {0}, items : Seq(Item)] BY CursorType, BatchSet
<1>2. itemArray[r].from \in Nat \ {0} /\ itemArray[r].items \in Seq(Item) BY CursorType
<1>3. Append(itemArray[r].items, item) \in Seq(Item) BY <1>2
<1> HIDE DEF Item
<1>4. Adding(r, item) = [from |-> itemArray[r].from, items |-> Append(itemArray[r].items, item)]
  BY <1>1, ItemsReplaced DEF Adding
<1> QED BY <1>2, <1>3, <1>4, BatchSet

LEMMA NewBatchType == ASSUME NEW n \in Nat \ {0} PROVE NewBatch(n) \in Batch
BY DEF NewBatch, Batch

(* What a reply adds. *)
Added(r, data) ==
  IF data THEN [k \in 1 .. Len(Asked(r)) |-> Answer(Asked(r)[k])]
  ELSE [k \in 1 .. Len(Head(sections[r]).items) |-> Empty]

LEMMA HeadType ==
  ASSUME TypeOK, NEW r \in Requests, pc[r] = "wait"
  PROVE  /\ sections[r] \in Seq(Batch) /\ sections[r] # <<>>
         /\ Head(sections[r]) \in Batch
         /\ Head(sections[r]).from \in Nat \ {0} /\ Head(sections[r]).items \in Seq(Item)
         /\ Tail(sections[r]) \in Seq(Batch)
<1>1. sections[r] \in Seq(Batch) /\ sections[r] # <<>> BY DEF TypeOK
<1>2. Head(sections[r]) \in Batch /\ Tail(sections[r]) \in Seq(Batch) BY <1>1
<1> QED BY <1>1, <1>2 DEF Batch, Item

LEMMA AskedType ==
  ASSUME TypeOK, NEW r \in Requests, pc[r] = "wait"
  PROVE  Asked(r) \in Seq(Item)
<1>1. CASE viaDelegate
  <2>1. words[r] \in Seq(Words) BY DEF TypeOK
  <2>2. Asked(r) = [k \in 1 .. Len(words[r]) |-> Own(words[r][k])] BY <1>1 DEF Asked
  <2>3. \A k \in 1 .. Len(words[r]) : Own(words[r][k]) \in Item BY <2>1 DEF Item
  <2> QED BY <2>1, <2>2, <2>3
<1>2. CASE ~viaDelegate BY <1>2, HeadType DEF Asked
<1> QED BY <1>1, <1>2

LEMMA AddedType ==
  ASSUME TypeOK, NEW r \in Requests, NEW data \in BOOLEAN, pc[r] = "wait"
  PROVE  /\ Added(r, data) \in Seq(Value)
         /\ Len(Added(r, data)) = IF data THEN Len(Asked(r)) ELSE Len(Head(sections[r]).items)
<1>1. Asked(r) \in Seq(Item) BY AskedType
<1>2. Head(sections[r]).items \in Seq(Item) BY HeadType
<1>3. \A k \in 1 .. Len(Asked(r)) : Answer(Asked(r)[k]) \in Value
  BY <1>1, AnswerType
<1>4. Empty \in Value BY DEF Value
<1>5. Len(Asked(r)) \in Nat /\ Len(Head(sections[r]).items) \in Nat BY <1>1, <1>2
<1>6. CASE data BY <1>6, <1>3, <1>5 DEF Added
<1>7. CASE ~data BY <1>7, <1>4, <1>5 DEF Added
<1> QED BY <1>6, <1>7

LEMMA TypeInit == ASSUME Init PROVE TypeOK
<1> USE Constants
<1>1. shown \in [Texts -> Shown] BY ValuesShown DEF Init
<1>2. NewBatch(1) \in Batch BY NewBatchType
<1>3. /\ itemArray \in [Requests -> Batch] /\ sections \in [Requests -> Seq(Batch)]
      /\ words \in [Requests -> Seq(Words)]
      /\ collected \in [Requests -> Seq(Target \cup {Empty})]
  BY <1>2 DEF Init
<1>4. /\ viaDelegate \in Delegates /\ src \in [Texts -> Words] /\ done \in [Texts -> BOOLEAN]
      /\ isShowTranslated \in BOOLEAN /\ isTranslating \in BOOLEAN
      /\ translatedDic \in [Words -> Target \cup {Absent, Empty}]
      /\ alone \in Requests \cup {Nobody}
  BY DEF Init
<1>5. /\ pc \in [Thread -> Stage] /\ pc[Main] = "idle" /\ \A t \in Thread : pc[t] = "idle"
      /\ todo \in [Thread -> SUBSET Texts] /\ seen \in [Thread -> Texts \cup {NoText}]
      /\ \A t \in Thread : todo[t] = {} /\ seen[t] = NoText
  BY DEF Init, Stage
<1> QED BY <1>1, <1>3, <1>4, <1>5 DEF TypeOK

(* While it cuts, a block is at one of its words. *)
AtWord(r) == pc[r] = "cut" => At(r) <= Len(words[r])
Cursor == \A r \in Requests : AtWord(r)

LEMMA TypeNext == ASSUME TypeOK, Cursor, [Next]_vars PROVE TypeOK'
<1> USE Constants
<1>1. ASSUME NEW x \in Texts, NEW w \in Says[x], SetText(x, w) PROVE TypeOK'
  <2>1. w \in Words /\ Own(w) \in Shown BY ValuesShown
  <2> QED BY <1>1, <2>1 DEF SetText, TypeOK, stateVars, queryVars, applyVars
<1>2. CASE TurnOff
  BY <1>2 DEF TurnOff, TypeOK, screenVars, queryVars, Stage
<1>3. ASSUME NEW r \in Requests, TurnOn(r) PROVE TypeOK'
  BY <1>3 DEF TurnOn, TypeOK, screenVars, queryVars, applyVars, Stage
<1>4. ASSUME NEW r \in Requests, Collect(r) PROVE TypeOK'
  <2>1. Empty \in Value BY DEF Value
  <2> QED BY <1>4, <2>1 DEF Collect, TypeOK, Value, screenVars, stateVars, queryVars, applyVars, Stage
<1>5. ASSUME NEW r \in Requests, Copy(r) PROVE TypeOK'
  <2>1. PICK ws \in [1 .. Cardinality(Keys) -> Keys] : words' = [words EXCEPT ![r] = ws]
    BY <1>5 DEF Copy
  <2>2. Keys # {} BY <1>5 DEF Copy
  <2>3. ws \in Seq(Words) BY <2>2, CopiedWords
  <2> QED BY <1>5, <2>1, <2>3 DEF Copy, TypeOK, screenVars, applyVars, Stage
<1>6. ASSUME NEW r \in Requests, NothingNew(r) PROVE TypeOK'
  BY <1>6 DEF NothingNew, TypeOK, screenVars, stateVars, queryVars, Stage
<1>7. ASSUME NEW r \in Requests, AddBlank(r) PROVE TypeOK'
  <2>1. Adding(r, Empty) \in Batch BY AddingType DEF Item
  <2>2. NewBatch(1) \in Batch BY NewBatchType
  <2>3. itemArray' \in [Requests -> Batch]
    BY <1>7, <2>1, <2>2 DEF AddBlank, SectionsDone, TypeOK
  <2>4. sections' = sections /\ (pc' = pc \/ pc' = [pc EXCEPT ![r] = IF sections[r] = <<>> THEN "store" ELSE "wait"])
    BY <1>7 DEF AddBlank, SectionsDone
  <2> QED BY <1>7, <2>3, <2>4 DEF AddBlank, CutFrame, TypeOK, screenVars, stateVars, applyVars, Stage
<1>8. ASSUME NEW r \in Requests, CloseSection(r) PROVE TypeOK'
  <2>1. itemArray[r] \in Batch /\ NewBatch(At(r)) \in Batch BY CursorType, NewBatchType
  <2>2. sections[r] \in Seq(Batch) BY DEF TypeOK
  <2>3. Append(sections[r], itemArray[r]) \in Seq(Batch) BY <2>1, <2>2
  <2> QED BY <1>8, <2>1, <2>3 DEF CloseSection, CutFrame, TypeOK, screenVars, stateVars, applyVars
<1>9. ASSUME NEW r \in Requests, AddWord(r) PROVE TypeOK'
  <2>1. words[r] \in Seq(Words) /\ sections[r] \in Seq(Batch) BY DEF TypeOK
  <2>2. At(r) \in 1 .. Len(words[r]) BY <1>9, <2>1, CursorType DEF AddWord, Cursor, AtWord
  <2>3. Own(words[r][At(r)]) \in Item BY <2>1, <2>2 DEF Item
  <2> DEFINE added == Adding(r, Own(words[r][At(r)]))
  <2>4. added \in Batch BY <2>3, AddingType
  <2>5. NewBatch(1) \in Batch BY NewBatchType
  <2> HIDE DEF added
  <2>6. CASE Last(r)
    <3>1. sections' = [sections EXCEPT ![r] = Append(@, added)] /\ SectionsDone(r)
      BY <1>9, <2>6 DEF AddWord, added
    <3>2. Append(sections[r], added) \in Seq(Batch) BY <2>1, <2>4
    <3>3. sections' \in [Requests -> Seq(Batch)] /\ sections'[r] = Append(sections[r], added)
      BY <3>1, <3>2 DEF TypeOK
    <3>4. Append(sections[r], added) # <<>> BY <2>1
    <3>5. pc' = [pc EXCEPT ![r] = "wait"] BY <3>1, <3>3, <3>4 DEF SectionsDone
    <3>6. itemArray' \in [Requests -> Batch] BY <3>1, <2>5 DEF SectionsDone, TypeOK
    <3>7. \A q \in Requests : q # r => sections'[q] = sections[q] BY <3>1 DEF TypeOK
    <3> QED
      BY <1>9, <3>3, <3>4, <3>5, <3>6, <3>7 DEF AddWord, CutFrame, TypeOK, screenVars, stateVars, applyVars, Stage
  <2>7. CASE ~Last(r)
    <3>1. itemArray' = [itemArray EXCEPT ![r] = added] /\ UNCHANGED <<sections, pc>>
      BY <1>9, <2>7 DEF AddWord, added
    <3> QED BY <1>9, <3>1, <2>4 DEF AddWord, CutFrame, TypeOK, screenVars, stateVars, applyVars
  <2> QED BY <2>6, <2>7
<1>10. ASSUME NEW r \in Requests, NEW data \in BOOLEAN, Reply(r, data) PROVE TypeOK'
  <2>1. pc[r] = "wait" BY <1>10 DEF Reply
  <2>2. collected' = [collected EXCEPT ![r] = @ \o Added(r, data)] BY <1>10 DEF Reply, Added
  <2>3. collected[r] \in Seq(Value) BY DEF TypeOK, Value
  <2>4. collected[r] \o Added(r, data) \in Seq(Value) BY <2>1, <2>3, AddedType
  <2>5. collected' \in [Requests -> Seq(Target \cup {Empty})] BY <2>2, <2>4 DEF TypeOK, Value
  <2>6. Tail(sections[r]) \in Seq(Batch) BY <2>1, HeadType
  <2>7. sections' = [sections EXCEPT ![r] = Tail(@)] BY <1>10 DEF Reply
  <2>8. sections' \in [Requests -> Seq(Batch)] BY <2>6, <2>7 DEF TypeOK
  <2>9. pc' = [pc EXCEPT ![r] = IF sections'[r] = <<>> THEN "store" ELSE "wait"] BY <1>10 DEF Reply
  <2>10. \A q \in Requests : pc'[q] = "wait" => sections'[q] # <<>>
    BY <2>7, <2>9 DEF TypeOK
  <2> QED
    BY <1>10, <2>5, <2>8, <2>9, <2>10 DEF Reply, TypeOK, screenVars, stateVars, applyVars, Stage
<1>11. ASSUME NEW r \in Requests, Store(r) PROVE TypeOK'
  <2>1. words[r] \in Seq(Words) /\ collected[r] \in Seq(Value) BY DEF TypeOK, Value
  <2>2. ASSUME NEW w \in Words, Len(words[r]) = Len(collected[r]), \E k \in 1 .. Len(words[r]) : words[r][k] = w
        PROVE  collected[r][CHOOSE k \in 1 .. Len(words[r]) : words[r][k] = w] \in Value
    BY <2>1, <2>2
  <2>3. translatedDic' \in [Words -> Target \cup {Absent, Empty}]
    <3>1. \A w \in Words : translatedDic[w] \in Target \cup {Absent, Empty} BY DEF TypeOK
    <3> QED BY <1>11, <2>2, <3>1 DEF Store, Value
  <2>4. pc' = [pc EXCEPT ![r] = "apply"] /\ todo' = [todo EXCEPT ![r] = Texts] BY <1>11 DEF Store, ToApply
  <2>5. collected' = [collected EXCEPT ![r] = <<>>] /\ isTranslating' = FALSE BY <1>11 DEF Store
  <2>6. UNCHANGED <<viaDelegate, screenVars, isShowTranslated, words, itemArray, sections, seen, alone>>
    BY <1>11 DEF Store
  <2>7. /\ pc' \in [Thread -> Stage] /\ pc'[Main] = pc[Main] /\ todo' \in [Thread -> SUBSET Texts]
        /\ \A t \in Thread : pc'[t] # "apply" => todo'[t] = {} /\ seen'[t] = NoText
        /\ \A q \in Requests : pc'[q] = "wait" => sections'[q] # <<>>
    BY <2>4, <2>6 DEF TypeOK, Stage
  <2>8. collected' \in [Requests -> Seq(Target \cup {Empty})] BY <2>5 DEF TypeOK
  <2> QED BY <2>3, <2>5, <2>6, <2>7, <2>8 DEF TypeOK, screenVars
<1>12. ASSUME NEW r \in Requests, Clear(r) PROVE TypeOK'
  BY <1>12 DEF Clear, TypeOK, screenVars, stateVars, applyVars, Stage
<1>13. ASSUME NEW t \in Thread, NEW x \in Texts, Look(t, x) PROVE TypeOK'
  BY <1>13 DEF Look, TypeOK, screenVars, stateVars, queryVars
<1>14. ASSUME NEW t \in Thread, Take(t) PROVE TypeOK'
  <2>1. seen[t] \in Texts BY <1>14 DEF Take, TypeOK
  <2>2. Entry(seen[t]) \in Shown BY <2>1, EntryType
  <2> QED BY <1>14, <2>1, <2>2 DEF Take, TypeOK, stateVars, queryVars
<1>15. ASSUME NEW t \in Thread, Applied(t) PROVE TypeOK'
  BY <1>15 DEF Applied, TypeOK, screenVars, stateVars, queryVars, applyVars, Stage
<1>16. CASE UNCHANGED vars
  BY <1>16 DEF vars, TypeOK, screenVars, stateVars, queryVars, applyVars
<1> QED
  BY <1>1, <1>2, <1>3, <1>4, <1>5, <1>6, <1>7, <1>8, <1>9, <1>10, <1>11, <1>12, <1>13, <1>14, <1>15, <1>16
     DEF Next, Block, Complete
-----------------------------------------------------------------------------
(* The batches, as sequences.                                              *)

(* A batch holds its words, or blanks, where they are in the copy. *)
Filled(ws, b) ==
  \A k \in 1 .. Len(b.items) :
    /\ b.from + k - 1 <= Len(ws)
    /\ b.items[k] \in {Empty, Own(ws[b.from + k - 1])}

(* Where the batch after these begins. *)
NextFrom(ss) == IF ss = <<>> THEN 1 ELSE ss[Len(ss)].from + Len(ss[Len(ss)].items)

(* Batches that hold the words one after the other. *)
InOrder(ws, ss) ==
  /\ \A s \in 1 .. Len(ss) : Filled(ws, ss[s])
  /\ \A s \in 1 .. Len(ss) - 1 : ss[s + 1].from = ss[s].from + Len(ss[s].items)

(* Translations that belong to the words, if there are not too many already. *)
Belonging(ws, c) ==
  Len(c) <= Len(ws) => \A k \in 1 .. Len(c) : c[k] \in {Empty, Translated(ws[k])}

LEMMA FilledNone == ASSUME NEW ws, NEW n PROVE Filled(ws, NewBatch(n))
BY DEF Filled, NewBatch

LEMMA FilledMore ==
  ASSUME NEW ws \in Seq(Words), NEW b \in Batch, NEW c \in Batch, NEW item \in Item, Filled(ws, b),
         b.from + Len(b.items) <= Len(ws),
         item \in {Empty, Own(ws[b.from + Len(b.items)])},
         c.from = b.from, c.items = Append(b.items, item)
  PROVE  Filled(ws, c)
<1>1. b.from \in Nat \ {0} /\ b.items \in Seq(Item) BY BatchSet
<1>2. Len(c.items) = Len(b.items) + 1 /\ Len(b.items) \in Nat BY <1>1
<1>3. \A k \in 1 .. Len(b.items) : c.items[k] = b.items[k] BY <1>1
<1>4. c.items[Len(b.items) + 1] = item BY <1>1
<1>5. SUFFICES ASSUME NEW k \in 1 .. Len(c.items)
               PROVE  c.from + k - 1 <= Len(ws) /\ c.items[k] \in {Empty, Own(ws[c.from + k - 1])}
  BY DEF Filled
<1>6. CASE k = Len(b.items) + 1
  <2>1. c.from + k - 1 = b.from + Len(b.items) BY <1>1, <1>2, <1>6
  <2> QED BY <2>1, <1>4, <1>6
<1>7. CASE k # Len(b.items) + 1
  <2>1. k \in 1 .. Len(b.items) BY <1>2, <1>7
  <2> QED BY <2>1, <1>3 DEF Filled
<1> QED BY <1>6, <1>7

LEMMA OrderMore ==
  ASSUME NEW ws, NEW ss \in Seq(Batch), NEW b \in Batch, InOrder(ws, ss), Filled(ws, b),
         b.from = NextFrom(ss)
  PROVE  /\ InOrder(ws, Append(ss, b)) /\ Append(ss, b) # <<>>
         /\ NextFrom(Append(ss, b)) = b.from + Len(b.items)
         /\ Append(ss, b)[1].from = IF ss = <<>> THEN b.from ELSE ss[1].from
<1> DEFINE tt == Append(ss, b)
<1>1. /\ tt \in Seq(Batch) /\ Len(tt) = Len(ss) + 1 /\ tt # <<>> /\ Len(ss) \in Nat
      /\ \A s \in 1 .. Len(ss) : tt[s] = ss[s]
      /\ tt[Len(ss) + 1] = b
  OBVIOUS
<1> HIDE DEF tt
<1>2. ASSUME NEW s \in 1 .. Len(tt) PROVE Filled(ws, tt[s])
  <2>1. CASE s = Len(ss) + 1 BY <2>1, <1>1
  <2>2. CASE s # Len(ss) + 1
    <3>1. s \in 1 .. Len(ss) BY <2>2, <1>1
    <3> QED BY <3>1, <1>1 DEF InOrder
  <2> QED BY <2>1, <2>2
<1>3. ASSUME NEW s \in 1 .. Len(tt) - 1 PROVE tt[s + 1].from = tt[s].from + Len(tt[s].items)
  <2>0. s \in 1 .. Len(ss) /\ tt[s] = ss[s] BY <1>1
  <2>1. CASE s = Len(ss)
    <3>1. ss # <<>> BY <2>0, <2>1
    <3> QED BY <2>0, <2>1, <3>1, <1>1 DEF NextFrom
  <2>2. CASE s # Len(ss)
    <3>1. s \in 1 .. Len(ss) - 1 /\ s + 1 \in 1 .. Len(ss) BY <2>0, <2>2, <1>1
    <3>2. tt[s + 1] = ss[s + 1] BY <3>1, <1>1
    <3> QED BY <2>0, <3>1, <3>2 DEF InOrder
  <2> QED BY <2>1, <2>2
<1>4. InOrder(ws, tt) BY <1>2, <1>3 DEF InOrder
<1>5. NextFrom(tt) = b.from + Len(b.items) BY <1>1 DEF NextFrom
<1>6. tt[1].from = IF ss = <<>> THEN b.from ELSE ss[1].from
  <2>1. CASE ss = <<>> BY <2>1, <1>1
  <2>2. CASE ss # <<>>
    <3>1. 1 \in 1 .. Len(ss) BY <2>2
    <3> QED BY <2>2, <3>1, <1>1
  <2> QED BY <2>1, <2>2
<1> QED BY <1>1, <1>4, <1>5, <1>6 DEF tt

LEMMA OrderTail ==
  ASSUME NEW ws, NEW ss \in Seq(Batch), ss # <<>>, InOrder(ws, ss)
  PROVE  /\ InOrder(ws, Tail(ss)) /\ Filled(ws, Head(ss))
         /\ Tail(ss) # <<>> => Tail(ss)[1].from = Head(ss).from + Len(Head(ss).items)
<1> DEFINE tt == Tail(ss)
<1>1. /\ tt \in Seq(Batch) /\ Len(tt) = Len(ss) - 1 /\ Len(ss) \in Nat \ {0} /\ Head(ss) = ss[1]
      /\ \A s \in 1 .. Len(tt) : tt[s] = ss[s + 1]
  OBVIOUS
<1> HIDE DEF tt
<1>2. ASSUME NEW s \in 1 .. Len(tt) PROVE Filled(ws, tt[s])
  <2>1. s + 1 \in 1 .. Len(ss) BY <1>1
  <2> QED BY <2>1, <1>1 DEF InOrder
<1>3. ASSUME NEW s \in 1 .. Len(tt) - 1 PROVE tt[s + 1].from = tt[s].from + Len(tt[s].items)
  <2>1. s + 1 \in 1 .. Len(ss) - 1 BY <1>1
  <2>2. ss[s + 1 + 1].from = ss[s + 1].from + Len(ss[s + 1].items) BY <2>1 DEF InOrder
  <2>3. s \in 1 .. Len(tt) /\ s + 1 \in 1 .. Len(tt) BY <1>1
  <2> QED BY <2>2, <2>3, <1>1
<1>4. Filled(ws, Head(ss)) BY <1>1 DEF InOrder
<1>5. ASSUME tt # <<>> PROVE tt[1].from = Head(ss).from + Len(Head(ss).items)
  <2>1. Len(tt) # 0 /\ Len(tt) \in Nat BY <1>1, <1>5
  <2>2. 1 \in 1 .. Len(tt) /\ 1 \in 1 .. Len(ss) - 1 BY <1>1, <2>1
  <2>3. tt[1] = ss[1 + 1] BY <1>1, <2>2
  <2>4. ss[1 + 1].from = ss[1].from + Len(ss[1].items) BY <2>2 DEF InOrder
  <2> QED BY <2>3, <2>4, <1>1
<1> QED BY <1>2, <1>3, <1>4, <1>5 DEF InOrder, tt

(* Answers to a batch belong after those to the batches before it. *)
LEMMA BelongingMore ==
  ASSUME NEW ws \in Seq(Words), NEW c \in Seq(Value), NEW d \in Seq(Value), Belonging(ws, c),
         Len(c) + Len(d) <= Len(ws) =>
           \A k \in 1 .. Len(d) : d[k] \in {Empty, Translated(ws[Len(c) + k])}
  PROVE  Belonging(ws, c \o d)
<1>1. /\ Len(c \o d) = Len(c) + Len(d) /\ Len(c) \in Nat /\ Len(d) \in Nat /\ Len(ws) \in Nat
      /\ \A k \in 1 .. Len(c) : (c \o d)[k] = c[k]
      /\ \A k \in 1 .. Len(d) : (c \o d)[Len(c) + k] = d[k]
  OBVIOUS
<1>2. SUFFICES ASSUME Len(c \o d) <= Len(ws), NEW k \in 1 .. Len(c \o d)
               PROVE  (c \o d)[k] \in {Empty, Translated(ws[k])}
  BY DEF Belonging
<1>3. CASE k <= Len(c)
  <2>1. k \in 1 .. Len(c) /\ Len(c) <= Len(ws) BY <1>1, <1>2, <1>3
  <2> QED BY <2>1, <1>1 DEF Belonging
<1>4. CASE k > Len(c)
  <2>1. k - Len(c) \in 1 .. Len(d) /\ Len(c) + (k - Len(c)) = k BY <1>1, <1>2, <1>4
  <2> QED BY <2>1, <1>1, <1>2
<1> QED BY <1>1, <1>2, <1>3, <1>4
-----------------------------------------------------------------------------
(* The batches, as they are cut and answered.                              *)

(* Nothing is left of a request where it is not needed. *)
Tidy(r) ==
  /\ pc[r] # "cut" => itemArray[r] = NewBatch(1)
  /\ pc[r] \notin {"cut", "wait"} => sections[r] = <<>>
  /\ pc[r] \notin {"wait", "store"} => collected[r] = <<>>

(* The batch being filled comes after the others, and the first of them, unless the host
   application is asked, after those that are answered. *)
Batches(r) ==
  /\ InOrder(words[r], sections[r])
  /\ sections[r] # <<>> => viaDelegate \/ sections[r][1].from = Len(collected[r]) + 1
  /\ pc[r] = "cut" => Filled(words[r], itemArray[r]) /\ itemArray[r].from = NextFrom(sections[r])

(* What is collected belongs to the words; as long as it is too little, and the host
   application is asked, it is blanks. *)
Answers(r) ==
  /\ Belonging(words[r], collected[r])
  /\ viaDelegate /\ Len(collected[r]) < Len(words[r]) =>
       \A k \in 1 .. Len(collected[r]) : collected[r][k] = Empty

CutsOf(r) == AtWord(r) /\ Tidy(r) /\ Batches(r) /\ Answers(r)
Cuts == \A r \in Requests : CutsOf(r)

(* A block that neither cuts nor waits nor stores has nothing. *)
LEMMA Resting ==
  ASSUME NEW r \in Requests, pc[r] \notin {"cut", "wait", "store"},
         itemArray[r] = NewBatch(1), sections[r] = <<>>, collected[r] = <<>>
  PROVE  CutsOf(r)
<1>1. InOrder(words[r], sections[r]) BY DEF InOrder
<1>2. Belonging(words[r], collected[r]) BY DEF Belonging
<1> QED BY <1>1, <1>2 DEF CutsOf, AtWord, Tidy, Batches, Answers

LEMMA RestingNext ==
  ASSUME NEW r \in Requests, pc'[r] \notin {"cut", "wait", "store"},
         itemArray'[r] = NewBatch(1), sections'[r] = <<>>, collected'[r] = <<>>
  PROVE  CutsOf(r)'
<1>1. InOrder(words[r], sections[r])' BY DEF InOrder
<1>2. Belonging(words[r], collected[r])' BY DEF Belonging
<1> QED BY <1>1, <1>2 DEF CutsOf, AtWord, Tidy, Batches, Answers

LEMMA CutsInit == ASSUME Init PROVE Cuts
<1> SUFFICES ASSUME NEW r \in Requests PROVE CutsOf(r) BY DEF Cuts
<1>1. pc[r] = "idle" /\ itemArray[r] = NewBatch(1) /\ sections[r] = <<>> /\ collected[r] = <<>>
  BY Constants DEF Init
<1> QED BY <1>1, Resting

(* A step of another thread. *)
Untouched(r) ==
  /\ viaDelegate' = viaDelegate /\ pc'[r] = pc[r] /\ words'[r] = words[r]
  /\ itemArray'[r] = itemArray[r] /\ sections'[r] = sections[r] /\ collected'[r] = collected[r]

LEMMA CutsKept == ASSUME NEW r \in Requests, CutsOf(r), Untouched(r) PROVE CutsOf(r)'
<1>1. AtWord(r)' BY DEF CutsOf, Untouched, AtWord, At
<1>2. Tidy(r)' BY DEF CutsOf, Untouched, Tidy
<1>3. InOrder(words'[r], sections'[r]) /\ (pc'[r] = "cut" => Filled(words'[r], itemArray'[r]) /\ itemArray'[r].from = NextFrom(sections'[r]))
  BY DEF CutsOf, Untouched, Batches
<1>4. Batches(r)' BY <1>3 DEF CutsOf, Untouched, Batches
<1>5. Belonging(words'[r], collected'[r]) BY DEF CutsOf, Untouched, Answers
<1>6. Answers(r)' BY <1>5 DEF CutsOf, Untouched, Answers
<1> QED BY <1>1, <1>2, <1>4, <1>6 DEF CutsOf

(* The steps of a block outside cutting and answering. *)
LEMMA QuietKept ==
  ASSUME TypeOK, Cuts, viaDelegate' = viaDelegate, NEW r \in Requests,
         itemArray' = itemArray, sections' = sections,
         \/ collected' = collected /\ pc[r] # "store"
         \/ collected' = [collected EXCEPT ![r] = <<>>],
         pc[r] \notin {"cut", "wait"}, pc'[r] \notin {"cut", "wait", "store"},
         \A q \in Requests : q # r => pc'[q] = pc[q] /\ words'[q] = words[q]
  PROVE  Cuts'
<1>1. CutsOf(r)'
  <2>1. itemArray'[r] = NewBatch(1) /\ sections'[r] = <<>> /\ collected'[r] = <<>>
    BY DEF TypeOK, Cuts, CutsOf, Tidy
  <2> QED BY <2>1, RestingNext
<1>2. ASSUME NEW q \in Requests, q # r PROVE CutsOf(q)'
  <2>1. Untouched(q) BY <1>2 DEF TypeOK, Untouched
  <2> QED BY <2>1, CutsKept DEF Cuts
<1> QED BY <1>1, <1>2 DEF Cuts

(* The others when r takes a step. *)
Others(r) == \A q \in Requests : q # r => Untouched(q)

LEMMA CutsOneByOne ==
  ASSUME Cuts, NEW r \in Requests, Others(r), CutsOf(r)'
  PROVE  Cuts'
<1>1. ASSUME NEW q \in Requests, q # r PROVE CutsOf(q)'
  BY <1>1, CutsKept DEF Others, Cuts
<1> QED BY <1>1 DEF Cuts

LEMMA CutsCopy == ASSUME TypeOK, Cuts, NEW r \in Requests, Copy(r) PROVE Cuts'
<1> USE Constants
<1>1. Keys # {} BY DEF Copy
<1>2. PICK ws \in [1 .. Cardinality(Keys) -> Keys] : words' = [words EXCEPT ![r] = ws] BY DEF Copy
<1>3. Len(ws) \in Nat \ {0} BY <1>1, CopiedWords
<1>4. /\ pc'[r] = "cut" /\ words'[r] = ws /\ viaDelegate' = viaDelegate
      /\ itemArray'[r] = NewBatch(1) /\ sections'[r] = <<>> /\ collected'[r] = <<>>
  BY <1>2 DEF Copy, TypeOK, Cuts, CutsOf, Tidy
<1>5. AtWord(r)' BY <1>3, <1>4 DEF AtWord, At, NewBatch
<1>6. Tidy(r)' BY <1>4 DEF Tidy
<1>7. Batches(r)'
  <2>1. InOrder(words'[r], sections'[r]) BY <1>4 DEF InOrder
  <2>2. Filled(words'[r], itemArray'[r]) BY <1>4, FilledNone
  <2>3. itemArray'[r].from = NextFrom(sections'[r]) BY <1>4 DEF NextFrom, NewBatch
  <2> QED BY <1>4, <2>1, <2>2, <2>3 DEF Batches
<1>8. Answers(r)' BY <1>4 DEF Answers, Belonging
<1>9. Others(r) BY <1>2 DEF Others, Untouched, Copy, TypeOK
<1> QED BY <1>5, <1>6, <1>7, <1>8, <1>9, CutsOneByOne DEF CutsOf

(* What a cutting block has to go by. *)
LEMMA Cutting ==
  ASSUME TypeOK, Cuts, NEW r \in Requests, pc[r] = "cut"
  PROVE  /\ words[r] \in Seq(Words) /\ itemArray[r] \in Batch /\ sections[r] \in Seq(Batch)
         /\ At(r) \in 1 .. Len(words[r]) /\ Own(words[r][At(r)]) \in Item /\ Empty \in Item
         /\ collected[r] = <<>>
         /\ InOrder(words[r], sections[r])
         /\ sections[r] # <<>> => viaDelegate \/ sections[r][1].from = 1
         /\ Filled(words[r], itemArray[r]) /\ itemArray[r].from = NextFrom(sections[r])
<1>1. words[r] \in Seq(Words) /\ itemArray[r] \in Batch /\ sections[r] \in Seq(Batch) BY DEF TypeOK
<1>2. At(r) \in 1 .. Len(words[r]) BY <1>1, CursorType DEF Cuts, CutsOf, AtWord
<1>3. Own(words[r][At(r)]) \in Item /\ Empty \in Item BY <1>1, <1>2 DEF Item
<1>4. collected[r] = <<>> BY DEF Cuts, CutsOf, Tidy
<1>5. Len(collected[r]) + 1 = 1 BY <1>4
<1> QED BY <1>1, <1>2, <1>3, <1>4, <1>5 DEF Cuts, CutsOf, Batches

(* The batches once they are complete. *)
LEMMA CutDone ==
  ASSUME NEW r \in Requests, pc'[r] = IF sections'[r] = <<>> THEN "store" ELSE "wait",
         itemArray'[r] = NewBatch(1), collected'[r] = <<>>,
         InOrder(words'[r], sections'[r]),
         sections'[r] # <<>> => viaDelegate' \/ sections'[r][1].from = 1
  PROVE  CutsOf(r)'
<1>1. AtWord(r)' BY DEF AtWord
<1>2. Tidy(r)' BY DEF Tidy
<1>3. Len(collected'[r]) + 1 = 1 OBVIOUS
<1>4. Batches(r)' BY <1>3 DEF Batches
<1>5. Answers(r)' BY DEF Answers, Belonging
<1> QED BY <1>1, <1>2, <1>4, <1>5 DEF CutsOf

(* A batch with the word it is at, or a blank for it. *)
LEMMA CutAdded ==
  ASSUME TypeOK, Cuts, NEW r \in Requests, pc[r] = "cut",
         NEW item \in {Empty, Own(words[r][At(r)])}
  PROVE  /\ Adding(r, item) \in Batch
         /\ Filled(words[r], Adding(r, item)) /\ Adding(r, item).from = itemArray[r].from
         /\ Adding(r, item).from + Len(Adding(r, item).items) = At(r) + 1
<1>1. item \in Item BY Cutting
<1>2. /\ Adding(r, item) \in Batch
      /\ Adding(r, item).from = itemArray[r].from
      /\ Adding(r, item).items = Append(itemArray[r].items, item)
  BY <1>1, AddingType
<1>3. itemArray[r].items \in Seq(Item) /\ itemArray[r].from \in Nat BY CursorType
<1>4. Filled(words[r], Adding(r, item))
  <2>1. itemArray[r].from + Len(itemArray[r].items) <= Len(words[r]) BY Cutting DEF At
  <2>2. item \in {Empty, Own(words[r][itemArray[r].from + Len(itemArray[r].items)])} BY DEF At
  <2> QED BY <1>1, <1>2, <2>1, <2>2, Cutting, FilledMore
<1>5. Adding(r, item).from + Len(Adding(r, item).items) = At(r) + 1 BY <1>2, <1>3 DEF At
<1> QED BY <1>2, <1>4, <1>5

(* A word, or a blank, that is not the last. *)
LEMMA CutOn ==
  ASSUME TypeOK, Cuts, NEW r \in Requests, pc[r] = "cut", ~Last(r),
         NEW item \in {Empty, Own(words[r][At(r)])},
         itemArray' = [itemArray EXCEPT ![r] = Adding(r, item)], UNCHANGED <<sections, pc>>, CutFrame
  PROVE  Cuts'
<1>1. itemArray'[r] = Adding(r, item) /\ sections' = sections /\ pc' = pc BY DEF TypeOK
<1>2. words' = words /\ collected' = collected /\ viaDelegate' = viaDelegate BY DEF CutFrame
<1>3. At(r)' = At(r) + 1 BY <1>1, CutAdded DEF At
<1>4. AtWord(r)' BY <1>1, <1>2, <1>3, Cutting DEF AtWord, Last
<1>5. Tidy(r)' BY <1>1, <1>2 DEF Tidy, Cuts, CutsOf
<1>6. Filled(words'[r], itemArray'[r]) /\ itemArray'[r].from = NextFrom(sections'[r])
  BY <1>1, <1>2, CutAdded, Cutting
<1>7. InOrder(words'[r], sections'[r]) BY <1>1, <1>2, Cutting
<1>8. Batches(r)' BY <1>1, <1>2, <1>6, <1>7 DEF Batches, Cuts, CutsOf
<1>9. Belonging(words'[r], collected'[r]) BY <1>2 DEF Cuts, CutsOf, Answers
<1>10. Answers(r)' BY <1>2, <1>9 DEF Answers, Cuts, CutsOf
<1>11. Others(r) BY <1>1, <1>2 DEF Others, Untouched, TypeOK
<1> QED BY <1>4, <1>5, <1>8, <1>10, <1>11, CutsOneByOne DEF CutsOf

LEMMA CutsAddBlank == ASSUME TypeOK, Cuts, NEW r \in Requests, AddBlank(r) PROVE Cuts'
<1>1. pc[r] = "cut" /\ sections' = sections /\ CutFrame BY DEF AddBlank
<1>2. CASE ~Last(r) BY <1>1, <1>2, CutOn DEF AddBlank
<1>3. CASE Last(r)
  <2> USE Constants
  <2>1. SectionsDone(r) BY <1>3 DEF AddBlank
  <2>2. words' = words /\ collected' = collected /\ viaDelegate' = viaDelegate BY <1>1 DEF CutFrame
  <2>3. pc'[r] = (IF sections'[r] = <<>> THEN "store" ELSE "wait") /\ itemArray'[r] = NewBatch(1)
    BY <2>1 DEF SectionsDone, TypeOK
  <2>4. CutsOf(r)' BY <1>1, <2>2, <2>3, Cutting, CutDone
  <2>5. Others(r) BY <1>1, <2>1, <2>2 DEF Others, Untouched, SectionsDone, TypeOK
  <2> QED BY <2>4, <2>5, CutsOneByOne
<1> QED BY <1>2, <1>3

LEMMA CutsCloseSection == ASSUME TypeOK, Cuts, NEW r \in Requests, CloseSection(r) PROVE Cuts'
<1>1. pc[r] = "cut" /\ pc' = pc /\ CutFrame
      /\ sections' = [sections EXCEPT ![r] = Append(@, itemArray[r])]
      /\ itemArray' = [itemArray EXCEPT ![r] = NewBatch(At(r))]
  BY DEF CloseSection
<1>2. words' = words /\ collected' = collected /\ viaDelegate' = viaDelegate BY <1>1 DEF CutFrame
<1>3. sections'[r] = Append(sections[r], itemArray[r]) /\ itemArray'[r] = NewBatch(At(r))
  BY <1>1 DEF TypeOK
<1>4. NewBatch(At(r)).from = At(r) /\ Len(NewBatch(At(r)).items) = 0 BY DEF NewBatch
<1>5. /\ InOrder(words[r], sections'[r]) /\ NextFrom(sections'[r]) = At(r)
      /\ sections'[r][1].from = IF sections[r] = <<>> THEN itemArray[r].from ELSE sections[r][1].from
  BY <1>1, <1>3, Cutting, OrderMore DEF At
<1>6. sections'[r][1].from = 1 \/ viaDelegate BY <1>1, <1>5, Cutting DEF NextFrom
<1>7. AtWord(r)'
  <2>1. At(r)' = At(r) BY <1>3, <1>4, CursorType DEF At
  <2> QED BY <2>1, <1>1, <1>2, Cutting DEF AtWord
<1>8. Tidy(r)' BY <1>1, <1>2 DEF Tidy, Cuts, CutsOf
<1>9. Batches(r)'
  <2>1. Len(collected'[r]) + 1 = 1 BY <1>1, <1>2, Cutting
  <2>2. Filled(words'[r], itemArray'[r]) BY <1>3, FilledNone
  <2>3. itemArray'[r].from = NextFrom(sections'[r]) BY <1>3, <1>4, <1>5
  <2>4. InOrder(words'[r], sections'[r]) BY <1>2, <1>5
  <2> QED BY <1>2, <1>6, <2>1, <2>2, <2>3, <2>4 DEF Batches
<1>10. Belonging(words'[r], collected'[r]) BY <1>2 DEF Cuts, CutsOf, Answers
<1>11. Answers(r)' BY <1>2, <1>10 DEF Answers, Cuts, CutsOf
<1>12. Others(r) BY <1>1, <1>2 DEF Others, Untouched, TypeOK
<1> QED BY <1>7, <1>8, <1>9, <1>11, <1>12, CutsOneByOne DEF CutsOf

LEMMA CutsAddWord == ASSUME TypeOK, Cuts, NEW r \in Requests, AddWord(r) PROVE Cuts'
<1> DEFINE item == Own(words[r][At(r)])
<1>1. pc[r] = "cut" /\ CutFrame BY DEF AddWord
<1>2. CASE ~Last(r) BY <1>1, <1>2, CutOn DEF AddWord
<1>3. CASE Last(r)
  <2> USE Constants
  <2>1. sections' = [sections EXCEPT ![r] = Append(@, Adding(r, item))] /\ SectionsDone(r)
    BY <1>3 DEF AddWord
  <2>2. words' = words /\ collected' = collected /\ viaDelegate' = viaDelegate BY <1>1 DEF CutFrame
  <2>3. pc'[r] = (IF sections'[r] = <<>> THEN "store" ELSE "wait") /\ itemArray'[r] = NewBatch(1)
    BY <2>1 DEF SectionsDone, TypeOK
  <2>4. sections'[r] = Append(sections[r], Adding(r, item)) BY <2>1 DEF TypeOK
  <2>5. /\ Adding(r, item) \in Batch /\ Filled(words[r], Adding(r, item))
        /\ Adding(r, item).from = itemArray[r].from
    BY <1>1, CutAdded
  <2> HIDE DEF item
  <2>6. /\ InOrder(words[r], sections'[r])
        /\ sections'[r][1].from = IF sections[r] = <<>> THEN itemArray[r].from ELSE sections[r][1].from
    BY <1>1, <2>4, <2>5, Cutting, OrderMore
  <2>7. sections'[r][1].from = 1 \/ viaDelegate BY <1>1, <2>6, Cutting DEF NextFrom
  <2>8. CutsOf(r)' BY <1>1, <2>2, <2>3, <2>6, <2>7, Cutting, CutDone
  <2>9. Others(r) BY <2>1, <2>2 DEF Others, Untouched, SectionsDone, TypeOK
  <2> QED BY <2>8, <2>9, CutsOneByOne
<1> QED BY <1>2, <1>3

(* What comes back for a batch belongs where it is put, from the service; from the host
   application unless it is too much. *)
LEMMA AnswersAdded ==
  ASSUME TypeOK, Cuts, NEW r \in Requests, pc[r] = "wait", NEW data \in BOOLEAN
  PROVE  LET c == collected[r] \o Added(r, data)
         IN  /\ c \in Seq(Value) /\ Len(c) = Len(collected[r]) + Len(Added(r, data))
             /\ Belonging(words[r], c)
             /\ viaDelegate /\ Len(c) < Len(words[r]) => \A k \in 1 .. Len(c) : c[k] = Empty
<1> DEFINE ws == words[r]
           old == collected[r]
           new == Added(r, data)
<1>1. ws \in Seq(Words) /\ old \in Seq(Value) BY DEF TypeOK, Value
<1>2. new \in Seq(Value) BY AddedType
<1>3. Belonging(ws, old)
      /\ (viaDelegate /\ Len(old) < Len(ws) => \A k \in 1 .. Len(old) : old[k] = Empty)
  BY DEF Cuts, CutsOf, Answers
<1>4. Head(sections[r]).items \in Seq(Item) BY HeadType
<1>5. ASSUME ~data PROVE \A k \in 1 .. Len(new) : new[k] = Empty
  <2>1. new = [k \in 1 .. Len(Head(sections[r]).items) |-> Empty] BY <1>5 DEF Added
  <2>2. Len(new) = Len(Head(sections[r]).items) BY <1>5, AddedType
  <2> QED BY <2>1, <2>2
<1>6. ASSUME data PROVE Len(new) = Len(Asked(r)) /\ \A k \in 1 .. Len(new) : new[k] = Answer(Asked(r)[k])
  <2>1. new = [k \in 1 .. Len(Asked(r)) |-> Answer(Asked(r)[k])] BY <1>6 DEF Added
  <2>2. Len(new) = Len(Asked(r)) BY <1>6, AddedType
  <2> QED BY <2>1, <2>2
<1>7. ASSUME data, viaDelegate
      PROVE  Len(new) = Len(ws) /\ \A k \in 1 .. Len(new) : new[k] = Translated(ws[k])
  <2>1. Asked(r) = [k \in 1 .. Len(ws) |-> Own(ws[k])] BY <1>7 DEF Asked
  <2>2. Len(Asked(r)) = Len(ws) BY <1>1, <2>1
  <2> QED BY <1>6, <1>7, <2>1, <2>2, AnswerOf
<1> HIDE DEF ws, old, new
<1>8. ASSUME Len(old) + Len(new) <= Len(ws), NEW k \in 1 .. Len(new)
      PROVE  new[k] \in {Empty, Translated(ws[Len(old) + k])}
  <2>1. CASE ~data BY <1>5, <1>8, <2>1
  <2>2. CASE data /\ viaDelegate
    <3>1. Len(old) = 0 /\ Len(old) + k = k BY <1>1, <1>2, <1>7, <1>8, <2>2
    <3> QED BY <1>7, <1>8, <2>2, <3>1
  <2>3. CASE data /\ ~viaDelegate
    <3>1. Asked(r) = Head(sections[r]).items BY <2>3 DEF Asked
    <3>2. sections[r] # <<>> /\ InOrder(ws, sections[r]) /\ sections[r][1].from = Len(old) + 1
      BY <2>3, HeadType DEF Cuts, CutsOf, Batches, ws, old
    <3>3. Filled(ws, Head(sections[r])) /\ Head(sections[r]) = sections[r][1]
      <4>1. sections[r] \in Seq(Batch) BY HeadType
      <4>2. Filled(ws, Head(sections[r])) BY <4>1, <3>2, OrderTail
      <4> HIDE DEF Batch
      <4>3. Head(sections[r]) = sections[r][1] BY <4>1, <3>2
      <4> QED BY <4>2, <4>3
    <3>4. Len(new) = Len(Head(sections[r]).items) BY <1>6, <2>3, <3>1
    <3>5. Head(sections[r]).items[k] \in {Empty, Own(ws[Len(old) + 1 + k - 1])}
      BY <1>8, <3>2, <3>3, <3>4 DEF Filled
    <3>6. Len(old) + 1 + k - 1 = Len(old) + k BY <1>1, <1>8
    <3>7. new[k] = Answer(Head(sections[r]).items[k]) BY <1>6, <1>8, <2>3, <3>1
    <3> QED BY <3>5, <3>6, <3>7, AnswerOf
  <2> QED BY <2>1, <2>2, <2>3
<1>9. Belonging(ws, old \o new) BY <1>1, <1>2, <1>3, <1>8, BelongingMore
<1>10. /\ old \o new \in Seq(Value) /\ Len(old \o new) = Len(old) + Len(new)
       /\ Len(old) \in Nat /\ Len(new) \in Nat /\ Len(ws) \in Nat
       /\ \A k \in 1 .. Len(old) : (old \o new)[k] = old[k]
       /\ \A k \in 1 .. Len(new) : (old \o new)[Len(old) + k] = new[k]
  BY <1>1, <1>2
<1>11. ASSUME viaDelegate, Len(old \o new) < Len(ws), NEW k \in 1 .. Len(old \o new)
       PROVE  (old \o new)[k] = Empty
  <2>1. ~data /\ Len(old) < Len(ws) BY <1>7, <1>10, <1>11
  <2>2. CASE k <= Len(old)
    <3>1. k \in 1 .. Len(old) BY <1>10, <1>11, <2>2
    <3> QED BY <3>1, <2>1, <1>3, <1>10, <1>11
  <2>3. CASE k > Len(old)
    <3>1. k - Len(old) \in 1 .. Len(new) /\ Len(old) + (k - Len(old)) = k BY <1>10, <1>11, <2>3
    <3>2. (old \o new)[k] = new[k - Len(old)] BY <3>1, <1>10
    <3> QED BY <3>1, <3>2, <2>1, <1>5
  <2> QED BY <2>2, <2>3, <1>10, <1>11
<1> QED BY <1>9, <1>10, <1>11 DEF ws, old, new

LEMMA CutsReply ==
  ASSUME TypeOK, Cuts, NEW r \in Requests, NEW data \in BOOLEAN, Reply(r, data)
  PROVE  Cuts'
<1>1. /\ pc[r] = "wait" /\ words' = words /\ viaDelegate' = viaDelegate /\ itemArray' = itemArray
      /\ collected' = [collected EXCEPT ![r] = @ \o Added(r, data)]
      /\ sections' = [sections EXCEPT ![r] = Tail(@)]
      /\ pc' = [pc EXCEPT ![r] = IF sections'[r] = <<>> THEN "store" ELSE "wait"]
  BY DEF Reply, Added
<1> DEFINE c == collected[r] \o Added(r, data)
<1>2. /\ c \in Seq(Value) /\ Len(c) = Len(collected[r]) + Len(Added(r, data))
      /\ Belonging(words[r], c)
      /\ viaDelegate /\ Len(c) < Len(words[r]) => \A k \in 1 .. Len(c) : c[k] = Empty
  BY <1>1, AnswersAdded
<1>3. /\ collected'[r] = c /\ sections'[r] = Tail(sections[r])
      /\ pc'[r] = IF sections'[r] = <<>> THEN "store" ELSE "wait"
  BY <1>1, Constants DEF TypeOK
<1> HIDE DEF c
<1>4. AtWord(r)' BY <1>3 DEF AtWord
<1>5. Tidy(r)' BY <1>1, <1>3 DEF Tidy, Cuts, CutsOf
<1>6. Batches(r)'
  <2>1. /\ InOrder(words[r], Tail(sections[r]))
        /\ Tail(sections[r]) # <<>> =>
             Tail(sections[r])[1].from = Head(sections[r]).from + Len(Head(sections[r]).items)
    BY <1>1, HeadType, OrderTail DEF Cuts, CutsOf, Batches
  <2>2. ASSUME ~viaDelegate, Tail(sections[r]) # <<>> PROVE Tail(sections[r])[1].from = Len(c) + 1
    <3>1. Head(sections[r]).from = Len(collected[r]) + 1
      <4>1. sections[r] \in Seq(Batch) /\ sections[r] # <<>> BY <1>1, HeadType
      <4>2. sections[r][1].from = Len(collected[r]) + 1 BY <2>2, <4>1 DEF Cuts, CutsOf, Batches
      <4>3. Head(sections[r]) = sections[r][1] BY <4>1
      <4> QED BY <4>2, <4>3
    <3>2. Len(Added(r, data)) = Len(Head(sections[r]).items)
      BY <1>1, <2>2, AddedType DEF Asked
    <3>3. Len(collected[r]) \in Nat /\ Len(Head(sections[r]).items) \in Nat BY <1>1, HeadType DEF TypeOK
    <3>4. Tail(sections[r])[1].from = Len(collected[r]) + 1 + Len(Head(sections[r]).items)
      BY <2>1, <2>2, <3>1
    <3>5. Len(c) = Len(collected[r]) + Len(Head(sections[r]).items) BY <1>2, <3>2
    <3> DEFINE n == Tail(sections[r])[1].from
               l == Len(collected[r])
               m == Len(Head(sections[r]).items)
    <3>6. l \in Nat /\ m \in Nat /\ n = l + 1 + m /\ Len(c) = l + m BY <3>3, <3>4, <3>5
    <3> HIDE DEF n, l, m
    <3>7. n = Len(c) + 1 BY <3>6
    <3> QED BY <3>7 DEF n
  <2>3. pc'[r] # "cut" BY <1>3
  <2>4. InOrder(words'[r], sections'[r]) BY <1>1, <1>3, <2>1
  <2>5. sections'[r] # <<>> => viaDelegate' \/ sections'[r][1].from = Len(collected'[r]) + 1
    BY <1>1, <1>3, <2>2
  <2> QED BY <2>3, <2>4, <2>5 DEF Batches
<1>7. Belonging(words'[r], collected'[r]) BY <1>1, <1>2, <1>3
<1>8. Answers(r)' BY <1>1, <1>2, <1>3, <1>7 DEF Answers
<1>9. Others(r) BY <1>1, Constants DEF Others, Untouched, TypeOK
<1> QED BY <1>4, <1>5, <1>6, <1>8, <1>9, CutsOneByOne DEF CutsOf

(* The other steps leave a block with nothing, or do not concern the batches. *)
LEMMA CutsNext == ASSUME TypeOK, Cuts, [Next]_vars PROVE Cuts'
<1> USE Constants
<1>1. CASE \E x \in Texts : \E w \in Says[x] : SetText(x, w)
  <2>1. \A r \in Requests : Untouched(r) BY <1>1 DEF SetText, queryVars, Untouched
  <2> QED BY <2>1, CutsKept DEF Cuts
<1>2. CASE TurnOff
  <2>1. \A r \in Requests : Untouched(r) BY <1>2 DEF TurnOff, queryVars, Untouched, TypeOK
  <2> QED BY <2>1, CutsKept DEF Cuts
<1>3. ASSUME NEW r \in Requests, TurnOn(r) \/ Collect(r) \/ NothingNew(r) PROVE Cuts'
  <2>1. /\ pc[r] \in {"idle", "collect", "copy"}
        /\ \E p \in {"collect", "copy", "apply"} : pc' = [pc EXCEPT ![r] = p]
        /\ UNCHANGED <<viaDelegate, words, itemArray, sections, collected>>
    BY <1>3 DEF TurnOn, Collect, NothingNew, queryVars
  <2>2. pc'[r] \in {"collect", "copy", "apply"} /\ \A q \in Requests : q # r => pc'[q] = pc[q]
    BY <2>1 DEF TypeOK
  <2> QED BY <2>1, <2>2, QuietKept
<1>4. ASSUME NEW r \in Requests, Store(r) \/ Clear(r) PROVE Cuts'
  <2>1. CASE Store(r)
    <3>1. /\ pc[r] = "store" /\ pc' = [pc EXCEPT ![r] = "apply"]
          /\ collected' = [collected EXCEPT ![r] = <<>>]
          /\ UNCHANGED <<viaDelegate, words, itemArray, sections>>
      BY <2>1 DEF Store, ToApply
    <3>2. pc'[r] = "apply" /\ \A q \in Requests : q # r => pc'[q] = pc[q] BY <3>1 DEF TypeOK
    <3> QED BY <3>1, <3>2, QuietKept
  <2>2. CASE Clear(r)
    <3>1. /\ pc[r] = "clear" /\ pc' = [pc EXCEPT ![r] = "idle"]
          /\ words' = [words EXCEPT ![r] = <<>>]
          /\ UNCHANGED <<viaDelegate, collected, itemArray, sections>>
      BY <2>2 DEF Clear
    <3>2. pc'[r] = "idle" /\ \A q \in Requests : q # r => pc'[q] = pc[q] /\ words'[q] = words[q]
      BY <3>1 DEF TypeOK
    <3> QED BY <3>1, <3>2, QuietKept
  <2> QED BY <1>4, <2>1, <2>2
<1>5. ASSUME NEW t \in Thread, NEW x \in Texts, Look(t, x) PROVE Cuts'
  <2>1. \A r \in Requests : Untouched(r) BY <1>5 DEF Look, queryVars, Untouched
  <2> QED BY <2>1, CutsKept DEF Cuts
<1>6. ASSUME NEW t \in Thread, Take(t) PROVE Cuts'
  <2>1. \A r \in Requests : Untouched(r) BY <1>6 DEF Take, queryVars, Untouched
  <2> QED BY <2>1, CutsKept DEF Cuts
<1>7. ASSUME NEW t \in Thread, Applied(t) PROVE Cuts'
  <2>1. CASE t = Main
    <3>1. \A r \in Requests : Untouched(r) BY <1>7, <2>1 DEF Applied, queryVars, Untouched, TypeOK
    <3> QED BY <3>1, CutsKept DEF Cuts
  <2>2. CASE t # Main
    <3>1. t \in Requests BY <2>2
    <3> QED BY <1>7, <2>2, <3>1, QuietKept DEF Applied, queryVars, TypeOK
  <2> QED BY <2>1, <2>2
<1>8. CASE UNCHANGED vars
  <2>1. \A r \in Requests : Untouched(r) BY <1>8 DEF vars, queryVars, Untouched
  <2> QED BY <2>1, CutsKept DEF Cuts
<1> QED
  BY <1>1, <1>2, <1>3, <1>4, <1>5, <1>6, <1>7, <1>8,
     CutsCopy, CutsAddBlank, CutsCloseSection, CutsAddWord, CutsReply
     DEF Next, Block, Complete
-----------------------------------------------------------------------------
(* The dictionary.                                                         *)

(* A word is in the dictionary only on behalf of a block that will take it out, or of one
   that will copy it before it does. *)
HeldBy(r, w) ==
  pc[r] = "copy" \/ (pc[r] \in {"cut", "wait", "store", "apply", "clear"} /\ w \in WordsOf(r))
Held == \A w \in Words : translatedDic[w] # Absent => \E r \in Requests : HeldBy(r, w)

IInv == TypeOK /\ Cuts /\ Aligned /\ Held /\ SpinnerMeansWork

(* What is stored for a word is its translation, or nothing. *)
LEMMA StoredAligned ==
  ASSUME TypeOK, Cuts, NEW r \in Requests, Len(words[r]) = Len(collected[r]), NEW w \in Words,
         \E k \in 1 .. Len(words[r]) : words[r][k] = w
  PROVE  collected[r][CHOOSE k \in 1 .. Len(words[r]) : words[r][k] = w] \in {Empty, Translated(w)}
<1> DEFINE n == CHOOSE k \in 1 .. Len(words[r]) : words[r][k] = w
<1>1. n \in 1 .. Len(words[r]) /\ words[r][n] = w OBVIOUS
<1>2. Len(words[r]) \in Nat BY DEF TypeOK
<1>3. \A k \in 1 .. Len(collected[r]) : collected[r][k] \in {Empty, Translated(words[r][k])}
  BY <1>2 DEF Cuts, CutsOf, Answers, Belonging
<1> HIDE DEF n
<1>4. collected[r][n] \in {Empty, Translated(w)} BY <1>1, <1>3
<1> QED BY <1>4 DEF n

LEMMA AlignedNext == ASSUME TypeOK, Cuts, Aligned, [Next]_vars PROVE Aligned'
<1>1. ASSUME NEW r \in Requests, Store(r) PROVE Aligned'
  <2>1. translatedDic' = [w \in Words |->
          IF Len(words[r]) = Len(collected[r]) /\ \E k \in 1 .. Len(words[r]) : words[r][k] = w
          THEN collected[r][CHOOSE k \in 1 .. Len(words[r]) : words[r][k] = w]
          ELSE translatedDic[w]]
    BY <1>1 DEF Store
  <2>2. ASSUME NEW w \in Words PROVE translatedDic'[w] \in {Absent, Empty, Translated(w)}
    <3>1. CASE Len(words[r]) = Len(collected[r]) /\ \E k \in 1 .. Len(words[r]) : words[r][k] = w
      BY <2>1, <3>1, StoredAligned
    <3>2. CASE ~(Len(words[r]) = Len(collected[r]) /\ \E k \in 1 .. Len(words[r]) : words[r][k] = w)
      BY <2>1, <3>2 DEF Aligned
    <3> QED BY <3>1, <3>2
  <2> QED BY <2>2 DEF Aligned
<1>2. ASSUME NEW r \in Requests, Collect(r) \/ Clear(r) PROVE Aligned'
  BY <1>2 DEF Collect, Clear, Aligned
<1>3. CASE UNCHANGED translatedDic BY <1>3 DEF Aligned
<1>4. ASSUME NEW r \in Requests,
             \/ TurnOn(r) \/ Copy(r) \/ NothingNew(r) \/ AddBlank(r) \/ CloseSection(r) \/ AddWord(r)
             \/ \E data \in BOOLEAN : Reply(r, data)
      PROVE  UNCHANGED translatedDic
  BY <1>4 DEF TurnOn, Copy, NothingNew, AddBlank, CloseSection, AddWord, Reply, CutFrame
<1>5. ASSUME NEW t \in Thread, Complete(t) PROVE UNCHANGED translatedDic
  BY <1>5 DEF Complete, Look, Take, Applied
<1>6. ASSUME TurnOff \/ \E x \in Texts : \E w \in Says[x] : SetText(x, w) PROVE UNCHANGED translatedDic
  BY <1>6 DEF TurnOff, SetText
<1> QED BY <1>1, <1>2, <1>3, <1>4, <1>5, <1>6 DEF Next, Block, vars

(* A step of a block that goes on, and leaves its copy and the dictionary alone. *)
LEMMA HeldOn ==
  ASSUME TypeOK, Held, NEW r \in Requests, translatedDic' = translatedDic,
         \A q \in Requests : q # r => pc'[q] = pc[q] /\ words'[q] = words[q],
         \/ pc[r] \in {"idle", "collect"}
         \/ /\ words'[r] = words[r] /\ pc[r] # "copy"
            /\ pc'[r] \in {"cut", "wait", "store", "apply", "clear"}
  PROVE  Held'
<1>1. ASSUME NEW w \in Words, translatedDic'[w] # Absent PROVE \E q \in Requests : HeldBy(q, w)'
  <2>1. PICK q \in Requests : HeldBy(q, w) BY <1>1 DEF Held
  <2>2. CASE q = r BY <2>1, <2>2 DEF HeldBy, WordsOf
  <2>3. CASE q # r BY <2>1, <2>3 DEF HeldBy, WordsOf
  <2> QED BY <2>2, <2>3
<1> QED BY <1>1 DEF Held

LEMMA HeldNext == ASSUME TypeOK, Held, Cuts, [Next]_vars PROVE Held'
<1> USE Constants
<1>1. ASSUME NEW r \in Requests, Collect(r) PROVE Held'
  <2>1. pc'[r] = "copy" BY <1>1 DEF Collect, TypeOK
  <2> QED BY <2>1 DEF Held, HeldBy
<1>2. ASSUME NEW r \in Requests, Copy(r) PROVE Held'
  <2>1. PICK ws \in [1 .. Cardinality(Keys) -> Keys] : Range(ws) = Keys /\ words' = [words EXCEPT ![r] = ws]
    BY <1>2 DEF Copy
  <2>2. pc'[r] = "cut" /\ words'[r] = ws /\ translatedDic' = translatedDic BY <1>2, <2>1 DEF Copy, TypeOK
  <2>3. ASSUME NEW w \in Words, translatedDic'[w] # Absent PROVE HeldBy(r, w)'
    <3>1. w \in Keys BY <2>2, <2>3 DEF Keys
    <3> QED BY <2>1, <2>2, <3>1 DEF HeldBy, WordsOf
  <2> QED BY <2>3 DEF Held
<1>3. ASSUME NEW r \in Requests, NothingNew(r) PROVE Held'
  BY <1>3 DEF NothingNew, Keys, Held
<1>4. ASSUME NEW r \in Requests, Clear(r) PROVE Held'
  <2>1. /\ pc[r] = "clear" /\ pc' = [pc EXCEPT ![r] = "idle"] /\ words' = [words EXCEPT ![r] = <<>>]
        /\ translatedDic' = [w \in Words |-> IF w \in WordsOf(r) THEN Absent ELSE translatedDic[w]]
    BY <1>4 DEF Clear
  <2>2. ASSUME NEW w \in Words, translatedDic'[w] # Absent PROVE \E q \in Requests : HeldBy(q, w)'
    <3>1. w \notin WordsOf(r) /\ translatedDic[w] # Absent BY <2>1, <2>2
    <3>2. PICK q \in Requests : HeldBy(q, w) BY <3>1 DEF Held
    <3>3. q # r BY <2>1, <3>1, <3>2 DEF HeldBy
    <3>4. pc'[q] = pc[q] /\ words'[q] = words[q] BY <2>1, <3>3 DEF TypeOK
    <3> QED BY <3>2, <3>4 DEF HeldBy, WordsOf
  <2> QED BY <2>2 DEF Held
<1>5. ASSUME NEW r \in Requests, Store(r) PROVE Held'
  <2>1. /\ pc[r] = "store" /\ pc' = [pc EXCEPT ![r] = "apply"] /\ words' = words
        /\ translatedDic' = [w \in Words |->
             IF Len(words[r]) = Len(collected[r]) /\ \E k \in 1 .. Len(words[r]) : words[r][k] = w
             THEN collected[r][CHOOSE k \in 1 .. Len(words[r]) : words[r][k] = w]
             ELSE translatedDic[w]]
    BY <1>5 DEF Store, ToApply
  <2>2. pc'[r] = "apply" /\ \A q \in Requests : q # r => pc'[q] = pc[q] BY <2>1 DEF TypeOK
  <2>3. ASSUME NEW w \in Words, translatedDic'[w] # Absent PROVE \E q \in Requests : HeldBy(q, w)'
    <3>1. CASE \E k \in 1 .. Len(words[r]) : words[r][k] = w
      <4>1. w \in WordsOf(r)' BY <2>1, <3>1 DEF WordsOf, Range, TypeOK
      <4> QED BY <2>2, <4>1 DEF HeldBy
    <3>2. CASE ~\E k \in 1 .. Len(words[r]) : words[r][k] = w
      <4>1. translatedDic[w] # Absent BY <2>1, <2>3, <3>2
      <4>2. PICK q \in Requests : HeldBy(q, w) BY <4>1 DEF Held
      <4> QED BY <2>1, <2>2, <4>2 DEF HeldBy, WordsOf
    <3> QED BY <3>1, <3>2
  <2> QED BY <2>3 DEF Held
<1>6. ASSUME NEW r \in Requests,
             \/ TurnOn(r) \/ AddBlank(r) \/ CloseSection(r) \/ AddWord(r)
             \/ \E data \in BOOLEAN : Reply(r, data)
      PROVE  Held'
  <2>1. translatedDic' = translatedDic /\ words' = words
    BY <1>6 DEF TurnOn, queryVars, AddBlank, CloseSection, AddWord, CutFrame, Reply
  <2>2. /\ pc[r] \in {"idle", "cut", "wait"}
        /\ \/ pc' = pc /\ pc[r] = "cut"
           \/ \E p \in {"collect", "store", "wait"} : pc' = [pc EXCEPT ![r] = p] /\ (pc[r] = "idle" \/ p # "collect")
    BY <1>6 DEF TurnOn, AddBlank, CloseSection, AddWord, SectionsDone, Reply
  <2>3. /\ \A q \in Requests : q # r => pc'[q] = pc[q]
        /\ pc[r] = "idle" \/ (pc[r] # "copy" /\ pc'[r] \in {"cut", "wait", "store"})
    BY <2>2 DEF TypeOK
  <2> QED BY <2>1, <2>3, HeldOn
<1>7. ASSUME NEW t \in Thread, Complete(t) PROVE Held'
  <2>1. translatedDic' = translatedDic /\ words' = words
        /\ pc[t] = "apply" /\ (pc' = pc \/ pc' = [pc EXCEPT ![t] = IF t = Main THEN "idle" ELSE "clear"])
    BY <1>7 DEF Complete, Look, Take, Applied, queryVars
  <2>2. CASE t = Main
    <3>1. \A q \in Requests : pc'[q] = pc[q] BY <2>1, <2>2 DEF TypeOK
    <3> QED BY <2>1, <3>1 DEF Held, HeldBy, WordsOf
  <2>3. CASE t # Main
    <3>1. t \in Requests /\ pc'[t] \in {"apply", "clear"} /\ \A q \in Requests : q # t => pc'[q] = pc[q]
      BY <2>1, <2>3 DEF TypeOK
    <3> QED BY <2>1, <3>1, HeldOn
  <2> QED BY <2>2, <2>3
<1>8. ASSUME \/ TurnOff \/ UNCHANGED vars \/ \E x \in Texts : \E w \in Says[x] : SetText(x, w) PROVE Held'
  <2>1. translatedDic' = translatedDic /\ words' = words /\ \A q \in Requests : pc'[q] = pc[q]
    BY <1>8 DEF TurnOff, SetText, vars, queryVars, TypeOK
  <2> QED BY <2>1 DEF Held, HeldBy, WordsOf
<1> QED BY <1>1, <1>2, <1>3, <1>4, <1>5, <1>6, <1>7, <1>8 DEF Next, Block

LEMMA SpinnerNext == ASSUME TypeOK, SpinnerMeansWork, [Next]_vars PROVE SpinnerMeansWork'
<1> USE Constants
<1>1. ASSUME NEW r \in Requests, Copy(r) PROVE SpinnerMeansWork'
  BY <1>1 DEF Copy, TypeOK, SpinnerMeansWork
<1>2. ASSUME NEW r \in Requests, Store(r) PROVE SpinnerMeansWork'
  BY <1>2 DEF Store, SpinnerMeansWork
<1>3. ASSUME NEW r \in Requests,
             \/ TurnOn(r) \/ Collect(r) \/ NothingNew(r) \/ Clear(r)
             \/ AddBlank(r) \/ CloseSection(r) \/ AddWord(r)
             \/ \E data \in BOOLEAN : Reply(r, data)
      PROVE  SpinnerMeansWork'
  <2>1. isTranslating' = isTranslating
    BY <1>3 DEF TurnOn, Collect, NothingNew, Clear, AddBlank, CloseSection, AddWord, Reply, CutFrame, stateVars
  <2>2. \/ /\ pc[r] \in {"cut", "wait"}
           /\ pc' = pc \/ \E p \in {"wait", "store"} : pc' = [pc EXCEPT ![r] = p]
        \/ /\ pc[r] \in {"idle", "collect", "copy", "clear"}
           /\ \E p \in Stage : pc' = [pc EXCEPT ![r] = p]
    BY <1>3 DEF TurnOn, Collect, NothingNew, Clear, AddBlank, CloseSection, AddWord, SectionsDone, Reply, Stage
  <2>3. \A q \in Requests : pc[q] \in {"cut", "wait", "store"} => pc'[q] \in {"cut", "wait", "store"}
    BY <2>2 DEF TypeOK
  <2> QED BY <2>1, <2>3 DEF SpinnerMeansWork
<1>4. ASSUME NEW t \in Thread, Complete(t) PROVE SpinnerMeansWork'
  <2>1. isTranslating' = isTranslating /\ pc[t] = "apply"
        /\ (pc' = pc \/ pc' = [pc EXCEPT ![t] = IF t = Main THEN "idle" ELSE "clear"])
    BY <1>4 DEF Complete, Look, Take, Applied, stateVars
  <2>2. \A q \in Requests : pc[q] \in {"cut", "wait", "store"} => pc'[q] = pc[q] BY <2>1 DEF TypeOK
  <2> QED BY <2>1, <2>2 DEF SpinnerMeansWork
<1>5. ASSUME \/ TurnOff \/ UNCHANGED vars \/ \E x \in Texts : \E w \in Says[x] : SetText(x, w)
      PROVE  SpinnerMeansWork'
  <2>1. isTranslating' = isTranslating /\ \A q \in Requests : pc'[q] = pc[q]
    BY <1>5 DEF TurnOff, SetText, vars, stateVars, TypeOK
  <2> QED BY <2>1 DEF SpinnerMeansWork
<1> QED BY <1>1, <1>2, <1>3, <1>4, <1>5 DEF Next, Block
-----------------------------------------------------------------------------
LEMMA InitIInv == ASSUME Init PROVE IInv
<1>1. TypeOK BY TypeInit
<1>2. Cuts BY CutsInit
<1>3. Aligned BY DEF Init, Aligned
<1>4. Held BY DEF Init, Held
<1>5. SpinnerMeansWork BY DEF Init, SpinnerMeansWork
<1> QED BY <1>1, <1>2, <1>3, <1>4, <1>5 DEF IInv

LEMMA NextIInv == ASSUME IInv, [Next]_vars PROVE IInv'
<1>1. Cursor BY DEF IInv, Cuts, CutsOf, Cursor
<1>2. TypeOK' BY <1>1, TypeNext DEF IInv
<1> QED BY <1>2, CutsNext, AlignedNext, HeldNext, SpinnerNext DEF IInv

LEMMA Inductive == Spec => []IInv
<1>1. Init => IInv BY InitIInv
<1>2. IInv /\ [Next]_vars => IInv' BY NextIInv
<1> QED BY <1>1, <1>2, PTL DEF Spec

\* The texts, the dictionary, the batches and the stages of the blocks keep their types:
\* translation and queryWords never index past the words or take from no batch.
THEOREM TypeCorrect == Spec => []TypeOK
<1>1. IInv => TypeOK BY DEF IInv
<1> QED BY <1>1, Inductive, PTL

\* However the words are cut into batches, answered or not, and whatever the taps beside it
\* do, translation stores no word under another one.
THEOREM AlignedCorrect == Spec => []Aligned
<1>1. IInv => Aligned BY DEF IInv
<1> QED BY <1>1, Inductive, PTL

\* The last block to end leaves translatedDic empty.
THEOREM CacheEmptiedCorrect == Spec => []CacheEmptied
<1>1. ASSUME IInv PROVE CacheEmptied
  <2>1. SUFFICES ASSUME \A r \in Requests : pc[r] = "idle", NEW w \in Words PROVE translatedDic[w] = Absent
    BY DEF CacheEmptied, Keys
  <2> QED BY <1>1, <2>1 DEF IInv, Held, HeldBy
<1>2. IInv => CacheEmptied BY <1>1
<1> QED BY <1>2, Inductive, PTL

\* isTranslating is taken back by whichever block set it, or by one beside it.
THEOREM SpinnerCorrect == Spec => []SpinnerMeansWork
<1>1. IInv => SpinnerMeansWork BY DEF IInv
<1> QED BY <1>1, Inductive, PTL
-----------------------------------------------------------------------------
(* A tap that is served alone.                                             *)

(* The words of a block are all short, and a batch has none of them blank. *)
Clean(r) == WordsOf(r) \cap LongWords = {}
NoBlank(b) == \A k \in 1 .. Len(b.items) : b.items[k] # Empty

(* The batches of such words hold all of them; within the limit there is one batch. *)
CleanCuts(r) ==
  Clean(r) =>
    /\ \A s \in 1 .. Len(sections[r]) : NoBlank(sections[r][s])
    /\ pc[r] = "cut" => NoBlank(itemArray[r])
    /\ pc[r] = "wait" => NextFrom(sections[r]) = Len(words[r]) + 1
    /\ Len(words[r]) <= MaxItems =>
         /\ pc[r] = "cut" => sections[r] = <<>>
         /\ pc[r] = "wait" => Len(sections[r]) = 1

(* The answers of a tap that is served are translations, and in the end one for each word. *)
Collecting(r) ==
  Served(r) =>
    /\ pc[r] \in {"wait", "store"} => \A k \in 1 .. Len(collected[r]) : collected[r][k] # Empty
    /\ pc[r] = "wait" /\ viaDelegate => collected[r] = <<>>
    /\ pc[r] = "store" => Len(collected[r]) = Len(words[r])

(* A text has its translation, as far as it can have one. *)
Given(x) == done[x] /\ (x # Title => shown[x] = Translated(src[x]))

(* The dictionary has the translations, and the texts that are through have theirs. *)
Applying(r) ==
  Served(r) /\ pc[r] \in {"apply", "clear"} =>
    /\ \A w \in WordsOf(r) : translatedDic[w] = Translated(w)
    /\ \A x \in Texts : src[x] \in WordsOf(r) /\ x \notin todo[r] /\ x # seen[r] => Given(x)

(* No words before they are copied. *)
Bare(r) == pc[r] \in {"idle", "collect", "copy"} => words[r] = <<>>

(* Beside a tap that is served alone all is idle; a text is translated only by way of done. *)
Alone == \A t \in Thread : alone \in Requests /\ t # alone => pc[t] = "idle"
Undone == \A x \in Texts : ~done[x] => shown[x] = Own(src[x])

Way(r) == Bare(r) /\ CleanCuts(r) /\ Collecting(r) /\ Applying(r)
AInv == IInv /\ Alone /\ Undone /\ \A r \in Requests : Way(r)

(* Whether the words of a block are short. *)
LEMMA WordsType ==
  ASSUME TypeOK, NEW r \in Requests
  PROVE  /\ words[r] \in Seq(Words) /\ Len(words[r]) \in Nat
         /\ \A k \in 1 .. Len(words[r]) : words[r][k] \in WordsOf(r)
         /\ \A w \in WordsOf(r) : w \in Words /\ \E k \in 1 .. Len(words[r]) : words[r][k] = w
         /\ words[r] = <<>> => WordsOf(r) = {}
<1>1. words[r] \in Seq(Words) BY DEF TypeOK
<1>2. DOMAIN words[r] = 1 .. Len(words[r]) /\ Len(words[r]) \in Nat BY <1>1
<1> QED BY <1>1, <1>2 DEF WordsOf, Range

LEMMA NotLong ==
  ASSUME TypeOK, Cuts, NEW r \in Requests, pc[r] = "cut", Clean(r)
  PROVE  ~Long(r)
<1>1. words[r][At(r)] \in WordsOf(r) BY WordsType, Cutting
<1> QED BY <1>1 DEF Clean, Long

(* A batch with one word more. *)
LEMMA NoBlankMore ==
  ASSUME TypeOK, NEW r \in Requests, NEW item \in Item, item # Empty, NoBlank(itemArray[r])
  PROVE  NoBlank(Adding(r, item))
<1>1. itemArray[r].items \in Seq(Item) BY CursorType
<1>2. Adding(r, item).items = Append(itemArray[r].items, item) BY AddingType
<1> DEFINE old == itemArray[r].items
           new == Adding(r, item).items
<1>3. /\ Len(new) = Len(old) + 1 /\ Len(old) \in Nat
      /\ \A k \in 1 .. Len(old) : new[k] = old[k]
      /\ new[Len(old) + 1] = item
  BY <1>1, <1>2
<1>4. \A k \in 1 .. Len(old) : old[k] # Empty BY DEF NoBlank
<1> HIDE DEF old, new
<1>5. ASSUME NEW k \in 1 .. Len(new) PROVE new[k] # Empty
  <2>1. CASE k = Len(old) + 1 BY <2>1, <1>3
  <2>2. CASE k # Len(old) + 1
    <3>1. k \in 1 .. Len(old) BY <2>2, <1>3
    <3> QED BY <3>1, <1>3, <1>4
  <2> QED BY <2>1, <2>2
<1> QED BY <1>5 DEF NoBlank, new

(* One batch more without a blank. *)
LEMMA NoBlanksMore ==
  ASSUME NEW ss \in Seq(Batch), NEW b \in Batch, NoBlank(b), \A s \in 1 .. Len(ss) : NoBlank(ss[s])
  PROVE  \A s \in 1 .. Len(Append(ss, b)) : NoBlank(Append(ss, b)[s])
<1> DEFINE tt == Append(ss, b)
<1>1. /\ Len(tt) = Len(ss) + 1 /\ Len(ss) \in Nat
      /\ \A s \in 1 .. Len(ss) : tt[s] = ss[s]
      /\ tt[Len(ss) + 1] = b
  OBVIOUS
<1> HIDE DEF tt
<1>2. ASSUME NEW s \in 1 .. Len(tt) PROVE NoBlank(tt[s])
  <2>1. CASE s = Len(ss) + 1 BY <2>1, <1>1
  <2>2. CASE s # Len(ss) + 1
    <3>1. s \in 1 .. Len(ss) BY <2>2, <1>1
    <3> QED BY <3>1, <1>1
  <2> QED BY <2>1, <2>2
<1> QED BY <1>2 DEF tt

(* The batches after the first. *)
LEMMA TailBatches ==
  ASSUME NEW ss \in Seq(Batch), ss # <<>>, \A s \in 1 .. Len(ss) : NoBlank(ss[s])
  PROVE  /\ \A s \in 1 .. Len(Tail(ss)) : NoBlank(Tail(ss)[s])
         /\ NoBlank(Head(ss))
         /\ Tail(ss) # <<>> => NextFrom(Tail(ss)) = NextFrom(ss)
         /\ Tail(ss) = <<>> => NextFrom(ss) = Head(ss).from + Len(Head(ss).items)
         /\ Len(ss) = 1 => Tail(ss) = <<>>
<1> DEFINE tt == Tail(ss)
<1>1. /\ tt \in Seq(Batch) /\ Len(tt) = Len(ss) - 1 /\ Len(ss) \in Nat \ {0} /\ Head(ss) = ss[1]
      /\ \A s \in 1 .. Len(tt) : tt[s] = ss[s + 1]
  OBVIOUS
<1> HIDE DEF tt
<1>0. tt = <<>> <=> Len(tt) = 0 BY <1>1
<1>2. ASSUME NEW s \in 1 .. Len(tt) PROVE NoBlank(tt[s])
  <2>1. s + 1 \in 1 .. Len(ss) BY <1>1
  <2> QED BY <2>1, <1>1
<1>3. NoBlank(Head(ss)) BY <1>1
<1>4. ASSUME tt # <<>> PROVE NextFrom(tt) = NextFrom(ss)
  <2>1. Len(tt) \in 1 .. Len(tt) /\ Len(tt) + 1 = Len(ss) BY <1>0, <1>1, <1>4
  <2>2. tt[Len(tt)] = ss[Len(ss)] BY <2>1, <1>1
  <2> QED BY <2>2, <1>4 DEF NextFrom
<1>5. ASSUME tt = <<>> PROVE NextFrom(ss) = Head(ss).from + Len(Head(ss).items)
  <2>1. Len(ss) = 1 BY <1>0, <1>1, <1>5
  <2> QED BY <2>1, <1>1 DEF NextFrom
<1>6. Len(ss) = 1 => tt = <<>> BY <1>0, <1>1
<1> QED BY <1>2, <1>3, <1>4, <1>5, <1>6 DEF tt
-----------------------------------------------------------------------------
(* Its way, from step to step.                                             *)

(* At the start and at the end, and where a word is too long, there is nothing to show. *)
LEMMA WayEarly ==
  ASSUME NEW r \in Requests, pc'[r] \in {"idle", "collect", "copy"},
         words'[r] = <<>>, sections'[r] = <<>>
  PROVE  Way(r)'
BY DEF Way, Bare, CleanCuts, Collecting, Applying

LEMMA WayUnclean ==
  ASSUME NEW r \in Requests, pc'[r] \notin {"idle", "collect", "copy"}, ~Clean(r)'
  PROVE  Way(r)'
BY DEF Way, Bare, CleanCuts, Collecting, Applying, Served, Clean

LEMMA WayCutting ==
  ASSUME NEW r \in Requests, pc'[r] = "cut", CleanCuts(r)'
  PROVE  Way(r)'
BY DEF Way, Bare, Collecting, Applying

(* The batches of a block that another one leaves alone. *)
LEMMA WayOther ==
  ASSUME NEW q \in Requests, Way(q), Untouched(q), alone' # q
  PROVE  Way(q)'
<1>1. Bare(q)' BY DEF Way, Bare, Untouched
<1>2. CleanCuts(q)'
  <2>1. WordsOf(q)' = WordsOf(q) BY DEF WordsOf, Untouched
  <2>2. Clean(q)' <=> Clean(q) BY <2>1 DEF Clean
  <2>3. NextFrom(sections'[q]) = NextFrom(sections[q]) BY DEF Untouched
  <2> QED BY <2>2, <2>3 DEF Way, CleanCuts, Untouched, NoBlank
<1>3. Collecting(q)' /\ Applying(q)' BY DEF Collecting, Applying, Served
<1> QED BY <1>1, <1>2, <1>3 DEF Way

(* Beside a block that takes a step none is served alone. *)
LEMMA WayOneByOne ==
  ASSUME Alone, \A q \in Requests : Way(q), NEW r \in Requests, Others(r),
         pc[r] # "idle", alone' \in {alone, Nobody}, Way(r)'
  PROVE  \A q \in Requests : Way(q)'
<1> USE Constants
<1>1. SUFFICES ASSUME NEW q \in Requests, q # r PROVE Way(q)' OBVIOUS
<1>2. alone # q BY <1>1 DEF Alone
<1>3. alone' # q BY <1>2
<1> QED BY <1>1, <1>3, WayOther DEF Others

LEMMA WayBegins ==
  ASSUME TypeOK, Cuts, \A q \in Requests : Way(q), NEW r \in Requests, TurnOn(r)
  PROVE  \A q \in Requests : Way(q)'
<1> USE Constants
<1>1. /\ pc[r] = "idle" /\ pc'[r] = "collect" /\ words' = words /\ sections' = sections
      /\ alone' \in {r, Nobody}
  BY DEF TurnOn, TypeOK, queryVars
<1>2. words[r] = <<>> /\ sections[r] = <<>> BY <1>1 DEF Way, Bare, Cuts, CutsOf, Tidy
<1>3. Way(r)' BY <1>1, <1>2, WayEarly
<1>4. ASSUME NEW q \in Requests, q # r PROVE Way(q)'
  <2>1. Untouched(q) BY <1>4 DEF TurnOn, queryVars, Untouched, TypeOK
  <2> QED BY <1>1, <1>4, <2>1, WayOther
<1> QED BY <1>3, <1>4

LEMMA WayCollect ==
  ASSUME TypeOK, Cuts, NEW r \in Requests, Way(r), Collect(r)
  PROVE  Way(r)' /\ Others(r)
<1> USE Constants
<1>1. pc[r] = "collect" /\ pc'[r] = "copy" /\ words' = words /\ sections' = sections
  BY DEF Collect, TypeOK, queryVars
<1>2. words[r] = <<>> /\ sections[r] = <<>> BY <1>1 DEF Way, Bare, Cuts, CutsOf, Tidy
<1>3. Others(r) BY DEF Others, Untouched, Collect, TypeOK, queryVars
<1> QED BY <1>1, <1>2, <1>3, WayEarly

LEMMA WayCopy ==
  ASSUME TypeOK, Cuts, NEW r \in Requests, Way(r), Copy(r)
  PROVE  Way(r)' /\ Others(r)
<1> USE Constants
<1>1. /\ pc[r] = "copy" /\ pc'[r] = "cut" /\ sections' = sections /\ itemArray' = itemArray
  BY DEF Copy, TypeOK
<1>2. sections'[r] = <<>> /\ itemArray'[r] = NewBatch(1) BY <1>1 DEF Cuts, CutsOf, Tidy
<1>3. NoBlank(itemArray'[r]) BY <1>2 DEF NoBlank, NewBatch
<1>4. CleanCuts(r)' BY <1>1, <1>2, <1>3 DEF CleanCuts, NoBlank
<1>5. Others(r)
  <2>1. PICK ws : words' = [words EXCEPT ![r] = ws] BY DEF Copy
  <2> QED BY <2>1 DEF Others, Untouched, Copy, TypeOK
<1> QED BY <1>1, <1>4, <1>5, WayCutting

LEMMA WayNothingNew ==
  ASSUME TypeOK, Cuts, NEW r \in Requests, Way(r), NothingNew(r)
  PROVE  Way(r)' /\ Others(r)
<1> USE Constants
<1>1. pc[r] = "copy" /\ pc'[r] = "apply" /\ words' = words /\ sections' = sections
  BY DEF NothingNew, TypeOK, queryVars
<1>2. words'[r] = <<>> /\ sections'[r] = <<>> BY <1>1 DEF Way, Bare, Cuts, CutsOf, Tidy
<1>3. WordsOf(r)' = {} BY <1>2 DEF WordsOf, Range
<1>4. Bare(r)' /\ Collecting(r)' BY <1>1 DEF Bare, Collecting
<1>5. CleanCuts(r)' BY <1>1, <1>2 DEF CleanCuts
<1>6. Applying(r)' BY <1>3 DEF Applying
<1>7. Others(r) BY DEF Others, Untouched, NothingNew, TypeOK, queryVars
<1> QED BY <1>4, <1>5, <1>6, <1>7 DEF Way
-----------------------------------------------------------------------------
LEMMA WayAddBlank ==
  ASSUME TypeOK, Cuts, NEW r \in Requests, Way(r), AddBlank(r)
  PROVE  Way(r)' /\ Others(r)
<1> USE Constants
<1>1. pc[r] = "cut" /\ Long(r) /\ CutFrame BY DEF AddBlank
<1>2. ~Clean(r) BY <1>1, NotLong
<1>3. words' = words BY <1>1 DEF CutFrame
<1>4. ~Clean(r)' BY <1>2, <1>3 DEF Clean, WordsOf
<1>5. /\ pc'[r] \in {"cut", "wait", "store"}
      /\ \A q \in Requests : q # r => pc'[q] = pc[q] /\ itemArray'[q] = itemArray[q]
      /\ sections' = sections
  BY <1>1 DEF AddBlank, SectionsDone, TypeOK
<1>6. Others(r) BY <1>1, <1>5 DEF CutFrame, Others, Untouched
<1> QED BY <1>4, <1>5, <1>6, WayUnclean

LEMMA WayCloseSection ==
  ASSUME TypeOK, Cuts, NEW r \in Requests, Way(r), CloseSection(r)
  PROVE  Way(r)' /\ Others(r)
<1> USE Constants
<1>1. /\ pc[r] = "cut" /\ pc' = pc /\ CutFrame /\ Len(itemArray[r].items) >= MaxItems
      /\ sections' = [sections EXCEPT ![r] = Append(@, itemArray[r])]
      /\ itemArray' = [itemArray EXCEPT ![r] = NewBatch(At(r))]
  BY DEF CloseSection
<1>2. words' = words BY <1>1 DEF CutFrame
<1>3. sections'[r] = Append(sections[r], itemArray[r]) /\ itemArray'[r] = NewBatch(At(r))
  BY <1>1 DEF TypeOK
<1>4. ASSUME Clean(r) PROVE CleanCuts(r)'
  <2>1. NoBlank(itemArray[r]) /\ \A s \in 1 .. Len(sections[r]) : NoBlank(sections[r][s])
    BY <1>1, <1>4 DEF Way, CleanCuts
  <2>2. \A s \in 1 .. Len(sections'[r]) : NoBlank(sections'[r][s])
    BY <1>1, <1>3, <2>1, Cutting, NoBlanksMore
  <2>3. NoBlank(itemArray'[r]) BY <1>3 DEF NoBlank, NewBatch
  <2>4. ASSUME Len(words[r]) <= MaxItems PROVE FALSE
    <3>1. sections[r] = <<>> BY <1>1, <1>4, <2>4 DEF Way, CleanCuts
    <3>2. itemArray[r].from = 1 BY <1>1, <3>1, Cutting DEF NextFrom
    <3>3. 1 + Len(itemArray[r].items) <= Len(words[r]) BY <1>1, <3>2, Cutting DEF At
    <3>4. Len(itemArray[r].items) \in Nat /\ Len(words[r]) \in Nat BY CursorType, WordsType
    <3> QED BY <1>1, <2>4, <3>3, <3>4
  <2>5. pc'[r] = "cut" BY <1>1
  <2> QED BY <1>2, <2>2, <2>3, <2>4, <2>5 DEF CleanCuts, NoBlank
<1>5. ASSUME ~Clean(r) PROVE CleanCuts(r)' BY <1>2, <1>5 DEF CleanCuts, Clean, WordsOf
<1>6. CleanCuts(r)' BY <1>4, <1>5
<1>7. Others(r) BY <1>1 DEF CutFrame, Others, Untouched, TypeOK
<1> QED BY <1>1, <1>6, <1>7, WayCutting

LEMMA WayAddWord ==
  ASSUME TypeOK, Cuts, NEW r \in Requests, Way(r), AddWord(r)
  PROVE  Way(r)' /\ Others(r)
<1> USE Constants
<1> DEFINE item == Own(words[r][At(r)])
           added == Adding(r, item)
<1>1. pc[r] = "cut" /\ CutFrame BY DEF AddWord
<1>2. words' = words /\ collected' = collected /\ viaDelegate' = viaDelegate BY <1>1 DEF CutFrame
<1>3. item \in Item /\ item # Empty BY <1>1, Cutting, OwnIsNot
<1>4. /\ added \in Batch /\ Filled(words[r], added) /\ added.from = itemArray[r].from
      /\ added.from + Len(added.items) = At(r) + 1
  BY <1>1, CutAdded
<1>5. NoBlank(itemArray[r]) => NoBlank(added) BY <1>3, NoBlankMore
<1>6. Clean(r)' <=> Clean(r) BY <1>2 DEF Clean, WordsOf
<1>7. CASE ~Last(r)
  <2>1. itemArray' = [itemArray EXCEPT ![r] = added] /\ sections' = sections /\ pc' = pc
    BY <1>7 DEF AddWord
  <2> HIDE DEF added, item
  <2>2. itemArray'[r] = added BY <2>1 DEF TypeOK
  <2>3. CleanCuts(r)' BY <1>1, <1>2, <1>5, <1>6, <2>1, <2>2 DEF Way, CleanCuts, NoBlank
  <2>4. Others(r) BY <1>1, <2>1 DEF CutFrame, Others, Untouched, TypeOK
  <2> QED BY <1>1, <2>1, <2>3, <2>4, WayCutting
<1>8. CASE Last(r)
  <2>1. sections' = [sections EXCEPT ![r] = Append(@, added)] /\ SectionsDone(r)
    BY <1>8 DEF AddWord
  <2> HIDE DEF added, item
  <2>2. sections'[r] = Append(sections[r], added) BY <2>1 DEF TypeOK
  <2>3. /\ sections'[r] # <<>> /\ NextFrom(sections'[r]) = Len(words[r]) + 1
    <3>1. At(r) = Len(words[r]) BY <1>8 DEF Last
    <3> QED BY <1>1, <1>4, <2>2, <3>1, Cutting, OrderMore
  <2>4. pc'[r] = "wait" BY <2>1, <2>3 DEF SectionsDone, TypeOK
  <2>5. ASSUME Clean(r) PROVE CleanCuts(r)'
    <3>1. NoBlank(added) /\ \A s \in 1 .. Len(sections[r]) : NoBlank(sections[r][s])
      BY <1>1, <1>5, <2>5 DEF Way, CleanCuts
    <3>2. \A s \in 1 .. Len(sections'[r]) : NoBlank(sections'[r][s])
      BY <1>1, <1>4, <2>2, <3>1, Cutting, NoBlanksMore
    <3>3. Len(words[r]) <= MaxItems => Len(sections'[r]) = 1
      <4>1. Len(words[r]) <= MaxItems => sections[r] = <<>> BY <1>1, <2>5 DEF Way, CleanCuts
      <4>2. sections[r] = <<>> => Len(sections'[r]) = 1 BY <2>2
      <4> QED BY <4>1, <4>2
    <3>4. NextFrom(sections[r])' = Len(words'[r]) + 1 BY <1>2, <2>3
    <3> QED BY <1>2, <2>4, <3>2, <3>3, <3>4 DEF CleanCuts, NoBlank
  <2>6. ASSUME ~Clean(r) PROVE CleanCuts(r)' BY <1>6, <2>6 DEF CleanCuts
  <2>7. collected'[r] = <<>> BY <1>1, <1>2, Cutting
  <2>8. Collecting(r)' BY <2>4, <2>7 DEF Collecting
  <2>9. Bare(r)' /\ Applying(r)' BY <2>4 DEF Bare, Applying
  <2>10. Others(r) BY <1>1, <2>1 DEF CutFrame, Others, Untouched, SectionsDone, TypeOK
  <2> QED BY <2>5, <2>6, <2>8, <2>9, <2>10 DEF Way
<1> QED BY <1>7, <1>8

(* An item of a sequence, and the end of a batch that ends with the words. *)
LEMMA ItemOf == ASSUME NEW S, NEW s \in Seq(S), NEW k \in 1 .. Len(s) PROVE s[k] \in S
OBVIOUS

LEMMA UpToLast == ASSUME NEW l \in Nat, NEW m \in Nat, NEW n \in Nat, l + 1 + m = n + 1 PROVE l + m = n
OBVIOUS

(* The data for words that are short: a translation for each item of the batch. *)
LEMMA AddedServed ==
  ASSUME TypeOK, Cuts, NEW r \in Requests, pc[r] = "wait", Served(r), CleanCuts(r), Collecting(r)
  PROVE  LET c == collected[r] \o Added(r, TRUE)
         IN  /\ \A k \in 1 .. Len(c) : c[k] # Empty
             /\ viaDelegate => Tail(sections[r]) = <<>>
             /\ Tail(sections[r]) = <<>> => Len(c) = Len(words[r])
<1> DEFINE ws == words[r]
           old == collected[r]
           new == Added(r, TRUE)
           hs == Head(sections[r])
<1>1. Clean(r) /\ (viaDelegate => Len(ws) <= MaxItems) BY DEF Served, Clean
<1>2. /\ \A s \in 1 .. Len(sections[r]) : NoBlank(sections[r][s])
      /\ NextFrom(sections[r]) = Len(ws) + 1
      /\ viaDelegate => Len(sections[r]) = 1
  BY <1>1 DEF CleanCuts
<1>3. \A k \in 1 .. Len(old) : old[k] # Empty BY DEF Collecting
<1>4. sections[r] \in Seq(Batch) /\ sections[r] # <<>> BY HeadType
<1>5. /\ NoBlank(hs)
      /\ Tail(sections[r]) = <<>> => NextFrom(sections[r]) = hs.from + Len(hs.items)
      /\ viaDelegate => Tail(sections[r]) = <<>>
  BY <1>2, <1>4, TailBatches
<1>6. ws \in Seq(Words) /\ old \in Seq(Value) BY DEF TypeOK, Value
<1>7. new \in Seq(Value) /\ Len(new) = Len(Asked(r)) BY AddedType
<1>8. hs.items \in Seq(Item) /\ hs.from \in Nat BY HeadType
<1>9. \A k \in 1 .. Len(new) : new[k] = Answer(Asked(r)[k])
  <2>1. new = [k \in 1 .. Len(Asked(r)) |-> Answer(Asked(r)[k])] BY DEF Added
  <2> QED BY <1>7, <2>1
<1>10. ASSUME NEW k \in 1 .. Len(new) PROVE new[k] # Empty
  <2>1. CASE viaDelegate
    <3>1. Asked(r) = [j \in 1 .. Len(ws) |-> Own(ws[j])] BY <2>1 DEF Asked
    <3>2. Len(Asked(r)) = Len(ws) BY <1>6, <3>1
    <3>3. Asked(r)[k] = Own(ws[k]) BY <1>7, <1>10, <3>1, <3>2
    <3>4. new[k] = Translated(ws[k]) BY <1>9, <1>10, <3>3, AnswerOf
    <3> QED BY <3>4, TranslatedIsNot
  <2>2. CASE ~viaDelegate
    <3>1. Asked(r) = hs.items BY <2>2 DEF Asked
    <3>2. hs.items[k] # Empty BY <1>5, <1>7, <1>10, <3>1 DEF NoBlank
    <3>3. hs.items[k] \in Item
      <4>1. k \in 1 .. Len(hs.items) BY <1>7, <1>10, <3>1
      <4> QED BY <1>8, <4>1, ItemOf
    <3>4. PICK w \in Words : hs.items[k] = Own(w) BY <3>2, <3>3 DEF Item
    <3>5. new[k] = Translated(w) BY <1>9, <1>10, <3>1, <3>4, AnswerOf
    <3> QED BY <3>5, TranslatedIsNot
  <2> QED BY <2>1, <2>2
<1>11. ASSUME Tail(sections[r]) = <<>> PROVE Len(old) + Len(new) = Len(ws)
  <2>1. CASE viaDelegate
    <3>1. old = <<>> BY <2>1 DEF Collecting
    <3>2. Asked(r) = [j \in 1 .. Len(ws) |-> Own(ws[j])] BY <2>1 DEF Asked
    <3>3. Len(Asked(r)) = Len(ws) /\ Len(ws) \in Nat BY <1>6, <3>2
    <3>4. Len(old) = 0 BY <3>1
    <3> HIDE DEF old, new, ws
    <3> QED BY <1>7, <3>3, <3>4
  <2>2. CASE ~viaDelegate
    <3>1. Len(new) = Len(hs.items) BY <1>7, <2>2 DEF Asked
    <3>2. hs.from = Len(old) + 1
      <4>1. sections[r][1].from = Len(old) + 1 BY <1>4, <2>2 DEF Cuts, CutsOf, Batches
      <4>2. hs = sections[r][1] BY <1>4
      <4> QED BY <4>1, <4>2
    <3>3. hs.from + Len(hs.items) = Len(ws) + 1 BY <1>2, <1>5, <1>11
    <3>4. Len(old) \in Nat /\ Len(hs.items) \in Nat /\ Len(ws) \in Nat BY <1>6, <1>8
    <3>5. Len(old) + 1 + Len(hs.items) = Len(ws) + 1 BY <3>2, <3>3
    <3>6. Len(old) + Len(hs.items) = Len(ws) BY <3>4, <3>5, UpToLast
    <3> QED BY <3>1, <3>6
  <2> QED BY <2>1, <2>2
<1> HIDE DEF ws, old, new
<1>12. /\ Len(old \o new) = Len(old) + Len(new) /\ Len(old) \in Nat /\ Len(new) \in Nat
       /\ \A k \in 1 .. Len(old) : (old \o new)[k] = old[k]
       /\ \A k \in 1 .. Len(new) : (old \o new)[Len(old) + k] = new[k]
  <2>1. new \in Seq(Value) BY <1>7
  <2> QED BY <1>6, <2>1
<1>13. ASSUME NEW k \in 1 .. Len(old \o new) PROVE (old \o new)[k] # Empty
  <2>1. CASE k <= Len(old)
    <3>1. k \in 1 .. Len(old) BY <1>12, <2>1
    <3> QED BY <3>1, <1>3, <1>12
  <2>2. CASE k > Len(old)
    <3>1. k - Len(old) \in 1 .. Len(new) /\ Len(old) + (k - Len(old)) = k BY <1>12, <2>2
    <3> QED BY <3>1, <1>10, <1>12
  <2> QED BY <2>1, <2>2, <1>12
<1> QED BY <1>5, <1>11, <1>12, <1>13 DEF ws, old, new

LEMMA WayReply ==
  ASSUME TypeOK, Cuts, NEW r \in Requests, Way(r), NEW data \in BOOLEAN, Reply(r, data)
  PROVE  Way(r)' /\ Others(r)
<1> USE Constants
<1>1. /\ pc[r] = "wait" /\ words' = words /\ viaDelegate' = viaDelegate /\ itemArray' = itemArray
      /\ collected' = [collected EXCEPT ![r] = @ \o Added(r, data)]
      /\ sections' = [sections EXCEPT ![r] = Tail(@)]
      /\ pc' = [pc EXCEPT ![r] = IF sections'[r] = <<>> THEN "store" ELSE "wait"]
      /\ alone' = IF data THEN alone ELSE Nobody
  BY DEF Reply, Added
<1>2. /\ collected'[r] = collected[r] \o Added(r, data) /\ sections'[r] = Tail(sections[r])
      /\ pc'[r] = IF sections'[r] = <<>> THEN "store" ELSE "wait"
  BY <1>1 DEF TypeOK
<1>3. Clean(r)' <=> Clean(r) BY <1>1 DEF Clean, WordsOf
<1>4. Others(r) BY <1>1 DEF Others, Untouched, TypeOK
<1>5. ASSUME Clean(r) PROVE CleanCuts(r)'
  <2>1. sections[r] \in Seq(Batch) /\ sections[r] # <<>> BY <1>1, HeadType
  <2>2. \A s \in 1 .. Len(sections[r]) : NoBlank(sections[r][s]) BY <1>5 DEF Way, CleanCuts
  <2>3. /\ \A s \in 1 .. Len(Tail(sections[r])) : NoBlank(Tail(sections[r])[s])
        /\ Tail(sections[r]) # <<>> => NextFrom(Tail(sections[r])) = NextFrom(sections[r])
        /\ Len(sections[r]) = 1 => Tail(sections[r]) = <<>>
    BY <2>1, <2>2, TailBatches
  <2>4. NextFrom(sections[r]) = Len(words[r]) + 1 BY <1>1, <1>5 DEF Way, CleanCuts
  <2>5. pc'[r] = "wait" => NextFrom(sections'[r]) = Len(words'[r]) + 1 BY <1>1, <1>2, <2>3, <2>4
  <2>6. \A s \in 1 .. Len(sections'[r]) : NoBlank(sections'[r][s]) BY <1>2, <2>3
  <2>7. Len(words'[r]) <= MaxItems => pc'[r] = "store"
    BY <1>1, <1>2, <1>5, <2>3 DEF Way, CleanCuts
  <2>8. pc'[r] # "cut" BY <1>2
  <2>9. NoBlank(itemArray[r])' <=> NoBlank(itemArray'[r]) BY DEF NoBlank
  <2> QED BY <2>5, <2>6, <2>7, <2>8 DEF CleanCuts, NoBlank, NextFrom
<1>6. CleanCuts(r)' BY <1>3, <1>5 DEF CleanCuts
<1>7. ASSUME Served(r)' PROVE Collecting(r)'
  <2>1. data = TRUE /\ Served(r) BY <1>1, <1>7 DEF Served, WordsOf
  <2>2. LET c == collected[r] \o Added(r, TRUE)
        IN  /\ \A k \in 1 .. Len(c) : c[k] # Empty
            /\ viaDelegate => Tail(sections[r]) = <<>>
            /\ Tail(sections[r]) = <<>> => Len(c) = Len(words[r])
    BY <1>1, <2>1, AddedServed DEF Way
  <2>3. \A k \in 1 .. Len(collected'[r]) : collected'[r][k] # Empty BY <1>2, <2>1, <2>2
  <2>4. viaDelegate' => pc'[r] = "store" BY <1>1, <1>2, <2>2
  <2>5. pc'[r] = "store" => Len(collected'[r]) = Len(words'[r]) BY <1>1, <1>2, <2>1, <2>2
  <2> QED BY <2>3, <2>4, <2>5 DEF Collecting
<1>8. Collecting(r)' BY <1>7 DEF Collecting
<1>9. Bare(r)' /\ Applying(r)' BY <1>2 DEF Bare, Applying
<1> QED BY <1>4, <1>6, <1>8, <1>9 DEF Way
-----------------------------------------------------------------------------
(* Where its translations go.                                              *)

LEMMA WayStore ==
  ASSUME TypeOK, Cuts, NEW r \in Requests, Way(r), Store(r)
  PROVE  Way(r)' /\ Others(r)
<1> USE Constants
<1>1. /\ pc[r] = "store" /\ pc' = [pc EXCEPT ![r] = "apply"] /\ todo' = [todo EXCEPT ![r] = Texts]
      /\ collected' = [collected EXCEPT ![r] = <<>>]
      /\ UNCHANGED <<viaDelegate, words, itemArray, sections, alone>>
      /\ translatedDic' = [w \in Words |->
           IF Len(words[r]) = Len(collected[r]) /\ \E k \in 1 .. Len(words[r]) : words[r][k] = w
           THEN collected[r][CHOOSE k \in 1 .. Len(words[r]) : words[r][k] = w]
           ELSE translatedDic[w]]
  BY DEF Store, ToApply
<1>2. pc'[r] = "apply" /\ todo'[r] = Texts BY <1>1 DEF TypeOK
<1>3. Others(r) BY <1>1 DEF Others, Untouched, TypeOK
<1>4. sections'[r] = <<>> BY <1>1 DEF Cuts, CutsOf, Tidy
<1>5. CleanCuts(r)' BY <1>2, <1>4 DEF CleanCuts
<1>6. ASSUME Served(r)', NEW w \in WordsOf(r)' PROVE translatedDic'[w] = Translated(w)
  <2>1. Served(r) /\ w \in WordsOf(r) BY <1>1, <1>6 DEF Served, WordsOf
  <2>2. /\ Len(collected[r]) = Len(words[r])
        /\ \A k \in 1 .. Len(collected[r]) : collected[r][k] # Empty
    BY <1>1, <2>1 DEF Way, Collecting
  <2>3. w \in Words /\ \E k \in 1 .. Len(words[r]) : words[r][k] = w BY <2>1, WordsType
  <2> DEFINE n == CHOOSE k \in 1 .. Len(words[r]) : words[r][k] = w
  <2>4. translatedDic'[w] = collected[r][n] BY <1>1, <2>2, <2>3
  <2>5. n \in 1 .. Len(collected[r]) BY <2>2, <2>3
  <2>6. collected[r][n] \in {Empty, Translated(w)} BY <2>2, <2>3, StoredAligned
  <2> HIDE DEF n
  <2>7. collected[r][n] # Empty BY <2>2, <2>5
  <2> QED BY <2>4, <2>6, <2>7
<1>7. Applying(r)' BY <1>2, <1>6 DEF Applying
<1>8. Bare(r)' /\ Collecting(r)' BY <1>2 DEF Bare, Collecting
<1> QED BY <1>3, <1>5, <1>7, <1>8 DEF Way

(* A step of translationCompleted that leaves the words and the dictionary as they are. *)
LEMMA WayComplete ==
  ASSUME TypeOK, Cuts, NEW r \in Requests, Way(r), pc[r] = "apply", pc'[r] \in {"apply", "clear"},
         UNCHANGED <<viaDelegate, words, sections, src, translatedDic, alone>>,
         Served(r) => \A x \in Texts : src[x] \in WordsOf(r) /\ x \notin todo'[r] /\ x # seen'[r]
                        => Given(x)'
  PROVE  Way(r)'
<1>1. Served(r)' <=> Served(r) BY DEF Served, WordsOf
<1>2. WordsOf(r)' = WordsOf(r) BY DEF WordsOf
<1>3. Applying(r)' BY <1>1, <1>2 DEF Way, Applying, Given
<1>4. sections'[r] = <<>> BY DEF Cuts, CutsOf, Tidy
<1>5. CleanCuts(r)' BY <1>4 DEF CleanCuts
<1>6. Bare(r)' /\ Collecting(r)' BY DEF Bare, Collecting
<1> QED BY <1>3, <1>5, <1>6 DEF Way

LEMMA WayLook ==
  ASSUME TypeOK, Cuts, Undone, NEW r \in Requests, Way(r), NEW x \in Texts, Look(r, x)
  PROVE  Way(r)' /\ Others(r)
<1> USE Constants
<1>1. /\ pc[r] = "apply" /\ seen[r] = NoText /\ pc' = pc
      /\ todo' = [todo EXCEPT ![r] = @ \ {x}]
      /\ seen' = [seen EXCEPT ![r] = IF Entry(x) \in Target THEN x ELSE NoText]
      /\ UNCHANGED <<viaDelegate, words, itemArray, collected, sections, src, shown, done, translatedDic, alone>>
  BY DEF Look, queryVars, screenVars
<1>2. todo'[r] = todo[r] \ {x} /\ seen'[r] = IF Entry(x) \in Target THEN x ELSE NoText
  BY <1>1 DEF TypeOK
<1>3. Others(r) BY <1>1 DEF Others, Untouched
<1>4. ASSUME Served(r), NEW y \in Texts, src[y] \in WordsOf(r), y \notin todo'[r], y # seen'[r]
      PROVE  Given(y)'
  <2>1. Given(y)' <=> Given(y) BY <1>1 DEF Given
  <2>2. CASE y # x
    <3>1. y \notin todo[r] /\ y # seen[r] BY <1>1, <1>2, <1>4, <2>2
    <3> QED BY <1>1, <1>4, <2>1, <3>1 DEF Way, Applying
  <2>3. CASE y = x
    <3>1. Entry(y) \notin Target BY <1>2, <1>4, <2>3
    <3>2. translatedDic[src[y]] = Translated(src[y]) BY <1>1, <1>4 DEF Way, Applying
    <3>3. Translated(src[y]) \in Target BY DEF TypeOK, Target
    <3>4. y = Title /\ shown[y] # Own(src[y]) BY <3>1, <3>2, <3>3 DEF Entry
    <3>5. done[y] BY <3>4 DEF Undone
    <3> QED BY <2>1, <3>4, <3>5 DEF Given
  <2> QED BY <2>2, <2>3
<1> QED BY <1>1, <1>3, <1>4, WayComplete

LEMMA WayTake ==
  ASSUME TypeOK, Cuts, NEW r \in Requests, Way(r), Take(r)
  PROVE  Way(r)' /\ Others(r)
<1> USE Constants
<1> DEFINE x == seen[r]
<1>1. /\ pc[r] = "apply" /\ seen[r] # NoText /\ pc' = pc /\ todo' = todo
      /\ shown' = [shown EXCEPT ![x] = Entry(x)] /\ done' = [done EXCEPT ![x] = TRUE]
      /\ UNCHANGED <<viaDelegate, words, itemArray, collected, sections, src, translatedDic, alone>>
  BY DEF Take, queryVars
<1>2. x \in Texts BY <1>1 DEF TypeOK
<1>3. Others(r) BY <1>1 DEF Others, Untouched
<1>4. ASSUME Served(r), NEW y \in Texts, src[y] \in WordsOf(r), y \notin todo'[r]
      PROVE  Given(y)'
  <2>1. CASE y # x
    <3>1. Given(y)' <=> Given(y) BY <1>1, <2>1 DEF Given, TypeOK
    <3> QED BY <1>1, <1>4, <2>1, <3>1 DEF Way, Applying
  <2>2. CASE y = x
    <3>1. translatedDic[src[y]] = Translated(src[y]) BY <1>1, <1>4 DEF Way, Applying
    <3>2. y # Title => Entry(y) = Translated(src[y]) BY <3>1 DEF Entry
    <3>3. done'[y] = TRUE /\ shown'[y] = Entry(y) /\ src' = src BY <1>1, <1>2, <2>2 DEF TypeOK
    <3> QED BY <3>2, <3>3 DEF Given
  <2> QED BY <2>1, <2>2
<1> HIDE DEF x
<1> QED BY <1>1, <1>3, <1>4, WayComplete

LEMMA WayApplied ==
  ASSUME TypeOK, Cuts, NEW r \in Requests, Way(r), Applied(r)
  PROVE  Way(r)' /\ Others(r)
<1> USE Constants
<1>1. /\ pc[r] = "apply" /\ pc' = [pc EXCEPT ![r] = "clear"]
      /\ UNCHANGED <<viaDelegate, words, itemArray, collected, sections, src, shown, done, todo, seen, translatedDic, alone>>
  BY DEF Applied, queryVars, screenVars, applyVars
<1>2. pc'[r] = "clear" BY <1>1 DEF TypeOK
<1>3. Others(r) BY <1>1 DEF Others, Untouched, TypeOK
<1>4. \A x \in Texts : Given(x)' <=> Given(x) BY <1>1 DEF Given
<1>5. Served(r) => \A x \in Texts : src[x] \in WordsOf(r) /\ x \notin todo'[r] /\ x # seen'[r] => Given(x)'
  BY <1>1, <1>4 DEF Way, Applying
<1> QED BY <1>1, <1>2, <1>3, <1>5, WayComplete

LEMMA WayClear ==
  ASSUME TypeOK, Cuts, NEW r \in Requests, Clear(r)
  PROVE  Way(r)' /\ Others(r)
<1> USE Constants
<1>1. /\ pc[r] = "clear" /\ pc'[r] = "idle" /\ words'[r] = <<>> /\ sections'[r] = sections[r]
  BY DEF Clear, TypeOK
<1>2. sections'[r] = <<>> BY <1>1 DEF Cuts, CutsOf, Tidy
<1>3. Others(r) BY DEF Clear, Others, Untouched, TypeOK
<1> QED BY <1>1, <1>2, <1>3, WayEarly
-----------------------------------------------------------------------------
(* Every step that goes on with a block. *)
LEMMA WayBlock ==
  ASSUME TypeOK, Cuts, Undone, NEW r \in Requests, Way(r), Block(r) \/ Complete(r)
  PROVE  /\ Way(r)' /\ Others(r)
         /\ pc[r] # "idle" /\ alone' \in {alone, Nobody}
<1>1. Way(r)' /\ Others(r)
  BY WayCollect, WayCopy, WayNothingNew, WayAddBlank, WayCloseSection, WayAddWord,
     WayReply, WayStore, WayClear, WayLook, WayTake, WayApplied DEF Block, Complete
<1>2. ASSUME Block(r) PROVE pc[r] # "idle" /\ alone' \in {alone, Nobody}
  BY <1>2 DEF Block, Collect, Copy, NothingNew, AddBlank, CloseSection, AddWord, CutFrame, Reply,
              Store, Clear
<1>3. ASSUME Complete(r) PROVE pc[r] # "idle" /\ alone' = alone
  BY <1>3 DEF Complete, Look, Take, Applied
<1> QED BY <1>1, <1>2, <1>3

LEMMA WayNext ==
  ASSUME TypeOK, Cuts, Alone, Undone, \A r \in Requests : Way(r), [Next]_vars
  PROVE  \A r \in Requests : Way(r)'
<1> USE Constants
<1>1. ASSUME NEW r \in Requests, TurnOn(r) PROVE \A q \in Requests : Way(q)' BY <1>1, WayBegins
<1>2. ASSUME NEW r \in Requests, Block(r) \/ Complete(r) PROVE \A q \in Requests : Way(q)'
  BY <1>2, WayBlock, WayOneByOne
<1>3. CASE Complete(Main)
  <2>1. pc[Main] = "apply" /\ alone' = alone BY <1>3 DEF Complete, Look, Take, Applied
  <2>2. \A q \in Requests : Untouched(q)
    BY <1>3 DEF Complete, Look, Take, Applied, Untouched, queryVars, TypeOK
  <2>3. \A q \in Requests : alone' # q BY <2>1 DEF Alone
  <2> QED BY <2>2, <2>3, WayOther
<1>4. CASE TurnOff \/ \E x \in Texts : \E w \in Says[x] : SetText(x, w)
  <2>1. alone' = Nobody /\ \A q \in Requests : Untouched(q)
    BY <1>4 DEF TurnOff, SetText, Untouched, queryVars, TypeOK
  <2> QED BY <2>1, WayOther
<1>5. CASE UNCHANGED vars
  <2>1. ASSUME NEW q \in Requests PROVE Way(q)'
    <3>1. UNCHANGED <<viaDelegate, src, shown, done, translatedDic, pc, words, itemArray, sections, collected, todo, seen, alone>>
      BY <1>5 DEF vars, screenVars, queryVars, applyVars
    <3>2. CASE alone' # q
      <4>1. Untouched(q) BY <3>1 DEF Untouched
      <4> QED BY <3>2, <4>1, WayOther
    <3>3. CASE alone' = q
      <4>1. WordsOf(q)' = WordsOf(q) /\ NextFrom(sections[q])' = NextFrom(sections[q])
        BY <3>1 DEF WordsOf, NextFrom
      <4>2. (Clean(q)' <=> Clean(q)) /\ (Served(q)' <=> Served(q)) BY <3>1, <4>1 DEF Clean, Served
      <4>3. CleanCuts(q)' BY <3>1, <4>1, <4>2 DEF Way, CleanCuts, NoBlank
      <4>4. Bare(q)' /\ Collecting(q)' BY <3>1, <4>2 DEF Way, Bare, Collecting
      <4>5. Applying(q)' BY <3>1, <4>1, <4>2 DEF Way, Applying, Given
      <4> QED BY <4>3, <4>4, <4>5 DEF Way
    <3> QED BY <3>2, <3>3
  <2> QED BY <2>1
<1>6. ASSUME NEW t \in Thread, Complete(t) PROVE \A q \in Requests : Way(q)' BY <1>2, <1>3, <1>6
<1> QED BY <1>1, <1>2, <1>4, <1>5, <1>6 DEF Next

LEMMA AloneNext == ASSUME TypeOK, Alone, [Next]_vars PROVE Alone'
<1> USE Constants
<1>1. ASSUME NEW r \in Requests, TurnOn(r) PROVE Alone'
  BY <1>1 DEF TurnOn, Alone, TypeOK
<1>2. ASSUME NEW t \in Thread, pc[t] # "idle", alone' \in {alone, Nobody},
             \A u \in Thread : u # t => pc'[u] = pc[u]
      PROVE  Alone'
  BY <1>2 DEF Alone
<1>3. ASSUME NEW r \in Requests, Block(r) PROVE Alone'
  <2>1. pc[r] # "idle" /\ alone' \in {alone, Nobody}
    BY <1>3 DEF Block, Collect, Copy, NothingNew, AddBlank, CloseSection, AddWord, CutFrame, Reply,
                Store, Clear
  <2>2. pc' = pc \/ \E p : pc' = [pc EXCEPT ![r] = p]
    BY <1>3 DEF Block, Collect, Copy, NothingNew, AddBlank, CloseSection, AddWord, SectionsDone, Reply,
                Store, ToApply, Clear
  <2>3. \A u \in Thread : u # r => pc'[u] = pc[u] BY <2>2 DEF TypeOK
  <2> QED BY <1>2, <2>1, <2>3
<1>4. ASSUME NEW t \in Thread, Complete(t) PROVE Alone'
  <2>1. pc[t] = "apply" /\ alone' = alone BY <1>4 DEF Complete, Look, Take, Applied
  <2>2. \A u \in Thread : u # t => pc'[u] = pc[u] BY <1>4 DEF Complete, Look, Take, Applied, TypeOK
  <2> QED BY <1>2, <2>1, <2>2
<1>5. CASE TurnOff \/ \E x \in Texts : \E w \in Says[x] : SetText(x, w)
  BY <1>5 DEF TurnOff, SetText, Alone
<1>6. CASE UNCHANGED vars BY <1>6 DEF vars, Alone
<1> QED BY <1>1, <1>3, <1>4, <1>5, <1>6 DEF Next

LEMMA UndoneNext == ASSUME TypeOK, Undone, [Next]_vars PROVE Undone'
<1>1. ASSUME NEW x \in Texts, NEW w \in Says[x], SetText(x, w) PROVE Undone'
  BY <1>1 DEF SetText, Undone, TypeOK
<1>2. ASSUME NEW t \in Thread, Take(t) PROVE Undone'
  BY <1>2 DEF Take, Undone, TypeOK
<1>3. CASE UNCHANGED screenVars BY <1>3 DEF screenVars, Undone
<1>4. ASSUME NEW r \in Requests, TurnOn(r) \/ Block(r) PROVE UNCHANGED screenVars
  BY <1>4 DEF TurnOn, Block, Collect, Copy, NothingNew, AddBlank, CloseSection, AddWord, CutFrame,
              Reply, Store, Clear
<1>5. ASSUME NEW t \in Thread, NEW x \in Texts, Look(t, x) \/ Applied(t) PROVE UNCHANGED screenVars
  BY <1>5 DEF Look, Applied
<1>6. TurnOff \/ UNCHANGED vars => UNCHANGED screenVars BY DEF TurnOff, vars
<1>7. ASSUME NEW t \in Thread, Applied(t) PROVE UNCHANGED screenVars BY <1>7 DEF Applied
<1> QED BY <1>1, <1>2, <1>3, <1>4, <1>5, <1>6, <1>7 DEF Next, Complete

LEMMA InitAInv == ASSUME Init PROVE AInv
<1> USE Constants
<1>1. IInv BY InitIInv
<1>2. Alone /\ Undone BY DEF Init, Alone, Undone
<1>3. ASSUME NEW r \in Requests PROVE Way(r)
  <2>1. words[r] = <<>> /\ sections[r] = <<>> /\ pc[r] = "idle" BY DEF Init
  <2> QED BY <2>1 DEF Way, Bare, CleanCuts, Collecting, Applying
<1> QED BY <1>1, <1>2, <1>3 DEF AInv

LEMMA NextAInv == ASSUME AInv, [Next]_vars PROVE AInv'
<1>1. IInv' BY NextIInv DEF AInv
<1>2. Alone' /\ Undone' BY AloneNext, UndoneNext DEF AInv, IInv
<1>3. \A r \in Requests : Way(r)' BY WayNext DEF AInv, IInv
<1> QED BY <1>1, <1>2, <1>3 DEF AInv

LEMMA AInductive == Spec => []AInv
<1>1. Init => AInv BY InitAInv
<1>2. AInv /\ [Next]_vars => AInv' BY NextAInv
<1> QED BY <1>1, <1>2, PTL DEF Spec

\* Whatever the texts say and however many batches they make, translateBtnClick does what the
\* user asks if nothing comes between: the tap that is answered and undisturbed ends with its
\* texts in their own translations.
THEOREM AskedIsTranslatedCorrect == Spec => AskedIsTranslated
<1> DEFINE AskedStep ==
      \A r \in Requests : pc[r] = "clear" /\ pc'[r] = "idle" /\ Served(r)
        => \A x \in Texts : src[x] \in WordsOf(r)
             => done[x] /\ (x # Title => shown[x] = Translated(src[x]))
<1>1. ASSUME AInv PROVE AskedStep
  <2>1. SUFFICES ASSUME NEW r \in Requests, pc[r] = "clear", Served(r),
                        NEW x \in Texts, src[x] \in WordsOf(r)
                 PROVE  Given(x)
    BY DEF Given
  <2>2. todo[r] = {} /\ seen[r] = NoText BY <1>1, <2>1, Constants DEF AInv, IInv, TypeOK
  <2>3. x \notin todo[r] /\ x # seen[r] BY <2>2, Constants
  <2> QED BY <1>1, <2>1, <2>3 DEF AInv, Way, Applying
<1>2. AInv => [AskedStep]_vars BY <1>1
<1> QED BY <1>2, AInductive, PTL DEF AskedIsTranslated
=============================================================================
