---------------------------- MODULE Translation ----------------------------
(***************************************************************************)
(* The machine translation of a screen: TDD_ArtiModelBase with its         *)
(* subclasses on one side, TDD_TranslationManager on the other.            *)
(*                                                                         *)
(* A tap on the translate button collects the screen's texts that are not  *)
(* translated yet in translatedDic, has the manager translate the words in *)
(* there, stores the translations in the dictionary, gives them to the     *)
(* texts that still say the same, and takes the words out again.  All of   *)
(* this runs on threads of the global queue, the blocks of several taps    *)
(* beside one another, while the application changes texts on the          *)
(* diagnosis thread and a tap that turns the translation off applies the   *)
(* dictionary on the main thread.                                          *)
(*                                                                         *)
(* The dictionary itself is taken to work for several threads, although it *)
(* is an NSMutableDictionary; a loop over the texts that only fills it is  *)
(* one step, and so is a text's setter.  Both limits of a request, words   *)
(* and bytes, are one: a number of words.                                  *)
(***************************************************************************)
EXTENDS Integers, Sequences, FiniteSets, Functions

CONSTANTS
  Texts,       \* the texts of a screen: rows, buttons ...
  Title,       \* ... and its title
  Words,       \* what the texts say ...
  Says,        \* ... and what each of them may
  LongWords,   \* the words over maxWordLenght
  MaxItems,    \* how many words go into one request (128)
  Requests,    \* bound: taps that are being served at a time
  Delegates    \* whether the host application translates itself, in the cases considered

Main == "main"
NoText == "notext"
Nobody == "nobody"

ASSUME TranslationAssumption ==
  /\ Title \in Texts /\ NoText \notin Texts
  /\ Says \in [Texts -> SUBSET Words]
  /\ IsFiniteSet(Words)
  /\ LongWords \subseteq Words
  /\ MaxItems \in Nat \ {0}
  /\ Main \notin Requests /\ Nobody \notin Requests
  /\ Delegates \subseteq BOOLEAN

\* No entry in the dictionary, and nil; the empty string.
Absent == [is |-> "nil"]
Empty == [is |-> "empty"]
\* A word and its translation.
Own(w) == [is |-> "own", word |-> w]
Translated(w) == [is |-> "translation", word |-> w]
Target == {Translated(w) : w \in Words}
Shown == {Own(w) : w \in Words} \cup Target \cup {Absent, Empty}
Thread == Requests \cup {Main}

VARIABLES
  viaDelegate,     \* the host application answers translateWords:
  \* the screen
  src,             \* what each text says: strItem, strButtonText, strTitle
  shown,           \* what it is translated to: strTranslated...
  done,            \* isTranslated, is...Translated
  isShowTranslated, isTranslating,
  translatedDic,
  \* the blocks of the taps, and a translationCompleted on the main thread
  pc,
  words,           \* toTranslateArray
  itemArray,       \* the batch being filled
  sections,        \* the batches still to be sent
  collected,       \* translatedArray
  todo, seen,      \* translationCompleted: the texts to come, and one found in the dictionary
  alone            \* history: the block beside which nothing else has happened or failed

screenVars == <<src, shown, done>>
stateVars == <<isShowTranslated, isTranslating>>
queryVars == <<words, itemArray, sections, collected>>
applyVars == <<todo, seen>>
vars == <<viaDelegate, screenVars, stateVars, translatedDic, pc, queryVars, applyVars, alone>>

\* Some of the words, one after the other, from one of them on.
Batch == [from : Nat \ {0}, items : Seq({Own(w) : w \in Words} \cup {Empty})]
NewBatch(n) == [from |-> n, items |-> <<>>]

Stage == {"idle", "collect", "copy", "cut", "wait", "store", "apply", "clear"}

TypeOK ==
  /\ viaDelegate \in Delegates
  /\ src \in [Texts -> Words]
  /\ shown \in [Texts -> Shown]
  /\ done \in [Texts -> BOOLEAN]
  /\ isShowTranslated \in BOOLEAN /\ isTranslating \in BOOLEAN
  /\ translatedDic \in [Words -> Target \cup {Absent, Empty}]
  /\ pc \in [Thread -> Stage] /\ pc[Main] \in {"idle", "apply"}
  /\ words \in [Requests -> Seq(Words)]
  /\ itemArray \in [Requests -> Batch]
  /\ sections \in [Requests -> Seq(Batch)]
  /\ collected \in [Requests -> Seq(Target \cup {Empty})]
  /\ todo \in [Thread -> SUBSET Texts]
  /\ seen \in [Thread -> Texts \cup {NoText}]
  /\ alone \in Requests \cup {Nobody}
  /\ \A t \in Thread : pc[t] # "apply" => todo[t] = {} /\ seen[t] = NoText
  /\ \A r \in Requests : pc[r] = "wait" => sections[r] # <<>>

Init ==
  /\ viaDelegate \in Delegates
  /\ src \in [Texts -> Words] /\ \A x \in Texts : src[x] \in Says[x]
  /\ shown = [x \in Texts |-> Own(src[x])]
  /\ done = [x \in Texts |-> FALSE]
  /\ isShowTranslated = FALSE /\ isTranslating = FALSE
  /\ translatedDic = [w \in Words |-> Absent]
  /\ pc = [t \in Thread |-> "idle"]
  /\ words = [r \in Requests |-> <<>>]
  /\ itemArray = [r \in Requests |-> NewBatch(1)]
  /\ sections = [r \in Requests |-> <<>>]
  /\ collected = [r \in Requests |-> <<>>]
  /\ todo = [t \in Thread |-> {}]
  /\ seen = [t \in Thread |-> NoText]
  /\ alone = Nobody
-----------------------------------------------------------------------------
(* The application and the user.                                           *)

\* setStrTitle:, setStrButtonText: and the like.
SetText(x, w) ==
  /\ src[x] # w
  /\ src' = [src EXCEPT ![x] = w]
  /\ shown' = [shown EXCEPT ![x] = Own(w)]
  /\ done' = [done EXCEPT ![x] = FALSE]
  /\ alone' = Nobody
  /\ UNCHANGED <<viaDelegate, stateVars, translatedDic, pc, queryVars, applyVars>>

\* translateBtnClick, with the network reachable.
TurnOn(r) ==
  /\ ~isShowTranslated /\ isShowTranslated' = TRUE
  /\ pc[Main] = "idle"
  /\ pc[r] = "idle" /\ pc' = [pc EXCEPT ![r] = "collect"]
  /\ alone' = IF \A t \in Thread : pc[t] = "idle" THEN r ELSE Nobody
  /\ UNCHANGED <<viaDelegate, screenVars, isTranslating, translatedDic, queryVars, applyVars>>

TurnOff ==
  /\ isShowTranslated /\ isShowTranslated' = FALSE
  /\ pc[Main] = "idle" /\ pc' = [pc EXCEPT ![Main] = "apply"]
  /\ todo' = [todo EXCEPT ![Main] = Texts]
  /\ alone' = Nobody
  /\ UNCHANGED <<viaDelegate, screenVars, isTranslating, translatedDic, queryVars, seen>>
-----------------------------------------------------------------------------
(* machineTranslation and translation.                                     *)

\* The untranslated texts.
Collect(r) ==
  /\ pc[r] = "collect" /\ pc' = [pc EXCEPT ![r] = "copy"]
  /\ translatedDic' = [w \in Words |-> IF \E x \in Texts : src[x] = w /\ ~done[x]
                                       THEN Empty ELSE translatedDic[w]]
  /\ UNCHANGED <<viaDelegate, screenVars, stateVars, queryVars, applyVars, alone>>

Keys == {w \in Words : translatedDic[w] # Absent}

\* The words in the dictionary by now, in any order.
Copy(r) ==
  /\ pc[r] = "copy" /\ pc' = [pc EXCEPT ![r] = "cut"]
  /\ Keys # {}
  /\ isTranslating' = TRUE
  /\ \E ws \in [1 .. Cardinality(Keys) -> Keys] :
       Range(ws) = Keys /\ words' = [words EXCEPT ![r] = ws]
  /\ UNCHANGED <<viaDelegate, screenVars, isShowTranslated, translatedDic, itemArray, sections, collected, applyVars, alone>>

NothingNew(r) ==
  /\ pc[r] = "copy" /\ Keys = {}
  /\ pc' = [pc EXCEPT ![r] = "apply"]
  /\ todo' = [todo EXCEPT ![r] = Texts]
  /\ UNCHANGED <<viaDelegate, screenVars, stateVars, translatedDic, queryVars, seen, alone>>
-----------------------------------------------------------------------------
(* getTranslateSectionArray: the batches.                                  *)

\* The word it is at.
At(r) == itemArray[r].from + Len(itemArray[r].items)
Last(r) == At(r) = Len(words[r])
Long(r) == words[r][At(r)] \in LongWords

\* The batches are complete.
SectionsDone(r) ==
  /\ pc' = [pc EXCEPT ![r] = IF sections'[r] = <<>> THEN "store" ELSE "wait"]
  /\ itemArray' = [itemArray EXCEPT ![r] = NewBatch(1)]

Adding(r, item) == [itemArray[r] EXCEPT !.items = Append(@, item)]

CutFrame == UNCHANGED <<viaDelegate, screenVars, stateVars, translatedDic, words, collected, applyVars, alone>>

\* A word that is too long leaves a blank.  This neither looks at the limit nor closes the
\* last batch.
AddBlank(r) ==
  /\ pc[r] = "cut" /\ Long(r)
  /\ UNCHANGED sections
  /\ IF Last(r) THEN SectionsDone(r)
     ELSE itemArray' = [itemArray EXCEPT ![r] = Adding(r, Empty)] /\ UNCHANGED pc
  /\ CutFrame

\* A word that does not fit closes the batch, and is looked at again.
CloseSection(r) ==
  /\ pc[r] = "cut" /\ ~Long(r)
  /\ Len(itemArray[r].items) >= MaxItems
  /\ sections' = [sections EXCEPT ![r] = Append(@, itemArray[r])]
  /\ itemArray' = [itemArray EXCEPT ![r] = NewBatch(At(r))]
  /\ UNCHANGED pc
  /\ CutFrame

\* Mutant: the last batch is not closed.
AddWordLeavesLast(r) ==
  /\ pc[r] = "cut" /\ ~Long(r)
  /\ Len(itemArray[r].items) < MaxItems
  /\ UNCHANGED sections
  /\ IF Last(r) THEN SectionsDone(r)
     ELSE itemArray' = [itemArray EXCEPT ![r] = Adding(r, Own(words[r][At(r)]))] /\ UNCHANGED pc
  /\ CutFrame

AddWord(r) ==
  /\ pc[r] = "cut" /\ ~Long(r)
  /\ Len(itemArray[r].items) < MaxItems
  /\ LET added == Adding(r, Own(words[r][At(r)]))
     IN IF Last(r)
        THEN sections' = [sections EXCEPT ![r] = Append(@, added)] /\ SectionsDone(r)
        ELSE itemArray' = [itemArray EXCEPT ![r] = added] /\ UNCHANGED <<sections, pc>>
  /\ CutFrame
-----------------------------------------------------------------------------
(* queryWords: one batch after the other.                                  *)

\* What is sent for a batch: the host application is given all the words.
Asked(r) ==
  IF viaDelegate THEN [k \in 1 .. Len(words[r]) |-> Own(words[r][k])] ELSE Head(sections[r]).items

Answer(item) == IF item = Empty THEN Empty ELSE Translated(item.word)

Reply(r, data) ==
  /\ pc[r] = "wait"
  /\ collected' = [collected EXCEPT ![r] = @ \o
       IF data THEN [k \in 1 .. Len(Asked(r)) |-> Answer(Asked(r)[k])]
       ELSE [k \in 1 .. Len(Head(sections[r]).items) |-> Empty]]
  /\ alone' = IF data THEN alone ELSE Nobody
  /\ sections' = [sections EXCEPT ![r] = Tail(@)]
  /\ pc' = [pc EXCEPT ![r] = IF sections'[r] = <<>> THEN "store" ELSE "wait"]
  /\ UNCHANGED <<viaDelegate, screenVars, stateVars, translatedDic, words, itemArray, applyVars>>
-----------------------------------------------------------------------------
(* The completion handler of translation, and translationCompleted.        *)

ToApply(r) ==
  /\ pc' = [pc EXCEPT ![r] = "apply"]
  /\ todo' = [todo EXCEPT ![r] = Texts]

\* Mutant: the translations are taken as far as they go.
StoreUnchecked(r) ==
  /\ pc[r] = "store"
  /\ translatedDic' = [w \in Words |->
       IF \E k \in 1 .. Len(words[r]) : k <= Len(collected[r]) /\ words[r][k] = w
       THEN collected[r][CHOOSE k \in 1 .. Len(words[r]) : words[r][k] = w]
       ELSE translatedDic[w]]
  /\ isTranslating' = FALSE
  /\ collected' = [collected EXCEPT ![r] = <<>>]
  /\ ToApply(r)
  /\ UNCHANGED <<viaDelegate, screenVars, isShowTranslated, words, itemArray, sections, seen, alone>>

\* The translations are taken if there are as many as words.
Store(r) ==
  /\ pc[r] = "store"
  /\ translatedDic' = [w \in Words |->
       IF Len(words[r]) = Len(collected[r]) /\ \E k \in 1 .. Len(words[r]) : words[r][k] = w
       THEN collected[r][CHOOSE k \in 1 .. Len(words[r]) : words[r][k] = w]
       ELSE translatedDic[w]]
  /\ isTranslating' = FALSE
  /\ collected' = [collected EXCEPT ![r] = <<>>]
  /\ ToApply(r)
  /\ UNCHANGED <<viaDelegate, screenVars, isShowTranslated, words, itemArray, sections, seen, alone>>

\* The entry a text is looked up by.  The title is looked up by what is shown of it.
Entry(x) ==
  IF x = Title /\ shown[x] # Own(src[x]) THEN Absent ELSE translatedDic[src[x]]

\* A text is looked up, the title last ...
Look(t, x) ==
  /\ pc[t] = "apply" /\ seen[t] = NoText /\ x \in todo[t]
  /\ x = Title => todo[t] = {Title}
  /\ todo' = [todo EXCEPT ![t] = @ \ {x}]
  /\ seen' = [seen EXCEPT ![t] = IF Entry(x) \in Target THEN x ELSE NoText]
  /\ UNCHANGED <<viaDelegate, screenVars, stateVars, translatedDic, pc, queryVars, alone>>

\* ... and, if it had a translation, given what the dictionary has by then.
Take(t) ==
  /\ pc[t] = "apply" /\ seen[t] # NoText
  /\ shown' = [shown EXCEPT ![seen[t]] = Entry(seen[t])]
  /\ done' = [done EXCEPT ![seen[t]] = TRUE]
  /\ seen' = [seen EXCEPT ![t] = NoText]
  /\ UNCHANGED <<viaDelegate, src, stateVars, translatedDic, pc, queryVars, todo, alone>>

\* Mutant: the block goes on although a text is still to be given its translation.
AppliedEarly(t) ==
  /\ pc[t] = "apply" /\ todo[t] = {}
  /\ pc' = [pc EXCEPT ![t] = IF t = Main THEN "idle" ELSE "clear"]
  /\ UNCHANGED <<viaDelegate, screenVars, stateVars, translatedDic, queryVars, applyVars, alone>>

Applied(t) ==
  /\ pc[t] = "apply" /\ seen[t] = NoText /\ todo[t] = {}
  /\ pc' = [pc EXCEPT ![t] = IF t = Main THEN "idle" ELSE "clear"]
  /\ UNCHANGED <<viaDelegate, screenVars, stateVars, translatedDic, queryVars, applyVars, alone>>

WordsOf(r) == Range(words[r])

\* Mutant: the words that got no translation stay.
ClearTranslated(r) ==
  /\ pc[r] = "clear" /\ pc' = [pc EXCEPT ![r] = "idle"]
  /\ translatedDic' = [w \in Words |-> IF w \in WordsOf(r) /\ translatedDic[w] \in Target
                                       THEN Absent ELSE translatedDic[w]]
  /\ words' = [words EXCEPT ![r] = <<>>]
  /\ UNCHANGED <<viaDelegate, screenVars, stateVars, itemArray, sections, collected, applyVars, alone>>

Clear(r) ==
  /\ pc[r] = "clear" /\ pc' = [pc EXCEPT ![r] = "idle"]
  /\ translatedDic' = [w \in Words |-> IF w \in WordsOf(r) THEN Absent ELSE translatedDic[w]]
  /\ words' = [words EXCEPT ![r] = <<>>]
  /\ UNCHANGED <<viaDelegate, screenVars, stateVars, itemArray, sections, collected, applyVars, alone>>
-----------------------------------------------------------------------------
Block(r) ==
  \/ Collect(r) \/ Copy(r) \/ NothingNew(r)
  \/ AddBlank(r) \/ CloseSection(r) \/ AddWord(r)
  \/ Store(r) \/ Clear(r)
  \/ \E data \in BOOLEAN : Reply(r, data)
Complete(t) == Take(t) \/ Applied(t) \/ \E x \in Texts : Look(t, x)

Next ==
  \/ \E x \in Texts : \E w \in Says[x] : SetText(x, w)
  \/ TurnOff
  \/ \E r \in Requests : TurnOn(r) \/ Block(r)
  \/ \E t \in Thread : Complete(t)

Spec == Init /\ [][Next]_vars
-----------------------------------------------------------------------------
\* A word is never given the translation of another one, although the manager returns one
\* flat list for all batches and only their number is compared (translation, line 535).
Aligned == \A w \in Words : translatedDic[w] \in {Absent, Empty, Translated(w)}

\* When no tap is being served the dictionary is empty, so the next one sends only what it
\* has collected, whatever was left over or arrived twice (removeObjectsForKeys:, line 554).
CacheEmptied == (\A r \in Requests : pc[r] = "idle") => Keys = {}

\* The screen says that it is being translated only while a block is at it.
SpinnerMeansWork == isTranslating => \E r \in Requests : pc[r] \in {"cut", "wait", "store"}

\* A tap that is served with nothing else going on, on words of which none is too long, and
\* answered with data, leaves every text it has collected with its own translation (a title
\* that was translated before keeps what it has); over the host application if one batch was
\* enough, as queryWords sends it all words for each.
Served(r) ==
  /\ alone = r
  /\ WordsOf(r) \cap LongWords = {}
  /\ viaDelegate => Len(words[r]) <= MaxItems

AskedIsTranslated ==
  [][\A r \in Requests : pc[r] = "clear" /\ pc'[r] = "idle" /\ Served(r)
       => \A x \in Texts : src[x] \in WordsOf(r)
            => done[x] /\ (x # Title => shown[x] = Translated(src[x]))]_vars
=============================================================================
